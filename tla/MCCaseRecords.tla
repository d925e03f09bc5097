----------------------------- MODULE MCCaseRecords -----------------------------
(* Small instances of CaseRecords. *)
EXTENDS CaseRecords, TLC

Symmetry == Permutations(Requests)

Ask(op, persist) == [op : {op}, case : Alerts, persist : {persist}]

\* Every kind of request.
AllBodies == UNION {Ask("create", FALSE), Ask("assemble", FALSE), Ask("draft", FALSE),
                    Ask("explain", FALSE), Ask("explain", TRUE)}
=============================================================================
