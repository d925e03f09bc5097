----------------------------- MODULE MCIdempotency -----------------------------
(* Small instances of Idempotency: three requests, two keys, two bodies. *)
EXTENDS Idempotency, TLC

Symmetry == Permutations(Requests) \cup Permutations(Keys) \cup Permutations(Bodies)

\* HANA with any client, SQLite with a client that waits for its answer.
Sound == {[replaces |-> FALSE, overlap |-> TRUE], [replaces |-> FALSE, overlap |-> FALSE],
          [replaces |-> TRUE, overlap |-> FALSE]}

\* SQLite with a client that may repeat a running request.
SQLiteOverlap == {[replaces |-> TRUE, overlap |-> TRUE]}
=============================================================================
