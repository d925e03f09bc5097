--------------------------- MODULE MCReviewWorkflow ---------------------------
(* Small instances of ReviewWorkflow: one case, one SAP Build instance. *)
EXTENDS ReviewWorkflow, TLC

CONSTANT i1

Symmetry == Permutations(Requests)

Start(senior) == [op |-> "start", senior |-> senior]
Patch(status, ext) == [op |-> "patch", status |-> status, ext |-> ext]
Sync == [op |-> "sync"]

\* Every kind of start, PATCH and sync: terminal or not, with an id, without, and
\* with an empty one, valid or not.
AllBodies == {Start(TRUE), Sync, Patch("other", NoId), Patch("INFO_REQUESTED", i1),
              Patch("APPROVED", NoId), Patch("RETURNED", Blank)}

Says(flag, approved, words) == [flag |-> flag, approved |-> approved, words |-> words]

\* A context for every branch of map_outcome: a boolean at the top level and one
\* deeper, each kind of word next to "approve", and none.
AllContexts == {Says("top", FALSE, {"approve"}), Says("nested", FALSE, {}),
                Says("none", FALSE, {"approve", "return"}),
                Says("none", FALSE, {"approve", "info"}), Says("none", FALSE, {})}

\* The reviewer's decision sits in an object of its own: {"form": {"approved": false}}.
NestedContexts == {Says("nested", approved, {}) : approved \in BOOLEAN}

\* Clients that pass a real id or none.
GoodBodies == {Start(FALSE), Patch("IN_REVIEW", NoId), Patch("IN_REVIEW", i1), Sync}
=============================================================================
