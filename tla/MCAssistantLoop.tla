--------------------------- MODULE MCAssistantLoop ---------------------------
(* A small instance of AssistantLoop. *)
EXTENDS AssistantLoop

\* A tool that changes something, arguments that raise, and a call that the page cannot
\* show.  (A refused call differs from that one by being shown.)
SomeCalls ==
  { [tool |-> "draft_supporting_narrative", args |-> "object"],
    [tool |-> "draft_supporting_narrative", args |-> "other"],
    [tool |-> "unknown", args |-> "other"] }
=============================================================================
