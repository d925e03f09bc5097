---------------------------- MODULE MCReviewPage ----------------------------
(* Two tabs; a decision of each kind, one of them unattested, and the task.   *)
EXTENDS ReviewPage, TLC

SomeClicks ==
  [op : {"open", "save", "start"}]
  \cup {[op |-> "task", to |-> "RETURNED"]}
  \cup {[op |-> "decide", type |-> "approve_for_escalation", attested |-> TRUE],
        [op |-> "decide", type |-> "request_information", attested |-> TRUE],
        [op |-> "decide", type |-> "return_for_edit", attested |-> FALSE]}

SymTabs == Permutations(Tabs)

=============================================================================
