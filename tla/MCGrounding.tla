----------------------------- MODULE MCGrounding -----------------------------
(* Small instances of Grounding. *)
EXTENDS Grounding

Full ==
  [alert |-> TRUE, company |-> TRUE, customer |-> 1, counterparty |-> 1, timeline |-> 2,
   related |-> 1, owners |-> 2, passages |-> 3, embedded |-> 3, scored |-> TRUE,
   predicted |-> TRUE, fractions |-> FALSE, lists |-> {}]

\* All there is; passages that are not all embedded, one with a list, and no score; an
\* alert without a company; a case whose alert is gone.
SomeWorlds ==
  { Full,
    [Full EXCEPT !.passages = 4, !.embedded = 1, !.scored = FALSE, !.fractions = TRUE,
                 !.lists = {<<"passage", 2>>}],
    [Full EXCEPT !.company = FALSE, !.passages = 0, !.embedded = 0, !.predicted = FALSE],
    [Full EXCEPT !.alert = FALSE, !.company = FALSE, !.customer = 0] }

Fabricated == Citation("model", <<"passage", 1>>, "passage")

\* A sentence that cites nothing, something, something that is not there, or both, with
\* one number or none.
OneSentence(f) ==
  {{Sentence(known \cup made, numbers, kind)} :
     known \in {{}} \cup {{c} : c \in {d \in f.provenance : d.item[2] = 1}},
     made \in {{}, {Fabricated}}, numbers \in {{}} \cup {{n} : n \in Numbers},
     kind \in {"exact_fact", "ai_synthesis"}}
=============================================================================
