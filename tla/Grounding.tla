------------------------------ MODULE Grounding ------------------------------
(***************************************************************************)
(* From the rows about an alert to the sentences shown to an investigator: *)
(* the evidence assemble_case_file retrieves and cites (retrieval/), and   *)
(* POST cases/{id}/explanations, which has the case file put into words by *)
(* SAP AI Core or by the deterministic fallback, and validates the words   *)
(* against it (generation/).                                               *)
(*                                                                         *)
(* Evidence is counted, not spelled out: an item is the i-th of its        *)
(* section, a citation names its retriever, its item and its locator.  A   *)
(* sentence is what it cites, which numbers it has that the validation     *)
(* does not find in the case file, and its kind.  How the records of a     *)
(* case are stored is in module CaseRecords.                               *)
(***************************************************************************)
EXTENDS Integers, FiniteSets

CONSTANTS
  Worlds,       \* the rows there may be about the alert
  Backends,
  Modes,        \* how generation may be set up
  Written(_)    \* the answers a model may write about a case file

VARIABLES
  backend, rows, mode,  \* chosen at first, never change
  file,         \* the case file, as assembled
  pc,           \* what the request does next, or how it ended
  path,         \* the recipe it is trying
  sentences,    \* what it has to show
  by            \* who wrote it

vars == <<backend, rows, mode, file, pc, path, sentences, by>>

Counted == {"customer", "counterparty", "timeline", "related", "owners", "passages", "embedded"}
Mode == [generation : {"auto", "fallback", "sap_ai_core"}, configured : BOOLEAN, saved : BOOLEAN]

ASSUME GroundingAssumption ==
  /\ Backends \subseteq {"sqlite", "hana"}
  /\ Modes \subseteq Mode
  /\ \A w \in Worlds : w.embedded <= w.passages /\ \A c \in Counted : w[c] \in Nat

-----------------------------------------------------------------------------
(* Retrieval.                                                              *)

Fewer(a, b) == IF a <= b THEN a ELSE b
Items(section, n) == {section} \X (1..n)

\* What the repository finds of each section: all but the counterparties need the company
\* of the alert, and those the alert's row.
Customer(w) == Items("customer", IF w.company THEN w.customer ELSE 0)
Counterparties(w) == Items("counterparty", IF w.alert THEN w.counterparty ELSE 0)
Timeline(w) == Items("timeline", IF w.company THEN Fewer(w.timeline, 25) ELSE 0)
Related(w) == Items("related", IF w.company THEN Fewer(w.related, 10) ELSE 0)

Citation(who, item, place) == [by |-> who, item |-> item, locator |-> <<place>>]

Table == [alert |-> "RISK_ALERTS", customer |-> "COMPANIES", counterparty |-> "TRANSACTIONS",
          timeline |-> "TRANSACTIONS", related |-> "RISK_ALERTS"]

Facts(w) ==
  Items("alert", IF w.alert THEN 1 ELSE 0) \cup Customer(w) \cup Counterparties(w)
  \cup Timeline(w) \cup Related(w)
SqlCitations(w) == {Citation("sql", item, Table[item[1]]) : item \in Facts(w)}

\* The owners cannot be read on HANA: there are none.
Edges(w, failed) ==
  IF ~w.company THEN {}
  ELSE Items("trigger", 1) \cup Items("owner", IF "owners" \in failed THEN 0 ELSE w.owners)
       \cup Counterparties(w) \cup Related(w)

EdgeTable(item) ==
  CASE item[1] \in {"trigger", "related"} -> "RISK_ALERTS.COMPANY_ID"
    [] item[1] = "owner" -> "COMPANY_BENEFICIAL_OWNERS"
    [] item[1] = "counterparty" -> "TRANSACTIONS"
GraphCitations(w, failed) == {Citation("graph", e, EdgeTable(e)) : e \in Edges(w, failed)}

\* The native search ranks the passages without an embedding last, and fails on the first
\* of them: those before it are cited already.
NativeRows(w) == Fewer(3, w.passages)
NativeServes(w, failed) ==
  backend = "hana" /\ "native" \notin failed /\ w.embedded >= NativeRows(w)
NativeCited(w, failed) ==
  IF backend = "hana" /\ "native" \notin failed THEN Fewer(w.embedded, NativeRows(w)) ELSE 0

\* Then, or on SQLite, up to three passages with a word in common, if the passages can be
\* read at all.
LocalRanks(w, failed) ==
  IF "passages" \in failed THEN {{}}
  ELSE {s \in SUBSET Items("passage", w.passages) : Cardinality(s) <= 3}

Searches(w, failed) ==
  IF NativeServes(w, failed) THEN {Items("passage", NativeRows(w))} ELSE LocalRanks(w, failed)
SearchBy(w, failed) == IF NativeServes(w, failed) THEN "native" ELSE "local"

PolicyCitations(w, failed, found) ==
  {Citation(SearchBy(w, failed), p, "passage") : p \in found}
  \cup {Citation("native", p, "passage") : p \in Items("passage", NativeCited(w, failed))}

Missing(w) ==
  {s \in {"alert_details", "customer_profile", "counterparty_profiles",
          "priority_explanation", "predictive_advisories"} :
     CASE s = "alert_details" -> ~w.alert
       [] s = "customer_profile" -> Customer(w) = {}
       [] s = "counterparty_profiles" -> Counterparties(w) = {}
       [] s = "priority_explanation" -> ~w.scored
       [] s = "predictive_advisories" -> ~w.predicted}

\* Mutant: the relationships are cited, but not in the file.
UngraphedFile(w, failed, found) ==
  [facts |-> Facts(w), edges |-> Edges(w, failed), policy |-> found,
   searched |-> SearchBy(w, failed), orphans |-> ~NativeServes(w, failed),
   provenance |-> SqlCitations(w) \cup PolicyCitations(w, failed, found),
   missing |-> Missing(w)]

CaseFile(w, failed, found) ==
  [facts |-> Facts(w), edges |-> Edges(w, failed), policy |-> found,
   searched |-> SearchBy(w, failed), orphans |-> ~NativeServes(w, failed),
   provenance |-> SqlCitations(w) \cup GraphCitations(w, failed)
                  \cup PolicyCitations(w, failed, found),
   missing |-> Missing(w)]

NoFile == [facts |-> {}, edges |-> {}, policy |-> {}, searched |-> "local", orphans |-> FALSE,
           provenance |-> {}, missing |-> {}]

-----------------------------------------------------------------------------
(* Sentences.                                                              *)

\* The numbers of a sentence, but those that stand free in it and in the case file.
\* _NUM_RE sees a number only where no letter, hyphen, slash or (before it) point
\* touches it: "glued" is one that is touched in the sentence, and not in the case file
\* at all; "absent" stands free, and is not in the case file; "hidden" stands free, and
\* is touched wherever the case file has it (the JSON of a line break ends in an n).
Numbers == {"absent", "hidden", "glued"}

Sentence(cites, numbers, kind) ==
  [cites |-> cites, numbers |-> numbers, kind |-> kind, supported |-> FALSE]

\* The fallback cites a fact by the citations whose locator contains the id of the alert,
\* company or transaction; locators name tables and passages.
CiteByLocator(f, id) == {c \in f.provenance : c.locator = id}

\* What it states: the rank of the alert (LOW, 0.0 of one without a score), the
\* customer, three transactions.
Stated(f) ==
  Items("alert", 1) \cup {i \in f.facts : i[1] = "customer" \/ i \in Items("timeline", 3)}

\* An amount is cut to two decimals, which makes a new number of one that has more.
FallbackSentences(f, w, edges, policy) ==
  {Sentence(CiteByLocator(f, item),
            IF item[1] = "timeline" /\ w.fractions THEN {"absent"} ELSE {}, "exact_fact") :
     item \in Stated(f)}
  \cup {Sentence({Citation("graph", e, EdgeTable(e))}, {}, "relationship_inference") :
          e \in edges}
  \cup {Sentence({Citation(f.searched, p, "passage")}, IF p \in w.lists THEN {"hidden"} ELSE {},
                 "policy_guidance") : p \in policy}
  \cup {Sentence({}, {}, "ai_synthesis") : m \in f.missing}

Labelled(s, f, supported) ==
  [cites |-> s.cites \cap f.provenance, numbers |-> s.numbers, supported |-> supported,
   kind |-> IF supported THEN s.kind ELSE "ai_synthesis"]

\* Mutant: what is cited counts as support before it is looked up.
ValidatedEarly(s, f) == Labelled(s, f, s.cites # {} /\ s.numbers \subseteq {"glued"})

\* Unknown citations are dropped; what is not supported is called a synthesis.
Validated(s, f) ==
  Labelled(s, f, s.cites \cap f.provenance # {} /\ s.numbers \subseteq {"glued"})

-----------------------------------------------------------------------------
Init ==
  /\ backend \in Backends /\ rows \in Worlds /\ mode \in Modes
  /\ file = NoFile
  /\ pc = "assemble"
  /\ path = "saved"
  /\ sentences = {}
  /\ by = "nobody"

Goto(from, to) == pc = from /\ pc' = to /\ UNCHANGED <<backend, rows, mode>>

\* On HANA the owners, the native search and the passages may fail by themselves.
Assemble ==
  /\ Goto("assemble", "explain")
  /\ \E failed \in SUBSET (IF backend = "hana" THEN {"owners", "native", "passages"} ELSE {}) :
       \E found \in Searches(rows, failed) : file' = CaseFile(rows, failed, found)
  /\ UNCHANGED <<path, sentences, by>>

\* get_generator: only a demand for AI Core without credentials fails the request.
Choose ==
  /\ \/ /\ mode.generation # "fallback" /\ mode.configured
        /\ Goto("explain", "discover")
     \/ /\ mode.generation = "fallback" \/ (mode.generation = "auto" /\ ~mode.configured)
        /\ Goto("explain", "fallback")
     \/ /\ mode.generation = "sap_ai_core" /\ ~mode.configured
        /\ Goto("explain", "failed")
  /\ path' = IF mode.saved THEN "saved" ELSE "inline"
  /\ UNCHANGED <<file, sentences, by>>

\* What the generator does with an exception: a saved recipe that AI Core refuses or whose
\* answer is not JSON gives way to the inline one; that one to one without a schema, if
\* the schema was refused; everything else reaches the endpoint.
NextPath(kind) ==
  CASE path = "saved" /\ kind \in {"refused", "schema", "unreadable"} -> "inline"
    [] path = "inline" /\ kind = "schema" -> "plain"
    [] OTHER -> "none"

\* Mutant: the endpoint catches the errors of AI Core only.
RaiseCaught(from, kind) ==
  /\ Goto(from, IF NextPath(kind) # "none" THEN "discover"
                ELSE IF kind \in {"refused", "schema"} THEN "fallback" ELSE "failed")
  /\ path' = IF NextPath(kind) = "none" THEN path ELSE NextPath(kind)
  /\ UNCHANGED <<file, sentences, by>>

\* The endpoint catches everything.
Raise(from, kind) ==
  /\ Goto(from, IF NextPath(kind) # "none" THEN "discover" ELSE "fallback")
  /\ path' = IF NextPath(kind) = "none" THEN path ELSE NextPath(kind)
  /\ UNCHANGED <<file, sentences, by>>

\* A token, if the last one is about to expire, and the URL of a running deployment.
Discover ==
  \/ Goto("discover", "post") /\ UNCHANGED <<file, path, sentences, by>>
  \/ \E kind \in {"refused", "broken"} : Raise("discover", kind)

\* v2_completion: a busy service (429, 503) is asked once more.
Post ==
  \/ \E from \in {"post", "repost"} :
       \/ Goto(from, "parse") /\ UNCHANGED <<file, path, sentences, by>>
       \/ \E kind \in {"refused", "schema", "broken"} : Raise(from, kind)
  \/ Goto("post", "repost") /\ UNCHANGED <<file, path, sentences, by>>

\* The answer may be anything the model writes, or not JSON, or not have the shape of one.
\* Without the schema, its texts may not be texts: the validation then fails the request.
Parse ==
  \/ /\ Goto("parse", "validate")
     /\ sentences' \in Written(file)
     /\ by' = "sap_ai_core"
     /\ UNCHANGED <<file, path>>
  \/ \E kind \in {"unreadable", "broken"} : Raise("parse", kind)
  \/ path # "inline" /\ Goto("parse", "failed") /\ UNCHANGED <<file, path, sentences, by>>

\* Some n of the elements of a set, or all of them: the first, in the order of the code.
First(n, S) == {s \in SUBSET S : Cardinality(s) = Fewer(n, Cardinality(S))}

Fallback ==
  /\ Goto("fallback", "validate")
  /\ \E edges \in First(4, file.edges), policy \in First(2, file.policy) :
       sentences' = FallbackSentences(file, rows, edges, policy)
  /\ by' = "fallback"
  /\ UNCHANGED <<file, path>>

Validate ==
  /\ Goto("validate", "answered")
  /\ sentences' = {Validated(s, file) : s \in sentences}
  /\ UNCHANGED <<file, path, by>>

Next == Assemble \/ Choose \/ Discover \/ Post \/ Parse \/ Fallback \/ Validate

\* Every call of SAP AI Core has a timeout, and the thread runs its handler to the end.
Spec == Init /\ [][Next]_vars /\ WF_vars(Next)

-----------------------------------------------------------------------------
(* Properties.                                                             *)

TypeOK ==
  /\ backend \in Backends /\ rows \in Worlds /\ mode \in Modes
  /\ pc \in {"assemble", "explain", "discover", "post", "repost", "parse", "fallback",
             "validate", "answered", "failed"}
  /\ path \in {"saved", "inline", "plain"}
  /\ by \in {"nobody", "sap_ai_core", "fallback"}

\* Whatever was found and whichever lookups failed, each fact, relationship and passage of
\* the case file has exactly one citation of its own, and nothing else is cited, but
\* for passages of a native search that broke off.
EvidenceIsTraceable ==
  LET Exactly(who, items) ==
        \A i \in items : \E c \in file.provenance :
          {d \in file.provenance : d.by = who /\ d.item = i} = {c}
  IN  /\ Exactly("sql", file.facts) /\ Exactly("graph", file.edges)
      /\ Exactly(file.searched, file.policy)
      /\ \A c \in file.provenance :
           \/ c.item \in file.facts \cup file.edges \cup file.policy
           \/ file.orphans /\ c.by = "native"

\* The items that a supported sentence of an answer cites.
Shown(answer) == {c.item : c \in UNION {s.cites : s \in {t \in answer : t.supported}}}

\* Whatever the rows, the failing lookups and the model: what an answer supports stands
\* on items of this case file (or of a search that broke off), and a number that the
\* case file lacks is in it only where the validation cannot see it; and the fallback,
\* which is all there is when SAP AI Core fails, supports four of the relationships and
\* two of the passages, if there are as many, but for passages with a hidden number.
AnswersStandByTheFile ==
  pc = "answered" =>
    /\ \A s \in sentences : s.supported =>
         /\ s.cites # {} /\ s.numbers \subseteq {"glued"}
         /\ \A c \in s.cites :
              \/ c.item \in file.facts \cup file.edges \cup file.policy
              \/ file.orphans /\ c.by = "native"
    /\ by = "fallback" =>
         \E edges \in First(4, file.edges), policy \in First(2, file.policy) :
           edges \cup (policy \ rows.lists) \subseteq Shown(sentences)

\* Every request for an explanation is answered, however AI Core fails, unless AI Core is
\* demanded without credentials or asked without the schema of an answer.
ExplanationsAreAnswered ==
  pc = "explain" ~> \/ pc = "answered"
                    \/ mode.generation = "sap_ai_core" /\ ~mode.configured
                    \/ pc = "failed" /\ path # "inline"
=============================================================================
