--------------------------- MODULE GroundingProofs ---------------------------
(***************************************************************************)
(* Proofs about Grounding, for any rows, any failing lookups, any way of   *)
(* setting up generation, and whatever a model writes: the evidence of a   *)
(* case file is traceable, what an answer supports stands on that          *)
(* evidence, and the fallback gets its relationships and passages through  *)
(* the validation.                                                         *)
(*                                                                         *)
(* Traceability is a fact about CaseFile alone: each retriever cites its   *)
(* own items, once each, because a citation is a function of its item and  *)
(* its retriever.  The invariant then only remembers where the file and    *)
(* the sentences come from.                                                *)
(***************************************************************************)
EXTENDS Grounding, TLAPS

USE GroundingAssumption

-----------------------------------------------------------------------------
(* Case files.                                                             *)

\* A file of the rows, made by assemble_case_file.
Assembled(f, w) ==
  \E failed \in SUBSET {"owners", "native", "passages"} :
    \E found \in Searches(w, failed) : f = CaseFile(w, failed, found)

\* Each item has the one citation that is made for it.
OwnCitation(f, who, items) ==
  \A i \in items : \E c \in f.provenance :
    {d \in f.provenance : d.by = who /\ d.item = i} = {c}

\* Which search served decides who is named in the citations of its passages.
LEMMA SearchedBy ==
  ASSUME NEW w, NEW failed
  PROVE  SearchBy(w, failed) \in {"native", "local"}
  BY DEF SearchBy

\* The facts are cited by the SQL retriever, once each.
LEMMA FactsAreCited ==
  ASSUME NEW w, NEW failed, NEW found
  PROVE  OwnCitation(CaseFile(w, failed, found), "sql", Facts(w))
<1> DEFINE f == CaseFile(w, failed, found)
<1> SUFFICES ASSUME NEW i \in Facts(w)
             PROVE  \E c \in f.provenance : {d \in f.provenance : d.by = "sql" /\ d.item = i} = {c}
  BY DEF OwnCitation
<1> DEFINE c == Citation("sql", i, Table[i[1]])
<1>1. f.provenance = SqlCitations(w) \cup GraphCitations(w, failed)
                     \cup PolicyCitations(w, failed, found)
  BY DEF CaseFile
<1>2. c \in f.provenance /\ c.by = "sql" /\ c.item = i
  BY <1>1 DEF SqlCitations, Citation
<1>3. ASSUME NEW d \in f.provenance, d.by = "sql", d.item = i PROVE d = c
  <2>1. d \in SqlCitations(w)
    BY <1>1, <1>3, SearchedBy DEF GraphCitations, PolicyCitations, Citation
  <2> QED BY <2>1, <1>3 DEF SqlCitations, Citation
<1>4. {d \in f.provenance : d.by = "sql" /\ d.item = i} = {c}
  BY <1>2, <1>3
<1> QED BY <1>2, <1>4

\* The relationships are cited by the graph retriever, once each.
LEMMA EdgesAreCited ==
  ASSUME NEW w, NEW failed, NEW found
  PROVE  OwnCitation(CaseFile(w, failed, found), "graph", Edges(w, failed))
<1> DEFINE f == CaseFile(w, failed, found)
<1> SUFFICES ASSUME NEW i \in Edges(w, failed)
             PROVE  \E c \in f.provenance : {d \in f.provenance : d.by = "graph" /\ d.item = i} = {c}
  BY DEF OwnCitation
<1> DEFINE c == Citation("graph", i, EdgeTable(i))
<1>1. f.provenance = SqlCitations(w) \cup GraphCitations(w, failed)
                     \cup PolicyCitations(w, failed, found)
  BY DEF CaseFile
<1>2. c \in f.provenance /\ c.by = "graph" /\ c.item = i
  BY <1>1 DEF GraphCitations, Citation
<1>3. ASSUME NEW d \in f.provenance, d.by = "graph", d.item = i PROVE d = c
  <2>1. d \in GraphCitations(w, failed)
    BY <1>1, <1>3, SearchedBy DEF SqlCitations, PolicyCitations, Citation
  <2> QED BY <2>1, <1>3 DEF GraphCitations, Citation
<1>4. {d \in f.provenance : d.by = "graph" /\ d.item = i} = {c}
  BY <1>2, <1>3
<1> QED BY <1>2, <1>4

\* The passages are cited by the search that found them, once each: what a broken-off
\* native search has cited carries another name, or is the same citation.
LEMMA PassagesAreCited ==
  ASSUME NEW w, NEW failed, NEW found
  PROVE  OwnCitation(CaseFile(w, failed, found), SearchBy(w, failed), found)
<1> DEFINE f == CaseFile(w, failed, found)
           who == SearchBy(w, failed)
<1> SUFFICES ASSUME NEW i \in found
             PROVE  \E c \in f.provenance : {d \in f.provenance : d.by = who /\ d.item = i} = {c}
  BY DEF OwnCitation
<1> DEFINE c == Citation(who, i, "passage")
<1>1. f.provenance = SqlCitations(w) \cup GraphCitations(w, failed)
                     \cup PolicyCitations(w, failed, found)
  BY DEF CaseFile
<1>2. c \in f.provenance /\ c.by = who /\ c.item = i
  BY <1>1 DEF PolicyCitations, Citation
<1>3. ASSUME NEW d \in f.provenance, d.by = who, d.item = i PROVE d = c
  <2>1. d \in PolicyCitations(w, failed, found)
    BY <1>1, <1>3, SearchedBy DEF SqlCitations, GraphCitations, Citation
  <2> QED BY <2>1, <1>3 DEF PolicyCitations, Citation
<1>4. {d \in f.provenance : d.by = who /\ d.item = i} = {c}
  BY <1>2, <1>3
<1> QED BY <1>2, <1>4

\* Nothing but the file's items is cited, or the native search broke off.
LEMMA CitedIsFiled ==
  ASSUME NEW w \in Worlds, NEW failed, NEW found \in Searches(w, failed),
         NEW c \in CaseFile(w, failed, found).provenance
  PROVE  \/ c.item \in Facts(w) \cup Edges(w, failed) \cup found
         \/ ~NativeServes(w, failed) /\ c.by = "native"
<1>1. CaseFile(w, failed, found).provenance
        = SqlCitations(w) \cup GraphCitations(w, failed) \cup PolicyCitations(w, failed, found)
  BY DEF CaseFile
<1>2. CASE c \in SqlCitations(w)
  BY <1>2 DEF SqlCitations, Citation
<1>3. CASE c \in GraphCitations(w, failed)
  BY <1>3 DEF GraphCitations, Citation
<1>4. CASE c \in PolicyCitations(w, failed, found)
  <2>1. CASE NativeServes(w, failed)
    <3>1. found = Items("passage", NativeRows(w))
      BY <2>1 DEF Searches
    <3>2. w.embedded \in Nat /\ w.passages \in Nat
      BY DEF Counted
    <3>3. NativeCited(w, failed) = NativeRows(w)
      BY <2>1, <3>2 DEF NativeServes, NativeCited, Fewer, NativeRows
    <3>4. c.item \in found
      BY <1>4, <3>1, <3>3 DEF PolicyCitations, Citation
    <3> QED BY <3>4
  <2>2. CASE ~NativeServes(w, failed)
    BY <1>4, <2>2 DEF PolicyCitations, Citation
  <2> QED BY <2>1, <2>2
<1> QED BY <1>1, <1>2, <1>3, <1>4

-----------------------------------------------------------------------------
(* Types.                                                                  *)

\* The state keeps its types: the control points of a request, the recipes, the authors.
THEOREM TypeCorrect == Spec => []TypeOK
<1>1. Init => TypeOK
  BY DEF Init, TypeOK
<1>2. TypeOK /\ [Next]_vars => TypeOK'
  <2> SUFFICES ASSUME TypeOK, [Next]_vars PROVE TypeOK'
    OBVIOUS
  <2>0. ASSUME NEW kind, path \in {"saved", "inline", "plain"} PROVE NextPath(kind) \in {"inline", "plain", "none"}
    BY DEF NextPath
  <2>1. ASSUME NEW from, NEW kind, Raise(from, kind) PROVE TypeOK'
    BY <2>0, <2>1 DEF TypeOK, Raise, Goto
  <2>2. CASE Assemble
    BY <2>2 DEF TypeOK, Assemble, Goto
  <2>3. CASE Choose
    BY <2>3 DEF TypeOK, Choose, Goto
  <2>4. CASE Discover
    BY <2>4, <2>1 DEF TypeOK, Discover, Goto
  <2>5. CASE Post
    BY <2>5, <2>1 DEF TypeOK, Post, Goto
  <2>6. CASE Parse
    BY <2>6, <2>1 DEF TypeOK, Parse, Goto
  <2>7. CASE Fallback
    BY <2>7 DEF TypeOK, Fallback, Goto
  <2>8. CASE Validate
    BY <2>8 DEF TypeOK, Validate, Goto
  <2>9. CASE UNCHANGED vars
    BY <2>9 DEF TypeOK, vars
  <2> QED BY <2>2, <2>3, <2>4, <2>5, <2>6, <2>7, <2>8, <2>9 DEF Next
<1> QED BY <1>1, <1>2, PTL DEF Spec

-----------------------------------------------------------------------------
(* Traceable evidence.                                                     *)

\* The file is made from the rows of the request, once.
FileInv == rows \in Worlds /\ (file = NoFile \/ Assembled(file, rows))

LEMMA FileInvariant == Spec => []FileInv
<1>1. Init => FileInv
  BY DEF Init, FileInv
<1>2. FileInv /\ [Next]_vars => FileInv'
  <2> SUFFICES ASSUME FileInv, [Next]_vars PROVE FileInv'
    OBVIOUS
  <2>1. ASSUME UNCHANGED <<file, rows, backend>> PROVE FileInv'
    BY <2>1 DEF FileInv, Assembled, Searches, CaseFile, NativeServes, LocalRanks, SearchBy,
                PolicyCitations, NativeCited
  <2>2. CASE Assemble
    <3>1. PICK failed \in SUBSET (IF backend = "hana" THEN {"owners", "native", "passages"} ELSE {}) :
            \E found \in Searches(rows, failed) : file' = CaseFile(rows, failed, found)
      BY <2>2 DEF Assemble
    <3>2. failed \in SUBSET {"owners", "native", "passages"}
      OBVIOUS
    <3>3. rows' = rows /\ backend' = backend
      BY <2>2 DEF Assemble, Goto
    <3>4. Assembled(file', rows)
      BY <3>1, <3>2 DEF Assembled
    <3>5. PICK w : w = rows
      OBVIOUS
    <3>6. w = rows'
      BY <3>3, <3>5
    <3>7. Assembled(file', w)
      BY <3>4, <3>5
    <3>8. PICK S \in SUBSET {"owners", "native", "passages"} :
            \E found \in Searches(w, S) : file' = CaseFile(w, S, found)
      BY <3>7 DEF Assembled
    <3>9. /\ NativeServes(w, S)' = NativeServes(w, S)
          /\ NativeCited(w, S)' = NativeCited(w, S)
      BY <3>3 DEF NativeServes, NativeCited
    <3>10. SearchBy(w, S)' = SearchBy(w, S)
      BY <3>9 DEF SearchBy
    <3>11. Searches(w, S)' = Searches(w, S)
      BY <3>9 DEF Searches, LocalRanks
    <3>12. \A F : PolicyCitations(w, S, F)' = PolicyCitations(w, S, F)
      BY <3>9, <3>10 DEF PolicyCitations
    <3>13. \A F : CaseFile(w, S, F)' = CaseFile(w, S, F)
      BY <3>9, <3>10, <3>12 DEF CaseFile
    <3>14. Assembled(file, w)'
      BY <3>8, <3>11, <3>13 DEF Assembled
    <3> QED BY <3>3, <3>6, <3>14 DEF FileInv
  <2>3. CASE Choose \/ Discover \/ Post \/ Parse \/ Fallback \/ Validate \/ UNCHANGED vars
    BY <2>1, <2>3 DEF Choose, Discover, Post, Parse, Fallback, Validate, Raise, Goto, vars
  <2> QED BY <2>2, <2>3 DEF Next
<1> QED BY <1>1, <1>2, PTL DEF Spec

\* Each fact, relationship and passage of a case file has a citation of its own, whatever
\* was found and whichever lookups failed.
THEOREM TraceableEvidence == Spec => []EvidenceIsTraceable
<1>1. FileInv => EvidenceIsTraceable
  <2> SUFFICES ASSUME FileInv PROVE EvidenceIsTraceable
    OBVIOUS
  <2>1. CASE file = NoFile
    BY <2>1 DEF NoFile, EvidenceIsTraceable
  <2>2. CASE Assembled(file, rows)
    <3>0. PICK failed \in SUBSET {"owners", "native", "passages"} :
            \E found \in Searches(rows, failed) : file = CaseFile(rows, failed, found)
      BY <2>2 DEF Assembled
    <3>1. PICK found \in Searches(rows, failed) : file = CaseFile(rows, failed, found)
      BY <3>0
    <3>2. /\ file.facts = Facts(rows) /\ file.edges = Edges(rows, failed) /\ file.policy = found
          /\ file.searched = SearchBy(rows, failed)
          /\ file.orphans = ~NativeServes(rows, failed)
      BY <3>1 DEF CaseFile
    <3>3. OwnCitation(file, "sql", file.facts)
      BY <3>1, <3>2, FactsAreCited
    <3>4. OwnCitation(file, "graph", file.edges)
      BY <3>1, <3>2, EdgesAreCited
    <3>5. OwnCitation(file, file.searched, file.policy)
      BY <3>1, <3>2, PassagesAreCited
    <3>6. ASSUME NEW c \in file.provenance
          PROVE  \/ c.item \in file.facts \cup file.edges \cup file.policy
                 \/ file.orphans /\ c.by = "native"
      <4>1. rows \in Worlds /\ c \in CaseFile(rows, failed, found).provenance
        BY <3>1 DEF FileInv
      <4>2. \/ c.item \in Facts(rows) \cup Edges(rows, failed) \cup found
            \/ ~NativeServes(rows, failed) /\ c.by = "native"
        BY <4>1, CitedIsFiled
      <4> QED BY <3>2, <4>2
    <3> QED BY <3>3, <3>4, <3>5, <3>6 DEF EvidenceIsTraceable, OwnCitation
  <2> QED BY <2>1, <2>2 DEF FileInv
<1> QED BY <1>1, FileInvariant, PTL

-----------------------------------------------------------------------------
(* Answers.                                                                *)

\* The citations of the relationships and passages of a file are in it.
LEMMA FiledIsCited ==
  ASSUME FileInv
  PROVE  /\ \A e \in file.edges : Citation("graph", e, EdgeTable(e)) \in file.provenance
         /\ \A p \in file.policy : Citation(file.searched, p, "passage") \in file.provenance
<1>1. CASE file = NoFile
  BY <1>1 DEF NoFile
<1>2. CASE Assembled(file, rows)
  <2>0. PICK failed \in SUBSET {"owners", "native", "passages"} :
          \E found \in Searches(rows, failed) : file = CaseFile(rows, failed, found)
    BY <1>2 DEF Assembled
  <2>1. PICK found \in Searches(rows, failed) : file = CaseFile(rows, failed, found)
    BY <2>0
  <2>2. /\ file.edges = Edges(rows, failed) /\ file.policy = found
        /\ file.searched = SearchBy(rows, failed)
        /\ GraphCitations(rows, failed) \subseteq file.provenance
        /\ PolicyCitations(rows, failed, found) \subseteq file.provenance
    BY <2>1 DEF CaseFile
  <2> QED BY <2>2 DEF GraphCitations, PolicyCitations
<1> QED BY <1>1, <1>2 DEF FileInv

\* Whatever a sentence says, validate supports it only by citations of the file, and
\* with no number that it sees and does not find.
LEMMA ValidatedIsGrounded ==
  ASSUME NEW s, NEW f, Validated(s, f).supported
  PROVE  /\ Validated(s, f).cites # {} /\ Validated(s, f).cites \subseteq f.provenance
         /\ Validated(s, f).numbers \subseteq {"glued"}
BY DEF Validated, Labelled

\* A sentence about an item, with a citation of the file and no number, shows the item.
LEMMA SupportShows ==
  ASSUME NEW f, NEW c \in f.provenance, NEW kind, NEW S, Sentence({c}, {}, kind) \in S
  PROVE  c.item \in Shown({Validated(s, f) : s \in S})
<1> DEFINE t == Validated(Sentence({c}, {}, kind), f)
<1>1. t.supported /\ c \in t.cites
  BY DEF Validated, Labelled, Sentence
<1>2. t \in {Validated(s, f) : s \in S}
  OBVIOUS
<1> HIDE DEF t
<1> QED BY <1>1, <1>2 DEF Shown

\* The relationships and passages that the fallback puts into words survive the
\* validation, but for passages with a number that the file hides.
LEMMA FallbackIsSupported ==
  ASSUME NEW f, NEW w, NEW edges, NEW policy,
         \A e \in edges : Citation("graph", e, EdgeTable(e)) \in f.provenance,
         \A p \in policy : Citation(f.searched, p, "passage") \in f.provenance
  PROVE  edges \cup (policy \ w.lists)
           \subseteq Shown({Validated(s, f) : s \in FallbackSentences(f, w, edges, policy)})
<1> DEFINE S == FallbackSentences(f, w, edges, policy)
<1>1. ASSUME NEW e \in edges PROVE e \in Shown({Validated(s, f) : s \in S})
  <2> DEFINE c == Citation("graph", e, EdgeTable(e))
  <2>1. Sentence({c}, {}, "relationship_inference") \in S
    BY DEF FallbackSentences
  <2>2. c \in f.provenance /\ c.item = e
    BY DEF Citation
  <2> HIDE DEF c, S
  <2> QED BY <2>1, <2>2, SupportShows
<1>2. ASSUME NEW p \in policy \ w.lists PROVE p \in Shown({Validated(s, f) : s \in S})
  <2> DEFINE c == Citation(f.searched, p, "passage")
  <2>1. Sentence({c}, {}, "policy_guidance") \in S
    BY DEF FallbackSentences
  <2>2. c \in f.provenance /\ c.item = p
    BY DEF Citation
  <2> HIDE DEF c, S
  <2> QED BY <2>1, <2>2, SupportShows
<1> QED BY <1>1, <1>2

\* What the fallback is about to have validated, it wrote about the file.
AnswerInv ==
  /\ pc = "validate" /\ by = "fallback" =>
       \E edges \in First(4, file.edges), policy \in First(2, file.policy) :
         sentences = FallbackSentences(file, rows, edges, policy)
  /\ AnswersStandByTheFile

LEMMA AnswerValidate ==
  ASSUME FileInv, EvidenceIsTraceable, AnswerInv, Validate PROVE AnswerInv'
<1>1. /\ pc = "validate" /\ pc' = "answered" /\ UNCHANGED <<file, rows, by>>
      /\ sentences' = {Validated(s, file) : s \in sentences}
  BY DEF Validate, Goto
<1>2. ASSUME NEW t \in sentences', t.supported
      PROVE  /\ t.cites # {} /\ t.numbers \subseteq {"glued"}
             /\ \A c \in t.cites :
                  \/ c.item \in file.facts \cup file.edges \cup file.policy
                  \/ file.orphans /\ c.by = "native"
  <2>1. t.cites # {} /\ t.cites \subseteq file.provenance /\ t.numbers \subseteq {"glued"}
    BY <1>1, <1>2, ValidatedIsGrounded
  <2> QED BY <2>1 DEF EvidenceIsTraceable
<1>3. ASSUME by = "fallback"
      PROVE  \E edges \in First(4, file.edges), policy \in First(2, file.policy) :
               edges \cup (policy \ rows.lists) \subseteq Shown(sentences')
  <2>1. PICK edges \in First(4, file.edges), policy \in First(2, file.policy) :
          sentences = FallbackSentences(file, rows, edges, policy)
    BY <1>1, <1>3 DEF AnswerInv
  <2>2. edges \subseteq file.edges /\ policy \subseteq file.policy
    BY DEF First
  <2>3. /\ \A e \in edges : Citation("graph", e, EdgeTable(e)) \in file.provenance
        /\ \A p \in policy : Citation(file.searched, p, "passage") \in file.provenance
    BY <2>2, FiledIsCited
  <2>4. edges \cup (policy \ rows.lists)
          \subseteq Shown({Validated(s, file) : s \in FallbackSentences(file, rows, edges, policy)})
    BY <2>3, FallbackIsSupported
  <2> QED BY <1>1, <2>1, <2>4
<1>4. /\ First(4, file.edges)' = First(4, file.edges)
      /\ First(2, file.policy)' = First(2, file.policy)
      /\ Shown(sentences)' = Shown(sentences')
  BY <1>1 DEF First, Shown
<1>5. AnswersStandByTheFile'
  BY <1>1, <1>2, <1>3, <1>4 DEF AnswersStandByTheFile
<1> QED BY <1>1, <1>5 DEF AnswerInv

LEMMA AnswerFallback ==
  ASSUME Fallback PROVE AnswerInv'
<1>1. /\ pc' = "validate" /\ UNCHANGED <<file, rows>>
  BY DEF Fallback, Goto
<1>2. PICK edges \in First(4, file.edges), policy \in First(2, file.policy) :
        sentences' = FallbackSentences(file, rows, edges, policy)
  BY DEF Fallback
<1>3. /\ edges \in First(4, file.edges)' /\ policy \in First(2, file.policy)'
      /\ sentences' = FallbackSentences(file, rows, edges, policy)'
  BY <1>1, <1>2 DEF First, FallbackSentences, Stated
<1> QED BY <1>1, <1>3 DEF AnswerInv, AnswersStandByTheFile

\* Whatever the rows, the failures and the model: a supported sentence stands on evidence
\* of this case file, and the fallback's relationships and passages are supported.
THEOREM GroundedAnswers == Spec => []AnswersStandByTheFile
<1>1. Init => AnswerInv
  BY DEF Init, AnswerInv, AnswersStandByTheFile
<1>2. FileInv /\ EvidenceIsTraceable /\ AnswerInv /\ [Next]_vars => AnswerInv'
  <2> SUFFICES ASSUME FileInv, EvidenceIsTraceable, AnswerInv, [Next]_vars PROVE AnswerInv'
    OBVIOUS
  <2>1. ASSUME pc' \notin {"validate", "answered"} PROVE AnswerInv'
    BY <2>1 DEF AnswerInv, AnswersStandByTheFile
  <2>2. ASSUME NEW from, NEW kind, Raise(from, kind) PROVE AnswerInv'
    BY <2>1, <2>2 DEF Raise, Goto
  <2>3. CASE Assemble \/ Choose \/ Discover \/ Post
    BY <2>1, <2>2, <2>3 DEF Assemble, Choose, Discover, Post, Goto
  <2>4. CASE Parse
    <3>1. CASE Goto("parse", "validate") /\ by' = "sap_ai_core"
      BY <3>1 DEF Goto, AnswerInv, AnswersStandByTheFile
    <3> QED BY <3>1, <2>1, <2>2, <2>4 DEF Parse, Goto
  <2>5. CASE UNCHANGED vars
    <3>1. /\ UNCHANGED <<pc, by, file, rows, sentences>>
          /\ First(4, file.edges)' = First(4, file.edges)
          /\ First(2, file.policy)' = First(2, file.policy)
          /\ Shown(sentences)' = Shown(sentences)
      BY <2>5 DEF vars, First, Shown
    <3>2. \A edges, policy : FallbackSentences(file, rows, edges, policy)'
                               = FallbackSentences(file, rows, edges, policy)
      BY <3>1 DEF FallbackSentences, Stated
    <3> QED BY <3>1, <3>2 DEF AnswerInv, AnswersStandByTheFile
  <2> QED BY <2>3, <2>4, <2>5, AnswerFallback, AnswerValidate DEF Next
<1>3. AnswerInv => AnswersStandByTheFile
  BY DEF AnswerInv
<1> QED BY <1>1, <1>2, <1>3, FileInvariant, TraceableEvidence, PTL DEF Spec
=============================================================================
