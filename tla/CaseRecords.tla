------------------------------ MODULE CaseRecords ------------------------------
(***************************************************************************)
(* The records of a case: POST alerts/{id}/cases creates it, POST          *)
(* cases/{id}/assemble adds a case file, POST cases/{id}/drafts a draft,   *)
(* POST cases/{id}/explanations an explanation and perhaps its draft       *)
(* (api/routers/cases.py, explanations.py).                                *)
(*                                                                         *)
(* get_or_create_case and save_draft read, compute, and insert in separate *)
(* transactions, and save_draft then reads again what it returns: other    *)
(* requests run in between.  A step is one repository call with the code   *)
(* around it; a lookup of the case, which is never deleted, is part of the *)
(* step of the call after it.  The case id is a function of the alert id,  *)
(* so a case is named by its alert.  The Idempotency-Key an assembly may   *)
(* carry is module Idempotency's.                                          *)
(***************************************************************************)
EXTENDS Naturals, Sequences

CONSTANTS
  Alerts,       \* the alerts there are
  Requests,     \* the requests, each served once; a case file's id is its request
  Bodies,       \* the requests considered
  Citations,    \* the number of citations of a case file
  None,         \* no request, no draft
  Earlier       \* the request that made a case before those considered here

Operation == {"create", "assemble", "draft", "explain"}
\* `persist` is what the flag of an explanation and its task come to.
Body == [op : Operation, case : Alerts, persist : BOOLEAN]

ASSUME BodiesAssumption == Bodies \subseteq Body
ASSUME CitationsAssumption == Citations \in Nat \ {0}

\* A row of NARRATIVE_DRAFTS; its primary key is made of case and version.
Draft == [case : Alerts, version : Nat \ {0}, by : Requests]

ASSUME NoneAssumption == None \notin Requests /\ None \notin Draft
ASSUME EarlierAssumption == Earlier \notin Requests /\ Earlier # None

\* A row of AUDIT_EVENTS; `version` is that of the draft a DRAFT_CREATED event names.
EventType == {"CASE_FILE_ASSEMBLED", "EXPLANATION_GENERATED", "DRAFT_CREATED"}
AuditEvent == [type : EventType, by : Requests, case : Alerts, version : Nat]

VARIABLES
  hana,         \* the backend: HANA, or SQLite; never changes
  body,         \* what each request asks for, never changes
  pc,           \* the call each handler makes next, or how the request ended
  cases,        \* CASES: the request that made the case of each alert
  files,        \* CASE_FILES
  clock,        \* the UTC clock, as assemblies read it
  assembledAt,  \* ASSEMBLED_AT of the file each assembly built
  cited,        \* SOURCE_CITATIONS: how many rows the file of each assembly has
  drafts,       \* NARRATIVE_DRAFTS
  version,      \* the DRAFT_VERSION each handler computed
  given,        \* what each handler read to answer with: a case, a file or a draft
  trail,        \* AUDIT_EVENTS
  before        \* history: the requests answered before each request arrived

vars == <<hana, body, pc, cases, files, clock, assembledAt, cited, drafts, version,
          given, trail, before>>

caseVars == <<cases>>
fileVars == <<files, clock, assembledAt, cited>>
draftVars == <<drafts, version>>

InFlight == {"insertCase", "readCase", "saveFile", "cite", "auditFile", "explain",
             "version", "insertDraft", "readDraft", "auditDraft"}
\* "conflict" is the 500 a primary key answers with, "failed" any other.
Ended == {"ok", "notFound", "noFile", "conflict", "failed"}

TypeOK ==
  /\ hana \in BOOLEAN
  /\ body \in [Requests -> Bodies]
  /\ pc \in [Requests -> {"idle"} \cup InFlight \cup Ended]
  /\ cases \in [Alerts -> Requests \cup {None, Earlier}]
  /\ files \subseteq Requests
  /\ clock \in Nat
  /\ assembledAt \in [Requests -> Nat]
  /\ cited \in [Requests -> 0..Citations]
  /\ drafts \subseteq Draft
  /\ version \in [Requests -> Nat]
  /\ given \in [Requests -> Requests \cup Draft \cup {None, Earlier}]
  /\ trail \in Seq(AuditEvent)
  /\ before \in [Requests -> SUBSET Requests]

Init ==
  /\ hana \in BOOLEAN
  /\ body \in [Requests -> Bodies]
  /\ pc = [r \in Requests |-> "idle"]
  /\ cases \in [Alerts -> {None, Earlier}]
  /\ files = {}
  /\ clock = 0
  /\ assembledAt = [r \in Requests |-> 0]
  /\ cited = [r \in Requests |-> 0]
  /\ drafts = {}
  /\ version = [r \in Requests |-> 0]
  /\ given = [r \in Requests |-> None]
  /\ trail = << >>
  /\ before = [r \in Requests |-> {}]

Answered == {r \in Requests : pc[r] = "ok"}
CaseOf(r) == body[r].case

-----------------------------------------------------------------------------
(* What the handlers share.                                                *)

Arrive(r, op) ==
  /\ pc[r] = "idle"
  /\ body[r].op = op
  /\ before' = [before EXCEPT ![r] = Answered]
  /\ UNCHANGED <<hana, body>>

Continue(r, from, to) ==
  /\ pc[r] = from
  /\ pc' = [pc EXCEPT ![r] = to]
  /\ UNCHANGED <<hana, body, before>>

End(r, how) == pc' = [pc EXCEPT ![r] = how]

CaseExists(r) == cases[CaseOf(r)] # None

Log(r, type, v) ==
  trail' = Append(trail, [type |-> type, by |-> r, case |-> CaseOf(r), version |-> v])

-----------------------------------------------------------------------------
(* POST alerts/{id}/cases.                                                 *)

\* get_or_create_case looks for the case ...
SelectCase(r) ==
  /\ Arrive(r, "create")
  /\ End(r, IF CaseExists(r) THEN "readCase" ELSE "insertCase")
  /\ UNCHANGED <<caseVars, fileVars, draftVars, given, trail>>

\* Mutant: INSERT OR REPLACE.
ReplaceCase(r) ==
  /\ Continue(r, "insertCase", "readCase")
  /\ cases' = [cases EXCEPT ![CaseOf(r)] = r]
  /\ UNCHANGED <<fileVars, draftVars, given, trail>>

\* ... and inserts it, unless another request has: the key answers 500.
InsertCase(r) ==
  /\ Continue(r, "insertCase", IF CaseExists(r) THEN "conflict" ELSE "readCase")
  /\ cases' = IF CaseExists(r) THEN cases ELSE [cases EXCEPT ![CaseOf(r)] = r]
  /\ UNCHANGED <<fileVars, draftVars, given, trail>>

ReadCase(r) ==
  /\ Continue(r, "readCase", "ok")
  /\ given' = [given EXCEPT ![r] = cases[CaseOf(r)]]
  /\ UNCHANGED <<caseVars, fileVars, draftVars, trail>>

-----------------------------------------------------------------------------
(* POST cases/{id}/assemble.                                               *)

\* The evidence is read and the file is built; assembled_at comes first.
Assemble(r) ==
  /\ Arrive(r, "assemble")
  /\ IF CaseExists(r)
       THEN /\ End(r, "saveFile")
            /\ assembledAt' = [assembledAt EXCEPT ![r] = clock]
            /\ clock' = clock + 1
       ELSE /\ End(r, "notFound")
            /\ UNCHANGED <<assembledAt, clock>>
  /\ UNCHANGED <<caseVars, files, cited, draftVars, given, trail>>

SaveFile(r) ==
  /\ Continue(r, "saveFile", "cite")
  /\ files' = files \cup {r}
  /\ UNCHANGED <<caseVars, clock, assembledAt, cited, draftVars, given, trail>>

\* Mutant: the loop ends after the first citation.
SaveFirstCitation(r) ==
  /\ Continue(r, "cite", "auditFile")
  /\ cited' = [cited EXCEPT ![r] = IF hana THEN 1 ELSE Citations]
  /\ UNCHANGED <<caseVars, files, clock, assembledAt, draftVars, given, trail>>

\* save_citations: one transaction on SQLite, one for each row on HANA.
SaveCitations(r) ==
  LET n == IF hana THEN cited[r] + 1 ELSE Citations
  IN  /\ Continue(r, "cite", IF n < Citations THEN "cite" ELSE "auditFile")
      /\ cited' = [cited EXCEPT ![r] = n]
      /\ UNCHANGED <<caseVars, files, clock, assembledAt, draftVars, given, trail>>

RecordAssembly(r) ==
  /\ Continue(r, "auditFile", "ok")
  /\ Log(r, "CASE_FILE_ASSEMBLED", 0)
  /\ UNCHANGED <<caseVars, fileVars, draftVars, given>>

-----------------------------------------------------------------------------
(* POST cases/{id}/drafts and the drafts of POST cases/{id}/explanations.  *)

FilesOf(c) == {f \in files : CaseOf(f) = c}

\* Mutant: the oldest file.
OldestFile(c) == CHOOSE f \in FilesOf(c) : \A g \in FilesOf(c) : assembledAt[f] <= assembledAt[g]

\* get_latest_case_file: ORDER BY ASSEMBLED_AT DESC LIMIT 1.
LatestFile(c) == CHOOSE f \in FilesOf(c) : \A g \in FilesOf(c) : assembledAt[g] <= assembledAt[f]

\* The explanation is generated, live or by the fallback, from the latest file.
Explain(r) ==
  /\ Arrive(r, "explain")
  /\ IF CaseExists(r) /\ FilesOf(CaseOf(r)) # {}
       THEN /\ End(r, "explain")
            /\ given' = [given EXCEPT ![r] = LatestFile(CaseOf(r))]
       ELSE /\ End(r, IF CaseExists(r) THEN "noFile" ELSE "notFound")
            /\ UNCHANGED given
  /\ UNCHANGED <<caseVars, fileVars, draftVars, trail>>

RecordExplanation(r) ==
  /\ Continue(r, "explain", IF body[r].persist THEN "version" ELSE "ok")
  /\ Log(r, "EXPLANATION_GENERATED", 0)
  /\ UNCHANGED <<caseVars, fileVars, draftVars, given>>

ReceiveDraft(r) ==
  /\ Arrive(r, "draft")
  /\ End(r, IF CaseExists(r) THEN "version" ELSE "notFound")
  /\ UNCHANGED <<caseVars, fileVars, draftVars, given, trail>>

Versions(c) == {d.version : d \in {e \in drafts : e.case = c}}

\* Mutant: the first version, or 0.
FirstVersion(c) == CHOOSE v \in Versions(c) \cup {0} :
                     IF Versions(c) = {} THEN v = 0 ELSE v \in Versions(c) /\ v <= 1

\* SELECT MAX(DRAFT_VERSION), or 0.
LastVersion(c) == CHOOSE v \in Versions(c) \cup {0} : \A w \in Versions(c) : w <= v

\* save_draft computes the version, ...
ComputeVersion(r) ==
  /\ Continue(r, "version", "insertDraft")
  /\ version' = [version EXCEPT ![r] = LastVersion(CaseOf(r)) + 1]
  /\ UNCHANGED <<caseVars, fileVars, drafts, given, trail>>

\* Mutant: the version does not make the key.
InsertAnyDraft(r) ==
  /\ Continue(r, "insertDraft", "readDraft")
  /\ drafts' = drafts \cup {[case |-> CaseOf(r), version |-> version[r], by |-> r]}
  /\ UNCHANGED <<caseVars, fileVars, version, given, trail>>

\* ... inserts the row, unless the version is taken by now (500), ...
InsertDraft(r) ==
  LET taken == version[r] \in Versions(CaseOf(r))
  IN  /\ Continue(r, "insertDraft", IF taken THEN "conflict" ELSE "readDraft")
      /\ drafts' = drafts \cup
           (IF taken THEN {} ELSE {[case |-> CaseOf(r), version |-> version[r], by |-> r]})
      /\ UNCHANGED <<caseVars, fileVars, version, given, trail>>

\* Mutant: the first draft of the case.
ReadFirstDraft(r) ==
  /\ Continue(r, "readDraft", "auditDraft")
  /\ given' = [given EXCEPT ![r] =
       CHOOSE d \in drafts : d.case = CaseOf(r) /\ d.version = 1]
  /\ UNCHANGED <<caseVars, fileVars, draftVars, trail>>

\* ... and returns get_latest_draft.
ReadDraft(r) ==
  /\ Continue(r, "readDraft", "auditDraft")
  /\ given' = [given EXCEPT ![r] =
       CHOOSE d \in drafts : d.case = CaseOf(r) /\ d.version = LastVersion(CaseOf(r))]
  /\ UNCHANGED <<caseVars, fileVars, draftVars, trail>>

RecordDraft(r) ==
  /\ Continue(r, "auditDraft", "ok")
  /\ Log(r, "DRAFT_CREATED", given[r].version)
  /\ UNCHANGED <<caseVars, fileVars, draftVars, given>>

-----------------------------------------------------------------------------
\* An exception in a repository call, or the end of the process.
Fail(r) ==
  /\ pc[r] \in InFlight
  /\ End(r, "failed")
  /\ UNCHANGED <<hana, body, before, caseVars, fileVars, draftVars, given, trail>>

Next ==
  \E r \in Requests :
    \/ SelectCase(r) \/ InsertCase(r) \/ ReadCase(r)
    \/ Assemble(r) \/ SaveFile(r) \/ SaveCitations(r) \/ RecordAssembly(r)
    \/ Explain(r) \/ RecordExplanation(r)
    \/ ReceiveDraft(r) \/ ComputeVersion(r) \/ InsertDraft(r) \/ ReadDraft(r) \/ RecordDraft(r)
    \/ Fail(r)

Spec == Init /\ [][Next]_vars

-----------------------------------------------------------------------------
(* Properties.                                                             *)

\* Calling twice returns the same case (docs/api-contract.md): all creates of an
\* alert that were answered got the row of one request, and it is still there.
CreatesAgree ==
  \A r \in Answered : body[r].op = "create" =>
    given[r] # None /\ given[r] = cases[CaseOf(r)]

\* The versions of a case count up from 1 without a gap, and each is one draft:
\* a request that is cut short leaves no hole, and two that compute the same
\* version do not both get it (docs/api-contract.md: auto-increments per case).
VersionsAreDense ==
  /\ \A d \in drafts : \A v \in 1..d.version : v \in Versions(d.case)
  /\ \A d, e \in drafts : d.case = e.case /\ d.version = e.version => d = e

\* A primary key answers 500 only in a race: the row that was in the way was made
\* by a request that had not been answered when the refused one was sent, so a
\* client that waits for its answers is never refused.
RefusalsAreRaces ==
  \A r \in Requests : pc[r] = "conflict" =>
    IF body[r].op = "create"
      THEN cases[CaseOf(r)] \in Requests \ before[r]
      ELSE \E d \in drafts : /\ d.case = CaseOf(r) /\ d.version = version[r]
                             /\ d.by \notin before[r]

\* An audited case file is complete: it is stored, of an existing case, with all of
\* its citations, although they are separate transactions (on HANA, each of them).
AuditedFilesAreComplete ==
  \A i \in 1..Len(trail) : trail[i].type = "CASE_FILE_ASSEMBLED" =>
    /\ trail[i].by \in FilesOf(trail[i].case)
    /\ cases[trail[i].case] # None
    /\ cited[trail[i].by] = Citations

\* Which requests are answered with a draft.
AnswersDraft(r) == body[r].op = "draft" \/ (body[r].op = "explain" /\ body[r].persist)

\* Nobody is answered with less than was there when the request was sent: an
\* explanation that is not saved as a draft is made of a case file no older than any
\* whose assembly had been answered, and a draft request gets its own draft or a later one.
ReadsAreFresh ==
  \A r \in Answered :
    /\ body[r].op = "explain" /\ ~body[r].persist =>
         \A s \in before[r] : body[s].op = "assemble" /\ CaseOf(s) = CaseOf(r)
                              => assembledAt[s] <= assembledAt[given[r]]
    /\ AnswersDraft(r) =>
         /\ given[r] \in drafts /\ given[r].case = CaseOf(r)
         /\ version[r] <= given[r].version
         /\ \A s \in before[r] : AnswersDraft(s) /\ CaseOf(s) = CaseOf(r)
                                 => given[s].version < given[r].version

\* The DRAFT_CREATED event of a request that met no other draft of its case names
\* its own draft, and comes after the explanation it was made of.
LoneDraftsAreAudited ==
  \A i \in 1..Len(trail) : trail[i].type = "DRAFT_CREATED" =>
    LET r == trail[i].by
    IN  /\ \/ trail[i].version = version[r]
           \/ \E d \in drafts : d.case = CaseOf(r) /\ d.version = trail[i].version
                                /\ d.by \notin before[r] /\ r \notin before[d.by]
        /\ body[r].op = "explain" => \E j \in 1..i : /\ trail[j].by = r
                                                     /\ trail[j].type = "EXPLANATION_GENERATED"

\* Cases, files, drafts and events are added, and never changed or removed, whatever
\* runs at the same time, fails or answers 500.
RecordsAreKept ==
  [][ /\ \A a \in Alerts : cases[a] # None => cases'[a] = cases[a]
      /\ files \subseteq files' /\ drafts \subseteq drafts'
      /\ Len(trail) <= Len(trail') /\ \A i \in 1..Len(trail) : trail'[i] = trail[i]
    ]_<<cases, files, drafts, trail>>
=============================================================================
