--------------------------- MODULE CaseRecordsProofs ---------------------------
(***************************************************************************)
(* Theorems about CaseRecords, for any requests, alerts and citations.     *)
(*                                                                         *)
(* IInv says what of its work a handler has done by where it is, and that  *)
(* the maxima the code selects exist.  ReadInv stands on it and is about   *)
(* what handlers read back: a file as late as any assembly answered before *)
(* (FreshFileInv), a draft whose version passes all drafts answered before *)
(* (PassedInv) and is the request's own or a later one (GivenDraftInv),    *)
(* and the events that name them (DraftEventInv).                          *)
(***************************************************************************)
EXTENDS CaseRecords, TLAPS

\* Which endpoint a call belongs to; an assembly found its case.
OpInv ==
  \A r \in Requests :
    /\ pc[r] \in {"insertCase", "readCase"} => body[r].op = "create"
    /\ pc[r] \in {"saveFile", "cite", "auditFile"} => body[r].op = "assemble" /\ CaseExists(r)
    /\ pc[r] = "explain" => body[r].op = "explain"
    /\ pc[r] \in {"version", "insertDraft", "readDraft", "auditDraft"} =>
         body[r].op \in {"draft", "explain"}

\* A create that is about to read its case, or has, has one.
CaseInv ==
  \A r \in Requests : body[r].op = "create" =>
    /\ pc[r] = "readCase" => CaseExists(r)
    /\ pc[r] = "ok" => CaseExists(r) /\ given[r] = cases[CaseOf(r)]

\* How much of a file is stored, by where its assembly is.
FileInv ==
  \A r \in Requests :
    /\ pc[r] \in {"idle", "saveFile"} => r \notin files /\ cited[r] = 0
    /\ pc[r] \in {"cite", "auditFile"} => r \in files
    /\ pc[r] = "cite" => cited[r] < Citations
    /\ pc[r] = "auditFile" => cited[r] = Citations

\* A case with files has a latest one.
LatestInv ==
  \A c \in Alerts :
    FilesOf(c) = {} \/ \E f \in FilesOf(c) : \A g \in FilesOf(c) : assembledAt[g] <= assembledAt[f]

\* What an assembly's event stands for; nothing changes it any more.
AuditInv ==
  \A i \in 1..Len(trail) : trail[i].type = "CASE_FILE_ASSEMBLED" =>
    /\ pc[trail[i].by] = "ok"
    /\ trail[i].by \in files
    /\ CaseOf(trail[i].by) = trail[i].case
    /\ cases[trail[i].case] # None
    /\ cited[trail[i].by] = Citations

\* A case has a last version, or none.
MaxInv ==
  \A c \in Alerts : \E v \in Versions(c) \cup {0} : \A w \in Versions(c) : w <= v

\* The version a handler computed follows one that is there, and what it reads
\* after its insert is.
DraftInv ==
  \A r \in Requests :
    /\ pc[r] = "insertDraft" =>
         version[r] >= 1 /\ (version[r] = 1 \/ version[r] - 1 \in Versions(CaseOf(r)))
    /\ pc[r] = "readDraft" => Versions(CaseOf(r)) # {}
    /\ pc[r] = "auditDraft" => given[r] \in drafts

\* Whoever got in the way of an insert had not been answered when it arrived.
RaceInv ==
  /\ \A r \in Requests : before[r] \subseteq Answered
  /\ \A r \in Requests : pc[r] = "insertCase" =>
       cases[CaseOf(r)] \in {None} \cup (Requests \ before[r])
  /\ \A r \in Requests : pc[r] = "insertDraft" =>
       \A d \in drafts : d.case = CaseOf(r) /\ d.version = version[r] => d.by \notin before[r]
  /\ RefusalsAreRaces

IInv ==
  /\ TypeOK /\ OpInv /\ CaseInv /\ FileInv /\ LatestInv /\ AuditInv
  /\ MaxInv /\ VersionsAreDense /\ DraftInv /\ RaceInv

\* A draft is made for a draft request, or an explanation that persists one, and
\* then the explanation is in the trail.
PersistInv ==
  \A r \in Requests : pc[r] \in {"version", "insertDraft", "readDraft", "auditDraft"} =>
    /\ AnswersDraft(r)
    /\ body[r].op = "explain" =>
         \E j \in 1..Len(trail) : trail[j].by = r /\ trail[j].type = "EXPLANATION_GENERATED"

\* An explanation is made of a file as late as any assembly answered before it.
FreshFileInv ==
  /\ \A r \in Answered : body[r].op = "assemble" => r \in files
  /\ \A r \in Requests :
       pc[r] = "explain" \/ (pc[r] = "ok" /\ body[r].op = "explain" /\ ~body[r].persist) =>
         /\ given[r] \in files
         /\ \A s \in before[r] : body[s].op = "assemble" /\ CaseOf(s) = CaseOf(r)
                                 => assembledAt[s] <= assembledAt[given[r]]

\* A stored draft has the version its request computed, which has got past its insert.
OwnDraftInv ==
  \A d \in drafts : /\ d.version = version[d.by] /\ d.case = CaseOf(d.by)
                    /\ pc[d.by] \in {"readDraft", "auditDraft", "ok", "failed"}

\* A draft request reads its own draft or a later one.
GivenDraftInv ==
  \A r \in Requests :
    /\ pc[r] = "readDraft" => version[r] \in Versions(CaseOf(r))
    /\ pc[r] = "auditDraft" \/ (pc[r] = "ok" /\ AnswersDraft(r)) =>
         /\ given[r] \in drafts /\ given[r].case = CaseOf(r)
         /\ version[r] <= given[r].version

\* The version a request computed passes every draft of the requests answered
\* before it arrived, and every draft they were given.
PassedInv ==
  \A r \in Requests :
    /\ pc[r] = "idle" => version[r] = 0
    /\ pc[r] \in {"readDraft", "auditDraft"} \/ (pc[r] = "ok" /\ AnswersDraft(r)) => version[r] # 0
    /\ version[r] # 0 =>
         /\ \A s \in before[r] : AnswersDraft(s) /\ CaseOf(s) = CaseOf(r)
                                 => given[s].version < version[r]
         /\ \A d \in drafts : d.case = CaseOf(r) /\ d.by \in before[r] => d.version < version[r]

\* A DRAFT_CREATED event names the draft its request is answered with, after the
\* explanation the draft was made of.
DraftEventInv ==
  \A i \in 1..Len(trail) : trail[i].type = "DRAFT_CREATED" =>
    LET r == trail[i].by
    IN  /\ pc[r] = "ok" /\ AnswersDraft(r) /\ trail[i].version = given[r].version
        /\ body[r].op = "explain" => \E j \in 1..i : /\ trail[j].by = r
                                                     /\ trail[j].type = "EXPLANATION_GENERATED"

ReadInv ==
  /\ PersistInv /\ FreshFileInv /\ OwnDraftInv /\ GivenDraftInv /\ PassedInv /\ DraftEventInv

-----------------------------------------------------------------------------
(* Lemmas about the operators.                                             *)

\* The last version is the greatest, or 0 where there is none.
LEMMA LastVersionMax ==
  ASSUME TypeOK, MaxInv, NEW c \in Alerts
  PROVE  /\ LastVersion(c) \in Versions(c) \cup {0}
         /\ LastVersion(c) \in Nat
         /\ \A w \in Versions(c) : w <= LastVersion(c) /\ w \in Nat \ {0}
<1>1. \A w \in Versions(c) : w \in Nat \ {0}
  BY DEF TypeOK, Draft, Versions
<1>2. \E v \in Versions(c) \cup {0} : \A w \in Versions(c) : w <= v
  BY DEF MaxInv
<1>3. /\ LastVersion(c) \in Versions(c) \cup {0}
      /\ \A w \in Versions(c) : w <= LastVersion(c)
  BY <1>2 DEF LastVersion
<1>4. QED
  BY <1>1, <1>3

\* The latest draft exists when there is a draft.
LEMMA LatestDraftExists ==
  ASSUME TypeOK, MaxInv, NEW c \in Alerts, Versions(c) # {}
  PROVE  \E d \in drafts : d.case = c /\ d.version = LastVersion(c)
<1>1. LastVersion(c) \in Versions(c)
  <2>1. PICK w \in Versions(c) : TRUE
    OBVIOUS
  <2>2. w <= LastVersion(c) /\ w \in Nat \ {0} /\ LastVersion(c) \in Nat
    BY <2>1, LastVersionMax
  <2>3. LastVersion(c) # 0
    BY <2>2
  <2>4. QED
    BY <2>3, LastVersionMax
<1>2. QED
  BY <1>1 DEF Versions

\* Which case a request is about.
LEMMA CaseType == ASSUME TypeOK, NEW r \in Requests PROVE CaseOf(r) \in Alerts
BY BodiesAssumption DEF TypeOK, CaseOf, Body

\* Where files, times and requests stay, so do the latest files.
LEMMA LatestKept ==
  ASSUME LatestInv, UNCHANGED <<files, assembledAt, body>> PROVE LatestInv'
<1>1. \A c : FilesOf(c)' = FilesOf(c)
  BY DEF FilesOf, CaseOf
<1>2. QED
  BY <1>1 DEF LatestInv

LEMMA LatestFileExists ==
  ASSUME LatestInv, NEW c \in Alerts, FilesOf(c) # {} PROVE LatestFile(c) \in FilesOf(c)
BY DEF LatestInv, LatestFile

\* Where the trail stays, the audited files stay whole.
LEMMA AuditKept ==
  ASSUME TypeOK, AuditInv, UNCHANGED <<trail, body>>,
         \A s \in Requests : pc[s] = "ok" => pc'[s] = "ok" /\ cited'[s] = cited[s],
         files \subseteq files', \A c \in Alerts : cases[c] # None => cases'[c] # None
  PROVE  AuditInv'
<1>1. \A i \in 1..Len(trail) : trail[i] \in AuditEvent
  BY DEF TypeOK
<1>2. QED
  BY <1>1 DEF AuditInv, CaseOf, AuditEvent

\* An event after the others.
LEMMA AuditAppended ==
  ASSUME TypeOK, AuditInv, UNCHANGED <<body, cases, files, cited>>, NEW e \in AuditEvent,
         trail' = Append(trail, e),
         \A s \in Requests : pc[s] = "ok" => pc'[s] = "ok",
         e.type = "CASE_FILE_ASSEMBLED" =>
           /\ pc'[e.by] = "ok" /\ e.by \in files /\ CaseOf(e.by) = e.case
           /\ cases[e.case] # None /\ cited[e.by] = Citations
  PROVE  AuditInv' /\ trail' \in Seq(AuditEvent)
<1>1. /\ \A i \in 1..Len(trail) : trail[i] \in AuditEvent /\ trail'[i] = trail[i]
      /\ Len(trail') = Len(trail) + 1 /\ trail'[Len(trail) + 1] = e
      /\ trail' \in Seq(AuditEvent) /\ Len(trail) \in Nat
  BY DEF TypeOK
<1>2. \A i \in 1..Len(trail') : i \in 1..Len(trail) \/ i = Len(trail) + 1
  BY <1>1
<1>3. SUFFICES ASSUME NEW i \in 1..Len(trail'), trail'[i].type = "CASE_FILE_ASSEMBLED"
      PROVE  /\ pc'[trail'[i].by] = "ok"
             /\ trail'[i].by \in files
             /\ CaseOf(trail'[i].by) = trail'[i].case
             /\ cases[trail'[i].case] # None
             /\ cited[trail'[i].by] = Citations
  BY <1>1 DEF AuditInv, CaseOf
<1>4. CASE i \in 1..Len(trail)
  BY <1>1, <1>3, <1>4 DEF AuditInv, AuditEvent
<1>5. CASE i = Len(trail) + 1
  BY <1>1, <1>3, <1>5
<1>6. QED
  BY <1>2, <1>4, <1>5

LEMMA InitInv == Init => IInv
<1> SUFFICES ASSUME Init PROVE IInv
  OBVIOUS
<1>1. TypeOK
  BY CitationsAssumption DEF Init, TypeOK
<1>2. OpInv /\ CaseInv /\ FileInv /\ LatestInv /\ AuditInv
  BY DEF Init, OpInv, CaseInv, FileInv, LatestInv, AuditInv, FilesOf
<1>3. MaxInv /\ VersionsAreDense /\ DraftInv
  BY DEF Init, MaxInv, VersionsAreDense, DraftInv, Versions
<1>4. RaceInv
  BY DEF Init, RaceInv, RefusalsAreRaces
<1>5. QED
  BY <1>1, <1>2, <1>3, <1>4 DEF IInv

-----------------------------------------------------------------------------
(* Each step keeps the invariant.                                          *)
LEMMA SelectCaseInv ==
  ASSUME IInv, NEW r \in Requests, SelectCase(r) PROVE IInv'
<1> USE DEF IInv, SelectCase, Arrive, End, caseVars, fileVars, draftVars
<1>1. TypeOK'
  BY CitationsAssumption DEF TypeOK, InFlight, Ended, Answered
<1>2. OpInv' /\ CaseInv'
  BY NoneAssumption DEF TypeOK, OpInv, CaseInv, CaseExists, CaseOf, Body
<1>3. FileInv'
  BY CitationsAssumption DEF TypeOK, FileInv
<1>4. LatestInv'
  BY LatestKept
<1>5. AuditInv'
  BY AuditKept, CaseType DEF TypeOK, InFlight, CaseExists
<1>6. MaxInv' /\ VersionsAreDense'
  BY DEF TypeOK, MaxInv, VersionsAreDense, Versions
<1>7. DraftInv'
  BY DEF TypeOK, DraftInv, Versions, CaseOf
<1>8. RaceInv'
  BY NoneAssumption DEF TypeOK, RaceInv, RefusalsAreRaces, Answered, CaseOf, OpInv, CaseExists
<1>9. QED
  BY <1>1, <1>2, <1>3, <1>4, <1>5, <1>6, <1>7, <1>8

LEMMA InsertCaseInv ==
  ASSUME IInv, NEW r \in Requests, InsertCase(r) PROVE IInv'
<1> USE DEF IInv, InsertCase, Continue, fileVars, draftVars
<1>1. TypeOK'
  BY CitationsAssumption DEF TypeOK, InFlight, Ended, Answered
<1>2. OpInv' /\ CaseInv'
  <2>1. \A s \in Requests : CaseOf(s)' = CaseOf(s) /\ CaseOf(s) \in Alerts
    BY CaseType DEF CaseOf
  <2>2. \A c \in Alerts : cases[c] # None => cases'[c] = cases[c]
    BY <2>1 DEF TypeOK, CaseExists
  <2>3. cases'[CaseOf(r)] # None
    BY <2>1, NoneAssumption DEF TypeOK, CaseExists
  <2>4. \A s \in Requests : (CaseExists(s) \/ s = r) => CaseExists(s)'
    BY <2>1, <2>2, <2>3 DEF CaseExists
  <2>5. OpInv'
    BY <2>4 DEF TypeOK, OpInv
  <2>6. CaseInv'
    BY <2>1, <2>2, <2>4 DEF TypeOK, CaseInv, CaseExists
  <2>7. QED
    BY <2>5, <2>6
<1>3. FileInv'
  BY CitationsAssumption DEF TypeOK, FileInv
<1>4. LatestInv'
  BY LatestKept
<1>5. AuditInv'
  BY AuditKept, CaseType DEF TypeOK, InFlight, CaseExists
<1>6. MaxInv' /\ VersionsAreDense'
  BY DEF TypeOK, MaxInv, VersionsAreDense, Versions
<1>7. DraftInv'
  BY DEF TypeOK, DraftInv, Versions, CaseOf
<1>8. RaceInv'
  BY NoneAssumption DEF TypeOK, RaceInv, RefusalsAreRaces, Answered, CaseOf, OpInv, CaseExists
<1>9. QED
  BY <1>1, <1>2, <1>3, <1>4, <1>5, <1>6, <1>7, <1>8

LEMMA ReadCaseInv ==
  ASSUME IInv, NEW r \in Requests, ReadCase(r) PROVE IInv'
<1> USE DEF IInv, ReadCase, Continue, caseVars, fileVars, draftVars
<1>1. TypeOK'
  <2>1. given' \in [Requests -> Requests \cup Draft \cup {None, Earlier}]
    BY CaseType DEF TypeOK
  <2>2. QED
    BY <2>1 DEF TypeOK, InFlight, Ended
<1>2. OpInv' /\ CaseInv'
  BY NoneAssumption DEF TypeOK, OpInv, CaseInv, CaseExists, CaseOf, Body
<1>3. FileInv'
  BY CitationsAssumption DEF TypeOK, FileInv
<1>4. LatestInv'
  BY LatestKept
<1>5. AuditInv'
  BY AuditKept, CaseType DEF TypeOK, InFlight, CaseExists
<1>6. MaxInv' /\ VersionsAreDense'
  BY DEF TypeOK, MaxInv, VersionsAreDense, Versions
<1>7. DraftInv'
  BY DEF TypeOK, DraftInv, Versions, CaseOf
<1>8. RaceInv'
  BY NoneAssumption DEF TypeOK, RaceInv, RefusalsAreRaces, Answered, CaseOf, OpInv, CaseExists
<1>9. QED
  BY <1>1, <1>2, <1>3, <1>4, <1>5, <1>6, <1>7, <1>8

LEMMA AssembleInv ==
  ASSUME IInv, NEW r \in Requests, Assemble(r) PROVE IInv'
<1> USE DEF IInv, Assemble, Arrive, End, caseVars, draftVars
<1>1. TypeOK'
  <2>1. clock' \in Nat /\ assembledAt' \in [Requests -> Nat]
    BY DEF TypeOK
  <2>2. pc' \in [Requests -> {"idle"} \cup InFlight \cup Ended]
    BY DEF TypeOK, InFlight, Ended
  <2>3. before' \in [Requests -> SUBSET Requests]
    BY DEF TypeOK, Answered
  <2>4. QED
    BY <2>1, <2>2, <2>3 DEF TypeOK
<1>2. OpInv' /\ CaseInv'
  BY NoneAssumption DEF TypeOK, OpInv, CaseInv, CaseExists, CaseOf, Body
<1>3. FileInv'
  BY CitationsAssumption DEF TypeOK, FileInv
<1>4. LatestInv'
  <2>1. r \notin files /\ \A f \in files : assembledAt'[f] = assembledAt[f]
    BY DEF TypeOK, FileInv
  <2>2. \A c : FilesOf(c)' = FilesOf(c) /\ FilesOf(c) \subseteq files
    BY DEF FilesOf, CaseOf
  <2>3. QED
    BY <2>1, <2>2 DEF LatestInv
<1>5. AuditInv'
  BY AuditKept, CaseType DEF TypeOK, InFlight, CaseExists
<1>6. MaxInv' /\ VersionsAreDense'
  BY DEF TypeOK, MaxInv, VersionsAreDense, Versions
<1>7. DraftInv'
  BY DEF TypeOK, DraftInv, Versions, CaseOf
<1>8. RaceInv'
  <2>1. Answered' = Answered /\ \A s : CaseOf(s)' = CaseOf(s)
    BY DEF TypeOK, Answered, CaseOf
  <2>2. \A s \in Requests : /\ s # r => pc'[s] = pc[s] /\ before'[s] = before[s]
                            /\ pc'[r] \notin {"insertCase", "insertDraft", "conflict"}
    BY DEF TypeOK
  <2>3. \A s \in Requests : before'[s] \subseteq Answered
    BY DEF TypeOK, RaceInv
  <2>4. RefusalsAreRaces'
    BY <2>1, <2>2 DEF RaceInv, RefusalsAreRaces
  <2>5. QED
    BY <2>1, <2>2, <2>3, <2>4 DEF RaceInv
<1>9. QED
  BY <1>1, <1>2, <1>3, <1>4, <1>5, <1>6, <1>7, <1>8

LEMMA SaveFileInv ==
  ASSUME IInv, NEW r \in Requests, SaveFile(r) PROVE IInv'
<1> USE DEF IInv, SaveFile, Continue, caseVars, draftVars
<1>1. TypeOK'
  BY CitationsAssumption DEF TypeOK, InFlight, Ended, Answered
<1>2. OpInv' /\ CaseInv'
  BY NoneAssumption DEF TypeOK, OpInv, CaseInv, CaseExists, CaseOf, Body
<1>3. FileInv'
  BY CitationsAssumption DEF TypeOK, FileInv
<1>4. LatestInv'
  <2> SUFFICES ASSUME NEW c \in Alerts, NEW h \in FilesOf(c)'
               PROVE  \E f \in FilesOf(c)' : \A g \in FilesOf(c)' : assembledAt[g] <= assembledAt[f]
    BY DEF LatestInv
  <2>1. assembledAt \in [Requests -> Nat] /\ files \subseteq Requests
    BY DEF TypeOK
  <2>2. FilesOf(c)' = FilesOf(c) \cup (IF CaseOf(r) = c THEN {r} ELSE {})
    BY DEF FilesOf, CaseOf
  <2>3. FilesOf(c) \subseteq Requests
    BY <2>1 DEF FilesOf
  <2>4. CASE FilesOf(c) = {}
    BY <2>1, <2>2, <2>4
  <2>5. CASE FilesOf(c) # {}
    <3>1. PICK f \in FilesOf(c) : \A g \in FilesOf(c) : assembledAt[g] <= assembledAt[f]
      BY <2>5 DEF LatestInv
    <3>2. CASE assembledAt[r] <= assembledAt[f]
      BY <2>2, <3>1, <3>2
    <3>3. CASE assembledAt[f] < assembledAt[r]
      <4>1. \A g \in FilesOf(c) : assembledAt[g] <= assembledAt[r]
        BY <2>1, <2>3, <3>1, <3>3
      <4>2. assembledAt[r] <= assembledAt[r]
        BY <2>1
      <4>3. QED
        BY <2>2, <3>1, <3>2, <4>1, <4>2
    <3>4. assembledAt[r] \in Nat /\ assembledAt[f] \in Nat
      BY <2>1, <2>3, <3>1
    <3>5. QED
      BY <3>2, <3>3, <3>4
  <2>6. QED
    BY <2>4, <2>5
<1>5. AuditInv'
  BY AuditKept, CaseType DEF TypeOK, InFlight, CaseExists
<1>6. MaxInv' /\ VersionsAreDense'
  BY DEF TypeOK, MaxInv, VersionsAreDense, Versions
<1>7. DraftInv'
  BY DEF TypeOK, DraftInv, Versions, CaseOf
<1>8. RaceInv'
  BY NoneAssumption DEF TypeOK, RaceInv, RefusalsAreRaces, Answered, CaseOf, OpInv, CaseExists
<1>9. QED
  BY <1>1, <1>2, <1>3, <1>4, <1>5, <1>6, <1>7, <1>8

LEMMA SaveCitationsInv ==
  ASSUME IInv, NEW r \in Requests, SaveCitations(r) PROVE IInv'
<1> USE DEF IInv, SaveCitations, Continue, caseVars, draftVars
<1>1. TypeOK'
  <2>1. cited[r] \in 0..Citations /\ cited[r] < Citations /\ Citations \in Nat \ {0}
    BY CitationsAssumption DEF TypeOK, FileInv
  <2>2. cited' \in [Requests -> 0..Citations]
    BY <2>1 DEF TypeOK
  <2>3. QED
    BY <2>2 DEF TypeOK, InFlight, Ended
<1>2. OpInv' /\ CaseInv'
  BY NoneAssumption DEF TypeOK, OpInv, CaseInv, CaseExists, CaseOf, Body
<1>3. FileInv'
  <2>1. cited[r] \in 0..Citations /\ cited[r] < Citations /\ Citations \in Nat \ {0} /\ r \in files
    BY CitationsAssumption DEF TypeOK, FileInv
  <2>2. /\ pc'[r] \in {"cite", "auditFile"}
        /\ pc'[r] = "cite" => cited'[r] < Citations
        /\ pc'[r] = "auditFile" => cited'[r] = Citations
    BY <2>1 DEF TypeOK
  <2>3. \A s \in Requests : s # r => pc'[s] = pc[s] /\ cited'[s] = cited[s]
    BY DEF TypeOK
  <2>4. QED
    BY <2>1, <2>2, <2>3 DEF FileInv
<1>4. LatestInv'
  BY LatestKept
<1>5. AuditInv'
  BY AuditKept, CaseType DEF TypeOK, InFlight, CaseExists
<1>6. MaxInv' /\ VersionsAreDense'
  BY DEF TypeOK, MaxInv, VersionsAreDense, Versions
<1>7. DraftInv'
  BY DEF TypeOK, DraftInv, Versions, CaseOf
<1>8. RaceInv'
  BY NoneAssumption DEF TypeOK, RaceInv, RefusalsAreRaces, Answered, CaseOf, OpInv, CaseExists
<1>9. QED
  BY <1>1, <1>2, <1>3, <1>4, <1>5, <1>6, <1>7, <1>8

LEMMA RecordAssemblyInv ==
  ASSUME IInv, NEW r \in Requests, RecordAssembly(r) PROVE IInv'
<1> USE DEF IInv, RecordAssembly, Continue, Log, caseVars, fileVars, draftVars
<1> DEFINE e == [type |-> "CASE_FILE_ASSEMBLED", by |-> r, case |-> CaseOf(r), version |-> 0]
<1>a. e \in AuditEvent
  BY CaseType DEF AuditEvent, EventType
<1>b. \A s \in Requests : pc[s] = "ok" => pc'[s] = "ok"
  BY DEF TypeOK
<1>c. pc'[r] = "ok" /\ r \in files /\ cases[CaseOf(r)] # None /\ cited[r] = Citations
  BY DEF TypeOK, OpInv, FileInv, CaseExists
<1>d. AuditInv' /\ trail' \in Seq(AuditEvent)
  BY <1>a, <1>b, <1>c, AuditAppended
<1>1. TypeOK'
  BY <1>d DEF TypeOK, InFlight, Ended
<1>2. OpInv' /\ CaseInv'
  BY NoneAssumption DEF TypeOK, OpInv, CaseInv, CaseExists, CaseOf, Body
<1>3. FileInv'
  BY CitationsAssumption DEF TypeOK, FileInv
<1>4. LatestInv'
  BY LatestKept
<1>5. AuditInv'
  BY <1>d
<1>6. MaxInv' /\ VersionsAreDense'
  BY DEF TypeOK, MaxInv, VersionsAreDense, Versions
<1>7. DraftInv'
  BY DEF TypeOK, DraftInv, Versions, CaseOf
<1>8. RaceInv'
  BY NoneAssumption DEF TypeOK, RaceInv, RefusalsAreRaces, Answered, CaseOf, OpInv, CaseExists
<1>9. QED
  BY <1>1, <1>2, <1>3, <1>4, <1>5, <1>6, <1>7, <1>8

LEMMA ExplainInv ==
  ASSUME IInv, NEW r \in Requests, Explain(r) PROVE IInv'
<1> USE DEF IInv, Explain, Arrive, End, caseVars, fileVars, draftVars
<1>1. TypeOK'
  <2>1. given' \in [Requests -> Requests \cup Draft \cup {None, Earlier}]
    BY CaseType, LatestFileExists DEF TypeOK, FilesOf
  <2>2. pc' \in [Requests -> {"idle"} \cup InFlight \cup Ended]
    BY DEF TypeOK, InFlight, Ended
  <2>3. before' \in [Requests -> SUBSET Requests]
    BY DEF TypeOK, Answered
  <2>4. QED
    BY <2>1, <2>2, <2>3 DEF TypeOK
<1>2. OpInv' /\ CaseInv'
  BY NoneAssumption DEF TypeOK, OpInv, CaseInv, CaseExists, CaseOf, Body
<1>3. FileInv'
  BY CitationsAssumption DEF TypeOK, FileInv
<1>4. LatestInv'
  BY LatestKept
<1>5. AuditInv'
  BY AuditKept, CaseType DEF TypeOK, InFlight, CaseExists
<1>6. MaxInv' /\ VersionsAreDense'
  BY DEF TypeOK, MaxInv, VersionsAreDense, Versions
<1>7. DraftInv'
  BY DEF TypeOK, DraftInv, Versions, CaseOf
<1>8. RaceInv'
  <2>1. Answered' = Answered /\ \A s : CaseOf(s)' = CaseOf(s)
    BY DEF TypeOK, Answered, CaseOf
  <2>2. \A s \in Requests : /\ s # r => pc'[s] = pc[s] /\ before'[s] = before[s]
                            /\ pc'[r] \notin {"insertCase", "insertDraft", "conflict"}
    BY DEF TypeOK
  <2>3. \A s \in Requests : before'[s] \subseteq Answered
    BY DEF TypeOK, RaceInv
  <2>4. RefusalsAreRaces'
    BY <2>1, <2>2 DEF RaceInv, RefusalsAreRaces
  <2>5. QED
    BY <2>1, <2>2, <2>3, <2>4 DEF RaceInv
<1>9. QED
  BY <1>1, <1>2, <1>3, <1>4, <1>5, <1>6, <1>7, <1>8

LEMMA RecordExplanationInv ==
  ASSUME IInv, NEW r \in Requests, RecordExplanation(r) PROVE IInv'
<1> USE DEF IInv, RecordExplanation, Continue, Log, caseVars, fileVars, draftVars
<1> DEFINE e == [type |-> "EXPLANATION_GENERATED", by |-> r, case |-> CaseOf(r), version |-> 0]
<1>a. e \in AuditEvent
  BY CaseType DEF AuditEvent, EventType
<1>b. \A s \in Requests : pc[s] = "ok" => pc'[s] = "ok"
  BY DEF TypeOK
<1>d. AuditInv' /\ trail' \in Seq(AuditEvent)
  BY <1>a, <1>b, AuditAppended
<1>1. TypeOK'
  BY <1>d DEF TypeOK, InFlight, Ended
<1>2. OpInv' /\ CaseInv'
  BY NoneAssumption DEF TypeOK, OpInv, CaseInv, CaseExists, CaseOf, Body
<1>3. FileInv'
  BY CitationsAssumption DEF TypeOK, FileInv
<1>4. LatestInv'
  BY LatestKept
<1>5. AuditInv'
  BY <1>d
<1>6. MaxInv' /\ VersionsAreDense'
  BY DEF TypeOK, MaxInv, VersionsAreDense, Versions
<1>7. DraftInv'
  BY DEF TypeOK, DraftInv, Versions, CaseOf
<1>8. RaceInv'
  BY NoneAssumption DEF TypeOK, RaceInv, RefusalsAreRaces, Answered, CaseOf, OpInv, CaseExists
<1>9. QED
  BY <1>1, <1>2, <1>3, <1>4, <1>5, <1>6, <1>7, <1>8

LEMMA ReceiveDraftInv ==
  ASSUME IInv, NEW r \in Requests, ReceiveDraft(r) PROVE IInv'
<1> USE DEF IInv, ReceiveDraft, Arrive, End, caseVars, fileVars, draftVars
<1>1. TypeOK'
  BY CitationsAssumption DEF TypeOK, InFlight, Ended, Answered
<1>2. OpInv' /\ CaseInv'
  BY NoneAssumption DEF TypeOK, OpInv, CaseInv, CaseExists, CaseOf, Body
<1>3. FileInv'
  BY CitationsAssumption DEF TypeOK, FileInv
<1>4. LatestInv'
  BY LatestKept
<1>5. AuditInv'
  BY AuditKept, CaseType DEF TypeOK, InFlight, CaseExists
<1>6. MaxInv' /\ VersionsAreDense'
  BY DEF TypeOK, MaxInv, VersionsAreDense, Versions
<1>7. DraftInv'
  BY DEF TypeOK, DraftInv, Versions, CaseOf
<1>8. RaceInv'
  BY NoneAssumption DEF TypeOK, RaceInv, RefusalsAreRaces, Answered, CaseOf, OpInv, CaseExists
<1>9. QED
  BY <1>1, <1>2, <1>3, <1>4, <1>5, <1>6, <1>7, <1>8

LEMMA ComputeVersionInv ==
  ASSUME IInv, NEW r \in Requests, ComputeVersion(r) PROVE IInv'
<1> USE DEF IInv, ComputeVersion, Continue, caseVars, fileVars
<1>1. TypeOK'
  <2>1. version' \in [Requests -> Nat]
    BY CaseType, LastVersionMax DEF TypeOK
  <2>2. QED
    BY <2>1 DEF TypeOK, InFlight, Ended
<1>2. OpInv' /\ CaseInv'
  BY NoneAssumption DEF TypeOK, OpInv, CaseInv, CaseExists, CaseOf, Body
<1>3. FileInv'
  BY CitationsAssumption DEF TypeOK, FileInv
<1>4. LatestInv'
  BY LatestKept
<1>5. AuditInv'
  BY AuditKept, CaseType DEF TypeOK, InFlight, CaseExists
<1>6. MaxInv' /\ VersionsAreDense'
  BY DEF TypeOK, MaxInv, VersionsAreDense, Versions
<1>7. DraftInv'
  <2>1. CaseOf(r) \in Alerts /\ LastVersion(CaseOf(r)) \in Versions(CaseOf(r)) \cup {0}
        /\ LastVersion(CaseOf(r)) \in Nat
    BY CaseType, LastVersionMax
  <2>2. /\ version'[r] = LastVersion(CaseOf(r)) + 1
        /\ pc'[r] = "insertDraft"
        /\ \A s \in Requests : s # r => pc'[s] = pc[s] /\ version'[s] = version[s]
    BY DEF TypeOK
  <2>3. version'[r] >= 1 /\ (version'[r] = 1 \/ version'[r] - 1 \in Versions(CaseOf(r)))
    BY <2>1, <2>2
  <2>4. \A s \in Requests : CaseOf(s)' = CaseOf(s) /\ Versions(CaseOf(s))' = Versions(CaseOf(s))
    BY DEF CaseOf, Versions
  <2>5. QED
    BY <2>2, <2>3, <2>4 DEF DraftInv
<1>8. RaceInv'
  <2>1. /\ version'[r] = LastVersion(CaseOf(r)) + 1
        /\ pc'[r] = "insertDraft"
        /\ \A s \in Requests : s # r => pc'[s] = pc[s] /\ version'[s] = version[s]
    BY DEF TypeOK
  <2>2. \A d \in drafts : d.case = CaseOf(r) => d.version # version'[r]
    <3>1. CaseOf(r) \in Alerts /\ \A w \in Versions(CaseOf(r)) : w <= LastVersion(CaseOf(r)) /\ w \in Nat
                               /\ LastVersion(CaseOf(r)) \in Nat
      BY CaseType, LastVersionMax
    <3>2. \A w \in Versions(CaseOf(r)) : w # version'[r]
      BY <2>1, <3>1
    <3>3. QED
      BY <3>2 DEF Versions
  <2>3. Answered' = Answered /\ \A s : CaseOf(s)' = CaseOf(s)
    BY <2>1 DEF TypeOK, Answered, CaseOf
  <2>4. QED
    BY <2>1, <2>2, <2>3 DEF RaceInv, RefusalsAreRaces, CaseOf
<1>9. QED
  BY <1>1, <1>2, <1>3, <1>4, <1>5, <1>6, <1>7, <1>8

LEMMA InsertDraftInv ==
  ASSUME IInv, NEW r \in Requests, InsertDraft(r) PROVE IInv'
<1> USE DEF IInv, InsertDraft, Continue, caseVars, fileVars
<1> DEFINE new == [case |-> CaseOf(r), version |-> version[r], by |-> r]
<1> DEFINE taken == version[r] \in Versions(CaseOf(r))
<1>a. /\ CaseOf(r) \in Alerts /\ version[r] \in Nat \ {0} /\ new \in Draft
      /\ pc[r] = "insertDraft"
      /\ \A s : CaseOf(s)' = CaseOf(s)
  <2>1. CaseOf(r) \in Alerts
    BY CaseType
  <2>2. version[r] \in Nat /\ version[r] >= 1
    BY DEF TypeOK, DraftInv
  <2>3. version[r] \in Nat \ {0}
    BY <2>2
  <2>4. QED
    BY <2>1, <2>3 DEF Draft, CaseOf
<1>b. \A c \in Alerts : Versions(c)' = Versions(c) \cup
        (IF ~taken /\ c = CaseOf(r) THEN {version[r]} ELSE {})
  BY <1>a DEF Versions
<1>c. \A c \in Alerts : Versions(c) \subseteq Nat \ {0}
  BY DEF TypeOK, Versions, Draft
<1>1. TypeOK'
  <2>1. drafts' \subseteq Draft
    BY <1>a DEF TypeOK
  <2>2. QED
    BY <2>1 DEF TypeOK, InFlight, Ended
<1>2. OpInv' /\ CaseInv'
  BY NoneAssumption DEF TypeOK, OpInv, CaseInv, CaseExists, CaseOf, Body
<1>3. FileInv'
  BY CitationsAssumption DEF TypeOK, FileInv
<1>4. LatestInv'
  BY LatestKept
<1>5. AuditInv'
  BY AuditKept, CaseType DEF TypeOK, InFlight, CaseExists
<1>6. MaxInv' /\ VersionsAreDense'
  <2>1. MaxInv'
    <3> SUFFICES ASSUME NEW c \in Alerts
                 PROVE \E v \in Versions(c)' \cup {0} : \A w \in Versions(c)' : w <= v
      BY DEF MaxInv
    <3>1. PICK v \in Versions(c) \cup {0} : \A w \in Versions(c) : w <= v
      BY DEF MaxInv
    <3>2. v \in Nat /\ version[r] \in Nat
      BY <1>a, <1>c
    <3>3. CASE v < version[r]
      <4>1. \A w \in Versions(c) \cup {version[r]} : w <= version[r]
        BY <1>c, <3>1, <3>2, <3>3
      <4>2. QED
        BY <1>b, <3>1, <4>1
    <3>4. CASE version[r] <= v
      BY <1>b, <3>1, <3>4
    <3>5. QED
      BY <3>2, <3>3, <3>4
  <2>2. ASSUME NEW d \in drafts', NEW v \in 1..d.version PROVE v \in Versions(d.case)'
    <3>1. CASE d \in drafts
      BY <1>b, <3>1 DEF TypeOK, Draft, VersionsAreDense
    <3>2. CASE d = new /\ ~taken
      <4>1. v = version[r] \/ (version[r] - 1 \in Versions(CaseOf(r)) /\ v \in 1..(version[r] - 1))
        BY <1>a, <3>2 DEF DraftInv
      <4>2. CASE v = version[r]
        BY <1>a, <1>b, <3>2, <4>2
      <4>3. CASE version[r] - 1 \in Versions(CaseOf(r)) /\ v \in 1..(version[r] - 1)
        <5>1. PICK e \in drafts : e.case = CaseOf(r) /\ e.version = version[r] - 1
          BY <4>3 DEF Versions
        <5>2. v \in Versions(CaseOf(r))
          BY <4>3, <5>1 DEF VersionsAreDense
        <5>3. QED
          BY <1>a, <1>b, <3>2, <5>2
      <4>4. QED
        BY <4>1, <4>2, <4>3
    <3>3. QED
      BY <3>1, <3>2
  <2>3. ASSUME NEW d \in drafts', NEW e \in drafts', d.case = e.case, d.version = e.version
        PROVE  d = e
    <3>1. ~taken => \A f \in drafts : f.case = CaseOf(r) => f.version # version[r]
      BY DEF Versions
    <3>2. QED
      BY <1>a, <2>3, <3>1 DEF VersionsAreDense
  <2>4. QED
    BY <2>1, <2>2, <2>3 DEF VersionsAreDense
<1>7. DraftInv'
  <2>1. /\ pc'[r] = "readDraft" => version[r] \in Versions(CaseOf(r))'
        /\ pc'[r] \in {"readDraft", "conflict"}
        /\ \A s \in Requests : s # r => pc'[s] = pc[s]
    BY <1>a, <1>b DEF TypeOK
  <2>2. \A s \in Requests : CaseOf(s) \in Alerts /\ Versions(CaseOf(s)) \subseteq Versions(CaseOf(s))'
    BY <1>a, <1>b, CaseType
  <2>3. QED
    BY <1>a, <2>1, <2>2 DEF DraftInv
<1>8. RaceInv'
  <2>1. /\ pc'[r] \in {"readDraft", "conflict"}
        /\ pc'[r] = "conflict" <=> taken
        /\ \A s \in Requests : s # r => pc'[s] = pc[s]
    BY DEF TypeOK
  <2>2. Answered' = Answered /\ r \notin Answered
    BY <1>a, <2>1 DEF TypeOK, Answered
  <2>3. \A s \in Requests : r \notin before[s]
    BY <2>2 DEF RaceInv
  <2>4. taken => \E d \in drafts : d.case = CaseOf(r) /\ d.version = version[r] /\ d.by \notin before[r]
    BY <1>a DEF Versions, RaceInv
  <2>5. \A d \in drafts' : d \in drafts \/ d.by = r
    OBVIOUS
  <2>6. RefusalsAreRaces'
    BY <1>a, <2>1, <2>4 DEF RaceInv, RefusalsAreRaces, OpInv, CaseOf
  <2>7. QED
    BY <2>1, <2>2, <2>3, <2>5, <2>6 DEF RaceInv, CaseOf
<1>9. QED
  BY <1>1, <1>2, <1>3, <1>4, <1>5, <1>6, <1>7, <1>8

LEMMA ReadDraftInv ==
  ASSUME IInv, NEW r \in Requests, ReadDraft(r) PROVE IInv'
<1> USE DEF IInv, ReadDraft, Continue, caseVars, fileVars, draftVars
<1>a. PICK latest \in drafts : given' = [given EXCEPT ![r] = latest]
  <2>1. CaseOf(r) \in Alerts /\ Versions(CaseOf(r)) # {}
    BY CaseType DEF DraftInv
  <2>2. QED
    BY <2>1, LatestDraftExists
<1>1. TypeOK'
  <2>1. given' \in [Requests -> Requests \cup Draft \cup {None, Earlier}]
    BY <1>a DEF TypeOK
  <2>2. QED
    BY <2>1 DEF TypeOK, InFlight, Ended
<1>2. OpInv' /\ CaseInv'
  BY NoneAssumption DEF TypeOK, OpInv, CaseInv, CaseExists, CaseOf, Body
<1>3. FileInv'
  BY CitationsAssumption DEF TypeOK, FileInv
<1>4. LatestInv'
  BY LatestKept
<1>5. AuditInv'
  BY AuditKept, CaseType DEF TypeOK, InFlight, CaseExists
<1>6. MaxInv' /\ VersionsAreDense'
  BY DEF TypeOK, MaxInv, VersionsAreDense, Versions
<1>7. DraftInv'
  <2>1. given'[r] = latest /\ pc'[r] = "auditDraft"
        /\ \A s \in Requests : s # r => pc'[s] = pc[s] /\ given'[s] = given[s]
    BY <1>a DEF TypeOK
  <2>2. \A s \in Requests : Versions(CaseOf(s))' = Versions(CaseOf(s)) /\ CaseOf(s)' = CaseOf(s)
    BY DEF CaseOf, Versions
  <2>3. version' = version /\ drafts' = drafts
    OBVIOUS
  <2> HIDE DEF ReadDraft
  <2>4. QED
    BY <2>1, <2>2, <2>3 DEF DraftInv
<1>8. RaceInv'
  BY NoneAssumption DEF TypeOK, RaceInv, RefusalsAreRaces, Answered, CaseOf, OpInv, CaseExists
<1>9. QED
  BY <1>1, <1>2, <1>3, <1>4, <1>5, <1>6, <1>7, <1>8

LEMMA RecordDraftInv ==
  ASSUME IInv, NEW r \in Requests, RecordDraft(r) PROVE IInv'
<1> USE DEF IInv, RecordDraft, Continue, Log, caseVars, fileVars, draftVars
<1> DEFINE e == [type |-> "DRAFT_CREATED", by |-> r, case |-> CaseOf(r), version |-> given[r].version]
<1>a. e \in AuditEvent
  <2>1. given[r] \in Draft
    BY DEF TypeOK, DraftInv
  <2>2. QED
    BY <2>1, CaseType DEF AuditEvent, EventType, Draft
<1>b. \A s \in Requests : pc[s] = "ok" => pc'[s] = "ok"
  BY DEF TypeOK
<1>d. AuditInv' /\ trail' \in Seq(AuditEvent)
  BY <1>a, <1>b, AuditAppended
<1>1. TypeOK'
  BY <1>d DEF TypeOK, InFlight, Ended
<1>2. OpInv' /\ CaseInv'
  BY NoneAssumption DEF TypeOK, OpInv, CaseInv, CaseExists, CaseOf, Body
<1>3. FileInv'
  BY CitationsAssumption DEF TypeOK, FileInv
<1>4. LatestInv'
  BY LatestKept
<1>5. AuditInv'
  BY <1>d
<1>6. MaxInv' /\ VersionsAreDense'
  BY DEF TypeOK, MaxInv, VersionsAreDense, Versions
<1>7. DraftInv'
  BY DEF TypeOK, DraftInv, Versions, CaseOf
<1>8. RaceInv'
  BY NoneAssumption DEF TypeOK, RaceInv, RefusalsAreRaces, Answered, CaseOf, OpInv, CaseExists
<1>9. QED
  BY <1>1, <1>2, <1>3, <1>4, <1>5, <1>6, <1>7, <1>8

LEMMA FailInv ==
  ASSUME IInv, NEW r \in Requests, Fail(r) PROVE IInv'
<1> USE DEF IInv, Fail, End, caseVars, fileVars, draftVars
<1>1. TypeOK'
  BY CitationsAssumption DEF TypeOK, InFlight, Ended, Answered
<1>2. OpInv' /\ CaseInv'
  BY NoneAssumption DEF TypeOK, OpInv, CaseInv, CaseExists, CaseOf, Body
<1>3. FileInv'
  BY CitationsAssumption DEF TypeOK, FileInv
<1>4. LatestInv'
  BY LatestKept
<1>5. AuditInv'
  BY AuditKept, CaseType DEF TypeOK, InFlight, CaseExists
<1>6. MaxInv' /\ VersionsAreDense'
  BY DEF TypeOK, MaxInv, VersionsAreDense, Versions
<1>7. DraftInv'
  BY DEF TypeOK, DraftInv, Versions, CaseOf
<1>8. RaceInv'
  <2>1. pc'[r] = "failed" /\ \A s \in Requests : s # r => pc'[s] = pc[s]
    BY DEF TypeOK
  <2>2. Answered \subseteq Answered' /\ \A s : CaseOf(s)' = CaseOf(s)
    BY <2>1 DEF TypeOK, Answered, CaseOf, InFlight
  <2>3. QED
    BY <2>1, <2>2 DEF RaceInv, RefusalsAreRaces
<1>9. QED
  BY <1>1, <1>2, <1>3, <1>4, <1>5, <1>6, <1>7, <1>8

LEMMA StepInv == IInv /\ [Next]_vars => IInv'
<1> SUFFICES ASSUME IInv, [Next]_vars PROVE IInv'
  OBVIOUS
<1>1. CASE Next
  BY <1>1, SelectCaseInv, InsertCaseInv, ReadCaseInv, AssembleInv, SaveFileInv,
     SaveCitationsInv, RecordAssemblyInv, ExplainInv, RecordExplanationInv, ReceiveDraftInv,
     ComputeVersionInv, InsertDraftInv, ReadDraftInv, RecordDraftInv, FailInv DEF Next
<1>2. CASE UNCHANGED vars
  <2> USE <1>2 DEF vars, IInv
  <2>1. TypeOK' /\ OpInv' /\ CaseInv'
    BY DEF TypeOK, OpInv, CaseInv, CaseExists, CaseOf
  <2>2. FileInv' /\ LatestInv' /\ AuditInv'
    BY DEF FileInv, LatestInv, AuditInv, FilesOf, CaseOf
  <2>3. MaxInv' /\ VersionsAreDense' /\ DraftInv'
    BY DEF MaxInv, VersionsAreDense, DraftInv, Versions, CaseOf
  <2>4. RaceInv'
    BY DEF RaceInv, RefusalsAreRaces, Answered, CaseOf
  <2>5. QED
    BY <2>1, <2>2, <2>3, <2>4
<1>3. QED
  BY <1>1, <1>2

LEMMA Invariance == Spec => []IInv
BY InitInv, StepInv, PTL DEF Spec

-----------------------------------------------------------------------------
(* What the later reads find: ReadInv.                                     *)

\* A step by r, one of the disjuncts of Next ...
Step(r) ==
  \/ SelectCase(r) \/ InsertCase(r) \/ ReadCase(r)
  \/ Assemble(r) \/ SaveFile(r) \/ SaveCitations(r) \/ RecordAssembly(r)
  \/ Explain(r) \/ RecordExplanation(r)
  \/ ReceiveDraft(r) \/ ComputeVersion(r) \/ InsertDraft(r) \/ ReadDraft(r) \/ RecordDraft(r)
  \/ Fail(r)

\* ... what it leaves to the others, and what it keeps of its own.
Moves(r) ==
  /\ body' = body
  /\ \A s \in Requests : s # r => /\ pc'[s] = pc[s] /\ before'[s] = before[s]
                                  /\ version'[s] = version[s] /\ given'[s] = given[s]
                                  /\ assembledAt'[s] = assembledAt[s]
  /\ pc[r] \in {"idle"} \cup InFlight /\ pc'[r] # "idle"
  /\ pc[r] # "idle" => before'[r] = before[r] /\ assembledAt'[r] = assembledAt[r]
  /\ pc[r] = "idle" => before'[r] = Answered
  /\ pc[r] # "version" => version'[r] = version[r]
  /\ pc[r] # "insertDraft" => drafts' = drafts
  /\ files \subseteq files' /\ drafts \subseteq drafts'

\* Every step is some request's.
LEMMA StepMoves ==
  ASSUME IInv, NEW r \in Requests, Step(r)
  PROVE  Moves(r)
<1> USE DEF IInv, TypeOK, Moves, InFlight, Arrive, Continue, End, caseVars, fileVars, draftVars
<1>1. CASE SelectCase(r) \/ ReceiveDraft(r)
  BY <1>1 DEF SelectCase, ReceiveDraft
<1>2. CASE InsertCase(r) \/ ReadCase(r)
  BY <1>2 DEF InsertCase, ReadCase
<1>3. CASE Assemble(r)
  BY <1>3 DEF Assemble
<1>4. CASE SaveFile(r) \/ SaveCitations(r)
  BY <1>4 DEF SaveFile, SaveCitations
<1>5. CASE RecordAssembly(r) \/ RecordExplanation(r) \/ RecordDraft(r)
  BY <1>5 DEF RecordAssembly, RecordExplanation, RecordDraft
<1>6. CASE Explain(r)
  BY <1>6 DEF Explain
<1>7. CASE ComputeVersion(r)
  BY <1>7 DEF ComputeVersion
<1>8. CASE InsertDraft(r)
  BY <1>8 DEF InsertDraft
<1>9. CASE ReadDraft(r)
  BY <1>9 DEF ReadDraft
<1>10. CASE Fail(r)
  BY <1>10 DEF Fail
<1>11. QED
  BY <1>1, <1>2, <1>3, <1>4, <1>5, <1>6, <1>7, <1>8, <1>9, <1>10 DEF Step

\* Where a handler gets to, and by which step.
LEMMA Arrivals ==
  ASSUME IInv, NEW r \in Requests, Step(r)
  PROVE  /\ pc'[r] = "explain" => Explain(r)
         /\ pc'[r] = "version" => RecordExplanation(r) \/ ReceiveDraft(r)
         /\ pc'[r] = "insertDraft" => ComputeVersion(r)
         /\ pc'[r] = "readDraft" => InsertDraft(r)
         /\ pc'[r] = "auditDraft" => ReadDraft(r)
         /\ pc'[r] = "ok" => \/ ReadCase(r) \/ RecordAssembly(r)
                             \/ RecordExplanation(r) \/ RecordDraft(r)
<1> USE DEF IInv, TypeOK, Arrive, Continue, End
<1>1. CASE SelectCase(r) \/ InsertCase(r) \/ ReadCase(r)
  BY <1>1 DEF SelectCase, InsertCase, ReadCase
<1>2. CASE Assemble(r) \/ SaveFile(r) \/ SaveCitations(r) \/ RecordAssembly(r)
  BY <1>2 DEF Assemble, SaveFile, SaveCitations, RecordAssembly
<1>3. CASE Explain(r) \/ RecordExplanation(r) \/ ReceiveDraft(r)
  BY <1>3 DEF Explain, RecordExplanation, ReceiveDraft
<1>4. CASE ComputeVersion(r) \/ InsertDraft(r) \/ ReadDraft(r) \/ RecordDraft(r)
  BY <1>4 DEF ComputeVersion, InsertDraft, ReadDraft, RecordDraft
<1>5. CASE Fail(r)
  BY <1>5 DEF Fail
<1>6. QED
  BY <1>1, <1>2, <1>3, <1>4, <1>5 DEF Step

\* What stays when r moves.
LEMMA Stays ==
  ASSUME IInv, NEW r \in Requests, Moves(r)
  PROVE  /\ \A s : CaseOf(s)' = CaseOf(s) /\ AnswersDraft(s)' = AnswersDraft(s)
         /\ r \notin Answered /\ Answered \subseteq Answered'
         /\ \A s \in Requests : r \notin before[s] /\ before[s] \subseteq Answered
         /\ \A c : Versions(c) \subseteq Versions(c)'
<1>1. \A s : CaseOf(s)' = CaseOf(s) /\ AnswersDraft(s)' = AnswersDraft(s)
  BY DEF Moves, CaseOf, AnswersDraft
<1>2. r \notin Answered /\ Answered \subseteq Answered'
  BY DEF Moves, Answered, InFlight
<1>3. \A s \in Requests : before[s] \subseteq Answered
  BY DEF IInv, RaceInv
<1>4. \A c : Versions(c) \subseteq Versions(c)'
  BY DEF Moves, Versions
<1>5. QED
  BY <1>1, <1>2, <1>3, <1>4

\* What a step adds to the trail.
LEMMA TrailGrows ==
  ASSUME IInv, NEW r \in Requests, Step(r)
  PROVE  /\ Len(trail) \in Nat /\ Len(trail') \in Nat /\ Len(trail) <= Len(trail')
         /\ \A i \in 1..Len(trail) : trail[i] \in AuditEvent /\ trail'[i] = trail[i]
         /\ \A i \in 1..Len(trail') : i \notin 1..Len(trail) =>
              /\ trail'[i].by = r
              /\ trail'[i].type = "DRAFT_CREATED" =>
                   RecordDraft(r) /\ trail'[i].version = given[r].version
         /\ RecordExplanation(r) =>
              \E j \in 1..Len(trail') : /\ trail'[j].by = r
                                        /\ trail'[j].type = "EXPLANATION_GENERATED"
<1>1. trail \in Seq(AuditEvent) /\ Len(trail) \in Nat
  BY DEF IInv, TypeOK
<1>2. ASSUME NEW type, NEW v, Log(r, type, v)
      PROVE  /\ Len(trail') = Len(trail) + 1
             /\ \A i \in 1..Len(trail) : trail'[i] = trail[i]
             /\ trail'[Len(trail) + 1].by = r /\ trail'[Len(trail) + 1].type = type
             /\ trail'[Len(trail) + 1].version = v
  BY <1>1, <1>2 DEF Log
<1>3. \A i \in 1..Len(trail) : trail[i] \in AuditEvent
  BY <1>1
<1>4. CASE RecordAssembly(r)
  <2>1. Log(r, "CASE_FILE_ASSEMBLED", 0) /\ ~RecordExplanation(r)
    BY <1>4 DEF RecordAssembly, RecordExplanation, Continue
  <2>2. /\ Len(trail') = Len(trail) + 1
        /\ \A i \in 1..Len(trail) : trail'[i] = trail[i]
        /\ trail'[Len(trail) + 1].by = r
        /\ trail'[Len(trail) + 1].type = "CASE_FILE_ASSEMBLED"
    BY <1>2, <2>1
  <2>3. QED
    BY <1>1, <1>3, <2>1, <2>2
<1>5. CASE RecordExplanation(r)
  <2>1. Log(r, "EXPLANATION_GENERATED", 0)
    BY <1>5 DEF RecordExplanation
  <2>2. /\ Len(trail') = Len(trail) + 1
        /\ \A i \in 1..Len(trail) : trail'[i] = trail[i]
        /\ trail'[Len(trail) + 1].by = r
        /\ trail'[Len(trail) + 1].type = "EXPLANATION_GENERATED"
    BY <1>2, <2>1
  <2>3. QED
    BY <1>1, <1>3, <2>2
<1>6. CASE RecordDraft(r)
  <2>1. Log(r, "DRAFT_CREATED", given[r].version) /\ ~RecordExplanation(r)
    BY <1>6 DEF RecordDraft, RecordExplanation, Continue
  <2>2. PICK v : v = given[r].version
    OBVIOUS
  <2>3. Log(r, "DRAFT_CREATED", v)
    BY <2>1, <2>2
  <2>4. /\ Len(trail') = Len(trail) + 1
        /\ \A i \in 1..Len(trail) : trail'[i] = trail[i]
        /\ trail'[Len(trail) + 1].by = r
        /\ trail'[Len(trail) + 1].version = given[r].version
    BY <1>2, <2>2, <2>3
  <2>5. QED
    BY <1>1, <1>3, <1>6, <2>1, <2>4
<1>7. CASE trail' = trail /\ ~RecordExplanation(r)
  BY <1>1, <1>3, <1>7
<1>8. QED
  <2>1. \/ RecordAssembly(r) \/ RecordExplanation(r) \/ RecordDraft(r) \/ trail' = trail
    BY DEF Step, SelectCase, InsertCase, ReadCase, Assemble, SaveFile, SaveCitations, Explain,
       ReceiveDraft, ComputeVersion, InsertDraft, ReadDraft, Fail
  <2>2. QED
    BY <1>4, <1>5, <1>6, <1>7, <2>1

LEMMA PersistStep ==
  ASSUME IInv, ReadInv, NEW r \in Requests, Step(r) PROVE PersistInv'
<1>1. Moves(r)
  BY StepMoves
<1>2. ASSUME NEW s \in Requests, NEW j \in 1..Len(trail),
             trail[j].by = s, trail[j].type = "EXPLANATION_GENERATED"
      PROVE  \E k \in 1..Len(trail') : /\ trail'[k].by = s
                                       /\ trail'[k].type = "EXPLANATION_GENERATED"
  <2>1. j \in 1..Len(trail') /\ trail'[j] = trail[j]
    BY TrailGrows
  <2>2. QED
    BY <1>2, <2>1
<1> SUFFICES ASSUME NEW s \in Requests,
                    pc'[s] \in {"version", "insertDraft", "readDraft", "auditDraft"}
             PROVE  /\ AnswersDraft(s)
                    /\ body[s].op = "explain" =>
                         \E j \in 1..Len(trail') : /\ trail'[j].by = s
                                                   /\ trail'[j].type = "EXPLANATION_GENERATED"
  BY <1>1, Stays DEF PersistInv, Moves
<1>3. CASE pc[s] \in {"version", "insertDraft", "readDraft", "auditDraft"}
  BY <1>2, <1>3 DEF ReadInv, PersistInv
<1>4. CASE pc[s] \notin {"version", "insertDraft", "readDraft", "auditDraft"}
  <2>1. s = r
    BY <1>1, <1>4 DEF Moves
  <2>2. RecordExplanation(r) \/ ReceiveDraft(r)
    BY <1>4, <2>1, Arrivals DEF ComputeVersion, InsertDraft, ReadDraft, Continue
  <2>3. CASE RecordExplanation(r)
    <3>1. pc[r] = "explain" /\ pc'[r] = IF body[r].persist THEN "version" ELSE "ok"
      BY <2>3 DEF RecordExplanation, Continue, IInv, TypeOK
    <3>2. body[r].op = "explain" /\ body[r].persist
      BY <2>1, <3>1 DEF IInv, OpInv
    <3>3. QED
      BY <2>1, <2>3, <3>2, TrailGrows DEF AnswersDraft
  <2>4. CASE ReceiveDraft(r)
    BY <2>1, <2>4 DEF ReceiveDraft, Arrive, AnswersDraft
  <2>5. QED
    BY <2>2, <2>3, <2>4
<1>5. QED
  BY <1>3, <1>4

LEMMA FreshFileStep ==
  ASSUME IInv, ReadInv, NEW r \in Requests, Step(r) PROVE FreshFileInv'
<1>1. Moves(r)
  BY StepMoves
<1>2. /\ \A s : CaseOf(s)' = CaseOf(s)
      /\ r \notin Answered
      /\ \A s \in Requests : r \notin before[s] /\ before[s] \subseteq Answered
  BY <1>1, Stays
<1>3. ASSUME NEW s \in Answered', body[s].op = "assemble" PROVE s \in files'
  <2>1. CASE s # r
    <3>1. s \in Answered
      BY <1>1, <2>1 DEF Moves, Answered
    <3>2. QED
      BY <1>1, <1>3, <3>1 DEF Moves, ReadInv, FreshFileInv
  <2>2. CASE s = r
    <3>1. ReadCase(r) \/ RecordAssembly(r) \/ RecordExplanation(r) \/ RecordDraft(r)
      BY <2>2, Arrivals DEF Answered
    <3>2. RecordAssembly(r)
      BY <1>3, <2>2, <3>1 DEF IInv, OpInv, ReadCase, RecordExplanation, RecordDraft, Continue
    <3>3. r \in files
      BY <3>2 DEF IInv, FileInv, RecordAssembly, Continue
    <3>4. QED
      BY <1>1, <2>2, <3>3 DEF Moves
  <2>3. QED
    BY <2>1, <2>2
<1>4. ASSUME NEW s \in Requests,
             pc'[s] = "explain" \/ (pc'[s] = "ok" /\ body[s].op = "explain" /\ ~body[s].persist)
      PROVE  /\ given'[s] \in files'
             /\ \A t \in before'[s] : body[t].op = "assemble" /\ CaseOf(t) = CaseOf(s)
                                      => assembledAt'[t] <= assembledAt'[given'[s]]
  <2>1. CASE Explain(r) /\ s = r
    <3>1. /\ pc[r] = "idle" /\ FilesOf(CaseOf(r)) # {} /\ assembledAt' = assembledAt
          /\ files' = files /\ given'[r] = LatestFile(CaseOf(r)) /\ before'[r] = Answered
          /\ body[r].op = "explain"
      BY <1>1, <1>4, <2>1 DEF Explain, Arrive, End, fileVars, IInv, TypeOK, Moves
    <3>2. CaseOf(r) \in Alerts /\ LatestInv
      BY CaseType DEF IInv
    <3>3. /\ given'[r] \in FilesOf(CaseOf(r))
          /\ \A g \in FilesOf(CaseOf(r)) : assembledAt[g] <= assembledAt[given'[r]]
      BY <3>1, <3>2 DEF LatestInv, LatestFile
    <3>4. \A t \in Answered : body[t].op = "assemble" /\ CaseOf(t) = CaseOf(r)
                              => t \in FilesOf(CaseOf(r))
      BY DEF ReadInv, FreshFileInv, FilesOf
    <3>5. QED
      BY <2>1, <3>1, <3>3, <3>4 DEF FilesOf
  <2>2. CASE ~(Explain(r) /\ s = r)
    <3>1. /\ given[s] \in files /\ given'[s] = given[s] /\ before'[s] = before[s]
          /\ \A t \in before[s] : body[t].op = "assemble" /\ CaseOf(t) = CaseOf(s)
                                  => assembledAt[t] <= assembledAt[given[s]]
      <4>1. CASE s # r
        BY <1>1, <1>4, <4>1 DEF Moves, ReadInv, FreshFileInv
      <4>2. CASE s = r
        <5>1. pc'[r] = "ok" /\ body[r].op = "explain" /\ ~body[r].persist
          BY <1>4, <2>2, <4>2, Arrivals
        <5>2. ReadCase(r) \/ RecordAssembly(r) \/ RecordExplanation(r) \/ RecordDraft(r)
          BY <5>1, Arrivals
        <5>3. RecordExplanation(r)
          BY <5>1, <5>2 DEF IInv, OpInv, ReadInv, PersistInv, AnswersDraft,
             ReadCase, RecordAssembly, RecordDraft, Continue
        <5>4. pc[r] = "explain" /\ given' = given /\ before' = before
          BY <5>3 DEF RecordExplanation, Continue
        <5>5. QED
          BY <4>2, <5>4 DEF ReadInv, FreshFileInv
      <4>3. QED
        BY <4>1, <4>2
    <3>2. \A t \in before[s] : t \in Requests /\ t # r /\ assembledAt'[t] = assembledAt[t]
      BY <1>1, <1>2 DEF Moves, Answered
    <3>3. assembledAt'[given[s]] = assembledAt[given[s]]
      <4>1. given[s] \in Requests
        BY <3>1 DEF IInv, TypeOK
      <4>2. given[s] = r => pc[r] # "idle"
        BY <3>1 DEF IInv, FileInv
      <4>3. QED
        BY <1>1, <4>1, <4>2 DEF Moves
    <3>4. QED
      BY <1>1, <3>1, <3>2, <3>3 DEF Moves
  <2>3. QED
    BY <2>1, <2>2
<1>5. QED
  BY <1>1, <1>2, <1>3, <1>4 DEF FreshFileInv, Moves, Answered

\* Past its insert, a draft request only goes on; a version is computed once.
LEMMA Departures ==
  ASSUME IInv, NEW r \in Requests, Step(r)
  PROVE  /\ pc[r] \in {"readDraft", "auditDraft"} => pc'[r] \in {"auditDraft", "ok", "failed"}
         /\ version' = version \/ ComputeVersion(r)
         /\ drafts' = drafts \/ InsertDraft(r)
<1> USE DEF IInv, TypeOK, Arrive, Continue, End, draftVars
<1>1. CASE SelectCase(r) \/ InsertCase(r) \/ ReadCase(r)
  BY <1>1 DEF SelectCase, InsertCase, ReadCase
<1>2. CASE Assemble(r) \/ SaveFile(r) \/ SaveCitations(r) \/ RecordAssembly(r)
  BY <1>2 DEF Assemble, SaveFile, SaveCitations, RecordAssembly
<1>3. CASE Explain(r) \/ RecordExplanation(r) \/ ReceiveDraft(r)
  BY <1>3 DEF Explain, RecordExplanation, ReceiveDraft
<1>4. CASE ComputeVersion(r) \/ InsertDraft(r) \/ ReadDraft(r) \/ RecordDraft(r)
  BY <1>4 DEF ComputeVersion, InsertDraft, ReadDraft, RecordDraft
<1>5. CASE Fail(r)
  BY <1>5 DEF Fail
<1>6. QED
  BY <1>1, <1>2, <1>3, <1>4, <1>5 DEF Step

\* What an insert that is not refused adds.
LEMMA NewDraft ==
  ASSUME IInv, NEW r \in Requests, InsertDraft(r)
  PROVE  /\ pc[r] = "insertDraft" /\ version' = version /\ body' = body
         /\ version[r] \in Nat /\ version[r] # 0
         /\ pc'[r] = "readDraft" =>
              \E d \in drafts' : d.case = CaseOf(r) /\ d.version = version[r]
         /\ \A d \in drafts' : d \notin drafts =>
              /\ d.case = CaseOf(r) /\ d.version = version[r] /\ d.by = r
              /\ pc'[r] = "readDraft"
<1>1. pc[r] = "insertDraft" /\ version' = version /\ body' = body
  BY DEF InsertDraft, Continue
<1>2. version[r] \in Nat /\ version[r] # 0
  BY <1>1 DEF IInv, TypeOK, DraftInv
<1>3. CASE version[r] \in Versions(CaseOf(r))
  BY <1>1, <1>2, <1>3 DEF InsertDraft, Continue, IInv, TypeOK
<1>4. CASE version[r] \notin Versions(CaseOf(r))
  <2>1. /\ pc'[r] = "readDraft"
        /\ drafts' = drafts \cup {[case |-> CaseOf(r), version |-> version[r], by |-> r]}
    BY <1>4 DEF InsertDraft, Continue, IInv, TypeOK
  <2> DEFINE new == [case |-> CaseOf(r), version |-> version[r], by |-> r]
  <2>2. new \in drafts' /\ new.case = CaseOf(r) /\ new.version = version[r] /\ new.by = r
    BY <2>1
  <2>3. \A d \in drafts' : d \notin drafts => d = new
    BY <2>1
  <2> HIDE DEF new
  <2>4. QED
    BY <1>1, <1>2, <2>1, <2>2, <2>3
<1>5. QED
  BY <1>3, <1>4

LEMMA OwnDraftStep ==
  ASSUME IInv, ReadInv, NEW r \in Requests, Step(r) PROVE OwnDraftInv'
<1>1. Moves(r)
  BY StepMoves
<1>2. \A s : CaseOf(s)' = CaseOf(s)
  BY <1>1, Stays
<1> SUFFICES ASSUME NEW d \in drafts'
             PROVE  /\ d.version = version'[d.by] /\ d.case = CaseOf(d.by)
                    /\ pc'[d.by] \in {"readDraft", "auditDraft", "ok", "failed"}
  BY <1>2 DEF OwnDraftInv
<1>3. CASE d \in drafts
  <2>1. /\ d.by \in Requests /\ d.version = version[d.by] /\ d.case = CaseOf(d.by)
        /\ pc[d.by] \in {"readDraft", "auditDraft", "ok", "failed"}
    BY <1>3 DEF IInv, TypeOK, Draft, ReadInv, OwnDraftInv
  <2>2. CASE d.by # r
    BY <1>1, <2>1, <2>2 DEF Moves
  <2>3. CASE d.by = r
    <3>1. pc[r] \in {"readDraft", "auditDraft"}
      BY <1>1, <2>1, <2>3 DEF Moves, InFlight
    <3>2. version'[r] = version[r] /\ pc'[r] \in {"auditDraft", "ok", "failed"}
      BY <1>1, <3>1, Departures DEF Moves
    <3>3. QED
      BY <2>1, <2>3, <3>2
  <2>4. QED
    BY <2>2, <2>3
<1>4. CASE d \notin drafts
  <2>1. InsertDraft(r)
    BY <1>4, Departures
  <2>2. QED
    BY <1>4, <2>1, NewDraft
<1>5. QED
  BY <1>3, <1>4

\* A request with a draft to give ends by recording it.
LEMMA DraftEnds ==
  ASSUME IInv, ReadInv, NEW r \in Requests, Step(r), pc'[r] = "ok", AnswersDraft(r)
  PROVE  RecordDraft(r)
<1>1. ReadCase(r) \/ RecordAssembly(r) \/ RecordExplanation(r) \/ RecordDraft(r)
  BY Arrivals
<1>2. ~ReadCase(r) /\ ~RecordAssembly(r)
  BY DEF IInv, OpInv, AnswersDraft, ReadCase, RecordAssembly, Continue
<1>3. ASSUME RecordExplanation(r) PROVE FALSE
  <2>1. pc[r] = "explain" /\ pc'[r] = IF body[r].persist THEN "version" ELSE "ok"
    BY <1>3 DEF RecordExplanation, Continue, IInv, TypeOK
  <2>2. body[r].op = "explain" /\ ~body[r].persist
    BY <2>1 DEF IInv, OpInv
  <2>3. QED
    BY <2>2 DEF AnswersDraft
<1>4. QED
  BY <1>1, <1>2, <1>3

LEMMA GivenDraftStep ==
  ASSUME IInv, ReadInv, NEW r \in Requests, Step(r) PROVE GivenDraftInv'
<1>1. Moves(r)
  BY StepMoves
<1>2. /\ \A s : CaseOf(s)' = CaseOf(s) /\ AnswersDraft(s)' = AnswersDraft(s)
      /\ \A c : Versions(c) \subseteq Versions(c)'
  BY <1>1, Stays
<1>3. ASSUME NEW s \in Requests, pc'[s] = "readDraft"
      PROVE  version'[s] \in Versions(CaseOf(s))'
  <2>1. CASE s # r
    BY <1>1, <1>2, <1>3, <2>1 DEF Moves, ReadInv, GivenDraftInv
  <2>2. CASE s = r
    <3>1. InsertDraft(r)
      BY <1>3, <2>2, Arrivals
    <3>2. version' = version /\ \E d \in drafts' : d.case = CaseOf(r) /\ d.version = version[r]
      BY <1>3, <2>2, <3>1, NewDraft
    <3>3. QED
      BY <2>2, <3>2, <1>2 DEF Versions
  <2>3. QED
    BY <2>1, <2>2
<1>4. ASSUME NEW s \in Requests, pc'[s] = "auditDraft" \/ (pc'[s] = "ok" /\ AnswersDraft(s))
      PROVE  /\ given'[s] \in drafts' /\ given'[s].case = CaseOf(s)
             /\ version'[s] <= given'[s].version
  <2>1. CASE s # r
    BY <1>1, <1>4, <2>1 DEF Moves, ReadInv, GivenDraftInv
  <2>2. CASE s = r /\ pc'[r] = "auditDraft"
    <3>1. ReadDraft(r)
      BY <2>2, Arrivals
    <3>2. /\ pc[r] = "readDraft" /\ version' = version /\ drafts' = drafts
          /\ given'[r] = CHOOSE d \in drafts : d.case = CaseOf(r) /\ d.version = LastVersion(CaseOf(r))
      BY <3>1 DEF ReadDraft, Continue, draftVars, IInv, TypeOK
    <3>3. CaseOf(r) \in Alerts /\ version[r] \in Versions(CaseOf(r)) /\ TypeOK /\ MaxInv
      BY <3>2, CaseType DEF IInv, ReadInv, GivenDraftInv
    <3>4. version[r] <= LastVersion(CaseOf(r))
      BY <3>3, LastVersionMax
    <3>5. \E d \in drafts : d.case = CaseOf(r) /\ d.version = LastVersion(CaseOf(r))
      BY <3>3, LatestDraftExists
    <3>6. /\ given'[r] \in drafts /\ given'[r].case = CaseOf(r)
          /\ given'[r].version = LastVersion(CaseOf(r))
      BY <3>2, <3>5
    <3>7. QED
      BY <2>2, <3>2, <3>4, <3>6
  <2>3. CASE s = r /\ pc'[r] = "ok"
    <3>1. RecordDraft(r)
      BY <1>4, <2>3, DraftEnds
    <3>2. pc[r] = "auditDraft" /\ UNCHANGED <<version, drafts, given>>
      BY <3>1 DEF RecordDraft, Continue, draftVars
    <3>3. QED
      BY <2>3, <3>2 DEF ReadInv, GivenDraftInv
  <2>4. QED
    BY <1>4, <2>1, <2>2, <2>3
<1>5. QED
  BY <1>2, <1>3, <1>4 DEF GivenDraftInv

LEMMA PassedStep ==
  ASSUME IInv, ReadInv, NEW r \in Requests, Step(r) PROVE PassedInv'
<1>1. Moves(r)
  BY StepMoves
<1>2. /\ \A s : CaseOf(s)' = CaseOf(s) /\ AnswersDraft(s)' = AnswersDraft(s)
      /\ r \notin Answered
      /\ \A s \in Requests : r \notin before[s] /\ before[s] \subseteq Answered
  BY <1>1, Stays
<1>3. ASSUME NEW s \in Requests, pc'[s] = "idle" PROVE version'[s] = 0
  BY <1>1, <1>3 DEF Moves, ReadInv, PassedInv
<1>4. ASSUME NEW s \in Requests,
             pc'[s] \in {"readDraft", "auditDraft"} \/ (pc'[s] = "ok" /\ AnswersDraft(s))
      PROVE  version'[s] # 0
  <2>1. CASE s # r
    BY <1>1, <1>4, <2>1 DEF Moves, ReadInv, PassedInv
  <2>2. CASE s = r /\ pc'[r] = "readDraft"
    BY <2>2, Arrivals, NewDraft
  <2>3. CASE s = r /\ pc'[r] = "auditDraft"
    <3>1. pc[r] = "readDraft" /\ version' = version
      BY <2>3, Arrivals DEF ReadDraft, Continue, draftVars
    <3>2. QED
      BY <2>3, <3>1 DEF ReadInv, PassedInv
  <2>4. CASE s = r /\ pc'[r] = "ok"
    <3>1. pc[r] = "auditDraft" /\ version' = version
      BY <1>4, <2>4, DraftEnds DEF RecordDraft, Continue, draftVars
    <3>2. QED
      BY <2>4, <3>1 DEF ReadInv, PassedInv
  <2>5. QED
    BY <1>4, <2>1, <2>2, <2>3, <2>4
<1>5. ASSUME NEW s \in Requests, version'[s] # 0
      PROVE  /\ \A t \in before'[s] : AnswersDraft(t) /\ CaseOf(t) = CaseOf(s)
                                      => given'[t].version < version'[s]
             /\ \A d \in drafts' : d.case = CaseOf(s) /\ d.by \in before'[s]
                                   => d.version < version'[s]
  <2>1. CASE s = r /\ ComputeVersion(r)
    <3>1. /\ pc[r] = "version" /\ drafts' = drafts /\ given' = given /\ before' = before
          /\ version'[r] = LastVersion(CaseOf(r)) + 1
      BY <2>1 DEF ComputeVersion, Continue, IInv, TypeOK
    <3>2. /\ LastVersion(CaseOf(r)) \in Nat
          /\ \A v \in Versions(CaseOf(r)) : v \in Nat /\ v <= LastVersion(CaseOf(r))
      BY CaseType, LastVersionMax DEF IInv
    <3>3. \A d \in drafts : d.case = CaseOf(r) => d.version < version'[r]
      <4>1. \A v \in Versions(CaseOf(r)) : v < version'[r]
        BY <3>1, <3>2
      <4>2. QED
        BY <4>1 DEF Versions
    <3>4. \A t \in before[r] : AnswersDraft(t) => given[t] \in drafts /\ given[t].case = CaseOf(t)
      BY <1>2 DEF Answered, ReadInv, GivenDraftInv
    <3>5. QED
      BY <2>1, <3>1, <3>3, <3>4
  <2>2. CASE ~(s = r /\ ComputeVersion(r))
    <3>1. version'[s] = version[s]
      BY <1>1, <2>2, Departures DEF Moves
    <3>2. before'[s] = before[s]
      <4>1. s = r => pc[r] # "idle"
        BY <1>5, <3>1 DEF ReadInv, PassedInv
      <4>2. QED
        BY <1>1, <4>1 DEF Moves
    <3>3. /\ \A t \in before[s] : AnswersDraft(t) /\ CaseOf(t) = CaseOf(s)
                                  => given[t].version < version[s]
          /\ \A d \in drafts : d.case = CaseOf(s) /\ d.by \in before[s] => d.version < version[s]
      BY <1>5, <3>1 DEF ReadInv, PassedInv
    <3>4. \A t \in before[s] : t \in Requests /\ t # r /\ given'[t] = given[t]
      BY <1>1, <1>2 DEF Moves, Answered
    <3>5. \A d \in drafts' : d \in drafts \/ d.by = r
      BY Departures, NewDraft
    <3>6. QED
      BY <1>2, <3>1, <3>2, <3>3, <3>4, <3>5
  <2>3. QED
    BY <2>1, <2>2
<1>6. QED
  BY <1>2, <1>3, <1>4, <1>5 DEF PassedInv

LEMMA DraftEventStep ==
  ASSUME IInv, ReadInv, NEW r \in Requests, Step(r) PROVE DraftEventInv'
<1>1. Moves(r)
  BY StepMoves
<1>2. /\ \A s : AnswersDraft(s)' = AnswersDraft(s) /\ body' = body
      /\ r \notin Answered
  BY <1>1, Stays DEF Moves
<1> SUFFICES ASSUME NEW i \in 1..Len(trail'), trail'[i].type = "DRAFT_CREATED"
             PROVE  /\ pc'[trail'[i].by] = "ok" /\ AnswersDraft(trail'[i].by)
                    /\ trail'[i].version = given'[trail'[i].by].version
                    /\ body[trail'[i].by].op = "explain" =>
                         \E j \in 1..i : /\ trail'[j].by = trail'[i].by
                                         /\ trail'[j].type = "EXPLANATION_GENERATED"
  BY <1>2 DEF DraftEventInv, AnswersDraft
<1>3. CASE i \in 1..Len(trail)
  <2>1. trail'[i] = trail[i] /\ trail[i].by \in Requests
    BY <1>3, TrailGrows DEF AuditEvent
  <2>2. /\ pc[trail[i].by] = "ok" /\ AnswersDraft(trail[i].by)
        /\ trail[i].version = given[trail[i].by].version
        /\ body[trail[i].by].op = "explain" =>
             \E j \in 1..i : /\ trail[j].by = trail[i].by
                             /\ trail[j].type = "EXPLANATION_GENERATED"
    BY <1>3, <2>1 DEF ReadInv, DraftEventInv
  <2>3. trail[i].by # r
    BY <1>2, <2>1, <2>2 DEF Answered
  <2>4. \A j \in 1..i : trail'[j] = trail[j]
    BY <1>3, TrailGrows
  <2>5. QED
    BY <1>1, <2>1, <2>2, <2>3, <2>4 DEF Moves
<1>4. CASE i \notin 1..Len(trail)
  <2>1. trail'[i].by = r /\ RecordDraft(r) /\ trail'[i].version = given[r].version
    BY <1>4, TrailGrows
  <2>2. pc[r] = "auditDraft" /\ pc'[r] = "ok" /\ given' = given
    BY <2>1 DEF RecordDraft, Continue, IInv, TypeOK
  <2>3. /\ AnswersDraft(r)
        /\ body[r].op = "explain" =>
             \E j \in 1..Len(trail) : trail[j].by = r /\ trail[j].type = "EXPLANATION_GENERATED"
    BY <2>2 DEF ReadInv, PersistInv
  <2>4. \A j \in 1..Len(trail) : j \in 1..i /\ trail'[j] = trail[j]
    BY <1>4, TrailGrows
  <2>5. QED
    BY <2>1, <2>2, <2>3, <2>4
<1>5. QED
  BY <1>3, <1>4

LEMMA ReadStep == IInv /\ ReadInv /\ [Next]_vars => ReadInv'
<1> SUFFICES ASSUME IInv, ReadInv, [Next]_vars PROVE ReadInv'
  OBVIOUS
<1>1. CASE Next
  <2>1. PICK r \in Requests : Step(r)
    BY <1>1 DEF Next, Step
  <2>2. QED
    BY <2>1, PersistStep, FreshFileStep, OwnDraftStep, GivenDraftStep, PassedStep,
       DraftEventStep DEF ReadInv
<1>2. CASE UNCHANGED vars
  <2> USE <1>2 DEF vars, ReadInv
  <2>1. PersistInv' /\ FreshFileInv' /\ OwnDraftInv'
    BY DEF PersistInv, FreshFileInv, OwnDraftInv, AnswersDraft, Answered, CaseOf
  <2>2. GivenDraftInv' /\ PassedInv' /\ DraftEventInv'
    BY DEF GivenDraftInv, PassedInv, DraftEventInv, AnswersDraft, Versions, CaseOf
  <2>3. QED
    BY <2>1, <2>2
<1>3. QED
  BY <1>1, <1>2

LEMMA ReadInvariance == Spec => []ReadInv
<1>1. Init => ReadInv
  <2> SUFFICES ASSUME Init PROVE ReadInv
    OBVIOUS
  <2>1. PersistInv /\ FreshFileInv /\ OwnDraftInv
    BY DEF Init, PersistInv, FreshFileInv, OwnDraftInv, Answered
  <2>2. GivenDraftInv /\ PassedInv /\ DraftEventInv
    BY DEF Init, GivenDraftInv, PassedInv, DraftEventInv
  <2>3. QED
    BY <2>1, <2>2 DEF ReadInv
<1>2. QED
  BY <1>1, ReadStep, Invariance, PTL DEF Spec

-----------------------------------------------------------------------------
(* The theorems.                                                           *)

\* The handlers keep tables, requests and events well-typed.
THEOREM TypeCorrect == Spec => []TypeOK
<1>1. IInv => TypeOK
  BY DEF IInv
<1>2. QED
  BY <1>1, Invariance, PTL

\* All answered creates of an alert got one case (get_or_create_case).
THEOREM OneCase == Spec => []CreatesAgree
<1>1. IInv => CreatesAgree
  BY DEF IInv, CaseInv, CreatesAgree, CaseExists, Answered
<1>2. QED
  BY <1>1, Invariance, PTL

\* Draft versions count up without gaps or repeats (save_draft).
THEOREM DenseVersions == Spec => []VersionsAreDense
<1>1. IInv => VersionsAreDense
  BY DEF IInv
<1>2. QED
  BY <1>1, Invariance, PTL

\* A primary key refuses only a request that raced (get_or_create_case, save_draft).
THEOREM OnlyRacesAreRefused == Spec => []RefusalsAreRaces
<1>1. IInv => RefusalsAreRaces
  BY DEF IInv, RaceInv
<1>2. QED
  BY <1>1, Invariance, PTL

\* The event of an assembly stands for a whole file (assemble_case).
THEOREM CompleteFiles == Spec => []AuditedFilesAreComplete
<1>1. IInv => AuditedFilesAreComplete
  BY DEF IInv, AuditInv, AuditedFilesAreComplete, FilesOf
<1>2. QED
  BY <1>1, Invariance, PTL

\* An answer is never older than what was answered before its request was sent:
\* get_latest_case_file and get_latest_draft find it, whoever writes meanwhile.
THEOREM FreshReads == Spec => []ReadsAreFresh
<1>1. IInv /\ ReadInv => ReadsAreFresh
  <2> SUFFICES ASSUME IInv, ReadInv, NEW r \in Requests, pc[r] = "ok"
               PROVE  /\ body[r].op = "explain" /\ ~body[r].persist =>
                           \A s \in before[r] : body[s].op = "assemble" /\ CaseOf(s) = CaseOf(r)
                                                => assembledAt[s] <= assembledAt[given[r]]
                      /\ AnswersDraft(r) =>
                           /\ given[r] \in drafts /\ given[r].case = CaseOf(r)
                           /\ version[r] <= given[r].version
                           /\ \A s \in before[r] : AnswersDraft(s) /\ CaseOf(s) = CaseOf(r)
                                                   => given[s].version < given[r].version
    BY DEF ReadsAreFresh, Answered
  <2>1. ASSUME body[r].op = "explain", ~body[r].persist
        PROVE  \A s \in before[r] : body[s].op = "assemble" /\ CaseOf(s) = CaseOf(r)
                                    => assembledAt[s] <= assembledAt[given[r]]
    BY <2>1 DEF ReadInv, FreshFileInv
  <2>2. ASSUME AnswersDraft(r)
        PROVE  /\ given[r] \in drafts /\ given[r].case = CaseOf(r)
               /\ version[r] <= given[r].version
               /\ \A s \in before[r] : AnswersDraft(s) /\ CaseOf(s) = CaseOf(r)
                                       => given[s].version < given[r].version
    <3>1. given[r] \in drafts /\ given[r].case = CaseOf(r) /\ version[r] <= given[r].version
      BY <2>2 DEF ReadInv, GivenDraftInv
    <3>2. version[r] \in Nat /\ given[r].version \in Nat
      BY <3>1 DEF IInv, TypeOK, Draft
    <3>3. ASSUME NEW s \in before[r], AnswersDraft(s), CaseOf(s) = CaseOf(r)
          PROVE  given[s].version < given[r].version
      <4>1. given[s].version < version[r]
        BY <2>2, <3>3 DEF ReadInv, PassedInv
      <4>2. s \in Requests /\ pc[s] = "ok"
        BY <3>3 DEF IInv, RaceInv, Answered
      <4>3. given[s].version \in Nat
        BY <3>3, <4>2 DEF IInv, TypeOK, Draft, ReadInv, GivenDraftInv
      <4>4. QED
        BY <3>1, <3>2, <4>1, <4>3
    <3>4. QED
      BY <3>1, <3>3
  <2>3. QED
    BY <2>1, <2>2
<1>2. QED
  BY <1>1, Invariance, ReadInvariance, PTL

\* A DRAFT_CREATED event names another's draft only if the two requests overlapped,
\* and follows the event of its explanation.
THEOREM AuditedDrafts == Spec => []LoneDraftsAreAudited
<1>1. IInv /\ ReadInv => LoneDraftsAreAudited
  <2> SUFFICES ASSUME IInv, ReadInv,
                      NEW i \in 1..Len(trail), trail[i].type = "DRAFT_CREATED",
                      NEW r, r = trail[i].by
               PROVE  /\ \/ trail[i].version = version[r]
                         \/ \E d \in drafts : d.case = CaseOf(r) /\ d.version = trail[i].version
                                              /\ d.by \notin before[r] /\ r \notin before[d.by]
                      /\ body[r].op = "explain" =>
                           \E j \in 1..i : trail[j].by = r /\ trail[j].type = "EXPLANATION_GENERATED"
    BY DEF LoneDraftsAreAudited
  <2>1. r \in Requests
    <3>1. trail \in Seq(AuditEvent)
      BY DEF IInv, TypeOK
    <3>2. trail[i] \in AuditEvent
      BY <3>1
    <3>3. QED
      BY <3>2 DEF AuditEvent
  <2>2. /\ pc[r] = "ok" /\ AnswersDraft(r) /\ trail[i].version = given[r].version
        /\ body[r].op = "explain" =>
             \E j \in 1..i : trail[j].by = r /\ trail[j].type = "EXPLANATION_GENERATED"
    BY DEF ReadInv, DraftEventInv
  <2>3. ASSUME trail[i].version # version[r]
        PROVE  \E d \in drafts : d.case = CaseOf(r) /\ d.version = trail[i].version
                                 /\ d.by \notin before[r] /\ r \notin before[d.by]
    <3> DEFINE d == given[r]
    <3>1. d \in drafts /\ d.case = CaseOf(r) /\ version[r] <= d.version /\ version[r] # 0
      BY <2>1, <2>2 DEF ReadInv, GivenDraftInv, PassedInv
    <3>2. /\ version[r] \in Nat /\ d.version \in Nat \ {0} /\ d.by \in Requests
          /\ d.version = version[d.by] /\ d.case = CaseOf(d.by)
      BY <2>1, <3>1 DEF IInv, TypeOK, Draft, ReadInv, OwnDraftInv
    <3>3. d.by \notin before[r]
      <4>1. ASSUME d.by \in before[r] PROVE d.version < version[r]
        BY <2>1, <3>1, <4>1 DEF ReadInv, PassedInv
      <4>2. QED
        BY <3>1, <3>2, <4>1
    <3>4. r \notin before[d.by]
      <4>1. ASSUME r \in before[d.by] PROVE d.version < version[d.by]
        BY <2>2, <3>1, <3>2, <4>1 DEF ReadInv, PassedInv
      <4>2. QED
        BY <3>2, <4>1
    <3>5. QED
      BY <2>2, <3>1, <3>3, <3>4
  <2>4. QED
    BY <2>2, <2>3
<1>2. QED
  BY <1>1, Invariance, ReadInvariance, PTL

\* Cases, files, drafts and events are only ever added (the repository has no
\* update or delete for them).
THEOREM AddOnly == Spec => RecordsAreKept
<1>1. ASSUME IInv, [Next]_vars
      PROVE  [ /\ \A a \in Alerts : cases[a] # None => cases'[a] = cases[a]
               /\ files \subseteq files' /\ drafts \subseteq drafts'
               /\ Len(trail) <= Len(trail') /\ \A i \in 1..Len(trail) : trail'[i] = trail[i]
             ]_<<cases, files, drafts, trail>>
  <2>1. trail \in Seq(AuditEvent) /\ Len(trail) \in Nat
    BY <1>1 DEF IInv, TypeOK
  <2>2. ASSUME NEW r \in Requests, NEW type, NEW v, Log(r, type, v)
        PROVE  Len(trail) <= Len(trail') /\ \A i \in 1..Len(trail) : trail'[i] = trail[i]
    BY <2>1, <2>2 DEF Log
  <2>3. ASSUME NEW r \in Requests, InsertCase(r)
        PROVE  \A a \in Alerts : cases[a] # None => cases'[a] = cases[a]
    BY <1>1, <2>3 DEF IInv, TypeOK, InsertCase, CaseExists
  <2>4. CASE UNCHANGED vars
    BY <2>4 DEF vars
  <2>5. CASE Next
    <3>1. PICK r \in Requests :
            \/ SelectCase(r) \/ InsertCase(r) \/ ReadCase(r)
            \/ Assemble(r) \/ SaveFile(r) \/ SaveCitations(r) \/ RecordAssembly(r)
            \/ Explain(r) \/ RecordExplanation(r)
            \/ ReceiveDraft(r) \/ ComputeVersion(r) \/ InsertDraft(r) \/ ReadDraft(r)
            \/ RecordDraft(r) \/ Fail(r)
      BY <2>5 DEF Next
    <3>2. CASE RecordAssembly(r) \/ RecordExplanation(r) \/ RecordDraft(r)
      BY <2>2, <3>2 DEF RecordAssembly, RecordExplanation, RecordDraft, Log,
         caseVars, fileVars, draftVars
    <3>3. CASE InsertCase(r)
      BY <2>1, <2>3, <3>3 DEF InsertCase, fileVars, draftVars
    <3>4. CASE SaveFile(r) \/ InsertDraft(r)
      BY <2>1, <3>4 DEF SaveFile, InsertDraft, caseVars, fileVars, draftVars
    <3>5. CASE SelectCase(r) \/ ReadCase(r) \/ Assemble(r) \/ SaveCitations(r) \/ Explain(r)
               \/ ReceiveDraft(r) \/ ComputeVersion(r) \/ ReadDraft(r) \/ Fail(r)
      BY <3>5 DEF SelectCase, ReadCase, Assemble, SaveCitations, Explain, ReceiveDraft,
         ComputeVersion, ReadDraft, Fail, caseVars, fileVars, draftVars
    <3>6. QED
      BY <3>1, <3>2, <3>3, <3>4, <3>5
  <2>6. QED
    BY <1>1, <2>4, <2>5
<1>2. QED
  BY <1>1, Invariance, PTL DEF Spec, RecordsAreKept
=============================================================================
