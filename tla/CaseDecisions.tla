---------------------------- MODULE CaseDecisions ----------------------------
(***************************************************************************)
(* Human decisions on cases: POST /cases/{case_id}/decisions               *)
(* (api/routers/cases.py, create_decision) over the CASES, DECISIONS and   *)
(* AUDIT_EVENTS tables.                                                    *)
(*                                                                         *)
(* The endpoint is a plain `def`, so FastAPI runs each request on a thread *)
(* of its own against one shared repository.  Every repository call is one *)
(* statement in a transaction of its own: a step of the model is one such  *)
(* call, and the steps of different requests interleave freely.  A request *)
(* may be cut short at any of its calls, by an exception of the database   *)
(* (answered 500) or by the end of the process.                            *)
(*                                                                         *)
(* The requests of this module carry no Idempotency-Key, which the header  *)
(* parameter allows; module Idempotency models the handlers that do.       *)
(***************************************************************************)
EXTENDS Naturals, Sequences

CONSTANTS
  Cases,        \* the rows of CASES; a case is never deleted
  Requests,     \* the POST requests, each served once by a thread of its own
  NoRequest     \* "no request": the case status is the one it was created with

ASSUME NoRequestAssumption == NoRequest \notin Requests

DecisionType == {"approve_for_escalation", "return_for_edit", "request_information"}

\* A body's decision_type is any string: "other" stands for the rest of them.
DecisionRequest == [case : Cases, type : DecisionType \cup {"other"}, attested : BOOLEAN]

DecidedStatus == {"ESCALATED", "RETURNED_FOR_EDIT", "INFO_REQUESTED"}
CaseStatus == {"OPEN"} \cup DecidedStatus

CaseStatusOf(type) ==
  CASE type = "approve_for_escalation" -> "ESCALATED"
    [] type = "return_for_edit" -> "RETURNED_FOR_EDIT"
    [] OTHER -> "INFO_REQUESTED"

\* A row of DECISIONS (`id` is the request that made it) and a DECISION_RECORDED
\* row of AUDIT_EVENTS.
Decision == [id : Requests, case : Cases, type : DecisionType, attested : BOOLEAN, at : Nat]
AuditEvent == [object : Requests, case : Cases, status : DecidedStatus]

VARIABLES
  body,         \* what each request asks for: chosen by its client, never changes
  pc,           \* the repository call each request makes next, or how it ended
  clock,        \* the UTC clock, read when a decision is built
  decidedAt,    \* the decided_at of the decision each request built
  caseStatus,   \* CASES.STATUS
  decisions,    \* DECISIONS
  trail,        \* AUDIT_EVENTS, in insertion order
  before,       \* history: the requests answered before each request arrived
  setter        \* history: the request whose update caseStatus shows

vars == <<body, pc, clock, decidedAt, caseStatus, decisions, trail, before, setter>>

Answered == {r \in Requests : pc[r] = "ok"}
InFlight == {"save", "setStatus", "audit"}
Ended == {"ok", "refused", "failed"}

TypeOK ==
  /\ body \in [Requests -> DecisionRequest]
  /\ pc \in [Requests -> {"idle"} \cup InFlight \cup Ended]
  /\ clock \in Nat
  /\ decidedAt \in [Requests -> Nat]
  /\ caseStatus \in [Cases -> CaseStatus]
  /\ decisions \subseteq Decision
  /\ trail \in Seq(AuditEvent)
  /\ before \in [Requests -> SUBSET Requests]
  /\ setter \in [Cases -> Requests \cup {NoRequest}]

Init ==
  /\ body \in [Requests -> DecisionRequest]
  /\ pc = [r \in Requests |-> "idle"]
  /\ clock = 0
  /\ decidedAt = [r \in Requests |-> 0]
  /\ caseStatus = [c \in Cases |-> "OPEN"]
  /\ decisions = {}
  /\ trail = << >>
  /\ before = [r \in Requests |-> {}]
  /\ setter = [c \in Cases |-> NoRequest]

-----------------------------------------------------------------------------
(* The steps of create_decision.                                           *)

\* Mutant: the attestation is not asked for.
KnownType(b) == b.type \in DecisionType

\* The decision types the enum knows, and the attestation a human must give.
Acceptable(b) == b.type \in DecisionType /\ b.attested

\* The request arrives: the case exists, an unknown type or a missing
\* attestation is refused with 422, otherwise the Decision is built and stamped.
Receive(r) ==
  /\ pc[r] = "idle"
  /\ before' = [before EXCEPT ![r] = Answered]
  /\ IF Acceptable(body[r])
       THEN /\ pc' = [pc EXCEPT ![r] = "save"]
            /\ decidedAt' = [decidedAt EXCEPT ![r] = clock]
            /\ clock' = clock + 1
       ELSE /\ pc' = [pc EXCEPT ![r] = "refused"]
            /\ UNCHANGED <<decidedAt, clock>>
  /\ UNCHANGED <<body, caseStatus, decisions, trail, setter>>

SaveDecision(r) ==
  /\ pc[r] = "save"
  /\ decisions' = decisions \cup
       {[id |-> r, case |-> body[r].case, type |-> body[r].type,
         attested |-> body[r].attested, at |-> decidedAt[r]]}
  /\ pc' = [pc EXCEPT ![r] = "setStatus"]
  /\ UNCHANGED <<body, clock, decidedAt, caseStatus, trail, before, setter>>

\* Mutant: only an open case takes the status of a decision.
UpdateOpenCase(r) ==
  /\ pc[r] = "setStatus"
  /\ IF caseStatus[body[r].case] = "OPEN"
       THEN /\ caseStatus' = [caseStatus EXCEPT ![body[r].case] = CaseStatusOf(body[r].type)]
            /\ setter' = [setter EXCEPT ![body[r].case] = r]
       ELSE UNCHANGED <<caseStatus, setter>>
  /\ pc' = [pc EXCEPT ![r] = "audit"]
  /\ UNCHANGED <<body, clock, decidedAt, decisions, trail, before>>

\* Mutant: a request for information leaves the case where it was.
UpdateUnlessInfo(r) ==
  /\ pc[r] = "setStatus"
  /\ caseStatus' = [caseStatus EXCEPT ![body[r].case] =
       IF body[r].type = "request_information" THEN @ ELSE CaseStatusOf(body[r].type)]
  /\ setter' = [setter EXCEPT ![body[r].case] = r]
  /\ pc' = [pc EXCEPT ![r] = "audit"]
  /\ UNCHANGED <<body, clock, decidedAt, decisions, trail, before>>

UpdateCaseStatus(r) ==
  /\ pc[r] = "setStatus"
  /\ caseStatus' = [caseStatus EXCEPT ![body[r].case] = CaseStatusOf(body[r].type)]
  /\ setter' = [setter EXCEPT ![body[r].case] = r]
  /\ pc' = [pc EXCEPT ![r] = "audit"]
  /\ UNCHANGED <<body, clock, decidedAt, decisions, trail, before>>

\* Mutant: the audit row reads the status back from the case.
RecordCurrentStatus(r) ==
  /\ pc[r] = "audit"
  /\ trail' = Append(trail, [object |-> r, case |-> body[r].case,
                             status |-> caseStatus[body[r].case]])
  /\ pc' = [pc EXCEPT ![r] = "ok"]
  /\ UNCHANGED <<body, clock, decidedAt, caseStatus, decisions, before, setter>>

\* The audit row is the last write; the response follows it.
RecordEvent(r) ==
  /\ pc[r] = "audit"
  /\ trail' = Append(trail, [object |-> r, case |-> body[r].case,
                             status |-> CaseStatusOf(body[r].type)])
  /\ pc' = [pc EXCEPT ![r] = "ok"]
  /\ UNCHANGED <<body, clock, decidedAt, caseStatus, decisions, before, setter>>

\* An exception in a repository call, or the end of the process: what the
\* request wrote before it stays.
Fail(r) ==
  /\ pc[r] \in InFlight
  /\ pc' = [pc EXCEPT ![r] = "failed"]
  /\ UNCHANGED <<body, clock, decidedAt, caseStatus, decisions, trail, before, setter>>

Next ==
  \E r \in Requests :
    \/ Receive(r)
    \/ SaveDecision(r)
    \/ UpdateCaseStatus(r)
    \/ RecordEvent(r)
    \/ Fail(r)

Spec == Init /\ [][Next]_vars

-----------------------------------------------------------------------------
(* Properties.                                                             *)

\* A case leaves OPEN only for a status that an attested decision on record
\* asks for: no order of the handlers' writes, and no handler cut short, shows
\* an escalation nobody attested ("only a human decides", docs/api-contract.md).
StatusHasAttestedDecision ==
  \A c \in Cases :
    \/ caseStatus[c] = "OPEN"
    \/ \E d \in decisions : /\ d.case = c /\ d.attested
                            /\ CaseStatusOf(d.type) = caseStatus[c]

\* Once a decision has been answered, the case never again shows a status that
\* was already superseded when that decision was sent: what it shows is the
\* decision itself, one that overlapped it, or a later one.  The status is
\* written without reading it, so only the order of the updates can break this.
StatusNotSuperseded ==
  \A r \in Answered : /\ setter[body[r].case] # NoRequest
                      /\ setter[body[r].case] \notin before[r]

\* What the trail says happened: every event is backed by the stored decision it
\* names, with that decision's own case and status whatever others did to the
\* case meanwhile ...
EventsAreBacked ==
  \A i \in 1..Len(trail) : \E d \in decisions :
    /\ d.id = trail[i].object
    /\ d.case = trail[i].case
    /\ CaseStatusOf(d.type) = trail[i].status

\* ... no decision is audited twice, ...
EventsAreUnique ==
  \A i, j \in 1..Len(trail) : trail[i].object = trail[j].object => i = j

\* ... and a stored decision without an event is one whose request has not been
\* answered: it is still running or was cut short.
UnauditedIsUnanswered ==
  \A r \in Answered : \E i \in 1..Len(trail) : trail[i].object = r

\* The audit trail accounts for the decisions (services/audit.py: the one thing
\* every write path must do), under any interleaving and any failure.
AuditAccounts == EventsAreBacked /\ EventsAreUnique /\ UnauditedIsUnanswered

\* Requests on c so far ran one after the other, and none was cut short.
OneAtATime(c) ==
  LET R == {r \in Requests : body[r].case = c /\ pc[r] \in InFlight \cup {"ok", "failed"}}
  IN  /\ \A r \in R : pc[r] = "ok"
      /\ \A r, s \in R : r = s \/ r \in before[s] \/ s \in before[r]

\* Where the events of c stand in the trail, and the status the last of them names.
EventsOf(c) == {i \in 1..Len(trail) : trail[i].case = c}

LastAudited(c) ==
  IF EventsOf(c) = {} THEN "OPEN"
  ELSE trail[CHOOSE i \in EventsOf(c) : \A j \in EventsOf(c) : j <= i].status

\* The last row of list_decisions, which orders by DECIDED_AT.
IsLastListed(d) == \A e \in decisions : e.case = d.case => e.at <= d.at

\* Without overlap and failure the three records of a case tell one story: the
\* status of the case, the last event of its trail and the last decision of its
\* history agree.  (With overlap they need not: see StatusNotSuperseded.)
RecordsAgree ==
  \A c \in Cases : OneAtATime(c) =>
    /\ caseStatus[c] = LastAudited(c)
    /\ \A d \in decisions : d.case = c /\ IsLastListed(d)
                            => CaseStatusOf(d.type) = caseStatus[c]

\* Decisions and events are never changed or removed, only added
\* (domain/decisions.py: corrections are new events, never mutations).
HistoryIsKept ==
  [][ /\ decisions \subseteq decisions'
      /\ Len(trail) <= Len(trail')
      /\ \A i \in 1..Len(trail) : trail'[i] = trail[i] ]_<<decisions, trail>>
=============================================================================
