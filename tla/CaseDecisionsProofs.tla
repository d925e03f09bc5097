-------------------------- MODULE CaseDecisionsProofs --------------------------
(***************************************************************************)
(* What module CaseDecisions promises, for every set of cases and requests.*)
(*                                                                         *)
(* The inductive invariant ties the three tables to the control state of   *)
(* the requests: a request past its first write has its row in DECISIONS,  *)
(* the status of a case is the one its last setter asked for, and exactly  *)
(* the answered requests have their event in the trail.                    *)
(*                                                                         *)
(* That the records tell one story of a case whose requests ran one after  *)
(* the other needs the order in time too: a decision sent after another    *)
(* was answered has the later date (ClockInv) and the later event          *)
(* (TrailOrderInv), so that the last event is the last setter's.           *)
(***************************************************************************)
EXTENDS CaseDecisions, TLAPS

\* The rows request r writes.
DecisionOf(r) == [id |-> r, case |-> body[r].case, type |-> body[r].type,
                  attested |-> body[r].attested, at |-> decidedAt[r]]
EventOf(r) == [object |-> r, case |-> body[r].case, status |-> CaseStatusOf(body[r].type)]

\* Whoever passed the guards asked for something acceptable.
AcceptedInv ==
  \A r \in Requests : pc[r] \notin {"idle", "refused"} => Acceptable(body[r])

\* DECISIONS holds the row of every request past its first write, and others'
\* rows are of requests that are past it.
StoredInv ==
  /\ \A r \in Requests : pc[r] \in {"setStatus", "audit", "ok"} => DecisionOf(r) \in decisions
  /\ \A d \in decisions : d = DecisionOf(d.id) /\ pc[d.id] \notin {"idle", "save", "refused"}

\* The status of a case is what its last setter asked for, and that decision is stored.
SetterInv ==
  \A c \in Cases :
    \/ setter[c] = NoRequest /\ caseStatus[c] = "OPEN"
    \/ /\ setter[c] \in Requests
       /\ body[setter[c]].case = c
       /\ caseStatus[c] = CaseStatusOf(body[setter[c]].type)
       /\ DecisionOf(setter[c]) \in decisions

\* What was answered before r arrived stays answered, and cannot overwrite r.
OrderInv ==
  /\ \A r \in Requests : before[r] \subseteq Answered
  /\ \A r \in Requests : pc[r] \in {"audit", "ok"} =>
       /\ setter[body[r].case] # NoRequest
       /\ setter[body[r].case] \notin before[r]

\* The trail holds one event for every answered request, and nothing else.
TrailInv ==
  /\ \A i \in 1..Len(trail) :
       /\ trail[i].object \in Answered
       /\ trail[i] = EventOf(trail[i].object)
  /\ EventsAreUnique
  /\ UnauditedIsUnanswered

IInv == TypeOK /\ AcceptedInv /\ StoredInv /\ SetterInv /\ OrderInv /\ TrailInv

\* The clock has passed every decision made, and a decision sent after another
\* was answered is dated after it.
ClockInv ==
  \A r \in Requests : pc[r] \notin {"idle", "refused"} =>
    /\ decidedAt[r] < clock
    /\ \A s \in before[r] : decidedAt[s] < decidedAt[r]

\* No event follows the event of a request it was answered before.
TrailOrderInv ==
  \A i, j \in 1..Len(trail) : i < j => trail[j].object \notin before[trail[i].object]

OrderedInv == ClockInv /\ TrailOrderInv

-----------------------------------------------------------------------------
LEMMA StatusType ==
  ASSUME NEW type PROVE CaseStatusOf(type) \in DecidedStatus
BY DEF CaseStatusOf, DecidedStatus

LEMMA InitInv == Init => IInv
<1> SUFFICES ASSUME Init PROVE IInv
  OBVIOUS
<1>1. TypeOK
  BY DEF Init, TypeOK, CaseStatus
<1>2. AcceptedInv /\ StoredInv /\ SetterInv /\ OrderInv
  BY DEF Init, AcceptedInv, StoredInv, SetterInv, OrderInv
<1>3. TrailInv
  BY DEF Init, TrailInv, EventsAreUnique, UnauditedIsUnanswered, Answered
<1>4. QED
  BY <1>1, <1>2, <1>3 DEF IInv

-----------------------------------------------------------------------------
(* Each step keeps the invariant.                                          *)

LEMMA ReceiveInv ==
  ASSUME IInv, NEW r \in Requests, Receive(r) PROVE IInv'
<1> USE DEF IInv, Receive
<1> DEFINE ok == Acceptable(body[r])
<1>1. Answered' = Answered
  BY DEF TypeOK, Answered
<1>2. TypeOK'
  <2>1. pc' \in [Requests -> {"idle"} \cup InFlight \cup Ended]
    BY DEF TypeOK, InFlight, Ended
  <2>2. clock' \in Nat /\ decidedAt' \in [Requests -> Nat]
    BY DEF TypeOK, Acceptable
  <2>3. before' \in [Requests -> SUBSET Requests]
    BY DEF TypeOK, Answered
  <2>4. QED
    BY <2>1, <2>2, <2>3 DEF TypeOK
<1>3. AcceptedInv'
  BY DEF TypeOK, AcceptedInv
<1>4. DecisionOf(r) \notin decisions /\ \A d \in decisions : d.id # r
  BY DEF StoredInv, DecisionOf
<1>5. \A s \in Requests : s # r => DecisionOf(s)' = DecisionOf(s) /\ pc'[s] = pc[s]
  BY DEF TypeOK, DecisionOf
<1>6. StoredInv'
  <2>1. ASSUME NEW s \in Requests, pc'[s] \in {"setStatus", "audit", "ok"}
        PROVE  DecisionOf(s)' \in decisions'
    BY <2>1, <1>5 DEF TypeOK, StoredInv
  <2>2. ASSUME NEW d \in decisions'
        PROVE  d = DecisionOf(d.id)' /\ pc'[d.id] \notin {"idle", "save", "refused"}
    <3>1. d \in decisions /\ d.id \in Requests /\ d.id # r
      BY <1>4 DEF TypeOK, Decision
    <3>2. QED
      BY <3>1, <1>5 DEF StoredInv
  <2>3. QED
    BY <2>1, <2>2 DEF StoredInv
<1>7. SetterInv'
  <2> SUFFICES ASSUME NEW c \in Cases
               PROVE  \/ setter[c] = NoRequest /\ caseStatus[c] = "OPEN"
                      \/ /\ setter[c] \in Requests
                         /\ body[setter[c]].case = c
                         /\ caseStatus[c] = CaseStatusOf(body[setter[c]].type)
                         /\ DecisionOf(setter[c])' \in decisions
    BY DEF SetterInv, DecisionOf
  <2>1. CASE setter[c] \in Requests /\ DecisionOf(setter[c]) \in decisions
    <3>1. setter[c] # r
      BY <2>1, <1>4
    <3>2. DecisionOf(setter[c])' = DecisionOf(setter[c])
      BY <2>1, <3>1, <1>5
    <3>3. QED
      BY <2>1, <3>2 DEF SetterInv
  <2>2. CASE ~(setter[c] \in Requests /\ DecisionOf(setter[c]) \in decisions)
    BY <2>2 DEF SetterInv
  <2>3. QED
    BY <2>1, <2>2
<1>8. OrderInv'
  BY <1>1 DEF TypeOK, OrderInv
<1>9. TrailInv'
  BY <1>1 DEF TrailInv, EventOf, EventsAreUnique, UnauditedIsUnanswered
<1>10. QED
  BY <1>2, <1>3, <1>6, <1>7, <1>8, <1>9

LEMMA SaveDecisionInv ==
  ASSUME IInv, NEW r \in Requests, SaveDecision(r) PROVE IInv'
<1> USE DEF IInv, SaveDecision
<1>1. Answered' = Answered /\ \A s \in Requests : s # r => pc'[s] = pc[s]
  BY DEF TypeOK, Answered
<1>2. Acceptable(body[r])
  BY DEF AcceptedInv
<1>3. TypeOK'
  <2>1. pc' \in [Requests -> {"idle"} \cup InFlight \cup Ended]
    BY DEF TypeOK, InFlight, Ended
  <2>2. body[r] \in DecisionRequest /\ decidedAt[r] \in Nat
    BY DEF TypeOK
  <2>3. DecisionOf(r) \in Decision
    BY <1>2, <2>2 DEF Acceptable, DecisionRequest, Decision, DecisionOf
  <2>4. decisions' \subseteq Decision
    BY <2>3 DEF TypeOK, DecisionOf
  <2>5. QED
    BY <2>1, <2>4 DEF TypeOK
<1>4. AcceptedInv'
  BY <1>1, <1>2 DEF TypeOK, AcceptedInv
<1>5. decisions' = decisions \cup {DecisionOf(r)} /\ \A s : DecisionOf(s)' = DecisionOf(s)
  BY DEF DecisionOf
<1>6. StoredInv'
  <2>1. ASSUME NEW s \in Requests, pc'[s] \in {"setStatus", "audit", "ok"}
        PROVE  DecisionOf(s)' \in decisions'
    BY <2>1, <1>1, <1>5 DEF StoredInv
  <2>2. ASSUME NEW d \in decisions'
        PROVE  d = DecisionOf(d.id)' /\ pc'[d.id] \notin {"idle", "save", "refused"}
    <3>1. CASE d \in decisions
      <4>1. d.id \in Requests
        BY <3>1 DEF TypeOK, Decision
      <4>2. QED
        BY <3>1, <4>1, <1>1, <1>5 DEF StoredInv, TypeOK
    <3>2. CASE d = DecisionOf(r)
      <4>1. d.id = r
        BY <3>2 DEF DecisionOf
      <4>2. QED
        BY <3>2, <4>1, <1>5 DEF TypeOK
    <3>3. QED
      BY <2>2, <3>1, <3>2, <1>5
  <2>3. QED
    BY <2>1, <2>2 DEF StoredInv
<1>7. SetterInv'
  BY <1>5 DEF SetterInv
<1>8. OrderInv'
  BY <1>1 DEF TypeOK, OrderInv
<1>9. TrailInv'
  BY <1>1 DEF TrailInv, EventOf, EventsAreUnique, UnauditedIsUnanswered
<1>10. QED
  BY <1>3, <1>4, <1>6, <1>7, <1>8, <1>9

LEMMA UpdateCaseStatusInv ==
  ASSUME IInv, NEW r \in Requests, UpdateCaseStatus(r) PROVE IInv'
<1> USE DEF IInv, UpdateCaseStatus
<1>1. Answered' = Answered /\ \A s \in Requests : s # r => pc'[s] = pc[s]
  BY DEF TypeOK, Answered
<1>2. /\ body[r].case \in Cases
      /\ CaseStatusOf(body[r].type) \in DecidedStatus
  BY StatusType DEF TypeOK, DecisionRequest
<1>3. TypeOK'
  <2>1. pc' \in [Requests -> {"idle"} \cup InFlight \cup Ended]
    BY DEF TypeOK, InFlight, Ended
  <2>2. caseStatus' \in [Cases -> CaseStatus]
    BY <1>2 DEF TypeOK, CaseStatus
  <2>3. setter' \in [Cases -> Requests \cup {NoRequest}]
    BY DEF TypeOK
  <2>4. QED
    BY <2>1, <2>2, <2>3 DEF TypeOK
<1>4. AcceptedInv'
  BY <1>1 DEF TypeOK, AcceptedInv
<1>5. \A s : DecisionOf(s)' = DecisionOf(s)
  BY DEF DecisionOf
<1>6. StoredInv'
  BY <1>1, <1>5 DEF StoredInv, TypeOK, Decision
<1>7. SetterInv'
  <2>1. DecisionOf(r) \in decisions
    BY DEF StoredInv
  <2>2. QED
    BY <2>1, <1>2, <1>5 DEF SetterInv, TypeOK
<1>8. OrderInv'
  <2>1. r \notin Answered /\ r # NoRequest
    BY NoRequestAssumption DEF Answered
  <2>2. \A s \in Requests : r \notin before[s]
    BY <2>1 DEF OrderInv
  <2>3. ASSUME NEW s \in Requests, pc'[s] \in {"audit", "ok"}
        PROVE  setter'[body[s].case] # NoRequest /\ setter'[body[s].case] \notin before[s]
    <3>1. CASE body[s].case = body[r].case
      BY <3>1, <1>2, <2>1, <2>2 DEF TypeOK
    <3>2. CASE body[s].case # body[r].case
      BY <2>3, <3>2, <1>1 DEF TypeOK, OrderInv
    <3>3. QED
      BY <3>1, <3>2
  <2>4. QED
    BY <2>3, <1>1 DEF OrderInv
<1>9. TrailInv'
  BY <1>1 DEF TrailInv, EventOf, EventsAreUnique, UnauditedIsUnanswered
<1>10. QED
  BY <1>3, <1>4, <1>6, <1>7, <1>8, <1>9

LEMMA RecordEventInv ==
  ASSUME IInv, NEW r \in Requests, RecordEvent(r) PROVE IInv'
<1> USE DEF IInv, RecordEvent
<1>1. /\ Answered' = Answered \cup {r}
      /\ r \notin Answered
      /\ \A s \in Requests : s # r => pc'[s] = pc[s]
  BY DEF TypeOK, Answered
<1>2. EventOf(r) \in AuditEvent /\ trail' = Append(trail, EventOf(r))
  BY StatusType DEF TypeOK, DecisionRequest, AuditEvent, EventOf
<1>3. TypeOK'
  <2>1. pc' \in [Requests -> {"idle"} \cup InFlight \cup Ended]
    BY DEF TypeOK, InFlight, Ended
  <2>2. trail' \in Seq(AuditEvent)
    BY <1>2 DEF TypeOK
  <2>3. QED
    BY <2>1, <2>2 DEF TypeOK
<1>4. AcceptedInv'
  BY <1>1 DEF TypeOK, AcceptedInv
<1>5. \A s : DecisionOf(s)' = DecisionOf(s) /\ EventOf(s)' = EventOf(s)
  BY DEF DecisionOf, EventOf
<1>6. StoredInv'
  BY <1>1, <1>5 DEF StoredInv, TypeOK, Decision
<1>7. SetterInv'
  BY <1>5 DEF SetterInv
<1>8. OrderInv'
  BY <1>1 DEF TypeOK, OrderInv
<1>9. TrailInv'
  <2>1. /\ Len(trail') = Len(trail) + 1 /\ Len(trail) \in Nat
        /\ \A i \in 1..Len(trail) : trail'[i] = trail[i]
        /\ trail'[Len(trail) + 1] = EventOf(r)
    BY <1>2 DEF TypeOK
  <2>2. EventOf(r).object = r
    BY DEF EventOf
  <2>3. ASSUME NEW i \in 1..Len(trail')
        PROVE  (trail[i].object \in Answered /\ trail[i] = EventOf(trail[i].object))'
    <3>1. CASE i = Len(trail) + 1
      <4>1. trail'[i] = EventOf(r) /\ trail'[i].object = r /\ r \in Answered'
        BY <3>1, <2>1, <2>2, <1>1
      <4>2. EventOf(trail[i].object)' = EventOf(r)
        BY <4>1 DEF EventOf
      <4>3. QED
        BY <4>1, <4>2
    <3>2. CASE i \in 1..Len(trail)
      <4>1. trail[i].object \in Answered /\ trail[i] = EventOf(trail[i].object)
        BY <3>2 DEF TrailInv
      <4>2. trail'[i] = trail[i]
        BY <3>2, <2>1
      <4>3. EventOf(trail[i].object)' = EventOf(trail[i].object)
        BY <4>2 DEF EventOf
      <4>4. QED
        BY <4>1, <4>2, <4>3, <1>1
    <3>3. QED
      BY <2>1, <3>1, <3>2
  <2>4. ASSUME NEW i \in 1..Len(trail'), NEW j \in 1..Len(trail'),
               trail'[i].object = trail'[j].object
        PROVE  i = j
    BY <2>1, <2>2, <2>4, <1>1 DEF TrailInv, EventsAreUnique
  <2>5. ASSUME NEW s \in Answered'
        PROVE  \E i \in 1..Len(trail') : trail'[i].object = s
    <3>1. CASE s = r
      BY <3>1, <2>1, <2>2
    <3>2. CASE s # r
      <4>1. PICK i \in 1..Len(trail) : trail[i].object = s
        BY <3>2, <1>1 DEF TrailInv, UnauditedIsUnanswered
      <4>2. i \in 1..Len(trail') /\ trail'[i].object = s
        BY <4>1, <2>1
      <4>3. QED
        BY <4>2
    <3>3. QED
      BY <3>1, <3>2
  <2>6. EventsAreUnique' /\ UnauditedIsUnanswered'
    BY <2>4, <2>5 DEF EventsAreUnique, UnauditedIsUnanswered
  <2>7. QED
    BY <2>3, <2>6 DEF TrailInv
<1>10. QED
  BY <1>3, <1>4, <1>6, <1>7, <1>8, <1>9

LEMMA FailInv ==
  ASSUME IInv, NEW r \in Requests, Fail(r) PROVE IInv'
<1> USE DEF IInv, Fail, InFlight
<1>1. Answered' = Answered /\ \A s \in Requests : s # r => pc'[s] = pc[s]
  BY DEF TypeOK, Answered
<1>2. TypeOK'
  BY DEF TypeOK, Ended
<1>3. AcceptedInv'
  BY <1>1 DEF TypeOK, AcceptedInv
<1>4. \A s : DecisionOf(s)' = DecisionOf(s)
  BY DEF DecisionOf
<1>5. StoredInv'
  BY <1>1, <1>4 DEF StoredInv, TypeOK, Decision
<1>6. SetterInv'
  BY <1>4 DEF SetterInv
<1>7. OrderInv'
  BY <1>1 DEF TypeOK, OrderInv
<1>8. TrailInv'
  BY <1>1 DEF TrailInv, EventOf, EventsAreUnique, UnauditedIsUnanswered
<1>9. QED
  BY <1>2, <1>3, <1>5, <1>6, <1>7, <1>8

LEMMA StepInv == IInv /\ [Next]_vars => IInv'
<1> SUFFICES ASSUME IInv, [Next]_vars PROVE IInv'
  OBVIOUS
<1>1. CASE Next
  BY <1>1, ReceiveInv, SaveDecisionInv, UpdateCaseStatusInv, RecordEventInv, FailInv DEF Next
<1>2. CASE UNCHANGED vars
  BY <1>2 DEF vars, IInv, TypeOK, AcceptedInv, StoredInv, SetterInv, OrderInv, TrailInv,
     DecisionOf, EventOf, EventsAreUnique, UnauditedIsUnanswered, Answered
<1>3. QED
  BY <1>1, <1>2

LEMMA Invariance == Spec => []IInv
BY InitInv, StepInv, PTL DEF Spec

-----------------------------------------------------------------------------
(* Each step keeps the order of the clock and of the trail.                *)

LEMMA ReceiveOrdered ==
  ASSUME IInv, OrderedInv, NEW r \in Requests, Receive(r) PROVE OrderedInv'
<1> USE DEF Receive
<1>1. /\ r \notin Answered
      /\ \A s \in Requests : before[s] \subseteq Answered
      /\ clock \in Nat
      /\ \A s \in Requests : decidedAt[s] \in Nat
  BY DEF IInv, TypeOK, OrderInv, Answered
<1>2. /\ before'[r] = Answered
      /\ \A s \in Requests : s # r =>
           pc'[s] = pc[s] /\ decidedAt'[s] = decidedAt[s] /\ before'[s] = before[s]
      /\ pc'[r] # "refused" => decidedAt'[r] = clock /\ clock' = clock + 1
      /\ clock' = clock \/ clock' = clock + 1
  BY DEF IInv, TypeOK, Acceptable
<1>3. \A s \in Answered : decidedAt[s] < clock /\ decidedAt'[s] = decidedAt[s]
  BY <1>1, <1>2 DEF OrderedInv, ClockInv, Answered
<1>4. ClockInv'
  <2> SUFFICES ASSUME NEW s \in Requests, pc'[s] \notin {"idle", "refused"}
               PROVE  /\ decidedAt'[s] < clock'
                      /\ \A t \in before'[s] : decidedAt'[t] < decidedAt'[s]
    BY DEF ClockInv
  <2>1. CASE s = r
    BY <2>1, <1>1, <1>2, <1>3
  <2>2. CASE s # r
    <3>1. /\ decidedAt[s] < clock
          /\ \A t \in before[s] : decidedAt[t] < decidedAt[s]
      BY <2>2, <1>2 DEF OrderedInv, ClockInv
    <3>2. \A t \in before[s] : t \in Answered
      BY <1>1
    <3>3. QED
      BY <2>2, <3>1, <3>2, <1>1, <1>2, <1>3
  <2>3. QED
    BY <2>1, <2>2
<1>5. TrailOrderInv'
  <2>1. \A i \in 1..Len(trail) : trail[i].object \in Requests /\ trail[i].object # r
    BY <1>1 DEF IInv, TrailInv, Answered
  <2>2. QED
    BY <2>1, <1>2 DEF OrderedInv, TrailOrderInv
<1>6. QED
  BY <1>4, <1>5 DEF OrderedInv

LEMMA RecordEventOrdered ==
  ASSUME IInv, OrderedInv, NEW r \in Requests, RecordEvent(r) PROVE OrderedInv'
<1> USE DEF RecordEvent
<1>1. r \notin Answered /\ \A s \in Requests : before[s] \subseteq Answered
  BY DEF IInv, OrderInv, Answered
<1>2. ClockInv'
  BY DEF IInv, TypeOK, OrderedInv, ClockInv
<1>3. TrailOrderInv'
  <2>1. EventOf(r) \in AuditEvent /\ trail' = Append(trail, EventOf(r))
    BY StatusType DEF IInv, TypeOK, DecisionRequest, AuditEvent, EventOf
  <2>2. /\ Len(trail') = Len(trail) + 1 /\ Len(trail) \in Nat
        /\ \A i \in 1..Len(trail) : trail'[i] = trail[i]
        /\ trail'[Len(trail) + 1].object = r
    BY <2>1 DEF IInv, TypeOK, EventOf
  <2> SUFFICES ASSUME NEW i \in 1..Len(trail'), NEW j \in 1..Len(trail'), i < j
               PROVE  trail'[j].object \notin before[trail'[i].object]
    BY DEF TrailOrderInv
  <2>3. i \in 1..Len(trail) /\ trail'[i] = trail[i] /\ trail[i].object \in Requests
    BY <2>2 DEF IInv, TrailInv, Answered
  <2>4. CASE j = Len(trail) + 1
    BY <2>2, <2>3, <2>4, <1>1
  <2>5. CASE j \in 1..Len(trail)
    BY <2>2, <2>3, <2>5 DEF OrderedInv, TrailOrderInv
  <2>6. QED
    BY <2>2, <2>4, <2>5
<1>4. QED
  BY <1>2, <1>3 DEF OrderedInv

LEMMA OrderedStep == IInv /\ OrderedInv /\ [Next]_vars => OrderedInv'
<1> SUFFICES ASSUME IInv, OrderedInv, [Next]_vars PROVE OrderedInv'
  OBVIOUS
<1> USE DEF OrderedInv, ClockInv, TrailOrderInv
<1>1. CASE UNCHANGED vars
  BY <1>1 DEF vars
<1>2. ASSUME NEW r \in Requests, SaveDecision(r) \/ UpdateCaseStatus(r) \/ Fail(r)
      PROVE  OrderedInv'
  <2>1. /\ UNCHANGED <<clock, decidedAt, before, trail>>
        /\ pc[r] \notin {"idle", "refused"}
        /\ \A s \in Requests : s # r => pc'[s] = pc[s]
    BY <1>2 DEF IInv, TypeOK, SaveDecision, UpdateCaseStatus, Fail, InFlight
  <2>2. QED
    BY <2>1
<1>3. QED
  BY <1>1, <1>2, ReceiveOrdered, RecordEventOrdered DEF Next

LEMMA Ordered == Spec => []OrderedInv
<1>1. Init => OrderedInv
  BY DEF Init, OrderedInv, ClockInv, TrailOrderInv
<1>2. QED
  BY <1>1, OrderedStep, Invariance, PTL DEF Spec

-----------------------------------------------------------------------------
(* The theorems.                                                           *)

\* create_decision keeps every table and every request well-typed.
THEOREM TypeCorrect == Spec => []TypeOK
<1>1. IInv => TypeOK
  BY DEF IInv
<1>2. QED
  BY <1>1, Invariance, PTL

\* No interleaving of create_decision handlers, and none cut short, shows a case
\* status without the attested decision that asks for it.
THEOREM HumanDecides == Spec => []StatusHasAttestedDecision
<1>1. IInv => StatusHasAttestedDecision
  <2> SUFFICES ASSUME IInv, NEW c \in Cases, caseStatus[c] # "OPEN"
               PROVE  \E d \in decisions : /\ d.case = c /\ d.attested
                                           /\ CaseStatusOf(d.type) = caseStatus[c]
    BY DEF StatusHasAttestedDecision
  <2> DEFINE d == DecisionOf(setter[c])
  <2>1. /\ setter[c] \in Requests /\ body[setter[c]].case = c
        /\ caseStatus[c] = CaseStatusOf(body[setter[c]].type) /\ d \in decisions
    BY DEF IInv, SetterInv
  <2>2. d.id = setter[c] /\ d.case = c /\ d.type = body[setter[c]].type
        /\ d.attested = body[setter[c]].attested
    BY <2>1 DEF DecisionOf
  <2>3. pc[setter[c]] \notin {"idle", "refused"}
    BY <2>1, <2>2 DEF IInv, StoredInv
  <2>4. body[setter[c]].attested
    BY <2>1, <2>3 DEF IInv, AcceptedInv, Acceptable
  <2>5. QED
    BY <2>1, <2>2, <2>4
<1>2. QED
  BY <1>1, Invariance, PTL

\* An answered decision is never overwritten by one that was answered before it
\* was sent.
THEOREM NoStaleStatus == Spec => []StatusNotSuperseded
<1>1. IInv => StatusNotSuperseded
  BY DEF IInv, OrderInv, StatusNotSuperseded, Answered
<1>2. QED
  BY <1>1, Invariance, PTL

\* The audit trail names each answered decision once, with its own case and
\* status, and nothing else.
THEOREM TrailAccounts == Spec => []AuditAccounts
<1>1. IInv => AuditAccounts
  <2> SUFFICES ASSUME IInv PROVE EventsAreBacked
    BY DEF IInv, TrailInv, AuditAccounts
  <2> SUFFICES ASSUME NEW i \in 1..Len(trail)
               PROVE  \E d \in decisions : /\ d.id = trail[i].object
                                           /\ d.case = trail[i].case
                                           /\ CaseStatusOf(d.type) = trail[i].status
    BY DEF EventsAreBacked
  <2> DEFINE r == trail[i].object
  <2>1. r \in Requests /\ pc[r] = "ok" /\ trail[i] = EventOf(r)
    BY DEF IInv, TrailInv, Answered
  <2>2. DecisionOf(r) \in decisions
    BY <2>1 DEF IInv, StoredInv
  <2>3. /\ trail[i].case = body[r].case
        /\ trail[i].status = CaseStatusOf(body[r].type)
    BY <2>1 DEF EventOf
  <2>4. /\ DecisionOf(r).id = r /\ DecisionOf(r).case = body[r].case
        /\ DecisionOf(r).type = body[r].type
    BY DEF DecisionOf
  <2>5. QED
    BY <2>2, <2>3, <2>4
<1>2. QED
  BY <1>1, Invariance, PTL

\* When the requests on a case came one at a time and none was cut short, the
\* request that set its status wrote the last event of the case in the trail and
\* the last decision of its history.
THEOREM RecordsTellOneStory == Spec => []RecordsAgree
<1>1. IInv /\ OrderedInv => RecordsAgree
  <2> SUFFICES ASSUME IInv, OrderedInv, NEW c \in Cases, OneAtATime(c)
               PROVE  /\ caseStatus[c] = LastAudited(c)
                      /\ \A d \in decisions : d.case = c /\ IsLastListed(d)
                                              => CaseStatusOf(d.type) = caseStatus[c]
    BY DEF RecordsAgree
  <2> DEFINE R == {r \in Requests : body[r].case = c /\ pc[r] \in InFlight \cup {"ok", "failed"}}
             s == setter[c]
  <2>1. /\ \A r \in R : r \in Requests /\ body[r].case = c /\ pc[r] = "ok"
        /\ \A r, t \in R : r = t \/ r \in before[t] \/ t \in before[r]
    BY DEF OneAtATime
  <2>2. \A i \in EventsOf(c) : trail[i].object \in R /\ trail[i] = EventOf(trail[i].object)
    BY DEF IInv, TrailInv, Answered, EventsOf, EventOf
  <2>3. ASSUME NEW d \in decisions, d.case = c
        PROVE  d = DecisionOf(d.id) /\ d.id \in R
    <3>1. d = DecisionOf(d.id) /\ d.id \in Requests /\ pc[d.id] \notin {"idle", "save", "refused"}
      BY DEF IInv, StoredInv, TypeOK, Decision
    <3>2. pc[d.id] \in InFlight \cup {"ok", "failed"}
      BY <3>1 DEF IInv, TypeOK, Ended
    <3>3. d.case = body[d.id].case
      BY <3>1 DEF DecisionOf
    <3>4. QED
      BY <2>3, <3>1, <3>2, <3>3
  <2>4. CASE s = NoRequest
    <3>1. R = {}
      BY <2>1, <2>4 DEF IInv, OrderInv
    <3>2. EventsOf(c) = {} /\ \A d \in decisions : d.case # c
      BY <3>1, <2>2, <2>3
    <3>3. caseStatus[c] = "OPEN"
      BY <2>4, NoRequestAssumption DEF IInv, SetterInv
    <3>4. QED
      BY <3>2, <3>3 DEF LastAudited
  <2>5. CASE s # NoRequest
    <3>1. /\ s \in Requests /\ body[s].case = c
          /\ caseStatus[c] = CaseStatusOf(body[s].type)
          /\ DecisionOf(s) \in decisions
      BY <2>5 DEF IInv, SetterInv
    <3>2. DecisionOf(s).id = s /\ DecisionOf(s).case = c /\ DecisionOf(s).at = decidedAt[s]
      BY <3>1 DEF DecisionOf
    <3>3. s \in R
      BY <3>1, <3>2, <2>3
    <3>4. \A r \in R : r = s \/ r \in before[s]
      BY <2>1, <3>3 DEF IInv, OrderInv
    <3>5. caseStatus[c] = LastAudited(c)
      <4>1. PICK k \in 1..Len(trail) : trail[k].object = s
        BY <2>1, <3>3 DEF IInv, TrailInv, UnauditedIsUnanswered, Answered
      <4>2. trail[k].case = c /\ trail[k].status = caseStatus[c] /\ k \in EventsOf(c)
        <5>1. trail[k] = EventOf(s)
          BY <4>1 DEF IInv, TrailInv
        <5>2. QED
          BY <5>1, <3>1 DEF EventOf, EventsOf
      <4>3. \A j \in EventsOf(c) : j <= k
        <5> SUFFICES ASSUME NEW j \in EventsOf(c), k < j PROVE FALSE
          BY DEF EventsOf
        <5>1. j \in 1..Len(trail) /\ j # k /\ trail[j].object \in R
          BY <2>2 DEF EventsOf
        <5>2. trail[j].object # s
          BY <5>1, <4>1 DEF IInv, TrailInv, EventsAreUnique
        <5>3. trail[j].object \in before[s]
          BY <5>1, <5>2, <3>4
        <5>4. QED
          BY <5>1, <5>3, <4>1 DEF OrderedInv, TrailOrderInv
      <4>4. \A i \in EventsOf(c) : (\A j \in EventsOf(c) : j <= i) => i = k
        BY <4>2, <4>3 DEF EventsOf
      <4>5. (CHOOSE i \in EventsOf(c) : \A j \in EventsOf(c) : j <= i) = k
        BY <4>2, <4>3, <4>4
      <4>6. QED
        BY <4>2, <4>5 DEF LastAudited
    <3>6. ASSUME NEW d \in decisions, d.case = c, IsLastListed(d)
          PROVE  CaseStatusOf(d.type) = caseStatus[c]
      <4>1. d = DecisionOf(d.id) /\ d.id \in R
        BY <3>6, <2>3
      <4>2. d.type = body[d.id].type /\ d.at = decidedAt[d.id]
        BY <4>1 DEF DecisionOf
      <4>3. decidedAt[s] <= decidedAt[d.id]
        BY <3>1, <3>2, <3>6, <4>2 DEF IsLastListed
      <4>4. d.id \notin before[s]
        <5>1. ASSUME d.id \in before[s] PROVE decidedAt[d.id] < decidedAt[s]
          BY <5>1, <2>1, <3>3 DEF OrderedInv, ClockInv
        <5>2. decidedAt[s] \in Nat /\ decidedAt[d.id] \in Nat
          BY <3>1, <4>1 DEF IInv, TypeOK
        <5>3. QED
          BY <5>1, <5>2, <4>3
      <4>5. d.id = s
        BY <4>1, <4>4, <3>4
      <4>6. QED
        BY <4>2, <4>5, <3>1
    <3>7. QED
      BY <3>5, <3>6
  <2>6. QED
    BY <2>4, <2>5
<1>2. QED
  BY <1>1, Invariance, Ordered, PTL

\* Decisions and events are only ever added.
THEOREM AppendOnly == Spec => HistoryIsKept
<1> DEFINE Kept == /\ decisions \subseteq decisions'
                   /\ Len(trail) <= Len(trail')
                   /\ \A i \in 1..Len(trail) : trail'[i] = trail[i]
<1>1. TypeOK /\ [Next]_vars => [Kept]_<<decisions, trail>>
  <2> SUFFICES ASSUME TypeOK, Next PROVE Kept \/ UNCHANGED <<decisions, trail>>
    BY DEF vars
  <2>1. PICK r \in Requests : \/ Receive(r) \/ SaveDecision(r) \/ UpdateCaseStatus(r)
                              \/ RecordEvent(r) \/ Fail(r)
    BY DEF Next
  <2>2. CASE SaveDecision(r)
    <3>1. decisions \subseteq decisions' /\ trail' = trail /\ Len(trail) \in Nat
      BY <2>2 DEF SaveDecision, TypeOK
    <3>2. QED
      BY <3>1
  <2>3. CASE RecordEvent(r)
    <3> DEFINE e == [object |-> r, case |-> body[r].case, status |-> CaseStatusOf(body[r].type)]
    <3>1. e \in AuditEvent
      BY StatusType DEF TypeOK, DecisionRequest, AuditEvent
    <3>2. trail' = Append(trail, e) /\ decisions' = decisions
      BY <2>3 DEF RecordEvent
    <3>3. QED
      BY <3>1, <3>2 DEF TypeOK
  <2>4. QED
    BY <2>1, <2>2, <2>3 DEF Receive, UpdateCaseStatus, Fail
<1>2. QED
  BY <1>1, TypeCorrect, PTL DEF Spec, HistoryIsKept
=============================================================================
