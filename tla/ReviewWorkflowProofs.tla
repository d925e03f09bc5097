------------------------- MODULE ReviewWorkflowProofs -------------------------
(***************************************************************************)
(* What module ReviewWorkflow promises, for every number of requests and   *)
(* SAP Build instances and every choice of bodies.                         *)
(*                                                                         *)
(* The handlers race, but each writes a whole row that it built from a     *)
(* whole row it read: PlanInv says that what is about to be written is     *)
(* coherent and keeps what was read, and FlowInv that the table then is.   *)
(* LatestInv is what makes get_latest_workflow_instance find a row.        *)
(*                                                                         *)
(* Two invariants stand on that one.  GroundInv: whoever is going to write *)
(* APPROVED, or wrote it, had it from its client or from the bound SAP     *)
(* Build instance.  SerialInv: while no two handlers overlapped, the one   *)
(* under way works from the current row, and the events of a workflow      *)
(* chain up to its row, but for the row whose event is still to come.      *)
(***************************************************************************)
EXTENDS ReviewWorkflow, TLAPS

Coherent(row) ==
  /\ row.status \in Terminal => row.completed
  /\ row.ext # NoId => ~row.fallback

\* The row `new` keeps what `old` had.
Keeps(old, new) ==
  /\ old.ext # NoId => new.ext # NoId
  /\ ~old.fallback => ~new.fallback
  /\ old.completed => new.completed

\* A request that has not arrived has done nothing; one under way knows what it
\* is going to write.
PlanInv ==
  \A r \in Requests :
    /\ pc[r] = "idle" => plan[r] = NoPlan /\ r \notin Flows
    /\ pc[r] \in InFlight => plan[r] # NoPlan
    /\ pc[r] = "query" => plan[r].seen # NoFlow /\ plan[r].seen.ext \in ExternalIds
    /\ plan[r] # NoPlan =>
         /\ Coherent(plan[r].new)
         /\ plan[r].seen # NoFlow =>
              /\ Coherent(plan[r].seen)
              /\ Keeps(plan[r].seen, plan[r].new)
              /\ plan[r].flow \in Flows
         /\ plan[r].seen = NoFlow => plan[r].flow = r

FlowInv == \A w \in Flows : Coherent(flow[w])

LatestInv == Flows = {} \/ \E w \in Flows : \A v \in Flows : startedAt[v] <= startedAt[w]

\* Each row is what some handler wrote, and has its event unless that handler
\* has not come to it.
AccountInv ==
  /\ \A i \in 1..Len(trail) : pc[trail[i].by] = "ok"
  /\ StatusIsAccounted

IInv == TypeOK /\ PlanInv /\ FlowInv /\ LatestInv /\ AccountInv

\* Whoever writes APPROVED was told of it: by its client, or by the context of the
\* SAP Build instance it asked about, which never takes a context back.
Grounded(r) ==
  \/ body[r].op = "patch" /\ body[r].status = "APPROVED"
  \/ /\ body[r].op = "sync"
     /\ plan[r].seen.ext \in ExternalIds
     /\ ApprovedBy(remote[plan[r].seen.ext])

GroundInv ==
  \A r \in Requests :
    /\ pc[r] = "query" => body[r].op = "sync"
    /\ /\ pc[r] \in {"save", "audit", "ok", "unaudited"}
       /\ plan[r] # NoPlan
       /\ plan[r].new.status = "APPROVED"
       => Grounded(r)

\* What the trail says of w leads up to the row.
Told(w, row) == IF row = NoFlow THEN EventsOf(w) = {} ELSE ChainsTo(w, row.status)

\* One handler after the other: the one under way works from the current row,
\* and the trail tells of every row but the one that has just been written.
SerialInv ==
  serial =>
    /\ \A r, s \in Requests : pc[r] \in InFlight /\ pc[s] \in InFlight => r = s
    /\ \A r \in Requests : pc[r] \in {"query", "save"} => plan[r].seen = flow[plan[r].flow]
    /\ \A r \in Requests : pc[r] = "audit" =>
         flow[plan[r].flow] = plan[r].new /\ Told(plan[r].flow, plan[r].seen)
    /\ \A w \in Requests :
         (\A r \in Requests : ~(pc[r] = "audit" /\ plan[r].flow = w)) => Told(w, flow[w])

-----------------------------------------------------------------------------
(* Lemmas about the operators.                                             *)

LEMMA BodyType ==
  ASSUME TypeOK, NEW r \in Requests
  PROVE  /\ body[r].op = "start" => body[r] \in StartBody
         /\ body[r].op = "patch" => body[r] \in PatchBody
BY BodiesAssumption DEF TypeOK, StartBody, PatchBody, SyncBody

LEMMA PatchedRow ==
  ASSUME NEW row \in WorkflowInstance, Coherent(row), NEW b \in PatchBody,
         b.status \in WorkflowStatus
  PROVE  /\ Patched(row, b) \in WorkflowInstance
         /\ Coherent(Patched(row, b))
         /\ Keeps(row, Patched(row, b))
BY IdAssumption DEF WorkflowInstance, PatchBody, Patched, Coherent, Keeps

LEMMA SyncedRow ==
  ASSUME NEW row \in WorkflowInstance, Coherent(row), NEW status \in WorkflowStatus
  PROVE  /\ Synced(row, status) \in WorkflowInstance
         /\ Coherent(Synced(row, status))
         /\ Keeps(row, Synced(row, status))
BY DEF WorkflowInstance, Synced, Coherent, Keeps

\* The query answers with an existing row, the one that started last.
\* What map_outcome makes of a context is a status, and APPROVED only of a context
\* that speaks of approval and does not deny it at its top level.
LEMMA OutcomeType ==
  ASSUME NEW c \in Contexts
  PROVE  /\ MapOutcome(c) \in WorkflowStatus
         /\ MapOutcome(c) = "APPROVED" => ApprovedBy(c)
<1>1. c \in Context /\ c # Running
  BY ContextsAssumption
<1>2. MapOutcome(c) \in WorkflowStatus
  BY DEF MapOutcome, WorkflowStatus
<1>3. MapOutcome(c) = "APPROVED" => ApprovedBy(c)
  BY <1>1 DEF MapOutcome, ApprovedBy, SpeaksOfApproval, Context
<1>4. QED
  BY <1>2, <1>3

LEMMA LatestRow ==
  ASSUME TypeOK, LatestInv, FlowInv, Flows # {}
  PROVE  Latest \in Flows /\ flow[Latest] \in WorkflowInstance /\ Coherent(flow[Latest])
<1>1. Latest \in Flows
  BY DEF LatestInv, Latest
<1>2. QED
  BY <1>1 DEF TypeOK, FlowInv, Flows

\* Events are of answered requests.
LEMMA EventBy ==
  ASSUME IInv, NEW i \in 1..Len(trail)
  PROVE  trail[i].by \in Requests /\ pc[trail[i].by] = "ok"
<1>1. trail \in Seq(AuditEvent)
  BY DEF IInv, TypeOK
<1>2. trail[i] \in AuditEvent
  BY <1>1
<1>3. trail[i].by \in Requests
  BY <1>2 DEF AuditEvent
<1>4. pc[trail[i].by] = "ok"
  BY DEF IInv, AccountInv
<1>5. QED
  BY <1>3, <1>4

LEMMA InitInv == Init => IInv
<1> SUFFICES ASSUME Init PROVE IInv
  OBVIOUS
<1>1. TypeOK
  BY DEF Init, TypeOK
<1>2. Flows = {}
  BY DEF Init, Flows
<1>3. PlanInv /\ FlowInv /\ LatestInv /\ AccountInv
  BY <1>2 DEF Init, PlanInv, FlowInv, LatestInv, AccountInv, StatusIsAccounted, InFlight
<1>4. QED
  BY <1>1, <1>3 DEF IInv

-----------------------------------------------------------------------------
(* A handler that has built its row, or given up.                          *)

\* Steps that only move request r on, without touching the tables, keep the
\* invariant when what r then plans is right.
PlanOK(p, r) ==
  /\ p \in Plan
  /\ Coherent(p.new)
  /\ p.seen # NoFlow => /\ Coherent(p.seen) /\ Keeps(p.seen, p.new) /\ p.flow \in Flows
  /\ p.seen = NoFlow => p.flow = r

LEMMA MoveOn ==
  ASSUME IInv, NEW r \in Requests, TypeOK',
         pc[r] \in {"idle", "query", "save"}, pc'[r] # "idle",
         pc'[r] \in InFlight => plan'[r] # NoPlan,
         pc'[r] = "query" => plan'[r].seen # NoFlow /\ plan'[r].seen.ext \in ExternalIds,
         plan'[r] # NoPlan => PlanOK(plan'[r], r),
         \A s \in Requests : s # r => pc'[s] = pc[s] /\ plan'[s] = plan[s],
         \A s \in Requests : s # r => startedAt'[s] = startedAt[s],
         pc[r] = "idle" \/ startedAt' = startedAt,
         UNCHANGED <<flow, trail>>
  PROVE  IInv'
<1>1. Flows' = Flows
  BY DEF Flows
<1>2. PlanInv'
  BY <1>1 DEF IInv, PlanInv, PlanOK
<1>3. FlowInv'
  BY <1>1 DEF IInv, FlowInv, Coherent
<1>4. LatestInv'
  <2>1. \A w \in Flows : startedAt'[w] = startedAt[w]
    BY DEF IInv, PlanInv, Flows
  <2>2. QED
    BY <1>1, <2>1 DEF IInv, LatestInv
<1>5. AccountInv'
  <2>1. ASSUME NEW i \in 1..Len(trail) PROVE pc'[trail[i].by] = "ok"
    <3>1. trail[i].by \in Requests /\ pc[trail[i].by] = "ok"
      BY EventBy
    <3>2. QED
      BY <3>1
  <2>2. ASSUME NEW w \in Flows
        PROVE  \E s \in Requests :
                 /\ plan'[s] # NoPlan /\ plan'[s].flow = w /\ plan'[s].new = flow[w]
                 /\ \/ pc'[s] \in {"audit", "unaudited"}
                    \/ \E i \in 1..Len(trail) :
                         trail[i] = [by |-> s, flow |-> w, from |-> StatusOf(plan'[s].seen),
                                     to |-> flow[w].status]
    <3>1. PICK s \in Requests :
                 /\ plan[s] # NoPlan /\ plan[s].flow = w /\ plan[s].new = flow[w]
                 /\ \/ pc[s] \in {"audit", "unaudited"}
                    \/ \E i \in 1..Len(trail) :
                         trail[i] = [by |-> s, flow |-> w, from |-> StatusOf(plan[s].seen),
                                     to |-> flow[w].status]
      BY DEF IInv, AccountInv, StatusIsAccounted
    <3>2. s # r
      BY <3>1 DEF IInv, AccountInv
    <3>3. plan'[s] = plan[s] /\ pc'[s] = pc[s]
      BY <3>2
    <3>4. QED
      BY <3>1, <3>3
  <2>3. QED
    BY <1>1, <2>1, <2>2 DEF AccountInv, StatusIsAccounted, StatusOf
<1>6. QED
  BY <1>2, <1>3, <1>4, <1>5 DEF IInv

LEMMA StartInv ==
  ASSUME IInv, NEW r \in Requests, StartReview(r) PROVE IInv'
<1> DEFINE new == [status |-> IF body[r].senior THEN "SENIOR_REVIEW" ELSE "PENDING",
                   ext |-> NoId, fallback |-> TRUE, completed |-> FALSE]
<1>1. /\ pc[r] = "idle" /\ r \notin Flows /\ flow[r] = NoFlow /\ plan[r] = NoPlan
      /\ UNCHANGED <<body, flow, trail, sbpa, remote>> /\ serial' \in BOOLEAN
  BY DEF IInv, TypeOK, PlanInv, Flows, StartReview, Arrive
<1>2. CASE End(r, "triggerFailed") /\ UNCHANGED <<startedAt, clock>>
  <2>1. TypeOK'
    BY <1>1, <1>2 DEF IInv, TypeOK, End, Ended
  <2>2. QED
    BY <1>1, <1>2, <2>1, MoveOn DEF IInv, TypeOK, End, InFlight
<1>3. CASE /\ Prepare(r, r, new)
           /\ startedAt' = [startedAt EXCEPT ![r] = clock] /\ clock' = clock + 1
  <2>1. new \in WorkflowInstance /\ Coherent(new)
    BY DEF WorkflowInstance, WorkflowStatus, Coherent, Terminal
  <2> DEFINE p == [flow |-> r, seen |-> flow[r], new |-> new]
  <2>2. PlanOK(p, r)
    BY <1>1, <2>1 DEF PlanOK, Plan
  <2> HIDE DEF new
  <2>3. p # NoPlan
    BY <2>2, NoPlanAssumption DEF PlanOK
  <2>4. TypeOK'
    <3>1. pc' \in [Requests -> {"idle"} \cup InFlight \cup Ended]
      BY <1>3 DEF IInv, TypeOK, Prepare, InFlight
    <3>2. plan' \in [Requests -> Plan \cup {NoPlan}]
      BY <1>3, <2>2 DEF IInv, TypeOK, Prepare, PlanOK
    <3>3. startedAt' \in [Requests -> Nat] /\ clock' \in Nat
      BY <1>3 DEF IInv, TypeOK
    <3>4. QED
      BY <1>1, <3>1, <3>2, <3>3 DEF IInv, TypeOK
  <2>5. /\ pc'[r] = "save" /\ plan'[r] = p
        /\ \A s \in Requests : s # r => /\ pc'[s] = pc[s] /\ plan'[s] = plan[s]
                                        /\ startedAt'[s] = startedAt[s]
    BY <1>3 DEF IInv, TypeOK, Prepare
  <2>6. QED
    BY <1>1, <2>2, <2>3, <2>4, <2>5, MoveOn
<1>4. QED
  BY <1>2, <1>3 DEF StartReview

LEMMA TransitionInv ==
  ASSUME IInv, NEW r \in Requests, Transition(r) PROVE IInv'
<1>1. /\ pc[r] = "idle" /\ plan[r] = NoPlan /\ body[r] \in PatchBody
      /\ UNCHANGED <<body, flow, startedAt, clock, trail, sbpa, remote>> /\ serial' \in BOOLEAN
  BY BodyType DEF IInv, TypeOK, PlanInv, Transition, Arrive
<1>2. CASE End(r, "notFound") \/ End(r, "refused")
  <2>1. TypeOK'
    BY <1>1, <1>2 DEF IInv, TypeOK, End, Ended
  <2>2. QED
    BY <1>1, <1>2, <2>1, MoveOn DEF IInv, TypeOK, End, InFlight
<1>3. CASE /\ Flows # {} /\ body[r].status \in WorkflowStatus
           /\ Prepare(r, Latest, Patched(flow[Latest], body[r]))
  <2> DEFINE p == [flow |-> Latest, seen |-> flow[Latest],
                   new |-> Patched(flow[Latest], body[r])]
  <2>1. Latest \in Flows /\ flow[Latest] \in WorkflowInstance /\ Coherent(flow[Latest])
    BY <1>3, LatestRow DEF IInv
  <2>2. PlanOK(p, r)
    <3>1. /\ p.new \in WorkflowInstance /\ Coherent(p.new)
          /\ Keeps(flow[Latest], p.new)
      BY <1>1, <1>3, <2>1, PatchedRow
    <3>2. Latest \in Requests
      BY <2>1 DEF Flows
    <3>3. QED
      BY <2>1, <3>1, <3>2, NoFlowAssumption DEF PlanOK, Plan
  <2>3. p # NoPlan
    BY <2>2, NoPlanAssumption DEF PlanOK
  <2>4. /\ pc'[r] = "save" /\ plan'[r] = p
        /\ \A s \in Requests : s # r => pc'[s] = pc[s] /\ plan'[s] = plan[s]
    BY <1>3 DEF IInv, TypeOK, Prepare
  <2>5. TypeOK'
    <3>1. pc' \in [Requests -> {"idle"} \cup InFlight \cup Ended]
      BY <1>3 DEF IInv, TypeOK, Prepare, InFlight
    <3>2. plan' \in [Requests -> Plan \cup {NoPlan}]
      BY <1>3, <2>2 DEF IInv, TypeOK, Prepare, PlanOK
    <3>3. QED
      BY <1>1, <3>1, <3>2 DEF IInv, TypeOK
  <2>6. QED
    BY <1>1, <2>2, <2>3, <2>4, <2>5, MoveOn
<1>4. QED
  BY <1>2, <1>3 DEF Transition

LEMMA SyncReadInv ==
  ASSUME IInv, NEW r \in Requests, SyncRead(r) PROVE IInv'
<1>1. /\ pc[r] = "idle" /\ plan[r] = NoPlan
      /\ UNCHANGED <<body, flow, startedAt, clock, trail, sbpa, remote>> /\ serial' \in BOOLEAN
  BY DEF IInv, TypeOK, PlanInv, SyncRead, Arrive
<1>2. CASE End(r, "notFound") \/ End(r, "noInstance")
  <2>1. TypeOK'
    BY <1>1, <1>2 DEF IInv, TypeOK, End, Ended
  <2>2. QED
    BY <1>1, <1>2, <2>1, MoveOn DEF IInv, TypeOK, End, InFlight
<1> DEFINE p == [flow |-> Latest, seen |-> flow[Latest], new |-> flow[Latest]]
<1>3. CASE /\ Flows # {} /\ flow[Latest].ext # NoId
           /\ plan' = [plan EXCEPT ![r] = p] /\ pc' = [pc EXCEPT ![r] = "query"]
  <2>1. Latest \in Flows /\ flow[Latest] \in WorkflowInstance /\ Coherent(flow[Latest])
    BY <1>3, LatestRow DEF IInv
  <2>2. PlanOK(p, r) /\ p.seen # NoFlow /\ p.seen.ext \in ExternalIds
    BY <1>3, <2>1, NoFlowAssumption DEF PlanOK, Plan, Flows, Keeps, WorkflowInstance
  <2>3. p # NoPlan
    BY <2>2, NoPlanAssumption DEF PlanOK
  <2>4. /\ pc'[r] = "query" /\ plan'[r] = p
        /\ \A s \in Requests : s # r => pc'[s] = pc[s] /\ plan'[s] = plan[s]
    BY <1>3 DEF IInv, TypeOK
  <2>5. TypeOK'
    <3>1. pc' \in [Requests -> {"idle"} \cup InFlight \cup Ended]
      BY <1>3 DEF IInv, TypeOK, InFlight
    <3>2. plan' \in [Requests -> Plan \cup {NoPlan}]
      BY <1>3, <2>2 DEF IInv, TypeOK, PlanOK
    <3>3. QED
      BY <1>1, <3>1, <3>2 DEF IInv, TypeOK
  <2>6. QED
    BY <1>1, <2>2, <2>3, <2>4, <2>5, MoveOn
<1>4. QED
  BY <1>2, <1>3 DEF SyncRead

LEMMA SyncUnavailableInv ==
  ASSUME IInv, NEW r \in Requests, SyncUnavailable(r) PROVE IInv'
<1>1. TypeOK'
  BY DEF IInv, TypeOK, SyncUnavailable, Ended
<1>2. QED
  BY <1>1, MoveOn DEF IInv, TypeOK, SyncUnavailable, InFlight

LEMMA SyncAnsweredInv ==
  ASSUME IInv, NEW r \in Requests, SyncAnswered(r) PROVE IInv'
<1> DEFINE row == plan[r].seen
<1>1. /\ pc[r] = "query" /\ plan[r] # NoPlan /\ plan[r] \in Plan
      /\ row # NoFlow /\ row \in WorkflowInstance /\ Coherent(row) /\ plan[r].flow \in Flows
      /\ UNCHANGED <<body, flow, startedAt, clock, trail, sbpa, remote, serial>>
  BY DEF IInv, TypeOK, PlanInv, SyncAnswered, InFlight, Plan
<1>2. PICK status \in Readings(row.ext) :
        IF status = row.status
          THEN /\ pc' = [pc EXCEPT ![r] = "ok"]
               /\ plan' = [plan EXCEPT ![r] = NoPlan]
          ELSE /\ pc' = [pc EXCEPT ![r] = "save"]
               /\ plan' = [plan EXCEPT ![r].new = Synced(row, status)]
  BY DEF SyncAnswered
<1>3. CASE status = row.status
  <2>1. TypeOK'
    BY <1>1, <1>2, <1>3 DEF IInv, TypeOK, Ended
  <2>2. QED
    BY <1>1, <1>2, <1>3, <2>1, MoveOn DEF IInv, TypeOK, InFlight
<1>4. CASE status # row.status
  <2> DEFINE p == [flow |-> plan[r].flow, seen |-> row, new |-> Synced(row, status)]
  <2>1. status \in WorkflowStatus
    <3>1. row.ext \in ExternalIds
      BY <1>1 DEF IInv, PlanInv
    <3>2. QED
      BY <3>1, <1>2, OutcomeType DEF IInv, TypeOK, Readings, WorkflowStatus
  <2>2. PlanOK(p, r)
    BY <1>1, <2>1, SyncedRow DEF PlanOK, Plan
  <2>3. p # NoPlan
    BY <2>2, NoPlanAssumption DEF PlanOK
  <2>4. /\ pc' = [pc EXCEPT ![r] = "save"] /\ plan' = [plan EXCEPT ![r] = p]
    BY <1>1, <1>2, <1>4 DEF Plan
  <2>5. /\ pc'[r] = "save" /\ plan'[r] = p
        /\ \A s \in Requests : s # r => pc'[s] = pc[s] /\ plan'[s] = plan[s]
    BY <2>4 DEF IInv, TypeOK
  <2>6. TypeOK'
    <3>1. pc' \in [Requests -> {"idle"} \cup InFlight \cup Ended]
      BY <2>4 DEF IInv, TypeOK, InFlight
    <3>2. plan' \in [Requests -> Plan \cup {NoPlan}]
      BY <2>2, <2>4 DEF IInv, TypeOK, PlanOK
    <3>3. QED
      BY <1>1, <3>1, <3>2 DEF IInv, TypeOK
  <2>7. QED
    BY <1>1, <2>2, <2>3, <2>5, <2>6, MoveOn
<1>5. QED
  BY <1>3, <1>4

LEMMA SaveInv ==
  ASSUME IInv, NEW r \in Requests, Save(r) PROVE IInv'
<1> DEFINE w == plan[r].flow
           new == plan[r].new
<1>1. /\ pc[r] = "save" /\ plan[r] # NoPlan /\ w \in Requests /\ new \in WorkflowInstance
      /\ Coherent(new) /\ new # NoFlow
      /\ flow' = [flow EXCEPT ![w] = new] /\ pc' = [pc EXCEPT ![r] = "audit"]
      /\ UNCHANGED <<body, plan, startedAt, clock, trail, sbpa, remote, serial>>
  BY NoFlowAssumption DEF IInv, TypeOK, PlanInv, Save, InFlight, Plan
<1>2. /\ flow'[w] = new /\ \A v \in Requests : v # w => flow'[v] = flow[v]
      /\ pc'[r] = "audit" /\ \A s \in Requests : s # r => pc'[s] = pc[s]
  BY <1>1 DEF IInv, TypeOK
<1>3. Flows' = Flows \cup {w}
  BY <1>1, <1>2 DEF Flows
<1>4. TypeOK'
  <2>1. pc' \in [Requests -> {"idle"} \cup InFlight \cup Ended]
    BY <1>1 DEF IInv, TypeOK, InFlight
  <2>2. flow' \in [Requests -> WorkflowInstance \cup {NoFlow}]
    BY <1>1 DEF IInv, TypeOK
  <2>3. QED
    BY <1>1, <2>1, <2>2 DEF IInv, TypeOK
<1>5. PlanInv'
  <2>1. w \notin Flows => w = r
    BY <1>1 DEF IInv, PlanInv
  <2>2. pc[w] # "idle"
    BY <1>1, <2>1 DEF IInv, PlanInv, Flows
  <2>3. QED
    BY <1>1, <1>2, <1>3, <2>2 DEF IInv, PlanInv, InFlight
<1>6. FlowInv'
  BY <1>1, <1>2, <1>3 DEF IInv, FlowInv, Flows, Coherent
<1>7. LatestInv'
  <2>1. \A v \in Flows \cup {w} : startedAt[v] \in Nat
    BY <1>1 DEF IInv, TypeOK, Flows
  <2>2. \E u \in Flows \cup {w} : \A v \in Flows \cup {w} : startedAt[v] <= startedAt[u]
    <3>1. CASE Flows = {}
      BY <2>1, <3>1
    <3>2. CASE Flows # {}
      <4>1. PICK u \in Flows : \A v \in Flows : startedAt[v] <= startedAt[u]
        BY <3>2 DEF IInv, LatestInv
      <4>2. CASE startedAt[w] <= startedAt[u]
        BY <4>1, <4>2
      <4>3. CASE startedAt[u] < startedAt[w]
        BY <2>1, <4>1, <4>3
      <4>4. QED
        BY <2>1, <4>2, <4>3
    <3>3. QED
      BY <3>1, <3>2
  <2>3. QED
    BY <1>1, <1>3, <2>2 DEF LatestInv
<1>8. AccountInv'
  <2>1. ASSUME NEW i \in 1..Len(trail) PROVE pc'[trail[i].by] = "ok"
    <3>1. trail[i].by \in Requests /\ pc[trail[i].by] = "ok"
      BY EventBy
    <3>2. QED
      BY <1>1, <1>2, <3>1
  <2>2. ASSUME NEW v \in Flows \cup {w}
        PROVE  \E s \in Requests :
                 /\ plan[s] # NoPlan /\ plan[s].flow = v /\ plan[s].new = flow'[v]
                 /\ \/ pc'[s] \in {"audit", "unaudited"}
                    \/ \E i \in 1..Len(trail) :
                         trail[i] = [by |-> s, flow |-> v, from |-> StatusOf(plan[s].seen),
                                     to |-> flow'[v].status]
    <3>1. CASE v = w
      BY <1>1, <1>2, <3>1
    <3>2. CASE v # w
      <4>1. flow'[v] = flow[v] /\ v \in Flows
        BY <1>2, <3>2 DEF Flows
      <4>2. PICK s \in Requests :
                 /\ plan[s] # NoPlan /\ plan[s].flow = v /\ plan[s].new = flow[v]
                 /\ \/ pc[s] \in {"audit", "unaudited"}
                    \/ \E i \in 1..Len(trail) :
                         trail[i] = [by |-> s, flow |-> v, from |-> StatusOf(plan[s].seen),
                                     to |-> flow[v].status]
        BY <4>1 DEF IInv, AccountInv, StatusIsAccounted
      <4>3. s # r
        BY <1>1, <4>2 DEF IInv, AccountInv
      <4>4. QED
        BY <1>2, <4>1, <4>2, <4>3
    <3>3. QED
      BY <3>1, <3>2
  <2>3. QED
    BY <1>1, <1>3, <2>1, <2>2 DEF AccountInv, StatusIsAccounted, StatusOf
<1>9. QED
  BY <1>4, <1>5, <1>6, <1>7, <1>8 DEF IInv

LEMMA RecordEventInv ==
  ASSUME IInv, NEW r \in Requests, RecordEvent(r) PROVE IInv'
<1> DEFINE e == [by |-> r, flow |-> plan[r].flow, from |-> StatusOf(plan[r].seen),
                 to |-> plan[r].new.status]
<1>1. /\ pc[r] = "audit" /\ plan[r] # NoPlan /\ plan[r] \in Plan
      /\ trail' = Append(trail, e) /\ pc' = [pc EXCEPT ![r] = "ok"]
      /\ UNCHANGED <<body, plan, flow, startedAt, clock, sbpa, remote, serial>>
  BY DEF IInv, TypeOK, PlanInv, RecordEvent, InFlight
<1>2. e \in AuditEvent
  BY <1>1 DEF AuditEvent, Plan, WorkflowInstance, StatusOf
<1> HIDE DEF e
<1>3. /\ Len(trail') = Len(trail) + 1 /\ Len(trail) \in Nat
      /\ \A i \in 1..Len(trail) : trail'[i] = trail[i]
      /\ trail'[Len(trail) + 1] = e
      /\ trail' \in Seq(AuditEvent)
  BY <1>1, <1>2 DEF IInv, TypeOK
<1>4. /\ pc'[r] = "ok" /\ \A s \in Requests : s # r => pc'[s] = pc[s]
      /\ Flows' = Flows
  BY <1>1 DEF IInv, TypeOK, Flows
<1>5. TypeOK'
  BY <1>1, <1>3 DEF IInv, TypeOK, Ended
<1>6. PlanInv' /\ FlowInv' /\ LatestInv'
  BY <1>1, <1>4 DEF IInv, PlanInv, FlowInv, LatestInv, InFlight, Coherent
<1>7. AccountInv'
  <2>1. ASSUME NEW i \in 1..Len(trail') PROVE pc'[trail'[i].by] = "ok"
    <3>1. CASE i = Len(trail) + 1
      BY <1>3, <1>4, <3>1 DEF e
    <3>2. CASE i \in 1..Len(trail)
      <4>1. trail[i].by \in Requests /\ pc[trail[i].by] = "ok"
        BY <3>2, EventBy
      <4>2. QED
        BY <1>3, <1>4, <3>2, <4>1
    <3>3. QED
      BY <1>3, <3>1, <3>2
  <2>2. ASSUME NEW w \in Flows
        PROVE  \E s \in Requests :
                 /\ plan[s] # NoPlan /\ plan[s].flow = w /\ plan[s].new = flow[w]
                 /\ \/ pc'[s] \in {"audit", "unaudited"}
                    \/ \E i \in 1..Len(trail') :
                         trail'[i] = [by |-> s, flow |-> w, from |-> StatusOf(plan[s].seen),
                                      to |-> flow[w].status]
    <3>1. PICK s \in Requests :
                 /\ plan[s] # NoPlan /\ plan[s].flow = w /\ plan[s].new = flow[w]
                 /\ \/ pc[s] \in {"audit", "unaudited"}
                    \/ \E i \in 1..Len(trail) :
                         trail[i] = [by |-> s, flow |-> w, from |-> StatusOf(plan[s].seen),
                                     to |-> flow[w].status]
      BY DEF IInv, AccountInv, StatusIsAccounted
    <3>2. CASE s = r
      <4>1. trail'[Len(trail) + 1] = [by |-> s, flow |-> w, from |-> StatusOf(plan[s].seen),
                                      to |-> flow[w].status]
        BY <1>3, <3>1, <3>2 DEF e
      <4>2. Len(trail) + 1 \in 1..Len(trail')
        BY <1>3
      <4>3. QED
        BY <3>1, <4>1, <4>2
    <3>3. CASE s # r /\ pc[s] \in {"audit", "unaudited"}
      BY <1>4, <3>1, <3>3
    <3>4. CASE pc[s] \notin {"audit", "unaudited"}
      <4>1. PICK i \in 1..Len(trail) :
              trail[i] = [by |-> s, flow |-> w, from |-> StatusOf(plan[s].seen),
                          to |-> flow[w].status]
        BY <3>1, <3>4
      <4>2. i \in 1..Len(trail') /\ trail'[i] = trail[i]
        BY <1>3
      <4>3. QED
        BY <3>1, <4>1, <4>2
    <3>5. QED
      BY <3>2, <3>3, <3>4
  <2>3. Flows' = Flows /\ flow' = flow /\ plan' = plan
    BY <1>1, <1>4
  <2>4. StatusIsAccounted'
    <3> SUFFICES ASSUME NEW w \in Flows
                 PROVE  (\E s \in Requests :
                          /\ plan[s] # NoPlan /\ plan[s].flow = w /\ plan[s].new = flow[w]
                          /\ \/ pc[s] \in {"audit", "unaudited"}
                             \/ \E i \in 1..Len(trail) :
                                  trail[i] = [by |-> s, flow |-> w,
                                              from |-> StatusOf(plan[s].seen),
                                              to |-> flow[w].status])'
      BY <2>3 DEF StatusIsAccounted
    <3>1. \A s : StatusOf(plan[s].seen)' = StatusOf(plan[s].seen)
      BY <2>3 DEF StatusOf
    <3>2. QED
      BY <2>2, <2>3, <3>1
  <2>5. QED
    BY <2>1, <2>4 DEF AccountInv
<1>8. QED
  BY <1>5, <1>6, <1>7 DEF IInv

\* Cutting handlers short ends them, and spares those that are not in flight.
LEMMA CutInv ==
  ASSUME IInv, pc' \in [Requests -> {"idle"} \cup InFlight \cup Ended],
         \A s \in Requests : \/ pc'[s] = pc[s]
                             \/ pc[s] \in InFlight /\ pc'[s] = CutShort[pc[s]],
         serial' \in BOOLEAN, sbpa' \in Settings, remote' = remote,
         UNCHANGED <<body, plan, flow, startedAt, clock, trail>>
  PROVE  IInv'
<1>1. Flows' = Flows
  BY DEF Flows
<1>2. TypeOK'
  BY DEF IInv, TypeOK
<1>3. \A s \in Requests : /\ pc'[s] \in {"idle", "ok", "query"} \cup InFlight => pc'[s] = pc[s]
                          /\ pc[s] \in {"ok", "unaudited"} => pc'[s] = pc[s]
                          /\ pc[s] = "audit" => pc'[s] \in {"audit", "unaudited"}
  BY DEF CutShort, InFlight
<1>4. PlanInv' /\ FlowInv' /\ LatestInv'
  BY <1>1, <1>3 DEF IInv, PlanInv, FlowInv, LatestInv, Coherent
<1>5. AccountInv'
  <2>1. ASSUME NEW i \in 1..Len(trail) PROVE pc'[trail[i].by] = "ok"
    <3>1. trail[i].by \in Requests /\ pc[trail[i].by] = "ok"
      BY EventBy
    <3>2. QED
      BY <1>3, <3>1
  <2>2. ASSUME NEW w \in Flows
        PROVE  \E s \in Requests :
                 /\ plan[s] # NoPlan /\ plan[s].flow = w /\ plan[s].new = flow[w]
                 /\ \/ pc'[s] \in {"audit", "unaudited"}
                    \/ \E i \in 1..Len(trail) :
                         trail[i] = [by |-> s, flow |-> w, from |-> StatusOf(plan[s].seen),
                                     to |-> flow[w].status]
    BY <1>3 DEF IInv, AccountInv, StatusIsAccounted
  <2>3. QED
    BY <1>1, <2>1, <2>2 DEF AccountInv, StatusIsAccounted, StatusOf
<1>6. QED
  BY <1>2, <1>4, <1>5 DEF IInv

LEMMA FailInv ==
  ASSUME IInv, NEW r \in Requests, Fail(r) PROVE IInv'
<1>1. pc'[r] = CutShort[pc[r]] /\ \A s \in Requests : s # r => pc'[s] = pc[s]
  BY DEF IInv, TypeOK, Fail
<1>2. pc' \in [Requests -> {"idle"} \cup InFlight \cup Ended]
  BY DEF IInv, TypeOK, Fail, InFlight, Ended, CutShort
<1>3. QED
  BY <1>1, <1>2, CutInv DEF Fail, IInv, TypeOK

LEMMA RestartInv ==
  ASSUME IInv, NEW s \in Settings, Restart(s) PROVE IInv'
<1>1. pc' \in [Requests -> {"idle"} \cup InFlight \cup Ended]
  BY DEF IInv, TypeOK, Restart, InFlight, Ended, CutShort
<1>2. \A r \in Requests : \/ pc'[r] = pc[r]
                          \/ pc[r] \in InFlight /\ pc'[r] = CutShort[pc[r]]
  BY DEF Restart
<1>3. serial' \in BOOLEAN
  BY DEF IInv, TypeOK, Restart
<1>4. QED
  BY <1>1, <1>2, <1>3, CutInv DEF Restart

LEMMA RemoteFinishInv ==
  ASSUME IInv, NEW i \in ExternalIds, NEW c \in Contexts, RemoteFinish(i, c) PROVE IInv'
<1>1. TypeOK'
  BY DEF IInv, TypeOK, RemoteFinish
<1>2. PlanInv' /\ FlowInv' /\ LatestInv' /\ AccountInv'
  BY DEF IInv, RemoteFinish, PlanInv, FlowInv, LatestInv, AccountInv, StatusIsAccounted,
     Flows, Coherent
<1>3. QED
  BY <1>1, <1>2 DEF IInv

LEMMA StepInv == IInv /\ [Next]_vars => IInv'
<1> SUFFICES ASSUME IInv, [Next]_vars PROVE IInv'
  OBVIOUS
<1>1. CASE Next
  BY <1>1, StartInv, TransitionInv, SyncReadInv, SyncUnavailableInv, SyncAnsweredInv,
     SaveInv, RecordEventInv, FailInv, RestartInv, RemoteFinishInv DEF Next
<1>2. CASE UNCHANGED vars
  <2>1. TypeOK' /\ PlanInv'
    BY <1>2 DEF vars, IInv, TypeOK, PlanInv, Flows, Coherent, Keeps
  <2>2. FlowInv' /\ LatestInv' /\ AccountInv'
    BY <1>2 DEF vars, IInv, FlowInv, LatestInv, AccountInv, StatusIsAccounted, Flows, Coherent
  <2>3. QED
    BY <2>1, <2>2 DEF IInv
<1>3. QED
  BY <1>1, <1>2

LEMMA Invariance == Spec => []IInv
BY InitInv, StepInv, PTL DEF Spec

-----------------------------------------------------------------------------
(* Nobody is told of an approval that no one spoke of.                     *)

LEMMA GroundSyncAnswered ==
  ASSUME IInv, GroundInv, NEW r \in Requests, SyncAnswered(r) PROVE GroundInv'
<1>1. /\ pc[r] = "query" /\ plan[r] # NoPlan /\ plan[r] \in Plan
      /\ plan[r].seen.ext \in ExternalIds /\ body[r].op = "sync"
      /\ UNCHANGED <<body, remote>>
  BY DEF IInv, TypeOK, PlanInv, GroundInv, SyncAnswered, InFlight
<1>2. \A s \in Requests : s # r => pc'[s] = pc[s] /\ plan'[s] = plan[s]
  BY DEF IInv, TypeOK, SyncAnswered
<1>3. \A s \in Requests : s # r => Grounded(s)' = Grounded(s)
  BY <1>1, <1>2 DEF Grounded
<1>4. pc'[r] # "query"
  BY <1>1 DEF IInv, TypeOK, SyncAnswered
<1>5. ASSUME plan'[r] # NoPlan, plan'[r].new.status = "APPROVED" PROVE Grounded(r)'
  <2>1. PICK status \in Readings(plan[r].seen.ext) :
          plan' = [plan EXCEPT ![r].new = Synced(plan[r].seen, status)]
    BY <1>5, <1>1 DEF SyncAnswered, IInv, TypeOK
  <2>2. plan'[r] = [plan[r] EXCEPT !.new = Synced(plan[r].seen, status)]
    BY <2>1 DEF IInv, TypeOK
  <2>3. plan'[r].seen = plan[r].seen /\ plan'[r].new = Synced(plan[r].seen, status)
    BY <2>2, <1>1 DEF Plan
  <2>4. plan[r].seen \in WorkflowInstance
    BY <1>1 DEF IInv, PlanInv, Plan
  <2>5. status = "APPROVED"
    BY <1>5, <2>3, <2>4 DEF Synced, WorkflowInstance
  <2>6. ApprovedBy(remote[plan[r].seen.ext])
    <3> DEFINE c == remote[plan[r].seen.ext]
    <3>1. c \in Contexts /\ MapOutcome(c) = "APPROVED"
      BY <1>1, <2>1, <2>5 DEF Readings, IInv, TypeOK
    <3>2. QED
      BY <3>1, OutcomeType
  <2>7. QED
    BY <2>3, <2>6, <1>1 DEF Grounded
<1>6. QED
  BY <1>1, <1>2, <1>3, <1>4, <1>5 DEF GroundInv

LEMMA GroundTransition ==
  ASSUME IInv, GroundInv, NEW r \in Requests, Transition(r) PROVE GroundInv'
<1>1. /\ pc[r] = "idle" /\ plan[r] = NoPlan /\ body[r].op = "patch" /\ body[r] \in PatchBody
      /\ UNCHANGED <<body, remote, flow>>
  BY BodyType DEF IInv, PlanInv, Transition, Arrive
<1>2. \A s \in Requests : s # r => pc'[s] = pc[s] /\ plan'[s] = plan[s]
  BY DEF IInv, TypeOK, Transition, End, Prepare
<1>3. \A s \in Requests : s # r => Grounded(s)' = Grounded(s)
  BY <1>1, <1>2 DEF Grounded
<1>4. pc'[r] # "query"
  BY DEF IInv, TypeOK, Transition, End, Prepare
<1>5. ASSUME plan'[r] # NoPlan, plan'[r].new.status = "APPROVED" PROVE Grounded(r)'
  <2>1. Flows # {} /\ Prepare(r, Latest, Patched(flow[Latest], body[r]))
    BY <1>5, <1>1 DEF Transition, End
  <2>2. flow[Latest] \in WorkflowInstance
    BY <2>1, LatestRow DEF IInv
  <2>3. plan'[r].new = Patched(flow[Latest], body[r])
    BY <2>1 DEF IInv, TypeOK, Prepare
  <2>4. body[r].status = "APPROVED"
    BY <1>5, <2>2, <2>3 DEF Patched, WorkflowInstance
  <2>5. QED
    BY <2>4, <1>1 DEF Grounded
<1>6. QED
  BY <1>1, <1>2, <1>3, <1>4, <1>5 DEF GroundInv

LEMMA GroundStep == IInv /\ GroundInv /\ [Next]_vars => GroundInv'
<1> SUFFICES ASSUME IInv, GroundInv, [Next]_vars PROVE GroundInv'
  OBVIOUS
<1>1. ASSUME NEW r \in Requests, StartReview(r) PROVE GroundInv'
  <2>1. /\ UNCHANGED <<body, remote>> /\ plan[r] = NoPlan
        /\ \A s \in Requests : s # r => pc'[s] = pc[s] /\ plan'[s] = plan[s]
        /\ pc'[r] # "query"
    BY <1>1 DEF IInv, TypeOK, PlanInv, StartReview, Arrive, End, Prepare
  <2>2. plan'[r] # NoPlan => plan'[r].new.status # "APPROVED"
    BY <1>1, <2>1 DEF IInv, TypeOK, StartReview, End, Prepare
  <2>3. \A s \in Requests : s # r => Grounded(s)' = Grounded(s)
    BY <2>1 DEF Grounded
  <2>4. QED
    BY <2>1, <2>2, <2>3 DEF GroundInv
<1>2. ASSUME NEW r \in Requests, SyncRead(r) PROVE GroundInv'
  <2>1. /\ UNCHANGED <<body, remote>> /\ body[r].op = "sync"
        /\ \A s \in Requests : s # r => pc'[s] = pc[s] /\ plan'[s] = plan[s]
        /\ pc'[r] \notin {"save", "audit", "ok", "unaudited"}
    BY <1>2 DEF IInv, TypeOK, SyncRead, Arrive, End
  <2>2. \A s \in Requests : s # r => Grounded(s)' = Grounded(s)
    BY <2>1 DEF Grounded
  <2>3. QED
    BY <2>1, <2>2 DEF GroundInv
<1>3. ASSUME NEW r \in Requests, SyncUnavailable(r) PROVE GroundInv'
  <2>1. /\ UNCHANGED <<body, remote>>
        /\ \A s \in Requests : s # r => pc'[s] = pc[s] /\ plan'[s] = plan[s]
        /\ pc'[r] = "unavailable"
    BY <1>3 DEF IInv, TypeOK, SyncUnavailable
  <2>2. \A s \in Requests : s # r => Grounded(s)' = Grounded(s)
    BY <2>1 DEF Grounded
  <2>3. QED
    BY <2>1, <2>2 DEF GroundInv
<1>4. ASSUME NEW r \in Requests, Save(r) \/ RecordEvent(r) PROVE GroundInv'
  <2>1. /\ UNCHANGED <<body, remote, plan>>
        /\ \A s \in Requests : s # r => pc'[s] = pc[s]
        /\ pc[r] \in {"save", "audit"} /\ pc'[r] # "query"
    BY <1>4 DEF IInv, TypeOK, Save, RecordEvent
  <2>2. \A s \in Requests : Grounded(s)' = Grounded(s)
    BY <2>1 DEF Grounded
  <2>3. QED
    BY <2>1, <2>2 DEF GroundInv
<1>5. ASSUME UNCHANGED <<body, remote, plan>>,
             \A s \in Requests : \/ pc'[s] = pc[s]
                                 \/ pc[s] \in InFlight /\ pc'[s] = CutShort[pc[s]]
      PROVE  GroundInv'
  <2>1. \A s \in Requests : \/ pc'[s] = pc[s]
                            \/ pc[s] = "audit" /\ pc'[s] = "unaudited"
                            \/ pc'[s] = "failed"
    BY <1>5 DEF InFlight, CutShort
  <2>2. \A s \in Requests : Grounded(s)' = Grounded(s)
    BY <1>5 DEF Grounded
  <2>3. QED
    BY <1>5, <2>1, <2>2 DEF GroundInv
<1>6. ASSUME NEW r \in Requests, Fail(r) PROVE GroundInv'
  <2>1. \A s \in Requests : pc'[s] = IF s = r THEN CutShort[pc[r]] ELSE pc[s]
    BY <1>6 DEF IInv, TypeOK, Fail
  <2>2. QED
    BY <1>5, <1>6, <2>1 DEF Fail
<1>7. ASSUME NEW s \in Settings, Restart(s) PROVE GroundInv'
  BY <1>5, <1>7 DEF Restart
<1>8. ASSUME NEW i \in ExternalIds, NEW c \in Contexts, RemoteFinish(i, c) PROVE GroundInv'
  <2>1. \A j \in ExternalIds : ApprovedBy(remote[j]) => remote'[j] = remote[j]
    BY <1>8 DEF IInv, TypeOK, RemoteFinish, ApprovedBy
  <2>2. \A r \in Requests : Grounded(r) => Grounded(r)'
    BY <1>8, <2>1 DEF Grounded, RemoteFinish
  <2>3. QED
    BY <1>8, <2>2 DEF GroundInv, RemoteFinish
<1>9. CASE UNCHANGED vars
  BY <1>5, <1>9 DEF vars
<1>10. QED
  BY <1>1, <1>2, <1>3, <1>4, <1>6, <1>7, <1>8, <1>9, GroundSyncAnswered, GroundTransition
     DEF Next

LEMMA GroundInvariance == Spec => []GroundInv
<1>1. Init => GroundInv
  BY DEF Init, GroundInv
<1>2. QED
  BY <1>1, GroundStep, Invariance, PTL DEF Spec

-----------------------------------------------------------------------------
(* One handler after the other.                                            *)

\* One more event of w, from the status the trail led to, leads to the next.
LEMMA TellOneMore ==
  ASSUME TypeOK, NEW e \in AuditEvent, trail' = Append(trail, e), NEW row,
         Told(e.flow, row), e.from = StatusOf(row)
  PROVE  /\ ChainsTo(e.flow, e.to)'
         /\ \A w : w # e.flow => EventsOf(w)' = EventsOf(w)
         /\ \A w, status : w # e.flow /\ ChainsTo(w, status) => ChainsTo(w, status)'
<1> DEFINE n == Len(trail) + 1
<1>1. /\ Len(trail') = n /\ Len(trail) \in Nat
      /\ \A i \in 1..Len(trail) : trail'[i] = trail[i]
      /\ trail'[n] = e
  BY DEF TypeOK
<1>2. \A w : w # e.flow => EventsOf(w)' = EventsOf(w)
  BY <1>1 DEF EventsOf
<1>3. EventsOf(e.flow)' = EventsOf(e.flow) \cup {n}
  BY <1>1 DEF EventsOf
<1>4. \A w : \A i \in EventsOf(w) : trail'[i] = trail[i] /\ i < n /\ i \in Nat
  BY <1>1 DEF EventsOf
<1>5. \A w, status : w # e.flow /\ ChainsTo(w, status) => ChainsTo(w, status)'
  <2> SUFFICES ASSUME NEW w, NEW status, w # e.flow, ChainsTo(w, status)
               PROVE  ChainsTo(w, status)'
    OBVIOUS
  <2>1. EventsOf(w)' = EventsOf(w)
    BY <1>2
  <2>2. \A i \in EventsOf(w) : trail'[i] = trail[i]
    BY <1>4
  <2> DEFINE D == EventsOf(w)
  <2>3. ASSUME NEW i \in D
        PROVE  /\ (\A j \in D : i <= j) => trail'[i].from = "none"
               /\ (\A j \in D : j <= i) => trail'[i].to = status
    BY <2>2 DEF ChainsTo
  <2>4. ASSUME NEW i \in D, NEW j \in D, i < j, \A k \in D : k <= i \/ j <= k
        PROVE  trail'[j].from = trail'[i].to
    <3>1. trail[j].from = trail[i].to
      BY <2>4 DEF ChainsTo
    <3>2. QED
      BY <2>2, <3>1
  <2> HIDE DEF D
  <2>5. EventsOf(w)' = D /\ D # {}
    BY <2>1 DEF D, ChainsTo
  <2>6. QED
    BY <2>3, <2>4, <2>5 DEF ChainsTo
<1> DEFINE E == EventsOf(e.flow)
<1>6. CASE row = NoFlow
  <2>1. E = {} /\ e.from = "none"
    BY <1>6 DEF Told, StatusOf
  <2>2. EventsOf(e.flow)' = {n}
    BY <1>3, <2>1
  <2>3. ChainsTo(e.flow, e.to)'
    BY <1>1, <2>1, <2>2 DEF ChainsTo
  <2>4. QED
    BY <1>2, <1>5, <2>3
<1>7. CASE row # NoFlow
  <2>1. ChainsTo(e.flow, row.status) /\ e.from = row.status
    BY <1>7 DEF Told, StatusOf
  <2>2. E # {}
    BY <2>1 DEF ChainsTo
  <2>3. n \in Nat /\ \A i \in E : i \in Nat /\ i < n /\ trail'[i] = trail[i]
    <3>1. n \in Nat
      BY <1>1
    <3>2. QED
      BY <3>1, <1>4
  <2>4. ASSUME NEW i \in E \cup {n}, \A j \in E \cup {n} : i <= j
        PROVE  trail'[i].from = "none"
    <3>1. i \in E
      BY <2>2, <2>3, <2>4
    <3>2. QED
      BY <2>1, <2>3, <2>4, <3>1 DEF ChainsTo
  <2>5. ASSUME NEW i \in E \cup {n}, \A j \in E \cup {n} : j <= i
        PROVE  trail'[i].to = e.to
    <3>1. i = n
      BY <2>3, <2>5
    <3>2. QED
      BY <1>1, <3>1
  <2>6. ASSUME NEW i \in E \cup {n}, NEW j \in E \cup {n},
               i < j, \A k \in E \cup {n} : k <= i \/ j <= k
        PROVE  trail'[j].from = trail'[i].to
    <3>1. i \in E
      BY <2>3, <2>6
    <3>2. CASE j = n
      <4>1. ASSUME NEW k \in E PROVE k <= i
        <5>1. k <= i \/ n <= k
          BY <2>6, <3>2
        <5>2. k \in Nat /\ k < n /\ n \in Nat
          BY <2>3
        <5>3. QED
          BY <5>1, <5>2
      <4>2. trail[i].to = row.status
        BY <2>1, <3>1, <4>1 DEF ChainsTo
      <4>3. QED
        BY <1>1, <2>1, <2>3, <3>1, <3>2, <4>2
    <3>3. CASE j \in E
      <4>1. \A k \in E : k <= i \/ j <= k
        BY <2>6
      <4>2. trail[j].from = trail[i].to
        BY <2>1, <2>6, <3>1, <3>3, <4>1 DEF ChainsTo
      <4>3. QED
        BY <2>3, <3>1, <3>3, <4>2
    <3>4. QED
      BY <3>2, <3>3
  <2> HIDE DEF n, E
  <2>7. EventsOf(e.flow)' = E \cup {n}
    BY <1>3 DEF E
  <2>8. ChainsTo(e.flow, e.to)'
    BY <2>4, <2>5, <2>6, <2>7 DEF ChainsTo
  <2>9. QED
    BY <1>2, <1>5, <2>8
<1>8. QED
  BY <1>6, <1>7

LEMMA ToldUnchanged ==
  ASSUME trail' = trail
  PROVE  \A w, row : Told(w, row)' = Told(w, row)
BY DEF Told, ChainsTo, EventsOf

\* A handler that arrives finds nobody under way, or ends the serial history.
LEMMA SerialArrive ==
  ASSUME IInv, SerialInv, NEW r \in Requests, NEW op, Arrive(r, op),
         UNCHANGED <<flow, trail>>,
         \A s \in Requests : s # r => pc'[s] = pc[s] /\ plan'[s] = plan[s],
         pc'[r] # "audit",
         pc'[r] \in {"query", "save"} => plan'[r].seen = flow[plan'[r].flow]
  PROVE  SerialInv'
<1> SUFFICES ASSUME serial' PROVE SerialInv'
  BY DEF SerialInv
<1>1. serial /\ \A s \in Requests : pc[s] \notin InFlight
  BY DEF Arrive
<1>2. \A s \in Requests : pc'[s] \in InFlight => s = r
  BY <1>1
<1>3. \A w \in Requests : Told(w, flow[w])
  BY <1>1 DEF SerialInv, InFlight
<1>4. \A w \in Requests : Told(w, flow[w])'
  BY <1>3, ToldUnchanged
<1>5. \A s \in Requests : pc'[s] # "audit"
  BY <1>2 DEF InFlight
<1>6. \A s \in Requests : pc'[s] \in {"query", "save"} => s = r
  BY <1>2 DEF InFlight
<1>7. QED
  BY <1>2, <1>4, <1>5, <1>6 DEF SerialInv

\* So does one that ends, or moves from its query to its write.
LEMMA SerialMove ==
  ASSUME IInv, SerialInv, NEW r \in Requests,
         pc[r] = "query", pc'[r] \notin {"query", "audit"},
         UNCHANGED <<flow, trail, serial>>,
         \A s \in Requests : s # r => pc'[s] = pc[s] /\ plan'[s] = plan[s],
         pc'[r] = "save" => plan'[r].seen = plan[r].seen /\ plan'[r].flow = plan[r].flow
  PROVE  SerialInv'
<1> SUFFICES ASSUME serial PROVE SerialInv'
  BY DEF SerialInv
<1>1. \A s \in Requests : pc[s] \in InFlight => s = r
  BY DEF SerialInv, InFlight
<1>2. \A s \in Requests : pc'[s] \in InFlight => s = r
  BY <1>1
<1>3. \A s \in Requests : pc[s] # "audit" /\ pc'[s] # "audit"
  BY <1>1, <1>2 DEF InFlight
<1>4. \A w \in Requests : Told(w, flow[w])
  BY <1>3 DEF SerialInv
<1>5. \A w \in Requests : Told(w, flow[w])'
  BY <1>4, ToldUnchanged
<1>6. plan[r].seen = flow[plan[r].flow]
  BY DEF SerialInv
<1>7. \A s \in Requests : pc'[s] \in {"query", "save"} => plan'[s].seen = flow[plan'[s].flow]
  BY <1>2, <1>6 DEF InFlight
<1>8. QED
  BY <1>2, <1>3, <1>5, <1>7 DEF SerialInv

LEMMA SerialSave ==
  ASSUME IInv, SerialInv, NEW r \in Requests, Save(r) PROVE SerialInv'
<1> SUFFICES ASSUME serial PROVE SerialInv'
  BY DEF SerialInv, Save
<1> DEFINE w == plan[r].flow
<1>1. /\ pc[r] = "save" /\ plan[r] # NoPlan /\ w \in Requests
      /\ UNCHANGED <<plan, trail, serial>>
      /\ flow'[w] = plan[r].new
      /\ \A v \in Requests : v # w => flow'[v] = flow[v]
      /\ pc'[r] = "audit"
      /\ \A s \in Requests : s # r => pc'[s] = pc[s]
  BY DEF IInv, TypeOK, PlanInv, Save, InFlight, Plan
<1>2. \A s \in Requests : pc[s] \in InFlight => s = r
  BY <1>1 DEF SerialInv, InFlight
<1>3. \A s \in Requests : pc'[s] \in InFlight => s = r
  BY <1>1, <1>2
<1>4. \A v \in Requests : Told(v, flow[v])
  BY <1>1, <1>2 DEF SerialInv, InFlight
<1>5. Told(w, plan[r].seen)'
  BY <1>1, <1>4, ToldUnchanged DEF SerialInv
<1>6. \A v \in Requests : v # w => Told(v, flow[v])'
  BY <1>1, <1>4, ToldUnchanged
<1>7. \A s \in Requests : /\ pc'[s] \notin {"query", "save"}
                          /\ pc'[s] = "audit" => s = r
  BY <1>1, <1>3 DEF InFlight
<1>8. QED
  BY <1>1, <1>3, <1>5, <1>6, <1>7 DEF SerialInv

LEMMA SerialRecordEvent ==
  ASSUME IInv, SerialInv, NEW r \in Requests, RecordEvent(r) PROVE SerialInv'
<1> SUFFICES ASSUME serial PROVE SerialInv'
  BY DEF SerialInv, RecordEvent
<1>1. /\ pc[r] = "audit" /\ plan[r] # NoPlan /\ plan[r] \in Plan
      /\ UNCHANGED <<plan, flow, serial>>
      /\ trail' = Append(trail, [by |-> r, flow |-> plan[r].flow,
                                 from |-> StatusOf(plan[r].seen), to |-> plan[r].new.status])
      /\ pc'[r] = "ok"
      /\ \A s \in Requests : s # r => pc'[s] = pc[s]
  BY DEF IInv, TypeOK, PlanInv, RecordEvent, InFlight
<1>2. PICK row : row = plan[r].seen
  OBVIOUS
<1>3. PICK e \in AuditEvent :
        e = [by |-> r, flow |-> plan[r].flow, from |-> StatusOf(plan[r].seen),
             to |-> plan[r].new.status]
  BY <1>1 DEF AuditEvent, Plan, WorkflowInstance, StatusOf
<1>4. /\ e.flow = plan[r].flow /\ e.flow \in Requests
      /\ e.from = StatusOf(row) /\ e.to = plan[r].new.status
      /\ plan[r].new # NoFlow
  BY <1>1, <1>2, <1>3, NoFlowAssumption DEF AuditEvent, Plan
<1>5. \A s \in Requests : pc[s] \in InFlight => s = r
  BY <1>1 DEF SerialInv, InFlight
<1>6. \A s \in Requests : pc'[s] \notin InFlight
  BY <1>1, <1>5 DEF InFlight
<1>7. flow[e.flow] = plan[r].new /\ Told(e.flow, row)
  BY <1>1, <1>2, <1>4 DEF SerialInv
<1>8. /\ ChainsTo(e.flow, e.to)'
      /\ \A v : v # e.flow => EventsOf(v)' = EventsOf(v)
      /\ \A v, status : v # e.flow /\ ChainsTo(v, status) => ChainsTo(v, status)'
  <2>1. trail' = Append(trail, e)
    BY <1>1, <1>3
  <2>2. TypeOK
    BY DEF IInv
  <2>3. QED
    BY <2>1, <2>2, <1>4, <1>7, TellOneMore
<1>9. ASSUME NEW v \in Requests PROVE Told(v, flow[v])'
  <2>1. CASE v = e.flow
    BY <1>1, <1>4, <1>7, <1>8, <2>1 DEF Told
  <2>2. CASE v # e.flow
    <3>1. \A s \in Requests : ~(pc[s] = "audit" /\ plan[s].flow = v)
      BY <1>4, <1>5, <2>2 DEF InFlight
    <3>2. Told(v, flow[v])
      BY <3>1 DEF SerialInv
    <3>3. QED
      BY <1>1, <1>8, <2>2, <3>2 DEF Told
  <2>3. QED
    BY <2>1, <2>2
<1>10. \A s \in Requests : pc'[s] \notin {"query", "save", "audit"}
  BY <1>6 DEF InFlight
<1>11. QED
  BY <1>6, <1>9, <1>10 DEF SerialInv

LEMMA SerialStep == IInv /\ SerialInv /\ [Next]_vars => SerialInv'
<1> SUFFICES ASSUME IInv, SerialInv, [Next]_vars PROVE SerialInv'
  OBVIOUS
<1>1. ASSUME NEW r \in Requests, StartReview(r) PROVE SerialInv'
  <2> DEFINE new == [status |-> IF body[r].senior THEN "SENIOR_REVIEW" ELSE "PENDING",
                     ext |-> NoId, fallback |-> TRUE, completed |-> FALSE]
  <2>1. /\ Arrive(r, "start") /\ UNCHANGED <<flow, trail>>
        /\ End(r, "triggerFailed") \/ Prepare(r, r, new)
    BY <1>1 DEF StartReview
  <2> HIDE DEF new
  <2>2. /\ \A s \in Requests : s # r => pc'[s] = pc[s] /\ plan'[s] = plan[s]
        /\ pc'[r] # "audit"
        /\ pc'[r] \in {"query", "save"} => plan'[r].seen = flow[plan'[r].flow]
    BY <2>1 DEF IInv, TypeOK, End, Prepare
  <2>3. QED
    BY <2>1, <2>2, SerialArrive
<1>2. ASSUME NEW r \in Requests, Transition(r) PROVE SerialInv'
  <2> DEFINE new == Patched(flow[Latest], body[r])
  <2>1. /\ Arrive(r, "patch") /\ UNCHANGED <<flow, trail>>
        /\ \/ End(r, "notFound") \/ End(r, "refused")
           \/ Prepare(r, Latest, new)
    BY <1>2 DEF Transition
  <2> HIDE DEF new
  <2>2. /\ \A s \in Requests : s # r => pc'[s] = pc[s] /\ plan'[s] = plan[s]
        /\ pc'[r] # "audit"
        /\ pc'[r] \in {"query", "save"} => plan'[r].seen = flow[plan'[r].flow]
    BY <2>1 DEF IInv, TypeOK, End, Prepare
  <2>3. QED
    BY <2>1, <2>2, SerialArrive
<1>3. ASSUME NEW r \in Requests, SyncRead(r) PROVE SerialInv'
  <2>1. /\ Arrive(r, "sync") /\ UNCHANGED <<flow, trail>>
        /\ \A s \in Requests : s # r => pc'[s] = pc[s] /\ plan'[s] = plan[s]
        /\ pc'[r] # "audit"
        /\ pc'[r] \in {"query", "save"} => plan'[r].seen = flow[plan'[r].flow]
    BY <1>3 DEF IInv, TypeOK, SyncRead, End
  <2>2. QED
    BY <2>1, SerialArrive
<1>4. ASSUME NEW r \in Requests, SyncUnavailable(r) PROVE SerialInv'
  <2>1. /\ pc[r] = "query" /\ pc'[r] = "unavailable" /\ UNCHANGED <<flow, trail, serial>>
        /\ \A s \in Requests : s # r => pc'[s] = pc[s] /\ plan'[s] = plan[s]
    BY <1>4 DEF IInv, TypeOK, SyncUnavailable
  <2>2. QED
    BY <2>1, SerialMove
<1>5. ASSUME NEW r \in Requests, SyncAnswered(r) PROVE SerialInv'
  <2>1. /\ pc[r] = "query" /\ pc'[r] \in {"ok", "save"} /\ UNCHANGED <<flow, trail, serial>>
        /\ \A s \in Requests : s # r => pc'[s] = pc[s] /\ plan'[s] = plan[s]
    BY <1>5 DEF IInv, TypeOK, SyncAnswered
  <2>2. plan[r] \in Plan
    BY <2>1 DEF IInv, TypeOK, PlanInv, InFlight
  <2>3. ASSUME pc'[r] = "save"
        PROVE  plan'[r].seen = plan[r].seen /\ plan'[r].flow = plan[r].flow
    <3>1. PICK status \in Readings(plan[r].seen.ext) :
            plan' = [plan EXCEPT ![r].new = Synced(plan[r].seen, status)]
      BY <1>5, <2>1, <2>3 DEF SyncAnswered, IInv, TypeOK
    <3>2. plan'[r] = [plan[r] EXCEPT !.new = Synced(plan[r].seen, status)]
      BY <3>1 DEF IInv, TypeOK
    <3>3. QED
      BY <3>2, <2>2 DEF Plan
  <2>4. QED
    BY <2>1, <2>3, SerialMove
<1>6. ASSUME NEW r \in Requests, Fail(r) PROVE SerialInv'
  BY <1>6 DEF Fail, SerialInv
<1>7. ASSUME UNCHANGED <<pc, plan, flow, trail>>, serial' => serial PROVE SerialInv'
  <2> SUFFICES ASSUME serial PROVE SerialInv'
    BY <1>7 DEF SerialInv
  <2>1. \A w, row : Told(w, row)' = Told(w, row)
    BY <1>7, ToldUnchanged
  <2>2. \A w \in Requests : /\ Told(w, flow[w])' = Told(w, flow[w])
                            /\ Told(plan[w].flow, plan[w].seen)'
                               = Told(plan[w].flow, plan[w].seen)
    BY <1>7, <2>1
  <2>3. QED
    BY <1>7, <2>2 DEF SerialInv
<1>8. ASSUME NEW s \in Settings, Restart(s) PROVE SerialInv'
  <2>1. CASE pc' = pc
    BY <1>7, <1>8, <2>1 DEF Restart
  <2>2. CASE pc' # pc
    BY <1>8, <2>2 DEF Restart, SerialInv
  <2>3. QED
    BY <2>1, <2>2
<1>9. ASSUME NEW i \in ExternalIds, NEW c \in Contexts, RemoteFinish(i, c) PROVE SerialInv'
  BY <1>7, <1>9 DEF RemoteFinish
<1>10. CASE UNCHANGED vars
  BY <1>7, <1>10 DEF vars
<1>11. QED
  BY <1>1, <1>2, <1>3, <1>4, <1>5, <1>6, <1>8, <1>9, <1>10, SerialSave, SerialRecordEvent
     DEF Next

LEMMA SerialInvariance == Spec => []SerialInv
<1>1. Init => SerialInv
  <2> SUFFICES ASSUME Init PROVE SerialInv
    OBVIOUS
  <2>1. \A w : EventsOf(w) = {}
    BY DEF Init, EventsOf
  <2>2. QED
    BY <2>1 DEF Init, SerialInv, Told, InFlight
<1>2. QED
  BY <1>1, SerialStep, Invariance, PTL DEF Spec

-----------------------------------------------------------------------------
(* The theorems.                                                           *)

\* The three handlers keep every row, plan and event well-typed.
THEOREM TypeCorrect == Spec => []TypeOK
<1>1. IInv => TypeOK
  BY DEF IInv
<1>2. QED
  BY <1>1, Invariance, PTL

\* No interleaving of the read-modify-write handlers shows an incoherent row.
THEOREM Coherence == Spec => []RowsAreCoherent
<1>1. IInv => RowsAreCoherent
  BY DEF IInv, FlowInv, Coherent, RowsAreCoherent
<1>2. QED
  BY <1>1, Invariance, PTL

\* Every row shown is accounted for by a handler and, if it got that far, its event.
THEOREM Accounting == Spec => []StatusIsAccounted
<1>1. IInv => StatusIsAccounted
  BY DEF IInv, AccountInv
<1>2. QED
  BY <1>1, Invariance, PTL

\* APPROVED comes from a client that reported it, or from a completed SAP Build
\* instance the workflow was bound to, whose context speaks of approval and does not
\* deny it at its top level: never from a running instance, a context that could not
\* be fetched or is about something else, or a row written back over another.
THEOREM ApprovalNeedsReport == Spec => []ApprovalIsGrounded
<1>1. IInv /\ GroundInv => ApprovalIsGrounded
  <2> SUFFICES ASSUME IInv, GroundInv, NEW w \in Flows, flow[w].status = "APPROVED"
               PROVE  \E r \in Requests :
                        /\ pc[r] \in {"audit", "ok", "unaudited"}
                        /\ plan[r] # NoPlan /\ plan[r].flow = w /\ plan[r].new = flow[w]
                        /\ \/ body[r].op = "patch" /\ body[r].status = "APPROVED"
                           \/ body[r].op = "sync" /\ ApprovedBy(remote[plan[r].seen.ext])
    BY DEF ApprovalIsGrounded
  <2>1. PICK r \in Requests :
          /\ plan[r] # NoPlan /\ plan[r].flow = w /\ plan[r].new = flow[w]
          /\ \/ pc[r] \in {"audit", "unaudited"}
             \/ \E i \in 1..Len(trail) :
                  trail[i] = [by |-> r, flow |-> w, from |-> StatusOf(plan[r].seen),
                              to |-> flow[w].status]
    BY DEF IInv, AccountInv, StatusIsAccounted
  <2>2. pc[r] \in {"audit", "ok", "unaudited"}
    BY <2>1 DEF IInv, AccountInv
  <2>3. Grounded(r)
    BY <2>1, <2>2 DEF GroundInv
  <2>4. QED
    BY <2>1, <2>2, <2>3 DEF Grounded
<1>2. QED
  BY <1>1, Invariance, GroundInvariance, PTL

\* While the handlers ran one after the other and none was cut short, the trail
\* retells every workflow from its start to its status.
THEOREM SerialTrail == Spec => []TrailRetells
<1>1. SerialInv => TrailRetells
  BY DEF SerialInv, TrailRetells, Told, Flows, InFlight
<1>2. QED
  BY <1>1, SerialInvariance, PTL

\* A write takes something away from a row only when it overwrites an update that
\* its handler did not see.
THEOREM LossNeedsStaleness == Spec => OnlyStaleWritesLose
<1> DEFINE Act == \A w \in Flows :
        \/ /\ flow[w].ext # NoId => flow'[w].ext # NoId
           /\ ~flow[w].fallback => ~flow'[w].fallback
           /\ flow[w].completed => flow'[w].completed
        \/ \E r \in Requests :
             pc[r] = "save" /\ pc'[r] = "audit" /\ plan[r].flow = w /\ plan[r].seen # flow[w]
<1>1. IInv /\ [Next]_vars => [Act]_vars
  <2> SUFFICES ASSUME IInv, Next PROVE Act
    OBVIOUS
  <2>1. ASSUME NEW r \in Requests, Save(r) PROVE Act
    <3> SUFFICES ASSUME NEW w \in Flows, plan[r].flow = w => plan[r].seen = flow[w]
                 PROVE  Keeps(flow[w], flow'[w])
      BY <2>1 DEF Save, Keeps, IInv, TypeOK
    <3>1. CASE plan[r].flow = w
      <4>1. flow'[w] = plan[r].new /\ flow[w] # NoFlow
        BY <2>1, <3>1 DEF Save, IInv, TypeOK, Flows
      <4>2. plan[r] # NoPlan
        BY <2>1 DEF Save, IInv, PlanInv, InFlight
      <4>3. QED
        BY <3>1, <4>1, <4>2 DEF IInv, PlanInv
    <3>2. CASE plan[r].flow # w
      <4>1. flow'[w] = flow[w]
        BY <2>1, <3>2 DEF Save, IInv, TypeOK, Flows
      <4>2. QED
        BY <4>1 DEF Keeps
    <3>3. QED
      BY <3>1, <3>2
  <2>2. CASE UNCHANGED flow
    BY <2>2
  <2>3. QED
    BY <2>1, <2>2 DEF Next, StartReview, Transition, SyncRead, SyncUnavailable, SyncAnswered,
       RecordEvent, Fail, Restart, RemoteFinish
<1>2. QED
  BY <1>1, Invariance, PTL DEF Spec, OnlyStaleWritesLose
=============================================================================
