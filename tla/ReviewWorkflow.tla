---------------------------- MODULE ReviewWorkflow ----------------------------
(***************************************************************************)
(* The review workflows of one case (api/routers/cases.py): POST           *)
(* review-workflows starts an instance, PATCH review-workflows reports a   *)
(* transition of the latest one, POST review-workflows/sync pulls its      *)
(* status from SAP Build Process Automation (workflows/sbpa.py).           *)
(*                                                                         *)
(* PATCH and sync read the latest row of WORKFLOW_INSTANCES, build the     *)
(* whole new row from it, and write that back; between the two, any other  *)
(* handler may run, and a sync also waits for SAP Build.  A step of the    *)
(* model is one repository call, together with the code around it.  The    *)
(* Idempotency-Key a start may carry is module Idempotency's.              *)
(***************************************************************************)
EXTENDS Naturals, Sequences

CONSTANTS
  Requests,     \* the requests, each served once; a start's workflow_id is its request
  ExternalIds,  \* ids of SAP Build instances
  NoId,         \* no external_instance_id: the field is absent, the column NULL
  Blank,        \* external_instance_id is the empty string
  NoFlow,       \* no row of WORKFLOW_INSTANCES
  NoPlan,       \* the handler has not built a row
  Running,      \* a SAP Build instance that has not COMPLETED
  Bodies,       \* the requests considered
  Contexts      \* the final contexts of instances considered

WorkflowStatus ==
  {"PENDING", "IN_REVIEW", "SENIOR_REVIEW", "APPROVED", "RETURNED", "INFO_REQUESTED"}
Terminal == {"APPROVED", "RETURNED"}

StartBody == [op : {"start"}, senior : BOOLEAN]
\* "other" stands for the strings that are no WorkflowStatus.
PatchBody == [op : {"patch"}, status : WorkflowStatus \cup {"other"},
              ext : ExternalIds \cup {NoId, Blank}]
SyncBody == [op : {"sync"}]

ASSUME BodiesAssumption == Bodies \subseteq StartBody \cup PatchBody \cup SyncBody
ASSUME IdAssumption == NoId # Blank /\ NoId \notin ExternalIds /\ Blank \notin ExternalIds

\* A row of WORKFLOW_INSTANCES; `completed` says that COMPLETED_AT is set.
WorkflowInstance == [status : WorkflowStatus, ext : ExternalIds \cup {NoId},
                     fallback : BOOLEAN, completed : BOOLEAN]

\* What a handler has read and is about to write: the row of which instance, as
\* it was, and as it will be.
Plan == [flow : Requests, seen : WorkflowInstance \cup {NoFlow}, new : WorkflowInstance]

ASSUME NoFlowAssumption == NoFlow \notin WorkflowInstance
ASSUME NoPlanAssumption == NoPlan \notin Plan

\* WORKFLOW_STARTED (from "none") and WORKFLOW_TRANSITIONED rows of AUDIT_EVENTS.
AuditEvent == [by : Requests, flow : Requests, from : WorkflowStatus \cup {"none"},
               to : WorkflowStatus]

\* What the reviewer leaves in the context of a SAP Build instance: a boolean under
\* a key that speaks of approval, at the top level, deeper in it, or none; and what
\* the other keys and values speak of ("return": reject or return; "info"; "approve":
\* approve or escalate).
Context == [flag : {"none", "top", "nested"}, approved : BOOLEAN,
            words : SUBSET {"return", "info", "approve"}]

ASSUME ContextsAssumption == Contexts \subseteq Context /\ Running \notin Context

VARIABLES
  body,         \* what each request asks for, never changes
  pc,           \* the call each handler makes next, or how the request ended
  plan,         \* what each handler is about to write
  flow,         \* WORKFLOW_INSTANCES, by workflow_id
  startedAt,    \* STARTED_AT of the instance each start request built
  clock,        \* the UTC clock, as start requests read it
  trail,        \* AUDIT_EVENTS of the case
  sbpa,         \* SAP Build settings: none, a service key, or a process definition too
  remote,       \* each SAP Build instance: running, or the context it completed with
  serial        \* history: handlers ran one after the other, none was cut short

vars == <<body, pc, plan, flow, startedAt, clock, trail, sbpa, remote, serial>>

InFlight == {"query", "save", "audit"}
\* "failed": cut short before its write; "unaudited": after it.
Ended == {"ok", "notFound", "refused", "noInstance", "unavailable", "triggerFailed",
          "failed", "unaudited"}
Settings == {"none", "key", "definition"}

TypeOK ==
  /\ body \in [Requests -> Bodies]
  /\ pc \in [Requests -> {"idle"} \cup InFlight \cup Ended]
  /\ plan \in [Requests -> Plan \cup {NoPlan}]
  /\ flow \in [Requests -> WorkflowInstance \cup {NoFlow}]
  /\ startedAt \in [Requests -> Nat]
  /\ clock \in Nat
  /\ trail \in Seq(AuditEvent)
  /\ sbpa \in Settings
  /\ remote \in [ExternalIds -> {Running} \cup Contexts]
  /\ serial \in BOOLEAN

Init ==
  /\ body \in [Requests -> Bodies]
  /\ pc = [r \in Requests |-> "idle"]
  /\ plan = [r \in Requests |-> NoPlan]
  /\ flow = [r \in Requests |-> NoFlow]
  /\ startedAt = [r \in Requests |-> 0]
  /\ clock = 0
  /\ trail = << >>
  /\ sbpa \in Settings
  /\ remote = [i \in ExternalIds |-> Running]
  /\ serial = TRUE

-----------------------------------------------------------------------------
(* The steps the three handlers share.                                     *)

Flows == {w \in Requests : flow[w] # NoFlow}

\* get_latest_workflow_instance: ORDER BY STARTED_AT DESC LIMIT 1.
Latest == CHOOSE w \in Flows : \A v \in Flows : startedAt[v] <= startedAt[w]

Arrive(r, op) ==
  /\ pc[r] = "idle"
  /\ body[r].op = op
  /\ serial' = (serial /\ \A s \in Requests : pc[s] \notin InFlight)

End(r, how) ==
  /\ pc' = [pc EXCEPT ![r] = how]
  /\ UNCHANGED plan

Prepare(r, w, new) ==
  /\ plan' = [plan EXCEPT ![r] = [flow |-> w, seen |-> flow[w], new |-> new]]
  /\ pc' = [pc EXCEPT ![r] = "save"]

\* Mutant: a write that leaves the columns of the external instance alone.
SaveStatus(r) ==
  /\ pc[r] = "save"
  /\ flow' = [flow EXCEPT ![plan[r].flow] =
       [plan[r].new EXCEPT !.ext = IF flow[plan[r].flow] = NoFlow THEN @
                                   ELSE flow[plan[r].flow].ext]]
  /\ pc' = [pc EXCEPT ![r] = "audit"]
  /\ UNCHANGED <<body, plan, startedAt, clock, trail, sbpa, remote, serial>>

\* save_workflow_instance: an upsert of the whole row.
Save(r) ==
  /\ pc[r] = "save"
  /\ flow' = [flow EXCEPT ![plan[r].flow] = plan[r].new]
  /\ pc' = [pc EXCEPT ![r] = "audit"]
  /\ UNCHANGED <<body, plan, startedAt, clock, trail, sbpa, remote, serial>>

StatusOf(row) == IF row = NoFlow THEN "none" ELSE row.status

\* Mutant: the event takes the old status from the row, after the write.
RecordLate(r) ==
  /\ pc[r] = "audit"
  /\ trail' = Append(trail, [by |-> r, flow |-> plan[r].flow,
                             from |-> IF plan[r].seen = NoFlow THEN "none"
                                      ELSE StatusOf(flow[plan[r].flow]),
                             to |-> plan[r].new.status])
  /\ pc' = [pc EXCEPT ![r] = "ok"]
  /\ UNCHANGED <<body, plan, flow, startedAt, clock, sbpa, remote, serial>>

\* record_event, then the response.
RecordEvent(r) ==
  /\ pc[r] = "audit"
  /\ trail' = Append(trail, [by |-> r, flow |-> plan[r].flow,
                             from |-> StatusOf(plan[r].seen), to |-> plan[r].new.status])
  /\ pc' = [pc EXCEPT ![r] = "ok"]
  /\ UNCHANGED <<body, plan, flow, startedAt, clock, sbpa, remote, serial>>

-----------------------------------------------------------------------------
(* POST review-workflows.                                                  *)

\* With SAP Build configured the trigger is attempted: its payload names a
\* variable the handler does not have, and the NameError is no SBPAError, so the
\* request is answered 500; should the key file have gone meanwhile, or without
\* the configuration, the instance is a local fallback.
StartReview(r) ==
  /\ Arrive(r, "start")
  /\ \/ /\ sbpa = "definition"
        /\ End(r, "triggerFailed")
        /\ UNCHANGED <<startedAt, clock>>
     \/ /\ Prepare(r, r, [status |-> IF body[r].senior THEN "SENIOR_REVIEW" ELSE "PENDING",
                          ext |-> NoId, fallback |-> TRUE, completed |-> FALSE])
        /\ startedAt' = [startedAt EXCEPT ![r] = clock]
        /\ clock' = clock + 1
  /\ UNCHANGED <<body, flow, trail, sbpa, remote>>

-----------------------------------------------------------------------------
(* PATCH review-workflows.                                                 *)

\* Mutant: only the status and the time are carried over.
PatchedAfresh(row, b) ==
  [status |-> b.status,
   ext |-> IF b.ext = Blank THEN NoId ELSE b.ext,
   fallback |-> b.ext = NoId,
   completed |-> row.completed \/ b.status \in Terminal]

\* Mutant: completed_at is kept, and never set.
PatchedIncomplete(row, b) ==
  [row EXCEPT !.status = b.status,
              !.ext = IF b.ext \in {NoId, Blank} THEN @ ELSE b.ext,
              !.fallback = @ /\ b.ext = NoId]

\* Mutant: an empty id is an id.
PatchedVerbatim(row, b) ==
  [row EXCEPT !.status = b.status,
              !.ext = IF b.ext = NoId THEN @ ELSE b.ext,
              !.fallback = @ /\ b.ext = NoId,
              !.completed = @ \/ b.status \in Terminal]

\* The row a PATCH makes of the current one.  An empty id keeps the current one
\* (`or`), and still counts as passed (`is None`).
Patched(row, b) ==
  [row EXCEPT !.status = b.status,
              !.ext = IF b.ext \in {NoId, Blank} THEN @ ELSE b.ext,
              !.fallback = @ /\ b.ext = NoId,
              !.completed = @ \/ b.status \in Terminal]

Transition(r) ==
  /\ Arrive(r, "patch")
  /\ IF Flows = {} THEN End(r, "notFound")
     ELSE IF body[r].status \notin WorkflowStatus THEN End(r, "refused")
     ELSE Prepare(r, Latest, Patched(flow[Latest], body[r]))
  /\ UNCHANGED <<body, flow, startedAt, clock, trail, sbpa, remote>>

-----------------------------------------------------------------------------
(* POST review-workflows/sync.                                             *)

SyncRead(r) ==
  /\ Arrive(r, "sync")
  /\ IF Flows = {} THEN End(r, "notFound")
     ELSE IF flow[Latest].ext = NoId THEN End(r, "noInstance")
     ELSE /\ plan' = [plan EXCEPT ![r] = [flow |-> Latest, seen |-> flow[Latest],
                                          new |-> flow[Latest]]]
          /\ pc' = [pc EXCEPT ![r] = "query"]
  /\ UNCHANGED <<body, flow, startedAt, clock, trail, sbpa, remote>>

\* A key that speaks of approval is a word too, whatever the boolean under it.
SpeaksOfApproval(c) == c.flag # "none" \/ "approve" \in c.words

\* map_outcome of a COMPLETED instance: a boolean at the top level decides; any
\* other context is searched for words.
MapOutcome(c) ==
  CASE c.flag = "top" -> IF c.approved THEN "APPROVED" ELSE "RETURNED"
    [] c.flag # "top" /\ "return" \in c.words -> "RETURNED"
    [] c.flag # "top" /\ "return" \notin c.words /\ "info" \in c.words -> "INFO_REQUESTED"
    [] OTHER -> IF SpeaksOfApproval(c) THEN "APPROVED" ELSE "IN_REVIEW"

\* Mutant: an outcome that cannot be read counts as an approval.
GuessedReadings(i) ==
  IF remote[i] = Running THEN {"IN_REVIEW"} ELSE {MapOutcome(remote[i]), "APPROVED"}

\* The statuses a query of instance i may come to: a running instance is
\* IN_REVIEW, and so is a completed one whose context cannot be fetched.
Readings(i) ==
  IF remote[i] = Running THEN {"IN_REVIEW"} ELSE {MapOutcome(remote[i]), "IN_REVIEW"}

Synced(row, status) ==
  [row EXCEPT !.status = status, !.fallback = FALSE, !.completed = @ \/ status \in Terminal]

\* Without a key, or when SAP Build does not answer: 502.
SyncUnavailable(r) ==
  /\ pc[r] = "query"
  /\ pc' = [pc EXCEPT ![r] = "unavailable"]
  /\ plan' = [plan EXCEPT ![r] = NoPlan]
  /\ UNCHANGED <<body, flow, startedAt, clock, trail, sbpa, remote, serial>>

\* The answer is compared with the row read before the query: no difference, no write.
SyncAnswered(r) ==
  /\ pc[r] = "query"
  /\ sbpa # "none"
  /\ \E status \in Readings(plan[r].seen.ext) :
       IF status = plan[r].seen.status
         THEN /\ pc' = [pc EXCEPT ![r] = "ok"]
              /\ plan' = [plan EXCEPT ![r] = NoPlan]
         ELSE /\ pc' = [pc EXCEPT ![r] = "save"]
              /\ plan' = [plan EXCEPT ![r].new = Synced(plan[r].seen, status)]
  /\ UNCHANGED <<body, flow, startedAt, clock, trail, sbpa, remote, serial>>

-----------------------------------------------------------------------------
(* The environment.                                                        *)

CutShort == [audit |-> "unaudited", save |-> "failed", query |-> "failed"]

\* An exception in a repository call or in an HTTP request: answered 500.
Fail(r) ==
  /\ pc[r] \in InFlight
  /\ pc' = [pc EXCEPT ![r] = CutShort[@]]
  /\ serial' = FALSE
  /\ UNCHANGED <<body, plan, flow, startedAt, clock, trail, sbpa, remote>>

\* The process ends and starts again, perhaps with other settings.
Restart(s) ==
  /\ s # sbpa \/ \E r \in Requests : pc[r] \in InFlight
  /\ pc' = [r \in Requests |-> IF pc[r] \in InFlight THEN CutShort[pc[r]] ELSE pc[r]]
  /\ serial' = (serial /\ pc' = pc)
  /\ sbpa' = s
  /\ UNCHANGED <<body, plan, flow, startedAt, clock, trail, remote>>

\* A reviewer finishes the task in SAP Build.
RemoteFinish(i, context) ==
  /\ remote[i] = Running
  /\ remote' = [remote EXCEPT ![i] = context]
  /\ UNCHANGED <<body, pc, plan, flow, startedAt, clock, trail, sbpa, serial>>

Next ==
  \/ \E r \in Requests :
       \/ StartReview(r) \/ Transition(r) \/ SyncRead(r)
       \/ SyncUnavailable(r) \/ SyncAnswered(r)
       \/ Save(r) \/ RecordEvent(r) \/ Fail(r)
  \/ \E s \in Settings : Restart(s)
  \/ \E i \in ExternalIds, c \in Contexts : RemoteFinish(i, c)

Spec == Init /\ [][Next]_vars

-----------------------------------------------------------------------------
(* Properties.                                                             *)

\* Every row is one some handler meant to write, whole: no interleaving of
\* read-modify-write handlers shows a terminal status without its completion
\* time, or an external instance that still counts as a local fallback.
RowsAreCoherent ==
  \A w \in Flows :
    /\ flow[w].status \in Terminal => flow[w].completed
    /\ flow[w].ext # NoId => ~flow[w].fallback

\* The row of a workflow was written by a handler whose event is in the trail,
\* names that status and the status it was built from, unless that handler was
\* cut short between its write and its event or is just there.
StatusIsAccounted ==
  \A w \in Flows : \E r \in Requests :
    /\ plan[r] # NoPlan /\ plan[r].flow = w /\ plan[r].new = flow[w]
    /\ \/ pc[r] \in {"audit", "unaudited"}
       \/ \E i \in 1..Len(trail) :
            trail[i] = [by |-> r, flow |-> w, from |-> StatusOf(plan[r].seen),
                        to |-> flow[w].status]

\* Where the events of w stand in the trail.
EventsOf(w) == {i \in 1..Len(trail) : trail[i].flow = w}

\* The events of w chain from its start to a status: the first comes from "none",
\* each other from what the one before it led to, and the last leads to the status.
ChainsTo(w, status) ==
  /\ EventsOf(w) # {}
  /\ \A i \in EventsOf(w) :
       /\ (\A j \in EventsOf(w) : i <= j) => trail[i].from = "none"
       /\ (\A j \in EventsOf(w) : j <= i) => trail[i].to = status
  /\ \A i, j \in EventsOf(w) :
       i < j /\ (\A k \in EventsOf(w) : k <= i \/ j <= k) => trail[j].from = trail[i].to

\* Where handlers ran one after the other, the audit trail retells each workflow:
\* its events chain from WORKFLOW_STARTED to the status it has now.  (With overlap
\* the chain may break: two handlers transition from the same row.)
TrailRetells ==
  serial /\ (\A r \in Requests : pc[r] \notin InFlight) =>
    \A w \in Flows : ChainsTo(w, flow[w].status)

\* A completed context that speaks of approval, and does not deny it at its top level.
ApprovedBy(c) ==
  c # Running /\ SpeaksOfApproval(c) /\ (c.flag = "top" => c.approved)

\* Nobody is told of an approval that no one spoke of: APPROVED was reported for
\* this workflow, or a SAP Build instance that it was bound to has completed, its
\* context speaks of approval, and the boolean at its top level, if any, is true.
\* (That the reviewer meant yes does not follow: see ApprovalIsNeverGuessed.)
ApprovalIsGrounded ==
  \A w \in Flows : flow[w].status = "APPROVED" =>
    \E r \in Requests :
      /\ pc[r] \in {"audit", "ok", "unaudited"}
      /\ plan[r] # NoPlan /\ plan[r].flow = w /\ plan[r].new = flow[w]
      /\ \/ body[r].op = "patch" /\ body[r].status = "APPROVED"
         \/ body[r].op = "sync" /\ ApprovedBy(remote[plan[r].seen.ext])

\* A write takes away an external instance, the live mark or the completion time
\* only when the row changed after its handler read it (a lost update).
OnlyStaleWritesLose ==
  [][ \A w \in Flows :
        \/ /\ flow[w].ext # NoId => flow'[w].ext # NoId
           /\ ~flow[w].fallback => ~flow'[w].fallback
           /\ flow[w].completed => flow'[w].completed
        \/ \E r \in Requests :
             pc[r] = "save" /\ pc'[r] = "audit" /\ plan[r].flow = w /\ plan[r].seen # flow[w]
    ]_vars

\* What the documentation says and the code does not do.

\* "A COMPLETED instance with an unrecognisable outcome maps to IN_REVIEW (never
\* guessed APPROVED)" (api-contract.md, and map_outcome's docstring): no sync stores
\* an approval where the only boolean about approval in the context is false.
ApprovalIsNeverGuessed ==
  \A r \in Requests :
    body[r].op = "sync" /\ plan[r] # NoPlan /\ plan[r].new.status = "APPROVED"
      /\ pc[r] \in {"audit", "ok", "unaudited"}
    => LET c == remote[plan[r].seen.ext] IN c.flag # "none" => c.approved
=============================================================================
