------------------------------ MODULE Idempotency ------------------------------
(***************************************************************************)
(* The handlers that take an Idempotency-Key: POST alerts/{id}/score,      *)
(* alerts/{id}/predict-sla, cases/{id}/assemble, cases/{id}/decisions and  *)
(* cases/{id}/review-workflows (api/routers/alerts.py, cases.py).  All     *)
(* five follow the usage that services/idempotency.py prescribes: look the *)
(* key up, do the work, store the response.  Here the work of an endpoint  *)
(* is its number of writes; what they write is in the other modules.       *)
(*                                                                         *)
(* The lookup does not reserve the key, so handlers of one key that run at *)
(* the same time all find it unused.  What comes of that depends on the    *)
(* backend: SQLite stores with INSERT OR REPLACE, HANA with a plain INSERT *)
(* that a recorded key makes fail.  `deployment` says which it is, and     *)
(* whether a client may repeat a request whose handler is still running    *)
(* (a client whose timeout is shorter than the handler does).              *)
(***************************************************************************)
EXTENDS Naturals

CONSTANTS
  Keys,         \* (Idempotency-Key, endpoint) pairs: the primary key of IDEMPOTENCY_KEYS
  Bodies,       \* request bodies, as far as their hashes differ
  Requests,     \* the requests, each served once
  NoKey,        \* the header is absent or empty
  NoRecord,     \* the key has no row; the request has no outcome
  Writes,       \* the number of writes of the endpoint
  Deployments   \* the deployments considered

Deployment == [replaces : BOOLEAN, overlap : BOOLEAN]

ASSUME NoKeyAssumption == NoKey \notin Keys
ASSUME WritesAssumption == Writes \in Nat \ {0}
ASSUME DeploymentAssumption == Deployments \subseteq Deployment

Record == [body : Bodies, by : Requests]
ASSUME NoRecordAssumption == NoRecord \notin Record \cup Requests

VARIABLES
  deployment,   \* chosen when the program is installed, never changes
  ask,          \* the key and the body of each request, never changes
  pc,           \* where the handler of each request is, or how it ended
  wrote,        \* how many of its writes each request has made
  rows,         \* IDEMPOTENCY_KEYS
  outcome       \* the response sent, named by the request that built it

vars == <<deployment, ask, pc, wrote, rows, outcome>>

InFlight == {"work", "store", "reply"}
Ended == {"ok", "conflict", "failed"}

TypeOK ==
  /\ deployment \in Deployments
  /\ ask \in [Requests -> [key : Keys \cup {NoKey}, body : Bodies]]
  /\ pc \in [Requests -> {"idle"} \cup InFlight \cup Ended]
  /\ wrote \in [Requests -> 0..Writes]
  /\ rows \in [Keys -> Record \cup {NoRecord}]
  /\ outcome \in [Requests -> Requests \cup {NoRecord}]

Init ==
  /\ deployment \in Deployments
  /\ ask \in [Requests -> [key : Keys \cup {NoKey}, body : Bodies]]
  /\ pc = [r \in Requests |-> "idle"]
  /\ wrote = [r \in Requests |-> 0]
  /\ rows = [k \in Keys |-> NoRecord]
  /\ outcome = [r \in Requests |-> NoRecord]

-----------------------------------------------------------------------------
(* The steps of a handler.                                                 *)

SameKey(r, s) == ask[r].key = ask[s].key /\ ask[r].key # NoKey

\* The client sends r: at any time, or only when no handler of its key is running.
MaySend(r) ==
  \/ deployment.overlap
  \/ \A s \in Requests : SameKey(r, s) => pc[s] \notin InFlight

\* The row check_and_store_idempotency_key finds; without a key it is not asked.
RowOf(r) == IF ask[r].key = NoKey THEN NoRecord ELSE rows[ask[r].key]

Unused(r) == RowOf(r) = NoRecord

\* check_idempotency: nothing recorded, go on; the recorded body, replay the
\* response; another body, 409.
Start(r) ==
  /\ Unused(r)
  /\ pc' = [pc EXCEPT ![r] = "work"]
  /\ UNCHANGED outcome

\* Mutant: the hash is not compared.
ReplayAnyBody(r) ==
  /\ ~Unused(r)
  /\ pc' = [pc EXCEPT ![r] = "ok"]
  /\ outcome' = [outcome EXCEPT ![r] = RowOf(r).by]

Replay(r) ==
  /\ ~Unused(r)
  /\ RowOf(r).body = ask[r].body
  /\ pc' = [pc EXCEPT ![r] = "ok"]
  /\ outcome' = [outcome EXCEPT ![r] = RowOf(r).by]

Conflict(r) ==
  /\ ~Unused(r)
  /\ RowOf(r).body # ask[r].body
  /\ pc' = [pc EXCEPT ![r] = "conflict"]
  /\ UNCHANGED outcome

Receive(r) ==
  /\ pc[r] = "idle"
  /\ MaySend(r)
  /\ Start(r) \/ Replay(r) \/ Conflict(r)
  /\ UNCHANGED <<deployment, ask, wrote, rows>>

\* Mutant: the response is stored before the work is finished.
WriteOnce(r) ==
  /\ pc[r] = "work"
  /\ wrote' = [wrote EXCEPT ![r] = @ + 1]
  /\ pc' = [pc EXCEPT ![r] = IF ask[r].key = NoKey THEN "reply" ELSE "store"]
  /\ UNCHANGED <<deployment, ask, rows, outcome>>

\* One of the writes the endpoint makes; without a key there is nothing to store.
Write(r) ==
  /\ pc[r] = "work"
  /\ wrote' = [wrote EXCEPT ![r] = @ + 1]
  /\ pc' = [pc EXCEPT ![r] = IF wrote[r] + 1 < Writes THEN "work"
                             ELSE IF ask[r].key = NoKey THEN "reply" ELSE "store"]
  /\ UNCHANGED <<deployment, ask, rows, outcome>>

\* Mutant: both backends replace.
StoreAlways(r) ==
  /\ pc[r] = "store"
  /\ rows' = [rows EXCEPT ![ask[r].key] = [body |-> ask[r].body, by |-> r]]
  /\ pc' = [pc EXCEPT ![r] = "reply"]
  /\ UNCHANGED <<deployment, ask, wrote, outcome>>

\* Mutant: a store that fails is logged and forgotten.
StoreQuietly(r) ==
  /\ pc[r] = "store"
  /\ rows' = IF Unused(r) \/ deployment.replaces
               THEN [rows EXCEPT ![ask[r].key] = [body |-> ask[r].body, by |-> r]]
               ELSE rows
  /\ pc' = [pc EXCEPT ![r] = "reply"]
  /\ UNCHANGED <<deployment, ask, wrote, outcome>>

\* store_idempotent_response: INSERT OR REPLACE, or an INSERT that a row of the
\* same key turns into a 500.
Store(r) ==
  /\ pc[r] = "store"
  /\ IF Unused(r) \/ deployment.replaces
       THEN /\ rows' = [rows EXCEPT ![ask[r].key] = [body |-> ask[r].body, by |-> r]]
            /\ pc' = [pc EXCEPT ![r] = "reply"]
       ELSE /\ pc' = [pc EXCEPT ![r] = "failed"]
            /\ UNCHANGED rows
  /\ UNCHANGED <<deployment, ask, wrote, outcome>>

Reply(r) ==
  /\ pc[r] = "reply"
  /\ pc' = [pc EXCEPT ![r] = "ok"]
  /\ outcome' = [outcome EXCEPT ![r] = r]
  /\ UNCHANGED <<deployment, ask, wrote, rows>>

\* 404 or 422 before the first write, 500 or the end of the process at any call:
\* what was written stays, and nothing is stored for the key.
Fail(r) ==
  /\ pc[r] \in InFlight
  /\ pc' = [pc EXCEPT ![r] = "failed"]
  /\ UNCHANGED <<deployment, ask, wrote, rows, outcome>>

Next == \E r \in Requests : Receive(r) \/ Write(r) \/ Store(r) \/ Reply(r) \/ Fail(r)

Spec == Init /\ [][Next]_vars

-----------------------------------------------------------------------------
(* Properties.                                                             *)

\* Requests answered 200 with the same key and body got the same response
\* (docs/api-contract.md: the exact original response).
ReplayIsExact ==
  \A r, s \in Requests :
    /\ SameKey(r, s)
    /\ ask[r].body = ask[s].body
    /\ pc[r] = "ok" /\ pc[s] = "ok"
    => outcome[r] = outcome[s]

\* When the work of a key was done more than once, all but one of those who did
\* it were told that they failed: no two of them report a success.
SurplusWorkIsReported ==
  \A r, s \in Requests :
    /\ SameKey(r, s) /\ r # s
    /\ wrote[r] > 0 /\ wrote[s] > 0
    => ~(pc[r] = "ok" /\ pc[s] = "ok")

\* A request gets a response of its own only for its own finished work, and a
\* replayed one only for work that was finished too.
AnswersStandForWork ==
  \A r \in Requests : pc[r] = "ok" => outcome[r] # NoRecord /\ wrote[outcome[r]] = Writes

\* The promise of the contract, step by step: one record per key, every answer
\* from the record, 409 only against another recorded body.
Promise == INSTANCE ExactlyOnce WITH
  record <- rows,
  state <- [r \in Requests |-> IF pc[r] \in Ended THEN pc[r] ELSE "waiting"]

ImplementsExactlyOnce == Promise!Spec
=============================================================================
