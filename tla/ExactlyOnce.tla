------------------------------ MODULE ExactlyOnce ------------------------------
(***************************************************************************)
(* What docs/api-contract.md (Idempotency) promises the client of a        *)
(* create/start endpoint, whatever the handler does inside: a key gets one *)
(* recorded outcome, and a request that carries the key is answered from   *)
(* the record, refused because its body is another one, or failed.         *)
(*                                                                         *)
(* `outcome` names the response by the request that produced it: two       *)
(* requests with the same outcome got the same bytes.                      *)
(***************************************************************************)
CONSTANTS
  Keys,         \* (Idempotency-Key, endpoint) pairs
  Bodies,       \* request bodies, as far as their hashes differ
  Requests,
  NoKey,        \* the request carries no key
  NoRecord      \* the key has no record; the request has no outcome

VARIABLES
  ask,          \* the key and the body of each request, never changes
  record,       \* what each key is recorded with
  state,        \* "waiting", or how the request was answered
  outcome       \* the response each request was answered with

vars == <<ask, record, state, outcome>>

Init ==
  /\ ask \in [Requests -> [key : Keys \cup {NoKey}, body : Bodies]]
  /\ record = [k \in Keys |-> NoRecord]
  /\ state = [r \in Requests |-> "waiting"]
  /\ outcome = [r \in Requests |-> NoRecord]

\* The first request of a key to finish its work records it.
Record(r) ==
  /\ state[r] = "waiting"
  /\ ask[r].key # NoKey
  /\ record[ask[r].key] = NoRecord
  /\ record' = [record EXCEPT ![ask[r].key] = [body |-> ask[r].body, by |-> r]]
  /\ UNCHANGED <<ask, state, outcome>>

\* Every request with the recorded body gets the recorded response.
Answer(r) ==
  /\ state[r] = "waiting"
  /\ ask[r].key # NoKey
  /\ record[ask[r].key] # NoRecord
  /\ record[ask[r].key].body = ask[r].body
  /\ state' = [state EXCEPT ![r] = "ok"]
  /\ outcome' = [outcome EXCEPT ![r] = record[ask[r].key].by]
  /\ UNCHANGED <<ask, record>>

\* A request without a key gets a response of its own.
AnswerUnkeyed(r) ==
  /\ state[r] = "waiting"
  /\ ask[r].key = NoKey
  /\ state' = [state EXCEPT ![r] = "ok"]
  /\ outcome' = [outcome EXCEPT ![r] = r]
  /\ UNCHANGED <<ask, record>>

\* 409: the key is recorded with another body.
Conflict(r) ==
  /\ state[r] = "waiting"
  /\ ask[r].key # NoKey
  /\ record[ask[r].key] # NoRecord
  /\ record[ask[r].key].body # ask[r].body
  /\ state' = [state EXCEPT ![r] = "conflict"]
  /\ UNCHANGED <<ask, record, outcome>>

\* 404, 422 or 500, or no answer at all.
Fail(r) ==
  /\ state[r] = "waiting"
  /\ state' = [state EXCEPT ![r] = "failed"]
  /\ UNCHANGED <<ask, record, outcome>>

Next ==
  \E r \in Requests :
    Record(r) \/ Answer(r) \/ AnswerUnkeyed(r) \/ Conflict(r) \/ Fail(r)

Spec == Init /\ [][Next]_vars
=============================================================================
