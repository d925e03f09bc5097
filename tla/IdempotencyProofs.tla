--------------------------- MODULE IdempotencyProofs ---------------------------
(***************************************************************************)
(* The idempotent handlers keep the promise of ExactlyOnce, for every set  *)
(* of keys, bodies and requests and every number of writes, wherever a row *)
(* of IDEMPOTENCY_KEYS is not replaced under a running handler: on HANA,   *)
(* and on SQLite when a key has one handler at a time.                     *)
(*                                                                         *)
(* The heart of the invariant is RowInv and AnswerInv: a row never changes *)
(* once written, so whoever was answered was answered from it.  On SQLite  *)
(* that rests on SerialInv, on HANA on the primary key.                    *)
(***************************************************************************)
EXTENDS Idempotency, TLAPS

\* The deployments the theorems are about.
RowsAreKept == \A d \in Deployments : ~(d.replaces /\ d.overlap)

Keyed(r) == ask[r].key # NoKey
RecordOf(r) == [body |-> ask[r].body, by |-> r]

\* How much of its work a request has done, by where it is.
WorkInv ==
  \A r \in Requests :
    /\ pc[r] \in {"idle", "conflict"} => wrote[r] = 0
    /\ pc[r] = "work" => wrote[r] < Writes
    /\ pc[r] \in {"store", "reply"} => wrote[r] = Writes
    /\ pc[r] = "store" => Keyed(r)

\* A row is the one its request stored.
RowInv ==
  \A k \in Keys : rows[k] # NoRecord =>
    /\ rows[k] = RecordOf(rows[k].by)
    /\ ask[rows[k].by].key = k
    /\ wrote[rows[k].by] = Writes
    /\ pc[rows[k].by] \in {"reply", "ok", "failed"}

\* A request about to be answered for its own work has its row in place.
ReplyInv ==
  \A r \in Requests : pc[r] = "reply" /\ Keyed(r) => rows[ask[r].key] = RecordOf(r)

\* An answered request was answered with the row of its key.
AnswerInv ==
  \A r \in Requests : pc[r] = "ok" =>
    /\ Keyed(r) => /\ rows[ask[r].key] # NoRecord
                   /\ rows[ask[r].key].body = ask[r].body
                   /\ outcome[r] = rows[ask[r].key].by
    /\ ~Keyed(r) => outcome[r] = r /\ wrote[r] = Writes
    /\ wrote[r] > 0 => outcome[r] = r

\* One handler per key at a time: while it works, its key has no row.
SerialInv ==
  ~deployment.overlap =>
    \A r \in Requests : Keyed(r) =>
      /\ pc[r] \in {"work", "store"} => rows[ask[r].key] = NoRecord
      /\ pc[r] \in InFlight =>
           \A s \in Requests : SameKey(r, s) /\ pc[s] \in InFlight => s = r

IInv == TypeOK /\ WorkInv /\ RowInv /\ ReplyInv /\ AnswerInv /\ SerialInv

-----------------------------------------------------------------------------
LEMMA InitInv == Init => IInv
<1> SUFFICES ASSUME Init PROVE IInv
  OBVIOUS
<1>1. TypeOK
  BY WritesAssumption DEF Init, TypeOK
<1>2. WorkInv /\ RowInv /\ ReplyInv /\ AnswerInv /\ SerialInv
  BY DEF Init, WorkInv, RowInv, ReplyInv, AnswerInv, SerialInv, InFlight
<1>3. QED
  BY <1>1, <1>2 DEF IInv

\* A keyed request has a key, and a row is not the missing row.
LEMMA KeyType ==
  ASSUME TypeOK, NEW r \in Requests
  PROVE  /\ Keyed(r) => ask[r].key \in Keys
         /\ ~Keyed(r) => ask[r].key = NoKey
         /\ RecordOf(r) \in Record
         /\ RecordOf(r) # NoRecord
         /\ RecordOf(r).by = r /\ RecordOf(r).body = ask[r].body
BY NoRecordAssumption DEF TypeOK, Keyed, RecordOf, Record

-----------------------------------------------------------------------------
(* Each step keeps the invariant.                                          *)

LEMMA ReceiveInv ==
  ASSUME IInv, NEW r \in Requests, Receive(r) PROVE IInv'
<1> USE DEF IInv, Receive
<1>1. /\ pc'[r] \in {"work", "ok", "conflict"} /\ pc[r] = "idle"
      /\ pc' = [pc EXCEPT ![r] = pc'[r]]
      /\ \A s \in Requests : s # r => pc'[s] = pc[s] /\ outcome'[s] = outcome[s]
  BY DEF TypeOK, Start, Replay, Conflict
<1>2. TypeOK'
  <2>1. pc' \in [Requests -> {"idle"} \cup InFlight \cup Ended]
    BY <1>1 DEF TypeOK, InFlight, Ended
  <2>2. outcome' \in [Requests -> Requests \cup {NoRecord}]
    BY DEF TypeOK, Start, Replay, Conflict, Unused, RowOf, Record
  <2>3. QED
    BY <2>1, <2>2 DEF TypeOK
<1>3. WorkInv'
  BY <1>1, WritesAssumption DEF TypeOK, WorkInv, Keyed
<1>4. RowInv'
  BY <1>1 DEF TypeOK, RowInv, RecordOf, Record
<1>5. ReplyInv'
  BY <1>1 DEF ReplyInv, Keyed, RecordOf
<1>6. AnswerInv'
  <2>1. CASE Replay(r)
    BY <2>1, <1>1 DEF TypeOK, AnswerInv, WorkInv, Replay, Unused, RowOf, Keyed
  <2>2. CASE Start(r) \/ Conflict(r)
    BY <2>2, <1>1 DEF TypeOK, AnswerInv, Start, Conflict, Keyed
  <2>3. QED
    BY <2>1, <2>2
<1>7. SerialInv'
  BY <1>1 DEF TypeOK, SerialInv, Start, Replay, Conflict, Unused, RowOf, MaySend, SameKey, Keyed, InFlight
<1>8. QED
  BY <1>2, <1>3, <1>4, <1>5, <1>6, <1>7

LEMMA WriteInv ==
  ASSUME IInv, NEW r \in Requests, Write(r) PROVE IInv'
<1> USE DEF IInv, Write
<1>1. /\ \A s \in Requests : s # r => pc'[s] = pc[s] /\ wrote'[s] = wrote[s]
      /\ wrote[r] \in Nat /\ wrote[r] < Writes /\ wrote'[r] = wrote[r] + 1
      /\ pc'[r] \in InFlight
      /\ pc'[r] = "work" => wrote'[r] < Writes
      /\ pc'[r] = "store" => Keyed(r) /\ wrote'[r] = Writes
      /\ pc'[r] = "reply" => ~Keyed(r) /\ wrote'[r] = Writes
  BY WritesAssumption DEF TypeOK, WorkInv, InFlight, Keyed
<1>2. TypeOK'
  <2>1. pc' \in [Requests -> {"idle"} \cup InFlight \cup Ended]
    BY DEF TypeOK, InFlight
  <2>2. wrote' \in [Requests -> 0..Writes]
    BY <1>1, WritesAssumption DEF TypeOK
  <2>3. QED
    BY <2>1, <2>2 DEF TypeOK
<1>3. WorkInv'
  BY <1>1 DEF WorkInv, Keyed, InFlight
<1>4. RowInv'
  BY <1>1 DEF TypeOK, RowInv, RecordOf, Record
<1>5. ReplyInv'
  BY <1>1 DEF ReplyInv, Keyed, RecordOf
<1>6. AnswerInv'
  BY <1>1 DEF AnswerInv, Keyed, InFlight
<1>7. SerialInv'
  BY <1>1 DEF SerialInv, SameKey, Keyed, InFlight
<1>8. QED
  BY <1>2, <1>3, <1>4, <1>5, <1>6, <1>7

LEMMA StoreInv ==
  ASSUME RowsAreKept, IInv, NEW r \in Requests, Store(r) PROVE IInv'
<1> USE DEF IInv, Store
<1>1. /\ \A s \in Requests : s # r => pc'[s] = pc[s]
      /\ pc[r] = "store" /\ Keyed(r) /\ ask[r].key \in Keys /\ wrote[r] = Writes
  BY KeyType DEF TypeOK, WorkInv
<1>2. Unused(r) = (rows[ask[r].key] = NoRecord)
  BY <1>1 DEF Unused, RowOf, Keyed
<1>3. CASE Unused(r)
  <2>1. /\ pc'[r] = "reply" /\ rows[ask[r].key] = NoRecord
        /\ rows' = [rows EXCEPT ![ask[r].key] = RecordOf(r)]
    BY <1>2, <1>3 DEF TypeOK, RecordOf
  <2>2. /\ rows'[ask[r].key] = RecordOf(r)
        /\ \A k \in Keys : k # ask[r].key => rows'[k] = rows[k]
    BY <2>1, <1>1 DEF TypeOK
  <2>3. TypeOK'
    <3>1. pc' \in [Requests -> {"idle"} \cup InFlight \cup Ended]
      BY DEF TypeOK, InFlight, Ended
    <3>2. rows' \in [Keys -> Record \cup {NoRecord}]
      BY <2>1, <1>1, KeyType DEF TypeOK
    <3>3. QED
      BY <3>1, <3>2 DEF TypeOK
  <2>4. WorkInv'
    BY <1>1, <2>1 DEF WorkInv, Keyed
  <2>5. RowInv'
    <3> SUFFICES ASSUME NEW k \in Keys, rows'[k] # NoRecord
                 PROVE  (/\ rows[k] = RecordOf(rows[k].by)
                         /\ ask[rows[k].by].key = k
                         /\ wrote[rows[k].by] = Writes
                         /\ pc[rows[k].by] \in {"reply", "ok", "failed"})'
      BY DEF RowInv
    <3>1. CASE k = ask[r].key
      BY <3>1, <1>1, <2>1, <2>2, KeyType DEF RecordOf
    <3>2. CASE k # ask[r].key
      <4>1. rows'[k] = rows[k] /\ rows[k].by \in Requests
        BY <3>2, <2>2 DEF TypeOK, Record
      <4>2. pc'[rows[k].by] \in {"reply", "ok", "failed"}
        BY <4>1, <1>1, <2>1 DEF RowInv
      <4>3. QED
        BY <4>1, <4>2 DEF RowInv, RecordOf
    <3>3. QED
      BY <3>1, <3>2
  <2>6. ReplyInv'
    <3> SUFFICES ASSUME NEW s \in Requests, pc'[s] = "reply", Keyed(s)
                 PROVE  rows'[ask[s].key] = RecordOf(s)
      BY DEF ReplyInv, Keyed, RecordOf
    <3>1. CASE s = r
      BY <3>1, <2>2
    <3>2. CASE s # r
      <4>1. rows[ask[s].key] = RecordOf(s)
        BY <3>2, <1>1 DEF ReplyInv
      <4>2. ask[s].key \in Keys /\ ask[s].key # ask[r].key
        BY <4>1, <2>1, KeyType
      <4>3. QED
        BY <4>1, <4>2, <2>2
    <3>3. QED
      BY <3>1, <3>2
  <2>7. AnswerInv'
    <3> SUFFICES ASSUME NEW s \in Requests, pc'[s] = "ok", Keyed(s)
                 PROVE  /\ rows'[ask[s].key] # NoRecord
                        /\ rows'[ask[s].key].body = ask[s].body
                        /\ outcome[s] = rows'[ask[s].key].by
      BY <1>1, <2>1 DEF AnswerInv, Keyed
    <3>1. s # r /\ rows[ask[s].key] # NoRecord /\ ask[s].key \in Keys
      BY <1>1, <2>1, KeyType DEF AnswerInv
    <3>2. rows'[ask[s].key] = rows[ask[s].key]
      BY <3>1, <2>1, <2>2
    <3>3. QED
      BY <3>1, <3>2, <1>1 DEF AnswerInv
  <2>8. SerialInv'
    <3> SUFFICES ASSUME ~deployment.overlap, NEW s \in Requests, Keyed(s)
                 PROVE  /\ pc'[s] \in {"work", "store"} => rows'[ask[s].key] = NoRecord
                        /\ pc'[s] \in InFlight =>
                             \A t \in Requests : SameKey(s, t) /\ pc'[t] \in InFlight => t = s
      BY DEF SerialInv, SameKey, Keyed
    <3>1. \A t \in Requests : pc'[t] \in InFlight => pc[t] \in InFlight
      BY <1>1 DEF InFlight
    <3>2. ASSUME pc'[s] \in {"work", "store"} PROVE rows'[ask[s].key] = NoRecord
      <4>1. s # r /\ pc[s] \in {"work", "store"} /\ pc[s] \in InFlight /\ pc[r] \in InFlight
        BY <3>2, <1>1, <2>1 DEF InFlight
      <4>2. ask[s].key # ask[r].key
        BY <4>1 DEF SerialInv, SameKey, Keyed
      <4>3. ask[s].key \in Keys /\ rows[ask[s].key] = NoRecord
        BY <4>1, KeyType DEF SerialInv
      <4>4. QED
        BY <4>2, <4>3, <2>2
    <3>3. QED
      BY <3>1, <3>2 DEF SerialInv
  <2>9. QED
    BY <2>3, <2>4, <2>5, <2>6, <2>7, <2>8
<1>4. CASE ~Unused(r)
  <2>1. ~deployment.replaces
    <3>1. deployment.overlap
      BY <1>1, <1>2, <1>4 DEF SerialInv
    <3>2. QED
      BY <3>1 DEF RowsAreKept, TypeOK
  <2>2. pc' = [pc EXCEPT ![r] = "failed"] /\ UNCHANGED <<deployment, ask, wrote, rows, outcome>>
    BY <1>4, <2>1
  <2>3. TypeOK'
    BY <2>2 DEF TypeOK, Ended
  <2>4. WorkInv' /\ RowInv' /\ ReplyInv' /\ AnswerInv'
    BY <1>1, <2>2 DEF TypeOK, WorkInv, RowInv, ReplyInv, AnswerInv, Keyed, RecordOf, Record
  <2>5. SerialInv'
    BY <1>1, <2>2 DEF TypeOK, SerialInv, SameKey, Keyed, InFlight
  <2>6. QED
    BY <2>3, <2>4, <2>5
<1>5. QED
  BY <1>3, <1>4

LEMMA ReplyStepInv ==
  ASSUME IInv, NEW r \in Requests, Reply(r) PROVE IInv'
<1> USE DEF IInv, Reply
<1>1. /\ pc'[r] = "ok" /\ outcome'[r] = r
      /\ \A s \in Requests : s # r => pc'[s] = pc[s] /\ outcome'[s] = outcome[s]
  BY DEF TypeOK
<1>2. TypeOK'
  BY DEF TypeOK, Ended
<1>3. WorkInv' /\ RowInv' /\ ReplyInv'
  BY <1>1 DEF TypeOK, WorkInv, RowInv, ReplyInv, Keyed, RecordOf, Record
<1>4. AnswerInv'
  <2>1. Keyed(r) => /\ rows[ask[r].key] # NoRecord
                    /\ rows[ask[r].key].body = ask[r].body
                    /\ rows[ask[r].key].by = r
    BY KeyType DEF ReplyInv
  <2>2. wrote[r] = Writes
    BY DEF WorkInv
  <2>3. QED
    BY <1>1, <2>1, <2>2 DEF AnswerInv, Keyed
<1>5. SerialInv'
  BY <1>1 DEF SerialInv, SameKey, Keyed, InFlight
<1>6. QED
  BY <1>2, <1>3, <1>4, <1>5

LEMMA FailInv ==
  ASSUME IInv, NEW r \in Requests, Fail(r) PROVE IInv'
<1> USE DEF IInv, Fail, InFlight
<1>1. pc'[r] = "failed" /\ \A s \in Requests : s # r => pc'[s] = pc[s]
  BY DEF TypeOK
<1>2. TypeOK'
  BY DEF TypeOK, Ended
<1>3. WorkInv' /\ RowInv' /\ ReplyInv' /\ AnswerInv'
  BY <1>1 DEF TypeOK, WorkInv, RowInv, ReplyInv, AnswerInv, Keyed, RecordOf, Record
<1>4. SerialInv'
  BY <1>1 DEF SerialInv, SameKey, Keyed
<1>5. QED
  BY <1>2, <1>3, <1>4

LEMMA StepInv == ASSUME RowsAreKept PROVE IInv /\ [Next]_vars => IInv'
<1> SUFFICES ASSUME IInv, [Next]_vars PROVE IInv'
  OBVIOUS
<1>1. CASE Next
  BY <1>1, ReceiveInv, WriteInv, StoreInv, ReplyStepInv, FailInv DEF Next
<1>2. CASE UNCHANGED vars
  BY <1>2 DEF vars, IInv, TypeOK, WorkInv, RowInv, ReplyInv, AnswerInv, SerialInv,
     RecordOf, Keyed, SameKey
<1>3. QED
  BY <1>1, <1>2

LEMMA Invariance == ASSUME RowsAreKept PROVE Spec => []IInv
BY InitInv, StepInv, PTL DEF Spec

-----------------------------------------------------------------------------
(* The theorems.                                                           *)

\* Where rows are kept, the handlers keep every request and row well-typed.
THEOREM TypeCorrect == ASSUME RowsAreKept PROVE Spec => []TypeOK
<1>1. IInv => TypeOK
  BY DEF IInv
<1>2. QED
  BY <1>1, Invariance, PTL

\* Where rows are kept, replaying a key returns the response it was recorded with.
THEOREM ExactReplay == ASSUME RowsAreKept PROVE Spec => []ReplayIsExact
<1>1. IInv => ReplayIsExact
  BY DEF IInv, AnswerInv, ReplayIsExact, SameKey, Keyed
<1>2. QED
  BY <1>1, Invariance, PTL

\* Where rows are kept, no two requests of a key report success for work each
\* did itself.
THEOREM OneSuccess == ASSUME RowsAreKept PROVE Spec => []SurplusWorkIsReported
<1>1. IInv => SurplusWorkIsReported
  BY DEF IInv, AnswerInv, SurplusWorkIsReported, SameKey, Keyed
<1>2. QED
  BY <1>1, Invariance, PTL

\* Where rows are kept, every answer stands for work that was finished.
THEOREM AnswersAreEarned == ASSUME RowsAreKept PROVE Spec => []AnswersStandForWork
<1>1. IInv => AnswersStandForWork
  <2> SUFFICES ASSUME IInv, NEW r \in Requests, pc[r] = "ok"
               PROVE  outcome[r] # NoRecord /\ wrote[outcome[r]] = Writes
    BY DEF AnswersStandForWork
  <2>1. CASE Keyed(r)
    <3>1. /\ ask[r].key \in Keys /\ rows[ask[r].key] # NoRecord
          /\ outcome[r] = rows[ask[r].key].by
      BY <2>1, KeyType DEF IInv, AnswerInv
    <3>2. wrote[outcome[r]] = Writes /\ outcome[r] \in Requests
      BY <3>1 DEF IInv, RowInv, TypeOK, Record
    <3>3. QED
      BY <3>2, NoRecordAssumption
  <2>2. CASE ~Keyed(r)
    BY <2>2, NoRecordAssumption DEF IInv, AnswerInv
  <2>3. QED
    BY <2>1, <2>2
<1>2. QED
  BY <1>1, Invariance, PTL

\* Where rows are kept, the handlers implement the promise of the contract: each
\* step is one of its steps, or changes nothing a client can see.
THEOREM Implementation == ASSUME RowsAreKept PROVE Spec => ImplementsExactlyOnce
<1>1. Init => Promise!Init
  BY DEF Init, Promise!Init, Ended
<1>2. IInv /\ [Next]_vars => [Promise!Next]_(Promise!vars)
  <2> SUFFICES ASSUME IInv, [Next]_vars PROVE [Promise!Next]_(Promise!vars)
    OBVIOUS
  <2> DEFINE st == [s \in Requests |-> IF pc[s] \in Ended THEN pc[s] ELSE "waiting"]
  <2>1. ASSUME NEW r \in Requests, Receive(r) PROVE [Promise!Next]_(Promise!vars)
    <3>1. CASE Start(r)
      <4>1. st' = st
        BY <2>1, <3>1 DEF Receive, Start, IInv, TypeOK, Ended
      <4>2. QED
        BY <2>1, <3>1, <4>1 DEF Receive, Start, Promise!vars
    <3>2. CASE Replay(r)
      <4>1. /\ st[r] = "waiting" /\ st' = [st EXCEPT ![r] = "ok"]
            /\ UNCHANGED <<ask, rows>>
        BY <2>1, <3>2 DEF Receive, Replay, IInv, TypeOK, Ended
      <4>2. ask[r].key # NoKey /\ RowOf(r) = rows[ask[r].key] /\ rows[ask[r].key] # NoRecord
        BY <3>2 DEF Replay, Unused, RowOf
      <4>3. Promise!Answer(r)
        BY <3>2, <4>1, <4>2 DEF Replay, Promise!Answer
      <4>4. QED
        BY <4>3 DEF Promise!Next
    <3>3. CASE Conflict(r)
      <4>1. /\ st[r] = "waiting" /\ st' = [st EXCEPT ![r] = "conflict"]
            /\ UNCHANGED <<ask, rows, outcome>>
        BY <2>1, <3>3 DEF Receive, Conflict, IInv, TypeOK, Ended
      <4>2. ask[r].key # NoKey /\ RowOf(r) = rows[ask[r].key] /\ rows[ask[r].key] # NoRecord
        BY <3>3 DEF Conflict, Unused, RowOf
      <4>3. Promise!Conflict(r)
        BY <3>3, <4>1, <4>2 DEF Conflict, Promise!Conflict
      <4>4. QED
        BY <4>3 DEF Promise!Next
    <3>4. QED
      BY <2>1, <3>1, <3>2, <3>3 DEF Receive
  <2>2. ASSUME NEW r \in Requests, Write(r) PROVE [Promise!Next]_(Promise!vars)
    <3>1. st' = st
      BY <2>2 DEF Write, IInv, TypeOK, Ended
    <3>2. QED
      BY <2>2, <3>1 DEF Write, Promise!vars
  <2>3. ASSUME NEW r \in Requests, Store(r) PROVE [Promise!Next]_(Promise!vars)
    <3>1. ask[r].key # NoKey /\ st[r] = "waiting" /\ RowOf(r) = rows[ask[r].key]
      BY <2>3 DEF Store, IInv, WorkInv, Keyed, Ended, RowOf
    <3>2. CASE Unused(r)
      <4>1. /\ st' = st /\ UNCHANGED <<ask, outcome>>
            /\ rows' = [rows EXCEPT ![ask[r].key] = [body |-> ask[r].body, by |-> r]]
        BY <2>3, <3>2 DEF Store, IInv, TypeOK, Ended
      <4>2. Promise!Record(r)
        BY <3>1, <3>2, <4>1 DEF Promise!Record, Unused
      <4>3. QED
        BY <4>2 DEF Promise!Next
    <3>3. CASE ~Unused(r)
      <4>1. ~deployment.replaces
        <5>1. deployment.overlap
          BY <2>3, <3>1, <3>3 DEF Store, IInv, SerialInv, Keyed, Unused
        <5>2. QED
          BY <5>1 DEF RowsAreKept, IInv, TypeOK
      <4>2. /\ st' = [st EXCEPT ![r] = "failed"]
            /\ UNCHANGED <<ask, rows, outcome>>
        BY <2>3, <3>3, <4>1 DEF Store, IInv, TypeOK, Ended
      <4>3. Promise!Fail(r)
        BY <3>1, <4>2 DEF Promise!Fail
      <4>4. QED
        BY <4>3 DEF Promise!Next
    <3>4. QED
      BY <3>2, <3>3
  <2>4. ASSUME NEW r \in Requests, Reply(r) PROVE [Promise!Next]_(Promise!vars)
    <3>1. /\ st[r] = "waiting" /\ st' = [st EXCEPT ![r] = "ok"]
          /\ outcome' = [outcome EXCEPT ![r] = r] /\ UNCHANGED <<ask, rows>>
      BY <2>4 DEF Reply, IInv, TypeOK, Ended
    <3>2. CASE Keyed(r)
      <4>1. /\ rows[ask[r].key] # NoRecord
            /\ rows[ask[r].key].body = ask[r].body /\ rows[ask[r].key].by = r
        BY <2>4, <3>2, KeyType DEF Reply, IInv, ReplyInv
      <4>2. Promise!Answer(r)
        BY <3>1, <3>2, <4>1 DEF Promise!Answer, Keyed
      <4>3. QED
        BY <4>2 DEF Promise!Next
    <3>3. CASE ~Keyed(r)
      <4>1. Promise!AnswerUnkeyed(r)
        BY <3>1, <3>3 DEF Promise!AnswerUnkeyed, Keyed
      <4>2. QED
        BY <4>1 DEF Promise!Next
    <3>4. QED
      BY <3>2, <3>3
  <2>5. ASSUME NEW r \in Requests, Fail(r) PROVE [Promise!Next]_(Promise!vars)
    <3>1. /\ st[r] = "waiting" /\ st' = [st EXCEPT ![r] = "failed"]
          /\ UNCHANGED <<ask, rows, outcome>>
      BY <2>5 DEF Fail, InFlight, IInv, TypeOK, Ended
    <3>2. Promise!Fail(r)
      BY <3>1 DEF Promise!Fail
    <3>3. QED
      BY <3>2 DEF Promise!Next
  <2>6. CASE UNCHANGED vars
    BY <2>6 DEF vars, Promise!vars
  <2>7. QED
    BY <2>1, <2>2, <2>3, <2>4, <2>5, <2>6 DEF Next
<1>3. QED
  BY <1>1, <1>2, Invariance, PTL DEF Spec, ImplementsExactlyOnce, Promise!Spec
=============================================================================
