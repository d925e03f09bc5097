------------------------------ MODULE ScoreStore ------------------------------
(***************************************************************************)
(* The tables of scores and predictions under the endpoints that write and *)
(* read them (api/routers/alerts.py), statement by statement:              *)
(* POST alerts/{id}/score, POST alerts/score-all, POST                     *)
(* alerts/{id}/predict-sla, GET alerts/{id} and GET alerts/queue.          *)
(*                                                                         *)
(* A score is one row of PRIORITY_SCORES and a row of ALERT_FACTORS per    *)
(* factor, and none of these tables has a key: save_score deletes what is  *)
(* there and inserts.  On HANA every statement is committed at once; on    *)
(* SQLite the block of save_score is a transaction of the connection all   *)
(* threads share, so that other threads see its rows before it commits and *)
(* discard them when they roll back (module SqliteConnection has the finer *)
(* steps of that).  RISK_ALERTS is loaded from outside before the service   *)
(* runs; nothing in the service writes it.                                 *)
(***************************************************************************)
EXTENDS Naturals, Sequences, SequencesExt

CONSTANTS
  Requests,     \* the requests, each served once
  Alerts,       \* alert ids
  Loaded,       \* those in RISK_ALERTS
  Closed,       \* those whose STATUS begins with CLOSED
  Created,      \* CREATED_AT of each alert; several may share one
  Factors,      \* how many factors the policy has (5)
  PageSize,     \* how many alerts score_all reads at a time (500)
  MaxFailures,  \* bound: how many requests may fail
  Asks,         \* what the requests may ask for
  Databases      \* the backends considered

Kinds == {"score", "score_all", "predict", "get", "queue"}
Ask == [kind : Kinds, alert : Alerts, asOf : Nat, limit : Nat, from : Nat]

ASSUME AlertsAssumption ==
  /\ Loaded \subseteq Alerts
  /\ Closed \subseteq Alerts
  /\ IsFiniteSet(Loaded)
  /\ Created \in [Alerts -> Nat]
ASSUME SizesAssumption == PageSize \in Nat \ {0} /\ Factors \in Nat \ {0} /\ MaxFailures \in Nat
ASSUME AsksAssumption == Asks \subseteq [Requests -> Ask]
ASSUME DatabasesAssumption == Databases \subseteq {"hana", "sqlite"}

VARIABLES
  database,      \* chosen when the program is installed, never changes
  ask,          \* what each request asks for, never changes
  db,           \* the three tables as the connection sees them
  committed,    \* the three tables as a rollback leaves them
  pc,           \* where each request is, or how it ended
  todo,         \* the alerts left in the batch of each request
  offset,       \* where the next page of score_all begins
  next,         \* the factor each save inserts next
  seen,         \* what each reader has read
  before,       \* history: the requests answered before each was received
  scored,       \* history: the alerts each request has saved, alone or mixed with another
  mixed,        \* history: the requests whose block another one's may have reached into
  disturbed,    \* history: the alerts whose last save was mixed or cut short
  calm          \* history: the readers whose alert nobody saved while they read

work == <<todo, offset, next>>
history == <<before, scored, mixed, disturbed, calm>>
storeVars == <<database, ask, db, committed, pc, work, seen, history>>

Score == [alert : Alerts, by : Requests]
Factor == [alert : Alerts, by : Requests, code : 1..Factors]
Prediction == [alert : Alerts, by : Requests, asOf : Nat]
Tables == [scores : SUBSET Score, factors : SUBSET Factor, predictions : SUBSET Prediction]
Reading == [scores : SUBSET Score, factors : SUBSET Factor,
            predictions : SUBSET Prediction, total : Nat]

InBlock == {"insert", "clear", "factors", "commit"}
InFlight == InBlock \cup
  {"page", "delete", "predict", "read", "readFactors", "readPrediction", "count"}
Ended == {"ok", "not_found", "failed"}

StoreTypeOK ==
  /\ database \in Databases
  /\ ask \in Asks
  /\ db \in Tables
  /\ committed \in Tables
  /\ pc \in [Requests -> {"idle"} \cup InFlight \cup Ended]
  /\ todo \in [Requests -> Seq(Alerts)]
  /\ offset \in [Requests -> Nat]
  /\ next \in [Requests -> Nat]
  /\ seen \in [Requests -> Reading]
  /\ before \in [Requests -> SUBSET Requests]
  /\ scored \in [Requests -> [Alerts -> {"no", "alone", "mixed"}]]
  /\ mixed \subseteq Requests
  /\ disturbed \subseteq Alerts
  /\ calm \subseteq Requests

NoRows == [scores |-> {}, factors |-> {}, predictions |-> {}]

StoreInit ==
  /\ database \in Databases
  /\ ask \in Asks
  /\ db = NoRows
  /\ committed = NoRows
  /\ pc = [r \in Requests |-> "idle"]
  /\ todo = [r \in Requests |-> << >>]
  /\ offset = [r \in Requests |-> 0]
  /\ next = [r \in Requests |-> 1]
  /\ seen = [r \in Requests |-> [scores |-> {}, factors |-> {}, predictions |-> {}, total |-> 0]]
  /\ before = [r \in Requests |-> {}]
  /\ scored = [r \in Requests |-> [a \in Alerts |-> "no"]]
  /\ mixed = {}
  /\ disturbed = {}
  /\ calm = {}

-----------------------------------------------------------------------------
Move(r, from, to) ==
  /\ pc[r] = from
  /\ pc' = [pc EXCEPT ![r] = to]
  /\ UNCHANGED <<database, ask>>

Current(r) == Head(todo[r])
Blocks == {r \in Requests : pc[r] \in InBlock}

\* A statement that writes: on HANA it is committed at once.
Execute(table, rows) ==
  /\ db' = [db EXCEPT ![table] = rows]
  /\ committed' = IF database = "hana" THEN db' ELSE committed

\* The blocks that can reach into one on alert a: on SQLite all of them, by their
\* rollback; on HANA those on the same rows.
Reaching(r, a) ==
  {s \in Blocks \ {r} : database = "sqlite" \/ (Current(s) = a /\ ask[s].kind # "predict")}

BeginBlock(r, a) ==
  LET others == Reaching(r, a)
  IN  mixed' = IF others = {} THEN mixed \ {r} ELSE mixed \cup others \cup {r}

\* The first statement about one alert.
FirstStatement == [score |-> "delete", predict |-> "predict", get |-> "read"]

\* The first steps of a handler.  score and predict-sla: the alert must be there; what
\* is read about it is in module Scoring.
Receive(r) ==
  LET a == ask[r].alert
  IN  /\ Move(r, "idle",
           IF ask[r].kind = "score_all" THEN "page"
           ELSE IF ask[r].kind = "queue" THEN "read"
           ELSE IF a \notin Loaded THEN "not_found"
           ELSE FirstStatement[ask[r].kind])
      /\ todo' = [todo EXCEPT ![r] = IF ask[r].kind = "score_all" THEN << >> ELSE <<a>>]
      /\ before' = [before EXCEPT ![r] = {s \in Requests : pc[s] = "ok"}]
      /\ UNCHANGED <<db, committed, offset, next, seen, scored, mixed, disturbed, calm>>

-----------------------------------------------------------------------------
(* score-all.                                                              *)

\* ORDER BY CREATED_AT ASC: alerts created at the same time come in any order, and
\* not in the same one in every query.
Listings ==
  {s \in SetToSeqs(Loaded) :
     \A i, j \in DOMAIN s : i < j => Created[s[i]] <= Created[s[j]]}

Pages(from, size) ==
  {SubSeq(s, from + 1, Min({from + size, Len(s)})) : s \in Listings}

\* Mutant: the offset counts from one.
ReadPageFromOne(r) ==
  /\ \E page \in Pages(offset[r] + 1, PageSize) :
       /\ Move(r, "page", IF page = << >> THEN "ok" ELSE "delete")
       /\ todo' = [todo EXCEPT ![r] = page]
  /\ offset' = [offset EXCEPT ![r] = @ + PageSize]
  /\ UNCHANGED <<next, db, committed, seen, history>>

\* Mutant: the first page is read again and again.
ReadSamePage(r) ==
  /\ \E page \in Pages(offset[r], PageSize) :
       /\ Move(r, "page", IF page = << >> THEN "ok" ELSE "delete")
       /\ todo' = [todo EXCEPT ![r] = page]
  /\ UNCHANGED <<offset, next, db, committed, seen, history>>

\* An empty page ends the loop.
ReadPage(r) ==
  /\ \E page \in Pages(offset[r], PageSize) :
       /\ Move(r, "page", IF page = << >> THEN "ok" ELSE "delete")
       /\ todo' = [todo EXCEPT ![r] = page]
  /\ offset' = [offset EXCEPT ![r] = @ + PageSize]
  /\ UNCHANGED <<next, db, committed, seen, history>>

-----------------------------------------------------------------------------
(* save_score, one statement at a time.                                    *)

\* Mutant: the last score is not deleted.
KeepScore(r) ==
  /\ Move(r, "delete", "insert")
  /\ BeginBlock(r, Current(r))
  /\ calm' = {s \in calm : pc[s] \in Ended \/ (ask[s].kind = "get" /\ ask[s].alert # Current(r))}
  /\ UNCHANGED <<db, committed, work, seen, before, scored, disturbed>>

\* The first statement opens the block.
DeleteScore(r) ==
  /\ Move(r, "delete", "insert")
  /\ Execute("scores", {row \in db.scores : row.alert # Current(r)})
  /\ BeginBlock(r, Current(r))
  /\ calm' = {s \in calm : pc[s] \in Ended \/ (ask[s].kind = "get" /\ ask[s].alert # Current(r))}
  /\ UNCHANGED <<work, seen, before, scored, disturbed>>

InsertScore(r) ==
  /\ Move(r, "insert", "clear")
  /\ Execute("scores", db.scores \cup {[alert |-> Current(r), by |-> r]})
  /\ UNCHANGED <<work, seen, history>>

\* Mutant: the factors of the last score are left in the table.
KeepFactors(r) ==
  /\ Move(r, "clear", "factors")
  /\ UNCHANGED <<db, committed, work, seen, history>>

DeleteFactors(r) ==
  /\ Move(r, "clear", "factors")
  /\ Execute("factors", {row \in db.factors : row.alert # Current(r)})
  /\ UNCHANGED <<work, seen, history>>

InsertFactor(r) ==
  /\ Move(r, "factors", IF next[r] < Factors THEN "factors" ELSE "commit")
  /\ Execute("factors", db.factors \cup {[alert |-> Current(r), by |-> r, code |-> next[r]]})
  /\ next' = [next EXCEPT ![r] = (@ % Factors) + 1]
  /\ UNCHANGED <<todo, offset, seen, history>>

\* The end of the block (on HANA of the last statement) commits what the connection
\* holds, whoever wrote it; score_all goes on with the batch, or with the next page.
EndBlock(r) ==
  /\ Move(r, "commit", IF ask[r].kind # "score_all" THEN "ok"
                       ELSE IF Len(todo[r]) = 1 THEN "page" ELSE "delete")
  /\ todo' = [todo EXCEPT ![r] = Tail(@)]
  /\ committed' = db
  /\ scored' = IF ask[r].kind = "predict" THEN scored
               ELSE [scored EXCEPT ![r][Current(r)] = IF r \in mixed THEN "mixed" ELSE "alone"]
  /\ disturbed' = IF ask[r].kind = "predict" THEN disturbed
                  ELSE IF r \in mixed THEN disturbed \cup {Current(r)}
                  ELSE disturbed \ {Current(r)}
  /\ UNCHANGED <<offset, next, db, seen, before, mixed, calm>>

\* save_predictive_score: predictions are only added, under the as_of of the request.
SavePrediction(r) ==
  /\ Move(r, "predict", "commit")
  /\ Execute("predictions", db.predictions \cup
       {[alert |-> ask[r].alert, by |-> r, asOf |-> ask[r].asOf]})
  /\ BeginBlock(r, ask[r].alert)
  /\ UNCHANGED <<work, seen, before, scored, disturbed, calm>>

MayFail == Cardinality({s \in Requests : pc[s] = "failed"}) < MaxFailures

\* An exception ends the handler anywhere: outside of a block, it is passed on ...
FailOutside(r) ==
  /\ pc[r] \in InFlight \ InBlock
  /\ MayFail
  /\ Move(r, pc[r], "failed")
  /\ UNCHANGED <<db, committed, work, seen, history>>

\* ... and in one, its first statement included, SQLite rolls back what the connection has
\* not committed, whoever wrote it; HANA keeps what was executed.
FailInBlock(r) ==
  /\ pc[r] \in InBlock \cup {"delete", "predict"}
  /\ MayFail
  /\ Move(r, pc[r], "failed")
  /\ db' = committed
  /\ mixed' = IF database = "sqlite" THEN mixed \cup (Blocks \ {r}) ELSE mixed
  /\ disturbed' = IF r \in Blocks /\ ask[r].kind # "predict" /\ (database = "hana" \/ r \in mixed)
                    THEN disturbed \cup {Current(r)} ELSE disturbed
  /\ UNCHANGED <<committed, work, seen, before, scored, calm>>

Fail(r) == FailOutside(r) \/ FailInBlock(r)

-----------------------------------------------------------------------------
(* The readers.                                                            *)

Saving(a) == \E r \in Blocks : Current(r) = a /\ ask[r].kind # "predict"

Of(rows, a) == {row \in rows : row.alert = a}

\* get_latest_score, first statement: one of the rows, whichever comes first.
ReadScore(r) ==
  LET rows == Of(db.scores, ask[r].alert)
  IN  /\ ask[r].kind = "get"
      /\ Move(r, "read", IF rows = {} THEN "readPrediction" ELSE "readFactors")
      /\ IF rows = {} THEN UNCHANGED seen
         ELSE \E row \in rows : seen' = [seen EXCEPT ![r].scores = {row}]
      /\ calm' = IF Saving(ask[r].alert) \/ ask[r].alert \in disturbed THEN calm
                 ELSE calm \cup {r}
      /\ UNCHANGED <<db, committed, work, before, scored, mixed, disturbed>>

\* ... and the second: all factors of the alert.
ReadFactors(r) ==
  /\ Move(r, "readFactors", "readPrediction")
  /\ seen' = [seen EXCEPT ![r].factors = Of(db.factors, ask[r].alert)]
  /\ UNCHANGED <<db, committed, work, history>>

\* ORDER BY SCORED_AT DESC LIMIT 1, where SCORED_AT is the as_of of the request.
LatestPrediction(rows) ==
  {p \in rows : \A q \in rows : q.asOf <= p.asOf}

ReadPrediction(r) ==
  LET rows == Of(db.predictions, ask[r].alert)
  IN  /\ Move(r, "readPrediction", "ok")
      /\ IF rows = {} THEN UNCHANGED seen
         ELSE \E p \in LatestPrediction(rows) : seen' = [seen EXCEPT ![r].predictions = {p}]
      /\ UNCHANGED <<db, committed, work, history>>

\* The rows that list_scored_alerts_ordered joins and count_scored_open_alerts counts.
OpenRows == {row \in db.scores : row.alert \in Loaded \ Closed}

\* LIMIT limit OFFSET from: how long a page of n rows is.
PageLength(n, limit, from) == IF from < n THEN Min({limit, n - from}) ELSE 0

\* One page of the queue.  Which rows it shows is left open here: their order is in module
\* Scoring.
ReadQueue(r) ==
  /\ ask[r].kind = "queue"
  /\ Move(r, "read", "count")
  /\ \E rows \in SUBSET OpenRows :
       /\ Cardinality(rows) = PageLength(Cardinality(OpenRows), ask[r].limit, ask[r].from)
       /\ seen' = [seen EXCEPT ![r].scores = rows]
  /\ calm' = IF disturbed = {} /\ ~\E a \in Alerts : Saving(a) THEN calm \cup {r} ELSE calm
  /\ UNCHANGED <<db, committed, work, before, scored, mixed, disturbed>>

\* ... and the length of the whole queue, in a second statement.
CountQueue(r) ==
  /\ Move(r, "count", "ok")
  /\ seen' = [seen EXCEPT ![r].total = Cardinality(OpenRows)]
  /\ UNCHANGED <<db, committed, work, history>>

-----------------------------------------------------------------------------
\* What the thread of a request does next, but for exceptions.
Step(r) ==
  \/ Receive(r)
  \/ ReadPage(r)
  \/ DeleteScore(r) \/ InsertScore(r) \/ DeleteFactors(r) \/ InsertFactor(r) \/ EndBlock(r)
  \/ SavePrediction(r)
  \/ ReadScore(r) \/ ReadFactors(r) \/ ReadPrediction(r)
  \/ ReadQueue(r) \/ CountQueue(r)

StoreNext == \E r \in Requests : Step(r) \/ Fail(r)

\* A thread of the pool runs its handler to the end.
StoreSpec ==
  /\ StoreInit /\ [][StoreNext]_storeVars
  /\ \A r \in Requests : WF_storeVars(pc[r] # "idle" /\ Step(r))

-----------------------------------------------------------------------------
(* Properties.                                                             *)

\* Every row of the alert's score belongs to one and the same save, and none is missing.
Whole(a, scores, factors) ==
  \/ scores = {} /\ factors = {}
  \/ \E r \in Requests :
       /\ scores = {[alert |-> a, by |-> r]}
       /\ factors = {[alert |-> a, by |-> r, code |-> f] : f \in 1..Factors}

\* However saves were interleaved and cut short before: an alert whose last save ran
\* alone has one score with exactly its factors.
LoneSaveIsWhole ==
  \A a \in Alerts : a \in disturbed \/ Saving(a) \/ Whole(a, Of(db.scores, a), Of(db.factors, a))

\* A reader that no save overlapped, with no disturbed save behind it: GET alerts/{id}
\* shows one save's score with its factors, a page of GET alerts/queue lists no alert twice
\* and is as long as the total beside it says.
CalmReadersSeeOneSave ==
  \A r \in calm : pc[r] = "ok" =>
    IF ask[r].kind = "get" THEN Whole(ask[r].alert, seen[r].scores, seen[r].factors)
    ELSE /\ \A a \in Alerts : Cardinality(Of(seen[r].scores, a)) <= 1
         /\ Cardinality(seen[r].scores) = PageLength(seen[r].total, ask[r].limit, ask[r].from)

\* A score or factor of a request that was answered before another one was sent is gone
\* when that one has saved the alert, on SQLite unless another block reached into its own.
NoStaleScore ==
  \A r \in Requests, a \in Alerts :
    scored[r][a] = "alone" \/ (scored[r][a] = "mixed" /\ database = "hana") =>
      \A row \in Of(db.scores, a) \cup Of(db.factors, a) : row.by \notin before[r]

\* score-all has scored every alert, but for alerts created at the same time as another
\* one, which the pages may miss.
BatchMissesOnlyTies ==
  \A r \in Requests : ask[r].kind = "score_all" /\ pc[r] = "ok" =>
    \A a \in Loaded :
      \/ scored[r][a] # "no"
      \/ \E b \in Loaded \ {a} : Created[a] = Created[b]

\* Every request that was received is answered: score-all comes to an empty page.
RequestsEnd == \A r \in Requests : pc[r] # "idle" ~> pc[r] \in Ended
=============================================================================
