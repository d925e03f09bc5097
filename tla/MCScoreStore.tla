----------------------------- MODULE MCScoreStore -----------------------------
(* Small instances of ScoreStore: three requests, three alerts and one that is not there. *)
EXTENDS ScoreStore

CONSTANTS r1, r2, r3, a1, a2, a3, a4

\* a1 is older than the others, which were created at the same time.
CreatedAt == [a \in Alerts |-> IF a = a1 THEN 1 ELSE 2]

Of3(k1, k2, k3) == [r \in Requests |-> IF r = r1 THEN k1 ELSE IF r = r2 THEN k2 ELSE k3]
On(kind, a, asOf) == [kind |-> kind, alert |-> a, asOf |-> asOf, limit |-> 0, from |-> 0]
Queue(limit, from) == [kind |-> "queue", alert |-> a1, asOf |-> 0, limit |-> limit, from |-> from]

Batch == On("score_all", a1, 0)

\* Two saves of one alert under a reader and under the queue, saves of two alerts under the
\* first and the second page of one, a batch next to a save, predictions of different times
\* under a reader.
AskSets == {
  Of3(On("score", a1, 0), On("score", a1, 0), On("get", a1, 0)),
  Of3(On("score", a1, 0), On("score", a1, 0), Queue(2, 0)),
  Of3(On("score", a1, 0), On("score", a2, 0), Queue(1, 0)),
  Of3(On("score", a1, 0), On("score", a2, 0), Queue(2, 1)),
  Of3(Batch, On("score", a2, 0), On("score", a4, 0)),
  Of3(On("predict", a1, 1), On("predict", a1, 0), On("get", a1, 0)) }
=============================================================================
