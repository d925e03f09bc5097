------------------------ MODULE SqliteConnectionProofs ------------------------
(* Theorems about SqliteConnection, for any calls and programs.              *)
EXTENDS SqliteConnection, TLAPS

\* The rows a call has written so far.
DoneRows(c) == {[key |-> program[c][i], by |-> c] : i \in 1..(next[c] - 1)}

\* Which statement a call has come to, by where it is.
NextInv ==
  \A c \in Calls :
    /\ pc[c] = "idle" => next[c] = 1 /\ \A row \in stored : row.by # c
    /\ pc[c] \in {"look", "begin", "execute"} => next[c] <= Len(program[c])
    /\ pc[c] \in {"lookToCommit", "commit", "returned"} => next[c] = Len(program[c]) + 1

\* An open transaction has a running call, which cannot end before it does, and the
\* rows in it are of running calls.
TxInv ==
  /\ inTx => Running # {}
  /\ ~inTx => pending = {}
  /\ \A row \in pending : row.by \in Running

\* Calls that run at the same time have met.
MetInv == \A c, d \in Running : c # d => d \in met[c]

\* What a call has written is there, unless a call that it met rolled back.
LossInv ==
  \A c \in Running \cup Returned :
    \/ DoneRows(c) \subseteq stored \cup pending
    \/ \E d \in met[c] : pc[d] = "raised"

\* A running call that has met no other has the transaction for itself.
AloneInv ==
  \A c \in Running : met[c] = {} =>
    /\ \A row \in stored : row.by # c
    /\ pending = DoneRows(c)
    /\ pc[c] = "look" => next[c] = 1 \/ inTx
    /\ pc[c] = "begin" => ~inTx
    /\ pc[c] \in {"execute", "lookToCommit", "commit", "lookToRollback", "rollback"} => inTx

\* One that has ended left all of its rows, or none.
EndedInv ==
  \A c \in Calls : met[c] = {} =>
    /\ pc[c] = "returned" => RowsOf(c) \subseteq stored
    /\ pc[c] = "raised" => \A row \in stored : row.by # c

IInv == TypeOK /\ NextInv /\ TxInv /\ MetInv /\ LossInv /\ AloneInv /\ EndedInv

-----------------------------------------------------------------------------
(* Lemmas.                                                                 *)

LEMMA ProgramType ==
  ASSUME TypeOK, NEW c \in Calls
  PROVE  /\ program[c] \in Seq(Keys) /\ Len(program[c]) \in Nat \ {0}
         /\ next[c] \in Nat \ {0}
         /\ next[c] <= Len(program[c]) => RowOf(c) \in Row
<1>1. program[c] \in Seq(Keys) /\ program[c] # << >> /\ next[c] \in Nat \ {0}
  BY ProgramsAssumption DEF TypeOK
<1>2. Len(program[c]) \in Nat \ {0}
  BY <1>1
<1>3. next[c] <= Len(program[c]) => program[c][next[c]] \in Keys
  BY <1>1, <1>2
<1>4. QED
  BY <1>1, <1>2, <1>3 DEF RowOf, Row

\* Who runs after a step of c that keeps the others where they are.
LEMMA RunningAfter ==
  ASSUME TypeOK, NEW c \in Calls, NEW to, pc' = [pc EXCEPT ![c] = to]
  PROVE  /\ pc'[c] = to
         /\ \A d \in Calls : d # c => pc'[d] = pc[d]
         /\ Running' = IF to \in InFlight THEN Running \cup {c} ELSE Running \ {c}
BY DEF TypeOK, Running

\* Having written all its rows, a call has written what it does.
LEMMA AllDone ==
  ASSUME TypeOK, NEW c \in Calls, next[c] = Len(program[c]) + 1
  PROVE  DoneRows(c) = RowsOf(c)
<1>1. next[c] - 1 = Len(program[c])
  BY ProgramType
<1>2. QED
  BY <1>1 DEF DoneRows, RowsOf

LEMMA NothingDone ==
  ASSUME NEW c \in Calls, next[c] = 1 PROVE DoneRows(c) = {}
<1>1. 1..(next[c] - 1) = {}
  OBVIOUS
<1>2. QED
  BY <1>1 DEF DoneRows

\* Executing a statement adds its row.
LEMMA DoneAfter ==
  ASSUME TypeOK, NEW c \in Calls, program' = program,
         next' = next \/ next' = [next EXCEPT ![c] = @ + 1]
  PROVE  /\ DoneRows(c)' \subseteq DoneRows(c) \cup {RowOf(c)}
         /\ next' = [next EXCEPT ![c] = @ + 1] => DoneRows(c)' = DoneRows(c) \cup {RowOf(c)}
<1>1. CASE next' = [next EXCEPT ![c] = @ + 1]
  <2>1. next[c] \in Nat \ {0} /\ next'[c] = next[c] + 1
    BY <1>1 DEF TypeOK
  <2>2. 1..(next'[c] - 1) = (1..(next[c] - 1)) \cup {next[c]}
    BY <2>1
  <2>3. DoneRows(c)' = DoneRows(c) \cup {RowOf(c)}
    BY <2>2 DEF DoneRows, RowOf
  <2>4. QED
    BY <2>3
<1>2. CASE next' = next /\ next' # [next EXCEPT ![c] = @ + 1]
  BY <1>2 DEF DoneRows
<1>3. QED
  BY <1>1, <1>2

\* An alone call that runs is the only one that runs.
LEMMA OnlyOne ==
  ASSUME TypeOK, MetInv, NEW c \in Running, met[c] = {}, NEW d \in Running PROVE d = c
BY DEF MetInv

LEMMA InitInv == Init => IInv
<1> SUFFICES ASSUME Init PROVE IInv
  OBVIOUS
<1>1. Running = {} /\ Returned = {}
  BY DEF Init, Running, Returned, InFlight
<1>2. TypeOK
  <2>1. next \in [Calls -> Nat \ {0}]
    BY DEF Init
  <2>2. pc \in [Calls -> {"idle"} \cup InFlight \cup Ended] /\ met \in [Calls -> SUBSET Calls]
    BY DEF Init
  <2>3. QED
    BY <2>1, <2>2 DEF Init, TypeOK
<1>3. NextInv /\ TxInv
  BY DEF Init, NextInv, TxInv
<1>4. MetInv /\ LossInv /\ AloneInv /\ EndedInv
  BY <1>1 DEF Init, MetInv, LossInv, AloneInv, EndedInv
<1>5. QED
  BY <1>2, <1>3, <1>4 DEF IInv

-----------------------------------------------------------------------------
(* Each step keeps the invariant.                                          *)

LEMMA EnterInv ==
  ASSUME IInv, NEW c \in Calls, Enter(c) PROVE IInv'
<1> USE DEF IInv, Enter, Move
<1> DEFINE to == "look"
<1>a. /\ pc'[c] = to
      /\ \A d \in Calls : d # c => pc'[d] = pc[d]
      /\ Running' = IF to \in InFlight THEN Running \cup {c} ELSE Running \ {c}
  BY RunningAfter
<1>1. TypeOK'
  <2>1. Running \subseteq Calls
    BY DEF Running
  <2>2. met' \in [Calls -> SUBSET Calls]
    BY <2>1 DEF TypeOK
  <2>3. QED
    BY <2>2 DEF TypeOK, InFlight, Ended
<1>2. NextInv'
  BY <1>a, ProgramType DEF NextInv, TypeOK
<1>3. TxInv'
  BY <1>a DEF TxInv, TypeOK, InFlight, Running
<1>4. MetInv'
  BY <1>a DEF MetInv, InFlight, Running
<1>5. LossInv'
  <2>1. DoneRows(c) = {}
    BY NothingDone DEF NextInv
  <2>2. \A d : DoneRows(d)' = DoneRows(d)
    BY DEF DoneRows
  <2>3. Returned' = Returned /\ Running' = Running \cup {c}
    BY <1>a DEF Returned, TypeOK, InFlight
  <2>4. \A d \in Calls : pc[d] = "raised" => pc'[d] = "raised"
    BY <1>a
  <2>5. c \notin Running \cup Returned /\ Running \cup Returned \subseteq Calls
    BY DEF Running, Returned, InFlight
  <2>6. \A d \in Running \cup Returned : met[d] \subseteq met'[d] /\ met[d] \subseteq Calls
    BY <2>5 DEF TypeOK
  <2>7. QED
    BY <2>1, <2>2, <2>3, <2>4, <2>6 DEF LossInv
<1>6. AloneInv'
  <2>1. DoneRows(c) = {} /\ next[c] = 1 /\ \A row \in stored : row.by # c
    BY NothingDone DEF NextInv
  <2>2. \A d : DoneRows(d)' = DoneRows(d)
    BY DEF DoneRows
  <2>3. Running' = Running \cup {c} /\ c \notin Running /\ Running \subseteq Calls
    BY <1>a DEF InFlight, Running
  <2>4. \A d \in Running : met'[d] # {}
    BY <2>3
  <2>5. met'[c] = Running /\ pc'[c] = "look"
    BY <1>a
  <2>6. ASSUME Running = {} PROVE pending = {}
    BY <2>6 DEF TxInv
  <2>7. QED
    BY <2>1, <2>2, <2>3, <2>4, <2>5, <2>6 DEF AloneInv
<1>7. EndedInv'
  BY <1>a DEF EndedInv, RowsOf, AloneInv, Running
<1>8. QED
  BY <1>1, <1>2, <1>3, <1>4, <1>5, <1>6, <1>7

LEMMA LookInv ==
  ASSUME IInv, NEW c \in Calls, Look(c) PROVE IInv'
<1> USE DEF IInv, Look, Move
<1> DEFINE to == (IF inTx THEN "execute" ELSE "begin")
<1>a. /\ pc'[c] = to
      /\ \A d \in Calls : d # c => pc'[d] = pc[d]
      /\ Running' = IF to \in InFlight THEN Running \cup {c} ELSE Running \ {c}
  BY RunningAfter
<1>1. TypeOK'
  BY DEF TypeOK, InFlight, Ended
<1>2. NextInv'
  BY <1>a, ProgramType DEF NextInv, TypeOK
<1>3. TxInv'
  BY <1>a DEF TxInv, TypeOK, InFlight, Running
<1>4. MetInv'
  BY <1>a DEF MetInv, InFlight, Running
<1>5. LossInv'
  BY <1>a DEF LossInv, DoneRows, InFlight, Running, Returned
<1>6. AloneInv'
  BY <1>a, OnlyOne DEF AloneInv, DoneRows, InFlight, Running
<1>7. EndedInv'
  BY <1>a DEF EndedInv, RowsOf, AloneInv, Running
<1>8. QED
  BY <1>1, <1>2, <1>3, <1>4, <1>5, <1>6, <1>7

LEMMA BeginInv ==
  ASSUME IInv, NEW c \in Calls, Begin(c) PROVE IInv'
<1> USE DEF IInv, Begin, Move
<1> DEFINE to == (IF inTx THEN "lookToRollback" ELSE "execute")
<1>a. /\ pc'[c] = to
      /\ \A d \in Calls : d # c => pc'[d] = pc[d]
      /\ Running' = IF to \in InFlight THEN Running \cup {c} ELSE Running \ {c}
  BY RunningAfter
<1>1. TypeOK'
  BY DEF TypeOK, InFlight, Ended
<1>2. NextInv'
  BY <1>a, ProgramType DEF NextInv, TypeOK
<1>3. TxInv'
  BY <1>a DEF TxInv, TypeOK, InFlight, Running
<1>4. MetInv'
  BY <1>a DEF MetInv, InFlight, Running
<1>5. LossInv'
  BY <1>a DEF LossInv, DoneRows, InFlight, Running, Returned
<1>6. AloneInv'
  BY <1>a, OnlyOne DEF AloneInv, DoneRows, InFlight, Running
<1>7. EndedInv'
  BY <1>a DEF EndedInv, RowsOf, AloneInv, Running
<1>8. QED
  BY <1>1, <1>2, <1>3, <1>4, <1>5, <1>6, <1>7

LEMMA ExecuteInv ==
  ASSUME IInv, NEW c \in Calls, Execute(c) PROVE IInv'
<1> USE DEF IInv, Execute, Move
<1> DEFINE to == (IF Taken(RowOf(c).key) THEN "lookToRollback" ELSE AfterStatement(c))
<1>a. /\ pc'[c] = to
      /\ \A d \in Calls : d # c => pc'[d] = pc[d]
      /\ Running' = IF to \in InFlight THEN Running \cup {c} ELSE Running \ {c}
  BY RunningAfter
<1>1. TypeOK'
  <2>1. RowOf(c) \in Row /\ next[c] + 1 \in Nat \ {0}
    BY ProgramType DEF NextInv
  <2>2. next' \in [Calls -> Nat \ {0}]
    BY <2>1 DEF TypeOK
  <2>3. pending' \subseteq Row /\ stored' \subseteq Row
    BY <2>1 DEF TypeOK
  <2>4. pc' \in [Calls -> {"idle"} \cup InFlight \cup Ended]
    BY DEF TypeOK, InFlight, Ended, AfterStatement
  <2>5. QED
    BY <2>2, <2>3, <2>4 DEF TypeOK
<1>2. NextInv'
  <2>1. next[c] \in Nat \ {0} /\ Len(program[c]) \in Nat \ {0} /\ next[c] <= Len(program[c])
    BY ProgramType DEF NextInv
  <2>2. CASE Taken(RowOf(c).key)
    BY <1>a, <2>2 DEF NextInv
  <2>3. CASE ~ Taken(RowOf(c).key)
    <3>1. next'[c] = next[c] + 1 /\ \A d \in Calls : d # c => next'[d] = next[d]
      BY <2>3 DEF TypeOK
    <3>2. \A row \in stored' : row \in stored \/ row.by = c
      BY <2>3 DEF RowOf
    <3>3. pc'[c] = AfterStatement(c)
      BY <1>a, <2>3
    <3>4. QED
      BY <1>a, <2>1, <3>1, <3>2, <3>3 DEF NextInv, AfterStatement
  <2>4. QED
    BY <2>2, <2>3
<1>3. TxInv'
  <2>1. Running' = Running /\ c \in Running
    BY <1>a DEF InFlight, Running, AfterStatement
  <2>2. \A row \in pending' : row \in pending \/ row.by = c
    BY DEF RowOf
  <2>3. QED
    BY <2>1, <2>2 DEF TxInv
<1>4. MetInv'
  BY <1>a DEF MetInv, InFlight, Running
<1>5. LossInv'
  <2>1. Running' = Running /\ Returned' = Returned /\ c \in Running
    BY <1>a DEF InFlight, Running, Returned, AfterStatement, TypeOK
  <2>2. \A d \in Calls : pc'[d] = "raised" <=> pc[d] = "raised"
    BY <1>a DEF AfterStatement
  <2>3. \A d \in Calls : d # c => DoneRows(d)' = DoneRows(d)
    BY DEF DoneRows, TypeOK
  <2>4. DoneRows(c)' \subseteq DoneRows(c) \cup {RowOf(c)}
    BY DoneAfter
  <2>5. Taken(RowOf(c).key) => DoneRows(c)' = DoneRows(c)
    BY DEF DoneRows
  <2>6. stored \cup pending \subseteq stored' \cup pending'
    OBVIOUS
  <2>7. ~ Taken(RowOf(c).key) => RowOf(c) \in stored' \cup pending'
    OBVIOUS
  <2>8. Running \cup Returned \subseteq Calls /\ \A d \in Calls : met[d] \subseteq Calls
    BY DEF Running, Returned, TypeOK
  <2>9. ASSUME NEW d \in Running \cup Returned
        PROVE  \/ DoneRows(d)' \subseteq stored' \cup pending'
               \/ \E e \in met[d] : pc'[e] = "raised"
    <3>1. CASE \E e \in met[d] : pc[e] = "raised"
      BY <2>2, <2>8, <2>9, <3>1
    <3>2. CASE DoneRows(d) \subseteq stored \cup pending
      BY <2>3, <2>4, <2>5, <2>6, <2>7, <2>8, <2>9, <3>2
    <3>3. QED
      BY <2>9, <3>1, <3>2 DEF LossInv
  <2>10. QED
    BY <2>1, <2>9 DEF LossInv
<1>6. AloneInv'
  <2>1. Running' = Running /\ c \in Running
    BY <1>a DEF InFlight, Running, AfterStatement
  <2> SUFFICES ASSUME met[c] = {}
               PROVE  /\ \A row \in stored' : row.by # c
                      /\ pending' = DoneRows(c)'
                      /\ pc'[c] # "begin" /\ inTx
    <3>1. \A d \in Running : met[d] = {} => d = c
      BY <2>1, OnlyOne
    <3>2. QED
      BY <2>1, <3>1 DEF AloneInv
  <2>2. inTx /\ pending = DoneRows(c) /\ \A row \in stored : row.by # c
    BY <2>1 DEF AloneInv
  <2>3. pc'[c] # "begin"
    BY <1>a DEF AfterStatement
  <2>4. CASE Taken(RowOf(c).key)
    BY <2>2, <2>3, <2>4 DEF DoneRows
  <2>5. CASE ~ Taken(RowOf(c).key)
    <3>1. DoneRows(c)' = DoneRows(c) \cup {RowOf(c)}
      BY <2>5, DoneAfter
    <3>2. QED
      BY <2>2, <2>3, <2>5, <3>1
  <2>6. QED
    BY <2>4, <2>5
<1>7. EndedInv'
  <2>1. \A d \in Calls : RowsOf(d)' = RowsOf(d)
    BY DEF RowsOf
  <2>2. stored \subseteq stored' /\ \A row \in stored' : row \in stored \/ row.by = c
    BY DEF RowOf
  <2>3. pc'[c] \notin Ended
    BY <1>a DEF AfterStatement, Ended
  <2>4. QED
    BY <1>a, <2>1, <2>2, <2>3 DEF EndedInv, Ended
<1>8. QED
  BY <1>1, <1>2, <1>3, <1>4, <1>5, <1>6, <1>7

LEMMA LookToCommitInv ==
  ASSUME IInv, NEW c \in Calls, LookToCommit(c) PROVE IInv'
<1> USE DEF IInv, LookToCommit, Move
<1> DEFINE to == (IF inTx THEN "commit" ELSE "returned")
<1>a. /\ pc'[c] = to
      /\ \A d \in Calls : d # c => pc'[d] = pc[d]
      /\ Running' = IF to \in InFlight THEN Running \cup {c} ELSE Running \ {c}
  BY RunningAfter
<1>1. TypeOK'
  BY DEF TypeOK, InFlight, Ended
<1>2. NextInv'
  BY <1>a, ProgramType DEF NextInv, TypeOK
<1>3. TxInv'
  BY <1>a DEF TxInv, TypeOK, InFlight, Running
<1>4. MetInv'
  BY <1>a DEF MetInv, InFlight, Running
<1>5. LossInv'
  BY <1>a DEF LossInv, DoneRows, InFlight, Running, Returned
<1>6. AloneInv'
  BY <1>a, OnlyOne DEF AloneInv, DoneRows, InFlight, Running
<1>7. EndedInv'
  <2>1. c \in Running /\ \A d : RowsOf(d)' = RowsOf(d)
    BY DEF Running, InFlight, RowsOf
  <2>2. ASSUME met[c] = {} PROVE inTx
    BY <2>1, <2>2 DEF AloneInv
  <2>3. QED
    BY <1>a, <2>1, <2>2 DEF EndedInv
<1>8. QED
  BY <1>1, <1>2, <1>3, <1>4, <1>5, <1>6, <1>7

LEMMA CommitInv ==
  ASSUME IInv, NEW c \in Calls, Commit(c) PROVE IInv'
<1> USE DEF IInv, Commit, Move, EndTransaction
<1> DEFINE to == (IF inTx THEN "returned" ELSE "lookToRollback")
<1>a. /\ pc'[c] = to
      /\ \A d \in Calls : d # c => pc'[d] = pc[d]
      /\ Running' = IF to \in InFlight THEN Running \cup {c} ELSE Running \ {c}
  BY RunningAfter
<1>1. TypeOK'
  BY DEF TypeOK, InFlight, Ended
<1>2. NextInv'
  <2>1. \A row \in stored' : row \in stored \/ row.by \in Running
    BY DEF TxInv
  <2>2. \A d \in Calls : pc'[d] = "idle" => pc[d] = "idle" /\ d \notin Running
    BY <1>a DEF Running, InFlight
  <2>3. QED
    BY <1>a, <2>1, <2>2 DEF NextInv
<1>3. TxInv'
  BY <1>a DEF TxInv, TypeOK, InFlight, Running
<1>4. MetInv'
  BY <1>a DEF MetInv, InFlight, Running
<1>5. LossInv'
  BY <1>a DEF LossInv, DoneRows, InFlight, Running, Returned
<1>6. AloneInv'
  BY <1>a, OnlyOne DEF AloneInv, DoneRows, InFlight, Running
<1>7. EndedInv'
  <2>1. c \in Running /\ \A d : RowsOf(d)' = RowsOf(d)
    BY DEF Running, InFlight, RowsOf
  <2>2. ASSUME met[c] = {} PROVE inTx /\ RowsOf(c) \subseteq stored'
    <3>1. inTx /\ pending = DoneRows(c)
      BY <2>1, <2>2 DEF AloneInv
    <3>2. DoneRows(c) = RowsOf(c)
      BY AllDone DEF NextInv
    <3>3. QED
      BY <3>1, <3>2
  <2>3. \A row \in stored' : row \in stored \/ row.by \in Running
    BY DEF TxInv
  <2>4. \A d \in Calls : d # c /\ pc'[d] \in Ended => d \notin Running
    BY <1>a DEF Running, InFlight, Ended
  <2>5. QED
    BY <1>a, <2>1, <2>2, <2>3, <2>4 DEF EndedInv, Ended
<1>8. QED
  BY <1>1, <1>2, <1>3, <1>4, <1>5, <1>6, <1>7

LEMMA LookToRollbackInv ==
  ASSUME IInv, NEW c \in Calls, LookToRollback(c) PROVE IInv'
<1> USE DEF IInv, LookToRollback, Move
<1> DEFINE to == (IF inTx THEN "rollback" ELSE "raised")
<1>a. /\ pc'[c] = to
      /\ \A d \in Calls : d # c => pc'[d] = pc[d]
      /\ Running' = IF to \in InFlight THEN Running \cup {c} ELSE Running \ {c}
  BY RunningAfter
<1>1. TypeOK'
  BY DEF TypeOK, InFlight, Ended
<1>2. NextInv'
  BY <1>a, ProgramType DEF NextInv, TypeOK
<1>3. TxInv'
  BY <1>a DEF TxInv, TypeOK, InFlight, Running
<1>4. MetInv'
  BY <1>a DEF MetInv, InFlight, Running
<1>5. LossInv'
  BY <1>a DEF LossInv, DoneRows, InFlight, Running, Returned
<1>6. AloneInv'
  BY <1>a, OnlyOne DEF AloneInv, DoneRows, InFlight, Running
<1>7. EndedInv'
  <2>1. c \in Running /\ \A d : RowsOf(d)' = RowsOf(d)
    BY DEF Running, InFlight, RowsOf
  <2>2. ASSUME met[c] = {} PROVE inTx
    BY <2>1, <2>2 DEF AloneInv
  <2>3. QED
    BY <1>a, <2>1, <2>2 DEF EndedInv, AloneInv
<1>8. QED
  BY <1>1, <1>2, <1>3, <1>4, <1>5, <1>6, <1>7

LEMMA RollbackInv ==
  ASSUME IInv, NEW c \in Calls, Rollback(c) PROVE IInv'
<1> USE DEF IInv, Rollback, Move, EndTransaction
<1> DEFINE to == "raised"
<1>a. /\ pc'[c] = to
      /\ \A d \in Calls : d # c => pc'[d] = pc[d]
      /\ Running' = IF to \in InFlight THEN Running \cup {c} ELSE Running \ {c}
  BY RunningAfter
<1>1. TypeOK'
  BY DEF TypeOK, InFlight, Ended
<1>2. NextInv'
  BY <1>a, ProgramType DEF NextInv, TypeOK
<1>3. TxInv'
  BY <1>a DEF TxInv, TypeOK, InFlight, Running
<1>4. MetInv'
  BY <1>a DEF MetInv, InFlight, Running
<1>5. LossInv'
  <2>1. c \in Running /\ Running' = Running \ {c} /\ Returned' = Returned
    BY <1>a DEF Running, InFlight, Returned, TypeOK
  <2>2. \A d : DoneRows(d)' = DoneRows(d)
    BY DEF DoneRows
  <2>3. \A d \in Calls : pc[d] = "raised" => pc'[d] = "raised"
    BY <1>a
  <2>4. \A d \in Running \ {c} : c \in met[d]
    BY <2>1 DEF MetInv
  <2>5. \A d \in Returned : DoneRows(d) \cap pending = {}
    <3>1. \A d \in Returned : d \notin Running
      BY DEF Returned, Running, InFlight
    <3>2. QED
      BY <3>1 DEF TxInv, DoneRows
  <2>6. \A d \in Calls : met[d] \subseteq Calls
    BY DEF TypeOK
  <2>7. Returned \subseteq Calls /\ pc'[c] = "raised"
    BY <1>a DEF Returned
  <2>8. QED
    BY <2>1, <2>2, <2>3, <2>4, <2>5, <2>6, <2>7 DEF LossInv
<1>6. AloneInv'
  BY <1>a, OnlyOne DEF AloneInv, DoneRows, InFlight, Running
<1>7. EndedInv'
  <2>1. c \in Running /\ \A d : RowsOf(d)' = RowsOf(d)
    BY DEF Running, InFlight, RowsOf
  <2>2. met[c] = {} => \A row \in stored : row.by # c
    BY <2>1 DEF AloneInv
  <2>3. QED
    BY <1>a, <2>1, <2>2 DEF EndedInv
<1>8. QED
  BY <1>1, <1>2, <1>3, <1>4, <1>5, <1>6, <1>7

LEMMA CrashInv == ASSUME IInv, Crash PROVE IInv'
<1> USE DEF IInv, Crash, EndTransaction
<1>1. /\ \A c \in Calls : pc'[c] = IF c \in Running THEN "raised" ELSE pc[c]
      /\ Running' = {} /\ Returned' = Returned
  BY DEF TypeOK, Running, Returned, InFlight
<1>2. TypeOK'
  BY DEF TypeOK, Ended
<1>3. NextInv' /\ TxInv' /\ MetInv'
  BY <1>1 DEF NextInv, TxInv, MetInv
<1>4. LossInv'
  <2>1. \A c \in Returned : c \notin Running
    BY DEF Returned, Running, InFlight
  <2>2. \A c \in Returned : DoneRows(c) \cap pending = {}
    BY <2>1 DEF TxInv, DoneRows
  <2>3. \A c : DoneRows(c)' = DoneRows(c)
    BY DEF DoneRows
  <2>4. \A d \in Calls : pc[d] = "raised" => pc'[d] = "raised"
    BY <1>1
  <2>5. QED
    BY <1>1, <2>2, <2>3, <2>4 DEF LossInv, TypeOK, Returned
<1>5. AloneInv'
  BY <1>1 DEF AloneInv
<1>6. EndedInv'
  BY <1>1 DEF EndedInv, AloneInv, RowsOf
<1>7. QED
  BY <1>2, <1>3, <1>4, <1>5, <1>6

LEMMA StepInv == IInv /\ [Next]_vars => IInv'
<1> SUFFICES ASSUME IInv, [Next]_vars PROVE IInv'
  OBVIOUS
<1>1. CASE Next
  BY <1>1, EnterInv, LookInv, BeginInv, ExecuteInv, LookToCommitInv, CommitInv,
     LookToRollbackInv, RollbackInv, CrashInv DEF Next
<1>2. CASE UNCHANGED vars
  BY <1>2 DEF vars, IInv, TypeOK, NextInv, TxInv, MetInv, LossInv, AloneInv, EndedInv,
     Running, Returned, DoneRows, RowsOf
<1>3. QED
  BY <1>1, <1>2

LEMMA Invariance == Spec => []IInv
BY InitInv, StepInv, PTL DEF Spec

-----------------------------------------------------------------------------
(* The theorems.                                                           *)

\* Calls and rows keep their types.
THEOREM TypeCorrect == Spec => []TypeOK
<1>1. IInv => TypeOK
  BY DEF IInv
<1>2. QED
  BY <1>1, Invariance, PTL

\* A repository call that ran alone is one transaction: the atomicity the other
\* modules assume.
THEOREM Atomicity == Spec => []AtomicAlone
<1>1. ASSUME IInv PROVE AtomicAlone
  BY <1>1 DEF IInv, EndedInv, AtomicAlone, RowsOf
<1>2. QED
  BY <1>1, Invariance, PTL

\* A row of a call that returned is lost only by the rollback of one it met.
THEOREM LossIsByRollback == Spec => []LossNeedsARollback
<1>1. ASSUME IInv PROVE LossNeedsARollback
  <2> USE <1>1 DEF IInv
  <2>1. SUFFICES ASSUME NEW c \in Returned, ~ \E d \in met[c] : d \notin Returned
                 PROVE  RowsOf(c) \subseteq stored
    BY DEF LossNeedsARollback
  <2>2. c \in Calls /\ pc[c] = "returned" /\ c \notin Running
    BY DEF Returned, Running, InFlight
  <2>3. DoneRows(c) = RowsOf(c)
    BY <2>2, AllDone DEF NextInv
  <2>4. DoneRows(c) \cap pending = {}
    BY <2>2 DEF TxInv, DoneRows
  <2>5. DoneRows(c) \subseteq stored \cup pending
    BY <2>1 DEF LossInv, Returned, TypeOK
  <2>6. QED
    BY <2>3, <2>4, <2>5
<1>2. QED
  BY <1>1, Invariance, PTL

\* When all calls have ended, no transaction is open.
THEOREM NothingIsLeftOpen == Spec => []NoTransactionIsLeft
<1>1. IInv => NoTransactionIsLeft
  BY DEF IInv, TxInv, NoTransactionIsLeft
<1>2. QED
  BY <1>1, Invariance, PTL

\* Committed rows and answers stay.
THEOREM Durability == Spec => StoredStays
<1>1. ASSUME TypeOK, [Next]_vars PROVE [stored \subseteq stored' /\ Returned \subseteq Returned']_vars
  <2>1. ASSUME NEW c \in Calls, NEW from, NEW to, Move(c, from, to), from # "returned"
        PROVE  Returned \subseteq Returned'
    BY <1>1, <2>1 DEF TypeOK, Move, Returned
  <2>2. ASSUME NEW c \in Calls,
               Enter(c) \/ Look(c) \/ Begin(c) \/ Execute(c) \/ LookToCommit(c) \/ Commit(c)
                 \/ LookToRollback(c) \/ Rollback(c)
        PROVE  Returned \subseteq Returned'
    BY <2>1, <2>2 DEF Enter, Look, Begin, Execute, LookToCommit, Commit, LookToRollback, Rollback
  <2>3. ASSUME NEW c \in Calls,
               Enter(c) \/ Look(c) \/ Begin(c) \/ Execute(c) \/ LookToCommit(c) \/ Commit(c)
                 \/ LookToRollback(c) \/ Rollback(c)
        PROVE  stored \subseteq stored'
    BY <2>3 DEF Enter, Look, Begin, Execute, LookToCommit, Commit, LookToRollback, Rollback
  <2>4. CASE Crash
    BY <1>1, <2>4 DEF Crash, TypeOK, Returned, Running, InFlight
  <2>5. QED
    BY <1>1, <2>2, <2>3, <2>4 DEF Next
<1>2. QED
  BY <1>1, TypeCorrect, PTL DEF Spec, StoredStays
=============================================================================
