--------------------------- MODULE SqliteConnection ---------------------------
(***************************************************************************)
(* The writes of LocalSQLiteRepository (persistence/local.py): all threads *)
(* share one sqlite3 connection, and each repository call that writes runs *)
(* its statements in a `with self.conn` block.                             *)
(*                                                                         *)
(* The block commits when it ends and rolls back when a statement raises,  *)
(* but a connection has one transaction, whoever opened it: the block of   *)
(* one thread commits or discards what the others have written in it.      *)
(* Python's sqlite3 module opens the transaction before a statement that   *)
(* writes if there is none; it looks, and then releases the interpreter    *)
(* lock to execute BEGIN, COMMIT, ROLLBACK and each statement, so that the *)
(* steps of different threads interleave between any two of them.          *)
(*                                                                         *)
(* The other modules take a repository call for one atomic transaction.    *)
(* Here that is the property AtomicAlone, and what it depends on.          *)
(***************************************************************************)
EXTENDS Naturals, Sequences

CONSTANTS
  Calls,        \* the repository calls that write, each by a thread of its own
  Keys,         \* primary keys
  Programs      \* what a call may do: the keys of the rows it inserts, in order

ASSUME ProgramsAssumption == Programs \subseteq Seq(Keys) \ {<< >>}

Row == [key : Keys, by : Calls]

VARIABLES
  program,      \* what each call does, never changes
  pc,           \* where each call is, or how it ended
  next,         \* the statement each call executes next
  inTx,         \* the connection has an open transaction
  pending,      \* rows written in it
  stored,       \* rows committed
  met           \* history: the calls each call ran at the same time with

vars == <<program, pc, next, inTx, pending, stored, met>>

InFlight == {"look", "begin", "execute", "lookToCommit", "commit", "lookToRollback", "rollback"}
Ended == {"returned", "raised"}

TypeOK ==
  /\ program \in [Calls -> Programs]
  /\ pc \in [Calls -> {"idle"} \cup InFlight \cup Ended]
  /\ next \in [Calls -> Nat \ {0}]
  /\ inTx \in BOOLEAN
  /\ pending \subseteq Row
  /\ stored \subseteq Row
  /\ met \in [Calls -> SUBSET Calls]

Init ==
  /\ program \in [Calls -> Programs]
  /\ pc = [c \in Calls |-> "idle"]
  /\ next = [c \in Calls |-> 1]
  /\ inTx = FALSE
  /\ pending = {}
  /\ stored = {}
  /\ met = [c \in Calls |-> {}]

-----------------------------------------------------------------------------
Move(c, from, to) ==
  /\ pc[c] = from
  /\ pc' = [pc EXCEPT ![c] = to]
  /\ UNCHANGED program

Running == {c \in Calls : pc[c] \in InFlight}

\* The call enters its block, which does nothing yet.
Enter(c) ==
  /\ Move(c, "idle", "look")
  /\ met' = [d \in Calls |-> IF d = c THEN Running
                             ELSE IF d \in Running THEN met[d] \cup {c} ELSE met[d]]
  /\ UNCHANGED <<next, inTx, pending, stored>>

\* A statement that writes: is a transaction open?
Look(c) ==
  /\ Move(c, "look", IF inTx THEN "execute" ELSE "begin")
  /\ UNCHANGED <<next, inTx, pending, stored, met>>

\* BEGIN raises if there is one by now.
Begin(c) ==
  /\ Move(c, "begin", IF inTx THEN "lookToRollback" ELSE "execute")
  /\ inTx' = TRUE
  /\ UNCHANGED <<next, pending, stored, met>>

RowOf(c) == [key |-> program[c][next[c]], by |-> c]

Taken(key) == \E row \in stored \cup pending : row.key = key

AfterStatement(c) == IF next[c] < Len(program[c]) THEN "look" ELSE "lookToCommit"

\* The INSERT raises if the key is taken.  If another thread has ended the
\* transaction meanwhile, the row is committed at once.
Execute(c) ==
  /\ pc[c] = "execute"
  /\ IF Taken(RowOf(c).key)
       THEN /\ Move(c, "execute", "lookToRollback")
            /\ UNCHANGED <<next, pending, stored>>
       ELSE /\ Move(c, "execute", AfterStatement(c))
            /\ next' = [next EXCEPT ![c] = @ + 1]
            /\ pending' = IF inTx THEN pending \cup {RowOf(c)} ELSE pending
            /\ stored' = IF inTx THEN stored ELSE stored \cup {RowOf(c)}
  /\ UNCHANGED <<inTx, met>>

\* Mutant: the statements are executed without a block.
ReturnUncommitted(c) ==
  /\ Move(c, "lookToCommit", "returned")
  /\ UNCHANGED <<next, inTx, pending, stored, met>>

\* The end of the block commits if a transaction is open ...
LookToCommit(c) ==
  /\ Move(c, "lookToCommit", IF inTx THEN "commit" ELSE "returned")
  /\ UNCHANGED <<next, inTx, pending, stored, met>>

EndTransaction == inTx' = FALSE /\ pending' = {}

\* Mutant: the transaction is rolled back, and the call returns.
CommitNothing(c) ==
  /\ Move(c, "commit", IF inTx THEN "returned" ELSE "lookToRollback")
  /\ EndTransaction
  /\ UNCHANGED <<next, stored, met>>

\* ... and COMMIT raises if it is not any more; the block then rolls back.
Commit(c) ==
  /\ Move(c, "commit", IF inTx THEN "returned" ELSE "lookToRollback")
  /\ stored' = stored \cup pending
  /\ EndTransaction
  /\ UNCHANGED <<next, met>>

\* Mutant: the exception is passed on, and nothing rolled back.
RaiseWithoutRollback(c) ==
  /\ Move(c, "lookToRollback", "raised")
  /\ UNCHANGED <<next, inTx, pending, stored, met>>

\* An exception ends the block with a rollback if a transaction is open; it is
\* passed on, and so is the one of a ROLLBACK that comes too late.
LookToRollback(c) ==
  /\ Move(c, "lookToRollback", IF inTx THEN "rollback" ELSE "raised")
  /\ UNCHANGED <<next, inTx, pending, stored, met>>

Rollback(c) ==
  /\ Move(c, "rollback", "raised")
  /\ EndTransaction
  /\ UNCHANGED <<next, stored, met>>

\* The process ends; SQLite discards the open transaction when it starts again.
Crash ==
  /\ Running # {}
  /\ pc' = [c \in Calls |-> IF c \in Running THEN "raised" ELSE pc[c]]
  /\ EndTransaction
  /\ UNCHANGED <<program, next, stored, met>>

Next ==
  \/ \E c \in Calls :
       \/ Enter(c) \/ Look(c) \/ Begin(c) \/ Execute(c)
       \/ LookToCommit(c) \/ Commit(c) \/ LookToRollback(c) \/ Rollback(c)
  \/ Crash

Spec == Init /\ [][Next]_vars

-----------------------------------------------------------------------------
(* Properties.                                                             *)

RowsOf(c) == {[key |-> program[c][i], by |-> c] : i \in 1..Len(program[c])}
Returned == {c \in Calls : pc[c] = "returned"}
Raised == {c \in Calls : pc[c] = "raised"}

\* A call that met no other is one transaction, whatever ran before it: all of its
\* rows are stored when it returns, none when it raises or the process ends.  This
\* is what the other modules assume of every call.
AtomicAlone ==
  \A c \in Calls : met[c] = {} =>
    /\ pc[c] = "returned" => RowsOf(c) \subseteq stored
    /\ pc[c] = "raised" => RowsOf(c) \cap stored = {}

\* A call that returned has lost a row only by the rollback of a call it met, and
\* that call raised or will.
LossNeedsARollback ==
  \A c \in Returned : RowsOf(c) \subseteq stored \/ \E d \in met[c] : d \notin Returned

\* An open transaction has a call that will end it: when all calls have ended, none
\* is left open to swallow the writes of the next.
NoTransactionIsLeft ==
  /\ Running = {} => ~inTx
  /\ ~inTx => pending = {}

\* What is committed stays, and a call is answered for good.
StoredStays == [][stored \subseteq stored' /\ Returned \subseteq Returned']_vars
=============================================================================
