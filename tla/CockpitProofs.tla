---------------------------- MODULE CockpitProofs ----------------------------
(***************************************************************************)
(* Proofs about what a person has before them in the cockpit: the          *)
(* assistant (module AssistantLoop) and the review page (ReviewPage).      *)
(*                                                                         *)
(* The assistant, for any number of rounds, calls and questions, and       *)
(* whatever the model calls: the history that is sent with the next        *)
(* question answers every call in it, and tells what was changed.  While a *)
(* round is executed the messages are not such a history: the invariant    *)
(* says that each call is answered or is still to be executed, at the      *)
(* place where its answer will stand (Awaiting).  A turn works on messages *)
(* that contain the history, so that what was told stays told, and only a  *)
(* turn that died leaves changes nobody tells (Told).                      *)
(*                                                                         *)
(* The review page, for any number of tabs, clicks and cuts.  As long as   *)
(* runs do not overlap and none is cut short, what the one running script  *)
(* has loaded is what is there (LoneInv).  How often a decision can be on  *)
(* record is a matter of counting, whatever happens: the records, the      *)
(* requests that may be carried out yet, the decision a script carries and *)
(* the click that waits for it are together at most one more than the runs *)
(* that were cut short (RepeatInv).                                        *)
(***************************************************************************)
EXTENDS AssistantLoop, ReviewPage, SequenceTheorems, FiniteSetTheorems,
        WellFoundedInduction, TLAPS

USE AssistantAssumption

-----------------------------------------------------------------------------
(* The assistant.                                                          *)

Ids == Nat \X Nat \X Nat
Results == {"none", "done", "failed", "refused", "unshowable"}
Message == [role : {"user", "assistant", "tool"}, calls : Seq(Ids), of : Ids \cup {<< >>},
            result : Results]
Pending == [call : Callable, id : Ids]

-----------------------------------------------------------------------------
(* Sequences.                                                              *)

\* A function on 1..n is a sequence of length n.
LEMMA FunctionIsSeq ==
  ASSUME NEW S, NEW n \in Nat, NEW f \in [1..n -> S]
  PROVE  f \in Seq(S) /\ Len(f) = n /\ DOMAIN f = 1..n /\ (f = << >> <=> n = 0)
<1>1. f \in Seq(S) /\ Len(f) = n
  OBVIOUS
<1>2. f = << >> => n = 0
  BY <1>1, EmptySeq
<1>3. n = 0 => f = << >>
  BY <1>1, EmptySeq
<1> QED BY <1>1, <1>2, <1>3

\* What Append adds, and what it keeps.
LEMMA Appended ==
  ASSUME NEW S, NEW s \in Seq(S), NEW x \in S
  PROVE  LET t == Append(s, x)
         IN  /\ t \in Seq(S) /\ t # << >>
             /\ Len(t) = Len(s) + 1 /\ DOMAIN s = 1..Len(s) /\ DOMAIN t = 1..(Len(s) + 1)
             /\ Len(s) \in Nat
             /\ \A i \in 1..Len(s) : t[i] = s[i]
             /\ t[Len(s) + 1] = x
  BY AppendProperties, LenProperties

-----------------------------------------------------------------------------
(* The invariant.                                                          *)

\* In m each call is answered at its place, or waits in p for that place; each answer, and
\* each place in p, belongs to a call.
Awaiting(m, p) ==
  /\ \A i \in DOMAIN m : \A k \in DOMAIN m[i].calls :
       \/ i + k \in DOMAIN m /\ m[i + k].role = "tool" /\ m[i + k].of = m[i].calls[k]
       \/ \E n \in DOMAIN p : i + k = Len(m) + n /\ p[n].id = m[i].calls[k]
  /\ \A i \in DOMAIN m : m[i].role = "tool" =>
       \E j \in 1..(i - 1) : i - j \in DOMAIN m[j].calls
  /\ \A n \in DOMAIN p : \E j \in 1..Len(m) : Len(m) + n - j \in DOMAIN m[j].calls

LoopInv ==
  /\ pc \in {"idle", "complete", "execute", "answered", "dead"}
  /\ question \in 0..MaxQuestions
  /\ history \in Seq(Message) /\ messages \in Seq(Message) /\ pending \in Seq(Pending)
  /\ pc = "execute" <=> pending # << >>
  /\ iteration \in 0..MaxIterations + 1
  /\ pc \in {"complete", "execute"} => iteration <= MaxIterations

AnsweredInv ==
  /\ HistoryIsAnswered
  /\ pc \in {"complete", "execute", "answered"} => Awaiting(messages, pending)
  /\ pc = "answered" => messages # << >> /\ messages[Len(messages)].role # "user"

-----------------------------------------------------------------------------
\* A round of the model is one more message, and one pending entry per call.
LEMMA Round ==
  ASSUME LoopInv, NEW calls \in Calls,
         NEW ids, ids = [k \in DOMAIN calls |-> Id(Len(messages), k)]
  PROVE  /\ Assistant(ids) \in Message
         /\ Len(ids) \in Nat /\ DOMAIN ids = 1..Len(ids) /\ (calls = << >> <=> Len(ids) = 0)
         /\ LET p == [k \in DOMAIN calls |-> [call |-> calls[k], id |-> ids[k]]]
            IN  /\ p \in Seq(Pending) /\ Len(p) = Len(ids) /\ DOMAIN p = 1..Len(ids)
                /\ p = << >> <=> calls = << >>
<1>0. PICK n \in Nat : calls \in [1..n -> Callable]
  BY DEF Calls
<1>1. DOMAIN calls = 1..n /\ (calls = << >> <=> n = 0)
  BY <1>0, FunctionIsSeq
<1>2. question \in Nat /\ Len(messages) \in Nat
  BY LenProperties DEF LoopInv
<1>3. ids \in [1..n -> Ids]
  BY <1>1, <1>2 DEF Id, Ids
<1>4. ids \in Seq(Ids) /\ Len(ids) = n /\ DOMAIN ids = 1..n
  BY <1>3, FunctionIsSeq
<1>5. Assistant(ids) \in Message
  BY <1>4 DEF Assistant, Message, Results
<1> DEFINE p == [k \in DOMAIN calls |-> [call |-> calls[k], id |-> ids[k]]]
<1>6. p \in [1..n -> Pending]
  BY <1>0, <1>1, <1>3 DEF Pending
<1>7. p \in Seq(Pending) /\ Len(p) = n /\ DOMAIN p = 1..n /\ (p = << >> <=> n = 0)
  BY <1>6, FunctionIsSeq
<1> QED BY <1>0, <1>1, <1>4, <1>5, <1>7

\* Executing a call takes the first entry away and adds its answer.
LEMMA Answer ==
  ASSUME LoopInv, pending # << >>, NEW result \in Results
  PROVE  /\ Tool(Head(pending).id, result) \in Message
         /\ Tail(pending) \in Seq(Pending) /\ Head(pending) \in Pending
         /\ Len(pending) \in Nat \ {0} /\ Len(Tail(pending)) = Len(pending) - 1
         /\ DOMAIN pending = 1..Len(pending) /\ DOMAIN Tail(pending) = 1..(Len(pending) - 1)
         /\ Head(pending) = pending[1]
         /\ \A i \in 1..(Len(pending) - 1) : Tail(pending)[i] = pending[i + 1]
         /\ Tail(pending) = << >> <=> Len(pending) = 1
<1>1. pending \in Seq(Pending)
  BY DEF LoopInv
<1>2. Head(pending) \in Pending /\ Tail(pending) \in Seq(Pending)
      /\ Len(Tail(pending)) = Len(pending) - 1
      /\ \A i \in 1..Len(Tail(pending)) : Tail(pending)[i] = pending[i + 1]
  BY <1>1, HeadTailProperties
<1>3. Len(pending) \in Nat \ {0} /\ DOMAIN pending = 1..Len(pending)
      /\ DOMAIN Tail(pending) = 1..Len(Tail(pending))
  BY <1>1, <1>2, EmptySeq, LenProperties
<1>4. << >> \in Seq(Ids)
  BY EmptySeq
<1>5. Tool(Head(pending).id, result) \in Message
  BY <1>2, <1>4 DEF Tool, Message, Pending
<1>6. Tail(pending) = << >> <=> Len(pending) = 1
  <2>1. Tail(pending) = << >> <=> Len(Tail(pending)) = 0
    BY <1>2, EmptySeq
  <2> QED BY <1>2, <1>3, <2>1
<1> QED BY <1>1, <1>2, <1>3, <1>5, <1>6

LEMMA HeadIsCall ==
  ASSUME LoopInv, pending # << >> PROVE Head(pending).call \in Callable
<1>1. Head(pending) \in Pending
  BY HeadTailProperties DEF LoopInv
<1> QED BY <1>1 DEF Pending

LEMMA UserIsMessage == User \in Message
  BY EmptySeq DEF User, Message, Results

\* Each of the ways a call may end, by its arguments and whether its tool is there: what
\* has changed something and did not raise is done or has failed.
LEMMA OutcomeIs ==
  ASSUME NEW call \in Callable, NEW o \in Outcomes(call)
  PROVE  /\ o.result \in {"done", "failed", "refused", "unshowable", "raise"}
         /\ o.changed # {} => o.result \in {"done", "failed"}
<1> DEFINE Changed(n) == {Changes[call.tool][i] : i \in 1..n}
           all == Len(Changes[call.tool])
           Nothing(result) == [changed |-> {}, result |-> result]
<1>0. call.args \in {"object", "lacking", "other", "garbage"}
  BY DEF Call, Args
<1>1. CASE call.args \in {"lacking", "garbage"} \/ call.tool \notin Tools
  <2>1. o \in {Nothing(IF call.args = "other" THEN "unshowable" ELSE "refused")}
    BY <1>1 DEF Outcomes
  <2> QED BY <2>1
<1>2. CASE call.args = "other" /\ call.tool \in Tools
  <2>1. o \in {Nothing("raise")}
    BY <1>2 DEF Outcomes
  <2> QED BY <2>1
<1>3. CASE call.args = "object" /\ call.tool \in Tools
  <2>1. o \in {[changed |-> Changed(all), result |-> "done"]}
             \cup {[changed |-> Changed(n), result |-> "failed"] : n \in 0..all}
             \cup {Nothing("refused") : t \in {"assemble_case_file"} \cap {call.tool}}
    BY <1>3 DEF Outcomes
  <2> HIDE DEF Changed, all
  <2> QED BY <2>1
<1> QED BY <1>0, <1>1, <1>2, <1>3

-----------------------------------------------------------------------------
(* Where the turn is.                                                      *)

LEMMA LoopInitially == Init => LoopInv
  BY EmptySeq DEF Init, LoopInv

LEMMA LoopNext == LoopInv /\ [Next]_vars => LoopInv'
<1> SUFFICES ASSUME LoopInv, [Next]_vars PROVE LoopInv'
  OBVIOUS
<1>1. CASE Ask
  <2>1. messages' \in Seq(Message)
    BY <1>1, UserIsMessage, AppendProperties DEF Ask, LoopInv
  <2> QED BY <1>1, <2>1 DEF Ask, Goto, LoopInv
<1>2. CASE Complete
  <2>1. PICK calls \in Calls :
          LET ids == [k \in DOMAIN calls |-> Id(Len(messages), k)]
          IN  /\ Goto("complete", IF calls = << >> THEN "answered" ELSE "execute")
              /\ messages' = Append(messages, Assistant(ids))
              /\ pending' = [k \in DOMAIN calls |-> [call |-> calls[k], id |-> ids[k]]]
              /\ UNCHANGED <<question, history, iteration, effects, excused>>
    BY <1>2 DEF Complete
  <2> DEFINE ids == [k \in DOMAIN calls |-> Id(Len(messages), k)]
  <2>2. /\ Assistant(ids) \in Message
        /\ pending' \in Seq(Pending)
        /\ pending' = << >> <=> calls = << >>
    BY <2>1, Round
  <2>3. messages' \in Seq(Message)
    BY <2>1, <2>2, AppendProperties DEF LoopInv
  <2> QED BY <2>1, <2>2, <2>3 DEF Goto, LoopInv
<1>3. CASE CompletionFails
  BY <1>3 DEF CompletionFails, Goto, LoopInv
<1>4. CASE Execute
  <2>1. PICK o \in Outcomes(Head(pending).call) :
          /\ o.result # "raise"
          /\ Executed(o)
          /\ Goto("execute", IF pending' # << >> THEN "execute"
                             ELSE IF iteration' > MaxIterations THEN "answered" ELSE "complete")
    BY <1>4 DEF Execute
  <2>2. pending # << >> /\ o.result \in Results
    BY <1>4, <2>1, HeadIsCall, OutcomeIs DEF Execute, Results
  <2>3. /\ Tool(Head(pending).id, o.result) \in Message
        /\ pending' \in Seq(Pending)
        /\ pending' = << >> <=> Len(pending) = 1
    BY <2>1, <2>2, Answer DEF Executed
  <2>4. messages' \in Seq(Message)
    BY <2>1, <2>3, AppendProperties DEF Executed, LoopInv
  <2>5. /\ iteration' \in 0..MaxIterations + 1
        /\ pc' # "answered" => iteration' <= MaxIterations
    BY <1>4, <2>1, <2>3 DEF Executed, Execute, Goto, LoopInv
  <2> QED BY <1>4, <2>1, <2>3, <2>4, <2>5 DEF Execute, Goto, LoopInv
<1>5. CASE ToolRaises
  BY <1>5, EmptySeq DEF ToolRaises, Goto, LoopInv
<1>6. CASE Show \/ Lose
  BY <1>6, EmptySeq DEF Show, Lose, Leave, Goto, LoopInv
<1>7. CASE Clear
  BY <1>7, EmptySeq DEF Clear, Goto, LoopInv
<1>8. CASE UNCHANGED vars
  BY <1>8 DEF vars, LoopInv
<1> QED BY <1>1, <1>2, <1>3, <1>4, <1>5, <1>6, <1>7, <1>8 DEF Next, Turn

\* The assistant's turn is always in one of its states, and has at most MAX_ITERATIONS + 1
\* rounds, whatever the model calls in the last one (loop.py).
THEOREM TypeCorrect == Spec => []TypeOK
<1>1. LoopInv => TypeOK
  BY DEF LoopInv, TypeOK
<1> QED BY <1>1, LoopInitially, LoopNext, PTL DEF Spec

-----------------------------------------------------------------------------
(* Every call is answered.                                                 *)

\* A message that calls nothing and answers nothing changes nothing of it.
LEMMA Plain ==
  ASSUME NEW m \in Seq(Message), NEW x \in Message, Awaiting(m, << >>),
         x.role # "tool", x.calls = << >>
  PROVE  Awaiting(Append(m, x), << >>)
<1> DEFINE t == Append(m, x)
<1>1. /\ Len(m) \in Nat /\ DOMAIN m = 1..Len(m) /\ DOMAIN t = 1..(Len(m) + 1)
      /\ Len(t) = Len(m) + 1
      /\ \A i \in 1..Len(m) : t[i] = m[i]
      /\ t[Len(m) + 1] = x
  BY Appended
<1>2. DOMAIN << >> = {}
  OBVIOUS
<1>3. \A i \in DOMAIN t : \A k \in DOMAIN t[i].calls :
        i + k \in DOMAIN t /\ t[i + k].role = "tool" /\ t[i + k].of = t[i].calls[k]
  <2> SUFFICES ASSUME NEW i \in DOMAIN t, NEW k \in DOMAIN t[i].calls
               PROVE  i + k \in DOMAIN t /\ t[i + k].role = "tool" /\ t[i + k].of = t[i].calls[k]
    OBVIOUS
  <2>1. i \in 1..Len(m)
    BY <1>1, <1>2
  <2>2. i + k \in DOMAIN m /\ m[i + k].role = "tool" /\ m[i + k].of = m[i].calls[k]
    BY <1>1, <1>2, <2>1 DEF Awaiting
  <2> QED BY <1>1, <2>1, <2>2
<1>4. \A i \in DOMAIN t : t[i].role = "tool" => \E j \in 1..(i - 1) : i - j \in DOMAIN t[j].calls
  <2> SUFFICES ASSUME NEW i \in DOMAIN t, t[i].role = "tool"
               PROVE  \E j \in 1..(i - 1) : i - j \in DOMAIN t[j].calls
    OBVIOUS
  <2>1. i \in 1..Len(m)
    BY <1>1
  <2>2. PICK j \in 1..(i - 1) : i - j \in DOMAIN m[j].calls
    BY <1>1, <2>1 DEF Awaiting
  <2>3. t[j] = m[j]
    BY <1>1, <2>1
  <2> QED BY <2>2, <2>3
<1> QED BY <1>2, <1>3, <1>4 DEF Awaiting

\* A round leaves its calls waiting, each for the place after the last one's.
LEMMA Asked ==
  ASSUME NEW m \in Seq(Message), NEW x \in Message, Awaiting(m, << >>), x.role # "tool",
         NEW p, Len(x.calls) \in Nat, DOMAIN x.calls = 1..Len(x.calls),
         DOMAIN p = DOMAIN x.calls, \A n \in DOMAIN p : p[n].id = x.calls[n]
  PROVE  Awaiting(Append(m, x), p)
<1> DEFINE t == Append(m, x)
<1>1. /\ Len(m) \in Nat /\ DOMAIN m = 1..Len(m) /\ DOMAIN t = 1..(Len(m) + 1)
      /\ Len(t) = Len(m) + 1
      /\ \A i \in 1..Len(m) : t[i] = m[i]
      /\ t[Len(m) + 1] = x
  BY Appended
<1>2. DOMAIN << >> = {}
  OBVIOUS
<1>3. ASSUME NEW i \in DOMAIN t, NEW k \in DOMAIN t[i].calls
      PROVE  \/ i + k \in DOMAIN t /\ t[i + k].role = "tool" /\ t[i + k].of = t[i].calls[k]
             \/ \E n \in DOMAIN p : i + k = Len(t) + n /\ p[n].id = t[i].calls[k]
  <2>1. CASE i = Len(m) + 1
    <3>1. k \in DOMAIN p /\ i + k = Len(t) + k /\ p[k].id = t[i].calls[k]
      BY <1>1, <2>1
    <3> QED BY <3>1
  <2>2. CASE i \in 1..Len(m)
    <3>1. i + k \in DOMAIN m /\ m[i + k].role = "tool" /\ m[i + k].of = m[i].calls[k]
      BY <1>1, <1>2, <2>2 DEF Awaiting
    <3> QED BY <1>1, <2>2, <3>1
  <2> QED BY <1>1, <2>1, <2>2
<1>4. ASSUME NEW i \in DOMAIN t, t[i].role = "tool"
      PROVE  \E j \in 1..(i - 1) : i - j \in DOMAIN t[j].calls
  <2>1. i \in 1..Len(m)
    BY <1>1, <1>4
  <2>2. PICK j \in 1..(i - 1) : i - j \in DOMAIN m[j].calls
    BY <1>1, <1>4, <2>1 DEF Awaiting
  <2>3. t[j] = m[j]
    BY <1>1, <2>1
  <2> QED BY <2>2, <2>3
<1>5. ASSUME NEW n \in DOMAIN p
      PROVE  \E j \in 1..Len(t) : Len(t) + n - j \in DOMAIN t[j].calls
  <2>1. Len(t) \in 1..Len(t) /\ Len(t) + n - Len(t) = n
    BY <1>1
  <2>2. n \in DOMAIN t[Len(t)].calls
    BY <1>1
  <2> QED BY <2>1, <2>2
<1> QED BY <1>3, <1>4, <1>5 DEF Awaiting

\* The answer to the first call that waits comes to stand at its place.
LEMMA Served ==
  ASSUME NEW m \in Seq(Message), NEW x \in Message, NEW p, NEW q, NEW size \in Nat \ {0},
         Awaiting(m, p), DOMAIN p = 1..size, DOMAIN q = 1..(size - 1),
         \A n \in 1..(size - 1) : q[n] = p[n + 1],
         x.role = "tool", x.calls = << >>, x.of = p[1].id
  PROVE  Awaiting(Append(m, x), q)
<1> DEFINE t == Append(m, x)
<1>1. /\ Len(m) \in Nat /\ DOMAIN m = 1..Len(m) /\ DOMAIN t = 1..(Len(m) + 1)
      /\ Len(t) = Len(m) + 1
      /\ \A i \in 1..Len(m) : t[i] = m[i]
      /\ t[Len(m) + 1] = x
  BY Appended
<1>2. DOMAIN x.calls = {}
  OBVIOUS
<1>3. ASSUME NEW i \in DOMAIN t, NEW k \in DOMAIN t[i].calls
      PROVE  \/ i + k \in DOMAIN t /\ t[i + k].role = "tool" /\ t[i + k].of = t[i].calls[k]
             \/ \E n \in DOMAIN q : i + k = Len(t) + n /\ q[n].id = t[i].calls[k]
  <2>1. i \in 1..Len(m) /\ t[i] = m[i] /\ k \in DOMAIN m[i].calls
    BY <1>1, <1>2
  <2>2. CASE i + k \in DOMAIN m /\ m[i + k].role = "tool" /\ m[i + k].of = m[i].calls[k]
    BY <1>1, <2>1, <2>2
  <2>3. ASSUME NEW n \in DOMAIN p, i + k = Len(m) + n, p[n].id = m[i].calls[k]
        PROVE  \/ i + k \in DOMAIN t /\ t[i + k].role = "tool" /\ t[i + k].of = t[i].calls[k]
               \/ \E l \in DOMAIN q : i + k = Len(t) + l /\ q[l].id = t[i].calls[k]
    <3>1. CASE n = 1
      BY <1>1, <2>1, <2>3, <3>1
    <3>2. CASE n > 1
      <4>1. n \in 1..size /\ n - 1 \in 1..(size - 1) /\ (n - 1) + 1 = n
        BY <2>3, <3>2
      <4>2. q[n - 1] = p[n]
        BY <4>1
      <4>3. i + k = Len(t) + (n - 1)
        BY <1>1, <2>3, <4>1
      <4> QED BY <2>1, <2>3, <4>1, <4>2, <4>3
    <3> QED BY <3>1, <3>2
  <2> QED BY <1>1, <2>1, <2>2, <2>3 DEF Awaiting
<1>4. ASSUME NEW i \in DOMAIN t, t[i].role = "tool"
      PROVE  \E j \in 1..(i - 1) : i - j \in DOMAIN t[j].calls
  <2>1. CASE i \in 1..Len(m)
    <3>1. PICK j \in 1..(i - 1) : i - j \in DOMAIN m[j].calls
      BY <1>1, <1>4, <2>1 DEF Awaiting
    <3>2. t[j] = m[j]
      BY <1>1, <2>1
    <3> QED BY <3>1, <3>2
  <2>2. CASE i = Len(m) + 1
    <3>0. 1 \in DOMAIN p
      OBVIOUS
    <3>1. PICK j \in 1..Len(m) : Len(m) + 1 - j \in DOMAIN m[j].calls
      BY <3>0 DEF Awaiting
    <3>2. t[j] = m[j] /\ j \in 1..(i - 1)
      BY <1>1, <2>2
    <3> QED BY <2>2, <3>1, <3>2
  <2> QED BY <1>1, <2>1, <2>2
<1>5. ASSUME NEW n \in DOMAIN q
      PROVE  \E j \in 1..Len(t) : Len(t) + n - j \in DOMAIN t[j].calls
  <2>1. n \in Nat /\ n + 1 \in DOMAIN p
    OBVIOUS
  <2>2. PICK j \in 1..Len(m) : Len(m) + (n + 1) - j \in DOMAIN m[j].calls
    BY <2>1 DEF Awaiting
  <2>3. t[j] = m[j] /\ j \in 1..Len(t) /\ Len(t) + n - j = Len(m) + (n + 1) - j
    BY <1>1, <2>1, <2>2
  <2> QED BY <2>2, <2>3
<1> QED BY <1>3, <1>4, <1>5 DEF Awaiting

\* What a turn that ended leaves is a history.
LEMMA Kept ==
  ASSUME LoopInv, AnsweredInv, pc = "answered", history' = messages
  PROVE  HistoryIsAnswered'
<1>1. pending = << >> /\ DOMAIN << >> = {}
  BY DEF LoopInv
<1>2. Awaiting(messages, << >>) /\ messages[Len(messages)].role # "user"
  BY <1>1 DEF AnsweredInv
<1> QED BY <1>1, <1>2 DEF Awaiting, HistoryIsAnswered

LEMMA AnsweredInitially == Init => AnsweredInv
<1>1. DOMAIN << >> = {}
  OBVIOUS
<1> QED BY <1>1 DEF Init, AnsweredInv, HistoryIsAnswered

LEMMA AnsweredNext == LoopInv /\ AnsweredInv /\ [Next]_vars => AnsweredInv'
<1> SUFFICES ASSUME LoopInv, AnsweredInv, [Next]_vars PROVE AnsweredInv'
  OBVIOUS
<1> USE DEF LoopInv
<1>1. CASE Ask
  <2>1. pending = << >> /\ pending' = << >> /\ pc' = "complete" /\ messages' = Append(history, User)
        /\ history' = history
    BY <1>1 DEF Ask, Goto
  <2>2. Awaiting(history, << >>)
    BY DEF AnsweredInv, HistoryIsAnswered, Awaiting
  <2>3. Awaiting(messages', pending')
    BY <2>1, <2>2, Plain, UserIsMessage DEF User
  <2> QED BY <2>1, <2>3 DEF AnsweredInv, HistoryIsAnswered
<1>2. CASE Complete
  <2>1. PICK calls \in Calls :
          LET ids == [k \in DOMAIN calls |-> Id(Len(messages), k)]
          IN  /\ Goto("complete", IF calls = << >> THEN "answered" ELSE "execute")
              /\ messages' = Append(messages, Assistant(ids))
              /\ pending' = [k \in DOMAIN calls |-> [call |-> calls[k], id |-> ids[k]]]
              /\ UNCHANGED <<question, history, iteration, effects, excused>>
    BY <1>2 DEF Complete
  <2> DEFINE ids == [k \in DOMAIN calls |-> Id(Len(messages), k)]
  <2>2. /\ Assistant(ids) \in Message
        /\ Len(ids) \in Nat /\ DOMAIN ids = 1..Len(ids) /\ DOMAIN calls = DOMAIN ids
    BY <2>1, Round
  <2>3. /\ Assistant(ids).role = "assistant" /\ Assistant(ids).calls = ids
        /\ DOMAIN pending' = DOMAIN ids /\ \A n \in DOMAIN pending' : pending'[n].id = ids[n]
    BY <2>1 DEF Assistant
  <2>4. pending = << >> /\ Awaiting(messages, << >>)
    BY <2>1 DEF Goto, AnsweredInv
  <2> HIDE DEF ids
  <2>5. Awaiting(Append(messages, Assistant(ids)), pending')
    BY <2>2, <2>3, <2>4, Asked
  <2>6. LET t == Append(messages, Assistant(ids))
        IN  t # << >> /\ t[Len(t)].role # "user"
    BY <2>2, <2>3, Appended
  <2> QED BY <2>1, <2>5, <2>6 DEF AnsweredInv, HistoryIsAnswered, ids
<1>3. CASE CompletionFails
  BY <1>3 DEF CompletionFails, Goto, AnsweredInv, HistoryIsAnswered
<1>4. CASE Execute
  <2>1. PICK o \in Outcomes(Head(pending).call) :
          /\ o.result # "raise"
          /\ Executed(o)
          /\ Goto("execute", IF pending' # << >> THEN "execute"
                             ELSE IF iteration' > MaxIterations THEN "answered" ELSE "complete")
    BY <1>4 DEF Execute
  <2>2. pending # << >> /\ o.result \in Results /\ history' = history
    BY <1>4, <2>1, HeadIsCall, OutcomeIs DEF Execute, Results
  <2> DEFINE x == Tool(Head(pending).id, o.result)
  <2>3. x \in Message /\ x.role = "tool" /\ x.calls = << >> /\ x.of = Head(pending).id
    BY <2>2, Answer DEF Tool
  <2>4. messages' = Append(messages, x) /\ pending' = Tail(pending) /\ Awaiting(messages, pending)
    BY <2>1 DEF Executed, Goto, AnsweredInv
  <2>5. /\ Len(pending) \in Nat \ {0} /\ DOMAIN pending = 1..Len(pending)
        /\ DOMAIN pending' = 1..(Len(pending) - 1)
        /\ Head(pending) = pending[1]
        /\ \A i \in 1..(Len(pending) - 1) : pending'[i] = pending[i + 1]
    BY <2>2, <2>4, Answer
  <2> HIDE DEF x
  <2>6. Awaiting(messages', pending')
    BY <2>3, <2>4, <2>5, Served
  <2>7. messages' # << >> /\ messages'[Len(messages')].role # "user"
    BY <2>3, <2>4, Appended
  <2> QED BY <2>2, <2>6, <2>7 DEF AnsweredInv, HistoryIsAnswered
<1>5. CASE ToolRaises
  BY <1>5 DEF ToolRaises, Goto, AnsweredInv, HistoryIsAnswered
<1>6. CASE Show
  <2>1. pc = "answered" /\ history' = messages /\ pc' = "idle"
    BY <1>6 DEF Show, Goto
  <2>2. HistoryIsAnswered'
    BY <2>1, Kept
  <2> QED BY <2>1, <2>2 DEF AnsweredInv
<1>9. CASE Lose
  BY <1>9 DEF Lose, Goto, AnsweredInv, HistoryIsAnswered
<1>7. CASE Clear
  <2>1. DOMAIN << >> = {}
    OBVIOUS
  <2> QED BY <1>7, <2>1 DEF Clear, Goto, AnsweredInv, HistoryIsAnswered
<1>8. CASE UNCHANGED vars
  BY <1>8 DEF vars, AnsweredInv, HistoryIsAnswered
<1> QED BY <1>1, <1>2, <1>3, <1>4, <1>5, <1>6, <1>7, <1>8, <1>9 DEF Next, Turn

\* The history that goes to the model with the next question answers each call at its place,
\* and does not end with a question: with the assistant's word or, where the rounds ran
\* out, with the answers to its last calls (loop.py, 5_Assistant.py).
THEOREM AnsweredHistory == Spec => []HistoryIsAnswered
<1>1. LoopInv /\ AnsweredInv => HistoryIsAnswered
  BY DEF AnsweredInv
<1> QED BY <1>1, LoopInitially, LoopNext, AnsweredInitially, AnsweredNext, PTL DEF Spec

-----------------------------------------------------------------------------
(* Every change is told.                                                   *)

\* A message of m says what became of the call that had the effect, and none denies it.
Tells(m, e) ==
  \E i \in DOMAIN m : m[i].of = e.id /\ m[i].result \in {"done", "failed"}
Denies(m, e) ==
  \E i \in DOMAIN m : m[i].of = e.id /\ m[i].result = "refused"

\* A call's id holds its question, where its round stands in the messages, and its place
\* in the round: together, where its answer will stand.  So these are the ids of calls
\* that have been executed.
Past(id, q, m) == \/ id[1] < q
                  \/ id[1] = q /\ (m = << >> \/ id[2] + id[3] < Len(m))

ToldInv ==
  /\ \A e \in effects : \/ e.id[1] \in excused
                        \/ Tells(history, e)
                        \/ pc # "idle" /\ e.id[1] = question
  /\ pc \in {"complete", "execute", "answered"} =>
       \A e \in effects : e.id[1] \in excused \/ Tells(messages, e)
  /\ \A e \in effects : ~Denies(history, e) /\ ~Denies(messages, e)

PastInv ==
  /\ pc = "idle" <=> messages = << >>
  /\ \A n \in DOMAIN pending : /\ pending[n].id[1] = question
                               /\ pending[n].id[2] + pending[n].id[3] = Len(messages) + n - 1
  /\ \A e \in effects : e.id \in Ids /\ Past(e.id, question, messages)
  /\ \A i \in DOMAIN history : history[i].of # << >> => Past(history[i].of, question, messages)
  /\ \A i \in DOMAIN messages : messages[i].of # << >> => Past(messages[i].of, question, messages)

\* What was told stays told; what is not denied by a new message either stays undenied.
LEMMA StillTold ==
  ASSUME NEW m \in Seq(Message), NEW x \in Message, NEW e
  PROVE  /\ Tells(m, e) => Tells(Append(m, x), e)
         /\ ~Denies(m, e) /\ ~(x.of = e.id /\ x.result = "refused") => ~Denies(Append(m, x), e)
<1> DEFINE t == Append(m, x)
<1>1. /\ DOMAIN m = 1..Len(m) /\ DOMAIN t = 1..(Len(m) + 1) /\ Len(m) \in Nat
      /\ \A i \in 1..Len(m) : t[i] = m[i]
      /\ t[Len(m) + 1] = x
  BY Appended
<1> HIDE DEF t
<1>2. Tells(m, e) => Tells(t, e)
  BY <1>1 DEF Tells
<1>3. ASSUME ~Denies(m, e), ~(x.of = e.id /\ x.result = "refused") PROVE ~Denies(t, e)
  <2> SUFFICES ASSUME NEW i \in DOMAIN t, t[i].of = e.id, t[i].result = "refused" PROVE FALSE
    BY DEF Denies
  <2>1. i \in 1..Len(m)
    BY <1>1, <1>3
  <2> QED BY <1>1, <1>3, <2>1 DEF Denies
<1> QED BY <1>2, <1>3 DEF t

LEMMA ToldInitially == Init => PastInv /\ ToldInv
<1>1. DOMAIN << >> = {}
  OBVIOUS
<1> QED BY <1>1 DEF Init, PastInv, ToldInv

\* What executing a call does to messages, pending calls and effects.
LEMMA ExecuteIs ==
  ASSUME LoopInv, PastInv, Execute
  PROVE  \E o \in Outcomes(Head(pending).call), id \in Ids, x \in Message :
           /\ o.result \in Results /\ (o.changed # {} => o.result \in {"done", "failed"})
           /\ id = Head(pending).id /\ id[1] = question /\ id[2] + id[3] = Len(messages)
           /\ x.of = id /\ x.result = o.result
           /\ messages' = Append(messages, x)
           /\ effects' = effects \cup {[kind |-> c, id |-> id] : c \in o.changed}
           /\ DOMAIN pending' = 1..(Len(pending) - 1) /\ Len(pending) \in Nat
           /\ \A n \in DOMAIN pending' : n + 1 \in DOMAIN pending /\ pending'[n] = pending[n + 1]
           /\ pc = "execute" /\ pc' \in {"execute", "answered", "complete"}
           /\ UNCHANGED <<question, history, excused>>
<1>1. PICK o \in Outcomes(Head(pending).call) :
        /\ o.result # "raise"
        /\ Executed(o)
        /\ Goto("execute", IF pending' # << >> THEN "execute"
                           ELSE IF iteration' > MaxIterations THEN "answered" ELSE "complete")
  BY DEF Execute
<1> DEFINE id == Head(pending).id
           x == Tool(id, o.result)
<1>2. /\ pending # << >> /\ o.result \in Results
      /\ o.changed # {} => o.result \in {"done", "failed"}
      /\ UNCHANGED <<question, history, excused>>
  BY <1>1, HeadIsCall, OutcomeIs DEF Execute, Results
<1>3. /\ x \in Message /\ x.of = id /\ x.result = o.result
      /\ messages' = Append(messages, x)
  BY <1>1, <1>2, Answer DEF Tool, Executed
<1>4. /\ Len(pending) \in Nat \ {0} /\ DOMAIN pending = 1..Len(pending) /\ id = pending[1].id
      /\ DOMAIN pending' = 1..(Len(pending) - 1)
      /\ \A n \in 1..(Len(pending) - 1) : pending'[n] = pending[n + 1]
      /\ Head(pending) \in Pending
  BY <1>1, <1>2, Answer DEF Executed
<1>5. id \in Ids
  BY <1>4 DEF Pending
<1>6. Len(messages) \in Nat
  BY LenProperties DEF LoopInv
<1>7. id[1] = question /\ id[2] + id[3] = Len(messages)
  BY <1>4, <1>6 DEF PastInv
<1>8. /\ effects' = effects \cup {[kind |-> c, id |-> id] : c \in o.changed}
      /\ pc = "execute" /\ pc' \in {"execute", "answered", "complete"}
  BY <1>1 DEF Executed, Goto
<1>9. \A n \in DOMAIN pending' : n + 1 \in DOMAIN pending /\ pending'[n] = pending[n + 1]
  BY <1>4
<1> HIDE DEF x, id
<1> QED BY <1>2, <1>3, <1>4, <1>5, <1>7, <1>8, <1>9 DEF id

\* The ids that are past stay so when the messages grow.
LEMMA StillPast ==
  ASSUME LoopInv, messages # << >>, question' = question, NEW x \in Message,
         messages' = Append(messages, x), NEW id \in Ids, Past(id, question, messages)
  PROVE  Past(id, question', messages')
<1>1. Len(messages') = Len(messages) + 1 /\ Len(messages) \in Nat
  BY Appended DEF LoopInv
<1>2. id[2] \in Nat /\ id[3] \in Nat
  BY DEF Ids
<1> QED BY <1>1, <1>2 DEF Past

LEMMA PastNext == LoopInv /\ PastInv /\ [Next]_vars => PastInv'
<1> SUFFICES ASSUME LoopInv, PastInv, [Next]_vars PROVE PastInv'
  OBVIOUS
<1>0. /\ DOMAIN << >> = {}
      /\ messages \in Seq(Message) /\ history \in Seq(Message) /\ question \in Nat
  BY DEF LoopInv
<1>a. /\ \A i \in DOMAIN messages : messages[i].of # << >> => messages[i].of \in Ids
      /\ \A i \in DOMAIN history : history[i].of # << >> => history[i].of \in Ids
  <2>1. \A i \in DOMAIN messages : messages[i] \in Message
    BY <1>0, ElementOfSeq, LenProperties
  <2>2. \A i \in DOMAIN history : history[i] \in Message
    BY <1>0, ElementOfSeq, LenProperties
  <2> QED BY <2>1, <2>2 DEF Message
<1>b. \A id \in Ids : id[1] \in Nat /\ id[2] \in Nat /\ id[3] \in Nat
  BY DEF Ids
<1>1. CASE Ask
  <2>1. /\ pc = "idle" /\ pc' = "complete" /\ question' = question + 1
        /\ messages' = Append(history, User)
        /\ UNCHANGED <<history, pending, effects, excused>>
        /\ messages = << >> /\ pending = << >>
    BY <1>1 DEF Ask, Goto, LoopInv, PastInv
  <2>2. /\ DOMAIN history = 1..Len(history) /\ DOMAIN messages' = 1..(Len(history) + 1)
        /\ Len(history) \in Nat /\ messages' # << >>
        /\ \A i \in 1..Len(history) : messages'[i] = history[i]
        /\ messages'[Len(history) + 1] = User
    BY <1>0, <2>1, UserIsMessage, Appended
  <2>3. \A id \in Ids : Past(id, question, messages) => Past(id, question', messages')
    BY <1>0, <1>b, <2>1 DEF Past
  <2>4. \A e \in effects : e.id \in Ids /\ Past(e.id, question', messages')
    BY <2>3 DEF PastInv
  <2>5. \A i \in DOMAIN history : history[i].of # << >> => Past(history[i].of, question', messages')
    BY <1>a, <2>3 DEF PastInv
  <2>6. \A i \in DOMAIN messages' : messages'[i].of # << >> => Past(messages'[i].of, question', messages')
    <3> SUFFICES ASSUME NEW i \in DOMAIN messages', messages'[i].of # << >>
                 PROVE  Past(messages'[i].of, question', messages')
      OBVIOUS
    <3>1. i \in DOMAIN history /\ messages'[i] = history[i]
      BY <2>2 DEF User
    <3>2. PICK id : id = history[i].of
      OBVIOUS
    <3>3. Past(id, question', messages')
      BY <2>1, <2>5, <3>1, <3>2
    <3> QED BY <3>1, <3>2, <3>3, <2>1
  <2> QED BY <1>0, <2>1, <2>2, <2>4, <2>5, <2>6 DEF PastInv
<1>2. CASE UNCHANGED <<question, messages, history, pending, effects>> /\ (pc' = "idle" <=> pc = "idle")
  BY <1>2 DEF PastInv, Past
<1>3. CASE Complete
  <2>1. PICK calls \in Calls :
          LET ids == [k \in DOMAIN calls |-> Id(Len(messages), k)]
          IN  /\ Goto("complete", IF calls = << >> THEN "answered" ELSE "execute")
              /\ messages' = Append(messages, Assistant(ids))
              /\ pending' = [k \in DOMAIN calls |-> [call |-> calls[k], id |-> ids[k]]]
              /\ UNCHANGED <<question, history, iteration, effects, excused>>
    BY <1>3 DEF Complete
  <2> DEFINE ids == [k \in DOMAIN calls |-> Id(Len(messages), k)]
  <2>2. /\ Assistant(ids) \in Message /\ Assistant(ids).of = << >>
        /\ DOMAIN calls = 1..Len(ids) /\ Len(ids) \in Nat
    BY <2>1, Round DEF Assistant
  <2>3. PICK x \in Message : x = Assistant(ids) /\ x.of = << >>
    BY <2>2
  <2>4. /\ messages' = Append(messages, x) /\ messages # << >> /\ pc = "complete" /\ pc' # "idle"
        /\ UNCHANGED <<question, history, effects>>
    BY <2>1, <2>3 DEF Goto, PastInv
  <2>5. \A n \in DOMAIN pending' :
          /\ n \in Nat /\ pending'[n].id[1] = question
          /\ pending'[n].id[2] + pending'[n].id[3] = Len(messages) + n
    BY <2>1, <2>2 DEF Id
  <2> HIDE DEF ids
  <2>6. /\ Len(messages') = Len(messages) + 1 /\ Len(messages) \in Nat /\ messages' # << >>
        /\ DOMAIN messages = 1..Len(messages) /\ DOMAIN messages' = 1..(Len(messages) + 1)
        /\ \A i \in 1..Len(messages) : messages'[i] = messages[i]
        /\ messages'[Len(messages) + 1] = x
    BY <1>0, <2>3, <2>4, Appended
  <2>7. \A id \in Ids : Past(id, question, messages) => Past(id, question', messages')
    BY <2>3, <2>4, StillPast
  <2>8. \A n \in DOMAIN pending' :
          /\ pending'[n].id[1] = question'
          /\ pending'[n].id[2] + pending'[n].id[3] = Len(messages') + n - 1
    BY <2>4, <2>5, <2>6
  <2>9. /\ \A e \in effects' : e.id \in Ids /\ Past(e.id, question', messages')
        /\ \A i \in DOMAIN history' : history'[i].of # << >> => Past(history'[i].of, question', messages')
    BY <1>a, <2>4, <2>7 DEF PastInv
  <2>10. \A i \in DOMAIN messages' : messages'[i].of # << >> => Past(messages'[i].of, question', messages')
    <3> SUFFICES ASSUME NEW i \in DOMAIN messages', messages'[i].of # << >>
                 PROVE  Past(messages'[i].of, question', messages')
      OBVIOUS
    <3>0. i # Len(messages) + 1
      BY <2>3, <2>6
    <3>1. i \in DOMAIN messages /\ messages'[i] = messages[i]
      BY <2>6, <3>0
    <3>2. PICK id : id = messages[i].of
      OBVIOUS
    <3>3. Past(id, question', messages')
      BY <1>a, <2>7, <3>1, <3>2 DEF PastInv
    <3> QED BY <3>1, <3>2, <3>3
  <2> QED BY <2>4, <2>6, <2>8, <2>9, <2>10 DEF PastInv
<1>4. CASE Execute
  <2>1. PICK o \in Outcomes(Head(pending).call), cid \in Ids, x \in Message :
           /\ o.result \in Results /\ (o.changed # {} => o.result \in {"done", "failed"})
           /\ cid = Head(pending).id /\ cid[1] = question /\ cid[2] + cid[3] = Len(messages)
           /\ x.of = cid /\ x.result = o.result
           /\ messages' = Append(messages, x)
           /\ effects' = effects \cup {[kind |-> c, id |-> cid] : c \in o.changed}
           /\ DOMAIN pending' = 1..(Len(pending) - 1) /\ Len(pending) \in Nat
           /\ \A n \in DOMAIN pending' : n + 1 \in DOMAIN pending /\ pending'[n] = pending[n + 1]
           /\ pc = "execute" /\ pc' \in {"execute", "answered", "complete"}
           /\ UNCHANGED <<question, history, excused>>
    BY <1>4, ExecuteIs
  <2>2. messages # << >>
    BY <2>1 DEF PastInv
  <2>3. /\ Len(messages') = Len(messages) + 1 /\ Len(messages) \in Nat /\ messages' # << >>
        /\ DOMAIN messages = 1..Len(messages) /\ DOMAIN messages' = 1..(Len(messages) + 1)
        /\ \A i \in 1..Len(messages) : messages'[i] = messages[i]
        /\ messages'[Len(messages) + 1] = x
    BY <1>0, <2>1, Appended
  <2>4. \A id \in Ids : Past(id, question, messages) => Past(id, question', messages')
    BY <2>1, <2>2, StillPast
  <2>5. Past(cid, question', messages')
    BY <1>0, <1>b, <2>1, <2>3 DEF Past
  <2>6. \A n \in DOMAIN pending' :
          /\ pending'[n].id[1] = question'
          /\ pending'[n].id[2] + pending'[n].id[3] = Len(messages') + n - 1
    <3> SUFFICES ASSUME NEW n \in DOMAIN pending'
                 PROVE  /\ pending'[n].id[1] = question'
                        /\ pending'[n].id[2] + pending'[n].id[3] = Len(messages') + n - 1
      OBVIOUS
    <3>1. n \in Nat /\ n + 1 \in DOMAIN pending /\ pending'[n] = pending[n + 1]
      BY <2>1
    <3>2. /\ pending[n + 1].id[1] = question
          /\ pending[n + 1].id[2] + pending[n + 1].id[3] = Len(messages) + (n + 1) - 1
      BY <3>1 DEF PastInv
    <3> QED BY <2>1, <2>3, <3>1, <3>2
  <2>7. \A e \in effects' : e.id \in Ids /\ Past(e.id, question', messages')
    BY <2>1, <2>4, <2>5 DEF PastInv
  <2>8. \A i \in DOMAIN history' : history'[i].of # << >> => Past(history'[i].of, question', messages')
    BY <1>a, <2>1, <2>4 DEF PastInv
  <2>9. \A i \in DOMAIN messages' : messages'[i].of # << >> => Past(messages'[i].of, question', messages')
    <3> SUFFICES ASSUME NEW i \in DOMAIN messages', messages'[i].of # << >>
                 PROVE  Past(messages'[i].of, question', messages')
      OBVIOUS
    <3>1. CASE i \in DOMAIN messages
      <4>1. messages'[i] = messages[i]
        BY <2>3, <3>1
      <4>2. PICK id : id = messages[i].of
        OBVIOUS
      <4>3. Past(id, question', messages')
        BY <1>a, <2>4, <3>1, <4>1, <4>2 DEF PastInv
      <4> QED BY <4>1, <4>2, <4>3
    <3>2. CASE i = Len(messages) + 1
      BY <2>1, <2>3, <2>5, <3>2
    <3> QED BY <2>3, <3>1, <3>2
  <2> QED BY <2>1, <2>3, <2>6, <2>7, <2>8, <2>9 DEF PastInv
<1>5. CASE ToolRaises
  BY <1>0, <1>5 DEF ToolRaises, Goto, PastInv, Past
<1>6. CASE Show \/ Lose
  <2>1. /\ pc' = "idle" /\ messages' = << >> /\ pc \in {"answered", "dead"} /\ pending = << >>
        /\ UNCHANGED <<question, pending, effects>>
        /\ history' = messages \/ history' = history
    BY <1>6 DEF Show, Lose, Leave, Goto, LoopInv
  <2>2. \A id : Past(id, question, messages) => Past(id, question', messages')
    BY <2>1 DEF Past
  <2>3. \A i \in DOMAIN history' : history'[i].of # << >> => Past(history'[i].of, question', messages')
    <3> SUFFICES ASSUME NEW i \in DOMAIN history', history'[i].of # << >>
                 PROVE  Past(history'[i].of, question', messages')
      OBVIOUS
    <3>1. PICK id : id = history'[i].of
      OBVIOUS
    <3>2. Past(id, question, messages)
      BY <2>1, <3>1 DEF PastInv
    <3> QED BY <2>2, <3>1, <3>2
  <2> QED BY <1>0, <2>1, <2>2, <2>3 DEF PastInv
<1>7. CASE Clear
  BY <1>0, <1>7 DEF Clear, Goto, PastInv, Past
<1>8. CASE CompletionFails
  BY <1>2, <1>8 DEF CompletionFails, Goto
<1>9. CASE UNCHANGED vars
  BY <1>2, <1>9 DEF vars
<1> QED BY <1>1, <1>3, <1>4, <1>5, <1>6, <1>7, <1>8, <1>9 DEF Next, Turn

LEMMA ToldNext == LoopInv /\ PastInv /\ ToldInv /\ [Next]_vars => ToldInv'
<1> SUFFICES ASSUME LoopInv, PastInv, ToldInv, [Next]_vars PROVE ToldInv'
  OBVIOUS
<1>0. /\ DOMAIN << >> = {} /\ \A e : ~Denies(<< >>, e)
      /\ messages \in Seq(Message) /\ history \in Seq(Message) /\ question \in Nat
  BY DEF LoopInv, Denies
<1>1. CASE Ask
  <2>1. /\ pc = "idle" /\ pc' = "complete" /\ question' = question + 1
        /\ messages' = Append(history, User)
        /\ UNCHANGED <<history, effects, excused>>
    BY <1>1 DEF Ask, Goto
  <2>2. \A e \in effects : e.id[1] \in excused \/ Tells(history, e)
    BY <2>1 DEF ToldInv
  <2>3. \A e \in effects : ~Denies(history, e) /\ User.result # "refused"
    BY DEF ToldInv, User
  <2>4. \A e \in effects : (Tells(history, e) => Tells(messages', e)) /\ ~Denies(messages', e)
    BY <1>0, <2>1, <2>3, StillTold, UserIsMessage
  <2> QED BY <2>1, <2>2, <2>3, <2>4 DEF ToldInv
<1>2. CASE Complete
  <2>1. PICK calls \in Calls :
          LET ids == [k \in DOMAIN calls |-> Id(Len(messages), k)]
          IN  /\ Goto("complete", IF calls = << >> THEN "answered" ELSE "execute")
              /\ messages' = Append(messages, Assistant(ids))
              /\ pending' = [k \in DOMAIN calls |-> [call |-> calls[k], id |-> ids[k]]]
              /\ UNCHANGED <<question, history, iteration, effects, excused>>
    BY <1>2 DEF Complete
  <2> DEFINE x == Assistant([k \in DOMAIN calls |-> Id(Len(messages), k)])
  <2>2. /\ x \in Message /\ x.result = "none" /\ messages' = Append(messages, x)
        /\ pc = "complete" /\ pc' \in {"answered", "execute"}
        /\ UNCHANGED <<question, history, effects, excused>>
    BY <2>1, Round DEF Assistant, Goto
  <2> HIDE DEF x
  <2>3. \A e \in effects : (Tells(messages, e) => Tells(messages', e)) /\ ~Denies(messages', e)
    BY <1>0, <2>2, StillTold DEF ToldInv
  <2> QED BY <2>2, <2>3 DEF ToldInv
<1>3. CASE CompletionFails
  BY <1>3 DEF CompletionFails, Goto, ToldInv
<1>4. CASE Execute
  <2>1. PICK o \in Outcomes(Head(pending).call), cid \in Ids, x \in Message :
           /\ o.result \in Results /\ (o.changed # {} => o.result \in {"done", "failed"})
           /\ cid = Head(pending).id /\ cid[1] = question /\ cid[2] + cid[3] = Len(messages)
           /\ x.of = cid /\ x.result = o.result
           /\ messages' = Append(messages, x)
           /\ effects' = effects \cup {[kind |-> c, id |-> cid] : c \in o.changed}
           /\ DOMAIN pending' = 1..(Len(pending) - 1) /\ Len(pending) \in Nat
           /\ \A n \in DOMAIN pending' : n + 1 \in DOMAIN pending /\ pending'[n] = pending[n + 1]
           /\ pc = "execute" /\ pc' \in {"execute", "answered", "complete"}
           /\ UNCHANGED <<question, history, excused>>
    BY <1>4, ExecuteIs
  <2>2. messages # << >> /\ Len(messages) \in Nat
    BY <1>0, <2>1, LenProperties DEF PastInv
  <2>3. ~Past(cid, question, messages) /\ cid # << >>
    BY <1>0, <2>1, <2>2 DEF Past, Ids
  <2>4. \A e \in effects : e.id # cid
    BY <2>3 DEF PastInv
  <2>5. /\ \A i \in DOMAIN history : history[i].of # cid
        /\ \A i \in DOMAIN messages : messages[i].of # cid
    BY <2>3 DEF PastInv
  <2>6. \A e \in effects : (Tells(messages, e) => Tells(messages', e)) /\ ~Denies(messages', e)
    BY <1>0, <2>1, <2>4, StillTold DEF ToldInv
  <2> DEFINE new == {[kind |-> c, id |-> cid] : c \in o.changed}
  <2>7. \A e \in new : e.id = cid /\ o.result \in {"done", "failed"}
    BY <2>1
  <2>8. \A e \in new : Tells(messages', e)
    <3>1. Len(messages) + 1 \in DOMAIN messages' /\ messages'[Len(messages) + 1] = x
      BY <1>0, <2>1, Appended
    <3> QED BY <2>1, <2>7, <3>1 DEF Tells
  <2>9. \A e \in new : ~Denies(history, e) /\ ~Denies(messages', e)
    <3> SUFFICES ASSUME NEW e \in new PROVE ~Denies(history, e) /\ ~Denies(messages', e)
      OBVIOUS
    <3>1. ~Denies(history, e) /\ ~Denies(messages, e)
      BY <2>5, <2>7 DEF Denies
    <3>2. x.result # "refused"
      BY <2>1, <2>7
    <3> QED BY <1>0, <2>1, <3>1, <3>2, StillTold
  <2> HIDE DEF new
  <2>10. effects' = effects \cup new
    BY <2>1 DEF new
  <2>11. \A e \in new : e.id[1] = question
    BY <2>1, <2>7
  <2> QED BY <2>1, <2>6, <2>8, <2>9, <2>10, <2>11 DEF ToldInv
<1>5. CASE ToolRaises
  BY <1>5 DEF ToolRaises, Goto, ToldInv
<1>6. CASE Show
  BY <1>0, <1>6 DEF Show, Leave, Goto, ToldInv
<1>7. CASE Lose
  BY <1>0, <1>7 DEF Lose, Leave, Goto, ToldInv
<1>8. CASE Clear
  <2>1. /\ pc = "idle" /\ pc' = "idle" /\ history' = << >> /\ excused' = 0..question
        /\ UNCHANGED <<messages, effects>>
    BY <1>8 DEF Clear, Goto
  <2>2. \A e \in effects : e.id[1] \in 0..question
    BY <1>0 DEF PastInv, Past, Ids
  <2> QED BY <1>0, <2>1, <2>2 DEF ToldInv
<1>9. CASE UNCHANGED vars
  BY <1>9 DEF vars, ToldInv
<1> QED BY <1>1, <1>2, <1>3, <1>4, <1>5, <1>6, <1>7, <1>8, <1>9 DEF Next, Turn

\* Nothing the tools have changed at the API goes untold, or is told as refused: the
\* conversation says that the call was done or has failed, unless the turn was lost or the
\* history cleared (tools.py, 5_Assistant.py).
THEOREM ToldChanges == Spec => []ChangesAreTold
<1>1. ToldInv => ChangesAreTold
  BY DEF ToldInv, ChangesAreTold, Tells, Denies
<1> QED BY <1>1, LoopInitially, LoopNext, ToldInitially, PastNext, ToldNext, PTL DEF Spec

-----------------------------------------------------------------------------
(* The review page: types, and what a call is the call of.                 *)

\* The click that leads to a call.
ClickBehind ==
  [save |-> "save", start |-> "start", task |-> "task", decide |-> "decide",
   patch |-> "decide"]

Request == [op : Calling, tab : Tabs, n : Nat, click : Click, base : Nat, intent : Nat]

\* A call that changes something was clicked for, and a tab at rest is waited on by no click.
CallInv ==
  /\ \A t \in Tabs : script[t] \in DOMAIN ClickBehind =>
       click[t].op = ClickBehind[script[t]]
  /\ \A t \in Tabs : script[t] = "patch" => click[t].attested
  /\ \A call \in late : /\ call.op \in DOMAIN ClickBehind
                        /\ call.click.op = ClickBehind[call.op]
  /\ \A t \in Tabs : AtRest(t) => next[t] = NoClick

PageInv == PageTypeOK /\ CallInv

LEMMA Behind ==
  /\ DOMAIN ClickBehind = {"save", "start", "task", "decide", "patch"}
  /\ Calling = {"case", "draft"} \cup DOMAIN ClickBehind
  /\ ClickBehind.save = "save" /\ ClickBehind.start = "start" /\ ClickBehind.task = "task"
  /\ ClickBehind.decide = "decide" /\ ClickBehind.patch = "decide"
BY DEF ClickBehind, Calling

\* What a click has by its kind.
LEMMA ClickFields ==
  ASSUME NEW c \in Click
  PROVE  /\ c.op \in Buttons /\ c # NoClick
         /\ c.op = "task" => c.to \in Resolved
         /\ c.op = "decide" => c.type \in DecisionType /\ c.attested \in BOOLEAN
<1>1. CASE c \in [op : {"open", "save", "start"}]
  BY <1>1 DEF Buttons, NoClick
<1>2. CASE c \in [op : {"task"}, to : Resolved]
  BY <1>2 DEF Buttons, NoClick
<1>3. CASE c \in [op : {"decide"}, type : DecisionType, attested : BOOLEAN]
  BY <1>3 DEF Buttons, NoClick
<1> QED BY <1>1, <1>2, <1>3 DEF Click

LEMMA OpenIsClick == Open \in Click /\ Open.op = "open"
BY DEF Open, Click

LEMMA StatusOf ==
  ASSUME NEW type \in DecisionType
  PROVE  StatusFor(type) \in {"INFO_REQUESTED"} \cup Resolved
BY DEF DecisionType, StatusFor, Resolved

\* A request that could be made.
Valid(call) ==
  /\ call \in Request
  /\ call.op \in DOMAIN ClickBehind /\ call.click.op = ClickBehind[call.op]

\* Whatever the API does, its tables keep their types.
LEMMA ServeTypes ==
  ASSUME PageTypeOK, NEW call, Valid(call), Serve(call)
  PROVE  /\ drafts' \in Seq(Nat) /\ flow' \in Status /\ verdicts' \in Seq(Status)
         /\ decisions' \in Seq([by : Tabs, intent : Nat, type : DecisionType])
<1> USE DEF PageTypeOK, Request, Valid
<1>0. call.click \in Click /\ call.base \in Nat /\ call.tab \in Tabs /\ call.intent \in Nat
  OBVIOUS
<1>1. CASE call.op = "save"
  <2>1. SaveDraft(call)
    BY <1>1 DEF Serve
  <2> QED BY <1>0, <2>1 DEF SaveDraft
<1>2. CASE call.op = "start"
  BY <1>2 DEF Serve, StartReview, Status
<1>3. CASE call.op = "task"
  <2>1. call.click.to \in Resolved
    BY <1>0, <1>3, Behind, ClickFields
  <2>2. Transition(call.click.to) /\ Said(call.click.to)
    BY <1>3 DEF Serve
  <2> QED BY <2>1, <2>2 DEF Transition, Said, Status
<1>4. CASE call.op = "decide"
  <2>1. call.click.type \in DecisionType
    BY <1>0, <1>4, Behind, ClickFields
  <2>2. StatusFor(call.click.type) \in Status
    BY <2>1, StatusOf DEF Status
  <2>3. CASE call.click.attested
    <3>1. RecordDecision(call)
      BY <1>4, <2>3 DEF Serve
    <3>2. decisions' \in Seq([by : Tabs, intent : Nat, type : DecisionType])
      BY <1>0, <2>1, <3>1 DEF RecordDecision
    <3> QED BY <2>2, <3>1, <3>2 DEF RecordDecision, Said
  <2>4. CASE ~call.click.attested
    BY <1>4, <2>4 DEF Serve, server
  <2> QED BY <2>3, <2>4
<1>5. CASE call.op = "patch"
  <2>1. call.click.type \in DecisionType
    BY <1>0, <1>5, Behind, ClickFields
  <2>2. StatusFor(call.click.type) \in Status
    BY <2>1, StatusOf DEF Status
  <2>3. Transition(StatusFor(call.click.type)) /\ UNCHANGED verdicts
    BY <1>5 DEF Serve
  <2> QED BY <2>2, <2>3 DEF Transition
<1> QED BY <1>1, <1>2, <1>3, <1>4, <1>5, Behind

\* The request a tab waits for could be made.
LEMMA CallIsValid ==
  ASSUME PageInv, NEW t \in Tabs, script[t] \in DOMAIN ClickBehind
  PROVE  Valid(CallOf(t))
<1>1. CallOf(t) \in Request
  BY Behind DEF PageInv, PageTypeOK, CallOf, Request
<1>2. CallOf(t).op = script[t] /\ CallOf(t).click = click[t]
  BY DEF CallOf
<1>3. click[t].op = ClickBehind[script[t]]
  BY DEF PageInv, CallInv
<1> QED BY <1>1, <1>2, <1>3 DEF Valid

\* How the script of a page goes on.
LEMMA Proceeds ==
  ASSUME PageInv, NEW t \in Tabs, NEW op \in {"rest"} \cup Calling,
         Proceed(t, op) \/ RunAgain(t)
  PROVE  /\ script' \in [Tabs -> {"rest"} \cup Calling]
         /\ click' \in [Tabs -> Click] /\ next' \in [Tabs -> Click \cup {NoClick}]
         /\ next'[t] = NoClick
         /\ script'[t] \in {op, "case"}
         /\ script'[t] = op /\ op # "case" => click'[t] = click[t]
         /\ \A s \in Tabs \ {t} : /\ script'[s] = script[s] /\ click'[s] = click[s]
                                  /\ next'[s] = next[s]
<1> USE DEF PageInv, PageTypeOK
<1>0. "case" \in Calling
  BY DEF Calling
<1>1. CASE RunAgain(t)
  BY <1>0, <1>1, OpenIsClick DEF RunAgain
<1>2. CASE next[t] = NoClick /\ GoOn(t, op)
  BY <1>2 DEF GoOn
<1> QED BY <1>1, <1>2 DEF Proceed

\* ... and the call it comes to is one that was clicked for.
LEMMA ProceedsToItsCall ==
  ASSUME PageInv, NEW t \in Tabs, NEW op \in {"rest"} \cup Calling,
         Proceed(t, op) \/ RunAgain(t),
         op \in DOMAIN ClickBehind => click[t].op = ClickBehind[op],
         op = "patch" => click[t].attested
  PROVE  \A s \in Tabs :
           /\ script'[s] \in DOMAIN ClickBehind => click'[s].op = ClickBehind[script'[s]]
           /\ script'[s] = "patch" => click'[s].attested
           /\ script'[s] = "rest" => next'[s] = NoClick
<1> TAKE s \in Tabs
<1>1. CASE s = t
  <2>1. script'[t] \in {op, "case"} /\ next'[t] = NoClick
    BY Proceeds
  <2>2. CASE script'[t] = "case"
    BY <1>1, <2>1, <2>2, Behind
  <2>3. CASE script'[t] = op /\ op # "case"
    BY <1>1, <2>1, <2>3, Proceeds
  <2> QED BY <2>1, <2>2, <2>3
<1>2. CASE s # t
  BY <1>2, Proceeds DEF PageInv, CallInv, AtRest
<1> QED BY <1>1, <1>2

LEMMA InitPage == PageInit => PageInv
<1> SUFFICES ASSUME PageInit PROVE PageInv
  OBVIOUS
<1>1. PageTypeOK
  BY OpenIsClick DEF PageInit, PageTypeOK, Status, Buttons
<1>2. CallInv
  BY Behind DEF PageInit, CallInv, AtRest
<1> QED BY <1>1, <1>2 DEF PageInv

LEMMA MeanTypes ==
  ASSUME PageTypeOK, NEW t \in Tabs, NEW c \in Click, Mean(t, c)
  PROVE  clicks' \in Nat /\ intent' \in [Tabs -> Nat] /\ told' \in [Tabs -> BOOLEAN]
<1>1. intent \in [Tabs -> Nat] /\ told \in [Tabs -> BOOLEAN] /\ clicks \in Nat
  BY DEF PageTypeOK
<1>2. clicks' \in Nat
  BY <1>1 DEF Mean
<1>3. CASE c.op = "decide"
  <2>1. /\ intent' = IF told[t] THEN [intent EXCEPT ![t] = @ + 1] ELSE intent
        /\ told' = [told EXCEPT ![t] = FALSE]
    BY <1>3 DEF Mean
  <2>2. intent' \in [Tabs -> Nat]
    <3>1. [intent EXCEPT ![t] = @ + 1] \in [Tabs -> Nat]
      BY <1>1
    <3> QED BY <1>1, <2>1, <3>1
  <2>3. told' \in [Tabs -> BOOLEAN]
    BY <1>1, <2>1
  <2> QED BY <1>2, <2>2, <2>3
<1>4. CASE c.op # "decide"
  BY <1>1, <1>2, <1>4 DEF Mean
<1> QED BY <1>3, <1>4

LEMMA PageClickButton ==
  ASSUME PageInv, NEW t \in Tabs, NEW c \in Clicks, ClickButton(t, c)
  PROVE  PageInv'
<1> USE DEF PageInv, PageTypeOK
<1>0. c \in Click /\ "case" \in Calling /\ "case" \notin DOMAIN ClickBehind
  BY ClicksAssumption, Behind DEF Calling
<1>1. clicks' \in Nat /\ intent' \in [Tabs -> Nat] /\ told' \in [Tabs -> BOOLEAN]
  BY <1>0, MeanTypes DEF ClickButton
<1>2. PageTypeOK'
  BY <1>0, <1>1 DEF ClickButton, server
<1>3. CallInv'
  BY <1>0 DEF ClickButton, CallInv, AtRest
<1> QED BY <1>2, <1>3

LEMMA PageClickAgain ==
  ASSUME PageInv, NEW t \in Tabs, NEW c \in Clicks, ClickAgain(t, c)
  PROVE  PageInv'
<1> USE DEF PageInv, PageTypeOK
<1>0. c \in Click
  BY ClicksAssumption
<1>1. clicks' \in Nat /\ intent' \in [Tabs -> Nat] /\ told' \in [Tabs -> BOOLEAN]
  BY <1>0, MeanTypes DEF ClickAgain
<1>2. PageTypeOK'
  <2>1. cuts' \in [Tabs -> Nat]
    BY DEF ClickAgain
  <2>2. next' \in [Tabs -> Click \cup {NoClick}] /\ calm' \in BOOLEAN
    BY <1>0 DEF ClickAgain
  <2>3. UNCHANGED <<server, late, script, click, seen, base, shown>>
    BY DEF ClickAgain
  <2> QED BY <1>1, <2>1, <2>2, <2>3 DEF server
<1>3. CallInv'
  BY DEF ClickAgain, CallInv, AtRest
<1> QED BY <1>2, <1>3

\* Which call the script comes to after the draft is loaded.
Acts(t) == /\ click[t].op \in AllButtons(seen[t], Len(drafts)) \ {"open"}
           /\ click[t].op = "save" => base[t] = Len(drafts)

LEMMA LoadDraftProceeds ==
  ASSUME PageInv, NEW t \in Tabs, LoadDraft(t)
  PROVE  /\ Proceed(t, IF Acts(t) THEN click[t].op ELSE "rest")
         /\ (IF Acts(t) THEN click[t].op ELSE "rest") \in
              {"rest", "save", "start", "task", "decide"}
         /\ AllButtons(seen[t], Len(drafts)) \subseteq Buttons
<1>1. AllButtons(seen[t], Len(drafts)) \subseteq Buttons
  BY DEF AllButtons, Buttons
<1>2. Acts(t) => click[t].op \in {"save", "start", "task", "decide"}
  BY <1>1 DEF Acts, Buttons
<1>3. Proceed(t, IF Acts(t) THEN click[t].op ELSE "rest")
  BY DEF LoadDraft, Acts
<1> QED BY <1>1, <1>2, <1>3

LEMMA PageLoadCase ==
  ASSUME PageInv, NEW t \in Tabs, LoadCase(t)
  PROVE  PageInv'
<1>0. "draft" \in {"rest"} \cup Calling /\ "draft" \notin DOMAIN ClickBehind /\ Proceed(t, "draft")
  BY Behind DEF Calling, LoadCase
<1>1. PageTypeOK'
  BY <1>0, Proceeds DEF PageInv, PageTypeOK, LoadCase, server, people
<1>2. CallInv'
  BY <1>0, ProceedsToItsCall DEF PageInv, CallInv, AtRest, LoadCase
<1> QED BY <1>1, <1>2 DEF PageInv

LEMMA PageLoadDraft ==
  ASSUME PageInv, NEW t \in Tabs, LoadDraft(t)
  PROVE  PageInv'
<1> DEFINE o == IF Acts(t) THEN click[t].op ELSE "rest"
<1>0. PICK op : op = o
  OBVIOUS
<1>1. op \in {"rest"} \cup Calling /\ Proceed(t, op)
  BY <1>0, LoadDraftProceeds DEF Calling
<1>2. op \in DOMAIN ClickBehind => op # "patch" /\ click[t].op = ClickBehind[op]
  BY <1>0, LoadDraftProceeds, Behind
<1>3. Len(drafts) \in Nat
  BY DEF PageInv, PageTypeOK
<1>4. PageTypeOK'
  <2>1. base' \in [Tabs -> Nat]
    BY <1>3 DEF PageInv, PageTypeOK, LoadDraft
  <2>2. shown' \in [Tabs -> SUBSET Buttons]
    BY LoadDraftProceeds DEF PageInv, PageTypeOK, LoadDraft
  <2>3. UNCHANGED <<server, late, seen, people, calm>>
    BY DEF LoadDraft
  <2> QED BY <1>1, <2>1, <2>2, <2>3, Proceeds DEF PageInv, PageTypeOK, server, people
<1>5. CallInv'
  <2>1. late' = late
    BY DEF LoadDraft
  <2>2. op = "patch" => click[t].attested
    BY <1>2, Behind
  <2> HIDE DEF o
  <2> QED BY <1>1, <1>2, <2>1, <2>2, ProceedsToItsCall DEF PageInv, CallInv, AtRest
<1> QED BY <1>4, <1>5 DEF PageInv

LEMMA PageActAndRerun ==
  ASSUME PageInv, NEW t \in Tabs, ActAndRerun(t)
  PROVE  PageInv'
<1>0. "rest" \in {"rest"} \cup Calling /\ RunAgain(t) /\ script[t] \in DOMAIN ClickBehind
  BY Behind DEF ActAndRerun
<1>1. PICK call : call = CallOf(t)
  OBVIOUS
<1>2. Valid(call) /\ Serve(call)
  BY <1>0, <1>1, CallIsValid DEF ActAndRerun
<1>3. PageTypeOK'
  BY <1>0, <1>2, Proceeds, ServeTypes DEF PageInv, PageTypeOK, ActAndRerun, people
<1>4. CallInv'
  BY <1>0, ProceedsToItsCall, Behind DEF PageInv, CallInv, AtRest, ActAndRerun
<1> QED BY <1>3, <1>4 DEF PageInv

\* Where the script goes after a decision.
AfterDecision(t) ==
  IF click[t].attested /\ seen[t] \notin Resolved \cup {"none"} THEN "patch" ELSE "rest"

LEMMA DecideProceeds ==
  ASSUME PageInv, NEW t \in Tabs, Decide(t)
  PROVE  /\ Proceed(t, AfterDecision(t)) \/ RunAgain(t)
         /\ click[t].op = "decide"
         /\ next[t] # NoClick => RunAgain(t)
         /\ AfterDecision(t) = "patch" => Proceed(t, "patch")
         /\ ~click[t].attested => Proceed(t, "rest")
<1>1. click[t].op = "decide"
  BY Behind DEF PageInv, CallInv, Decide
<1> QED BY <1>1 DEF Decide, AfterDecision, Proceed

LEMMA PageDecide ==
  ASSUME PageInv, NEW t \in Tabs, Decide(t)
  PROVE  PageInv'
<1>0. PICK op : op = AfterDecision(t)
  OBVIOUS
<1>1. /\ op \in {"rest"} \cup Calling
      /\ Proceed(t, op) \/ RunAgain(t)
      /\ op \in DOMAIN ClickBehind => click[t].op = ClickBehind[op]
      /\ op = "patch" => click[t].attested
  BY <1>0, DecideProceeds, Behind DEF AfterDecision
<1>2. PICK call : call = CallOf(t)
  OBVIOUS
<1>3. Valid(call) /\ Serve(call)
  BY <1>2, CallIsValid, Behind DEF Decide
<1>4. PageTypeOK'
  <2>1. told' \in [Tabs -> BOOLEAN]
    BY DEF Decide, Tell, PageInv, PageTypeOK
  <2>2. UNCHANGED <<late, seen, base, shown, intent, clicks, cuts, calm>>
    BY DEF Decide
  <2> QED BY <1>1, <1>3, <2>1, <2>2, Proceeds, ServeTypes DEF PageInv, PageTypeOK
<1>5. CallInv'
  <2>1. late' = late
    BY DEF Decide
  <2> QED BY <1>1, <2>1, ProceedsToItsCall DEF PageInv, CallInv, AtRest
<1> QED BY <1>4, <1>5 DEF PageInv

LEMMA PageGiveUp ==
  ASSUME PageInv, NEW t \in Tabs, GiveUp(t)
  PROVE  PageInv'
<1>0. "rest" \in {"rest"} \cup Calling /\ Proceed(t, "rest") /\ "rest" \notin DOMAIN ClickBehind
  BY Behind DEF GiveUp
<1>1. script[t] \in Calling
  BY DEF GiveUp, AtRest, PageInv, PageTypeOK
<1>2. PICK call : call = CallOf(t)
  OBVIOUS
<1>3. late' = late \/ (late' = late \cup {call} /\ Valid(call))
  BY <1>1, <1>2, CallIsValid, Behind DEF GiveUp
<1>4. PageTypeOK'
  <2>1. late' \subseteq Request
    BY <1>3 DEF Valid, Request, PageInv, PageTypeOK
  <2>2. shown' \in [Tabs -> SUBSET Buttons]
    <3>1. ButtonsAbove(t, script[t]) \in SUBSET Buttons
      BY <1>1, Behind DEF ButtonsAbove, AllButtons, Buttons
    <3> QED BY <3>1 DEF GiveUp, PageInv, PageTypeOK
  <2>3. cuts' \in [Tabs -> Nat]
    BY DEF GiveUp, PageInv, PageTypeOK
  <2>4. UNCHANGED <<server, seen, base, intent, told, clicks>> /\ calm' = FALSE
    BY DEF GiveUp
  <2> QED BY <1>0, <2>1, <2>2, <2>3, <2>4, Proceeds DEF PageInv, PageTypeOK, server, Request
<1>5. CallInv'
  <2>1. \A c \in late' : c.op \in DOMAIN ClickBehind /\ c.click.op = ClickBehind[c.op]
    BY <1>3 DEF Valid, PageInv, CallInv
  <2> QED BY <1>0, <2>1, ProceedsToItsCall DEF CallInv, AtRest
<1> QED BY <1>4, <1>5 DEF PageInv

LEMMA PageServeLate ==
  ASSUME PageInv, NEW call \in late, ServeLate(call)
  PROVE  PageInv'
<1>1. Valid(call) /\ Serve(call)
  BY DEF PageInv, PageTypeOK, CallInv, Valid, Request, ServeLate
<1>2. PageTypeOK'
  BY <1>1, ServeTypes DEF PageInv, PageTypeOK, ServeLate, people
<1>3. CallInv'
  BY DEF PageInv, CallInv, AtRest, ServeLate
<1> QED BY <1>2, <1>3 DEF PageInv

LEMMA PageGenerate ==
  ASSUME PageInv, GenerateNarrative
  PROVE  PageInv'
<1>1. drafts' \in Seq(Nat)
  BY DEF PageInv, PageTypeOK, GenerateNarrative
<1>2. PageTypeOK'
  BY <1>1 DEF PageInv, PageTypeOK, GenerateNarrative, people
<1>3. CallInv'
  BY DEF PageInv, CallInv, AtRest, GenerateNarrative
<1> QED BY <1>2, <1>3 DEF PageInv

LEMMA PageStutter == PageInv /\ UNCHANGED pageVars => PageInv'
BY DEF PageInv, PageTypeOK, CallInv, AtRest, pageVars

LEMMA PageStep == PageInv /\ [PageNext]_pageVars => PageInv'
BY PageClickButton, PageClickAgain, PageLoadCase, PageLoadDraft, PageActAndRerun,
   PageDecide, PageGiveUp, PageServeLate, PageGenerate, PageStutter DEF PageNext, Run

LEMMA PageInvariance == PageSpec => []PageInv
BY InitPage, PageStep, PTL DEF PageSpec

\* What the review page and the API behind it hold is of its type.
THEOREM PageTypes == PageSpec => []PageTypeOK
<1>1. PageInv => PageTypeOK
  BY DEF PageInv
<1> QED BY <1>1, PageInvariance, PTL

-----------------------------------------------------------------------------
(* The review page when nobody interferes.                                 *)

\* Outcome, of any verdicts.
Final(v) == {i \in DOMAIN v : v[i] \in Resolved}
OutcomeOf(v) ==
  IF Final(v) # {} THEN v[CHOOSE i \in Final(v) : \A j \in Final(v) : i <= j]
  ELSE IF v # << >> THEN "INFO_REQUESTED"
  ELSE "PENDING"

LEMMA OutcomeOfVerdicts == Outcome = OutcomeOf(verdicts)
BY DEF Outcome, OutcomeOf, Final

LEMMA FirstFinal ==
  ASSUME NEW v \in Seq(Status), NEW m \in Final(v), \A j \in Final(v) : m <= j
  PROVE  OutcomeOf(v) = v[m]
<1> DEFINE first == CHOOSE i \in Final(v) : \A j \in Final(v) : i <= j
<1>1. Final(v) \subseteq Nat
  BY DEF Final
<1>2. first \in Final(v) /\ \A j \in Final(v) : first <= j
  OBVIOUS
<1>3. first = m
  <2> HIDE DEF first
  <2> QED BY <1>1, <1>2
<1> QED BY <1>3 DEF OutcomeOf

\* Numbers are well-founded.
LEMMA LeastNatural ==
  ASSUME NEW S \in SUBSET Nat, S # {}
  PROVE  \E m \in S : \A j \in S : m <= j
<1> DEFINE Less == OpToRel(<, Nat)
<1>1. IsWellFoundedOn(Less, Nat)
  BY NatLessThanWellFounded, Zenon
<1>2. \A j, m \in Nat : j < m => <<j, m>> \in Less
  BY Zenon DEF OpToRel
<1> HIDE DEF Less
<1>3. PICK m \in S : \A j \in S : ~ (<<j, m>> \in Less)
  BY <1>1, WFMin
<1>4. \A j \in S : ~(j < m)
  BY <1>2, <1>3
<1> QED BY <1>4

LEMMA FinalExists ==
  ASSUME NEW v \in Seq(Status), Final(v) # {}
  PROVE  \E m \in Final(v) : \A j \in Final(v) : m <= j
<1>1. Final(v) \in SUBSET Nat
  BY DEF Final
<1> HIDE DEF Final
<1> QED BY <1>1, LeastNatural

\* One more verdict counts unless one that resolves was there.
LEMMA OneMoreVerdict ==
  ASSUME NEW v \in Seq(Status), NEW s \in {"INFO_REQUESTED"} \cup Resolved
  PROVE  OutcomeOf(Append(v, s)) =
           IF OutcomeOf(v) \in Resolved THEN OutcomeOf(v) ELSE s
<1> DEFINE w == Append(v, s)
           n == Len(v) + 1
<1>0. s \in Status /\ "INFO_REQUESTED" \notin Resolved /\ "PENDING" \notin Resolved
  BY DEF Status, Resolved
<1>1. /\ w \in Seq(Status) /\ w # << >> /\ n \in Nat /\ n \notin DOMAIN v
      /\ DOMAIN v = 1..Len(v) /\ DOMAIN w = DOMAIN v \cup {n}
      /\ w[n] = s /\ \A i \in DOMAIN v : w[i] = v[i]
  BY <1>0
<1>2. Final(w) = Final(v) \cup (IF s \in Resolved THEN {n} ELSE {})
  <2> HIDE DEF w, n
  <2> QED BY <1>1 DEF Final
<1>3. CASE Final(v) = {}
  <2>1. OutcomeOf(v) \notin Resolved
    BY <1>0, <1>3 DEF OutcomeOf
  <2>2. CASE s \in Resolved
    <3>1. Final(w) = {n}
      BY <1>2, <1>3, <2>2
    <3>2. OutcomeOf(w) = w[n]
      <4> HIDE DEF w
      <4> QED BY <1>1, <3>1, FirstFinal
    <3> QED BY <1>1, <2>1, <3>2
  <2>3. CASE s \notin Resolved
    <3>1. s = "INFO_REQUESTED" /\ Final(w) = {}
      BY <1>2, <1>3, <2>3
    <3> QED BY <1>1, <2>1, <3>1 DEF OutcomeOf
  <2> QED BY <2>2, <2>3
<1>4. CASE Final(v) # {}
  <2>1. PICK m \in Final(v) : \A j \in Final(v) : m <= j
    BY <1>4, FinalExists
  <2>2. OutcomeOf(v) = v[m] /\ m \in DOMAIN v /\ v[m] \in Resolved
    BY <2>1, FirstFinal DEF Final
  <2>3. m \in Final(w) /\ m <= n
    BY <1>1, <1>2, <2>2
  <2>4. \A j \in Final(w) : m <= j
    <3> HIDE DEF w, n
    <3> QED BY <1>2, <2>1, <2>3
  <2>5. OutcomeOf(w) = w[m]
    <3> HIDE DEF w
    <3> QED BY <1>1, <2>3, <2>4, FirstFinal
  <2> QED BY <1>1, <2>2, <2>5
<1> QED BY <1>3, <1>4

\* While no run has overlapped another or was cut short, one tab runs at most, no
\* request is late, and the running script has loaded what is there.
CalmInv ==
  calm =>
    /\ late = {}
    /\ \A t \in Tabs : next[t] = NoClick
    /\ \A s, t \in Tabs : AtRest(s) \/ AtRest(t) \/ s = t
    /\ \A t \in Tabs : script[t] \notin {"rest", "case"} => seen[t] = flow
    /\ \A t \in Tabs : script[t] = "save" => base[t] = Len(drafts)

\* Between a decision and the transition that follows it the workflow is out of step.
StepInv ==
  calm => \A t \in Tabs :
    /\ script[t] = "task" => flow = "PENDING"
    /\ script[t] = "patch" => /\ flow \notin Resolved \cup {"none"}
                             /\ OutcomeOf(verdicts) = StatusFor(click[t].type)
FlowInv ==
  (calm /\ flow # "none" /\ \A t \in Tabs : script[t] # "patch")
    => flow = OutcomeOf(verdicts)

LoneInv == CalmInv /\ StepInv /\ FlowInv /\ RevisionsBuildOnTheLatest

\* Without a click that waits, a script comes to the call it was to come to.
LEMMA ProceedsCalmly ==
  ASSUME PageInv, NEW t \in Tabs, next[t] = NoClick, NEW op, Proceed(t, op)
  PROVE  /\ script' = [script EXCEPT ![t] = op]
         /\ click' = click /\ next' = next
BY DEF Proceed, GoOn

LEMMA LoneInit == PageInit => LoneInv
<1> SUFFICES ASSUME PageInit PROVE LoneInv
  OBVIOUS
<1>1. CalmInv /\ StepInv /\ FlowInv
  BY DEF PageInit, CalmInv, StepInv, FlowInv, AtRest
<1>2. RevisionsBuildOnTheLatest
  BY DEF PageInit, RevisionsBuildOnTheLatest
<1> QED BY <1>1, <1>2 DEF LoneInv

LEMMA LoneClick ==
  ASSUME PageInv, LoneInv, NEW t \in Tabs, NEW c \in Clicks, ClickButton(t, c)
  PROVE  LoneInv'
<1>1. CASE ~calm'
  BY <1>1 DEF LoneInv, CalmInv, StepInv, FlowInv, RevisionsBuildOnTheLatest
<1>2. CASE calm'
  <2>1. calm /\ (\A s \in Tabs : AtRest(s)) /\ UNCHANGED <<drafts, flow, verdicts, late, next, seen, base>>
    BY <1>2 DEF ClickButton, server
  <2>2. script' = [script EXCEPT ![t] = "case"] /\ script \in [Tabs -> {"rest"} \cup Calling]
    BY DEF ClickButton, PageInv, PageTypeOK
  <2>3. \A s \in Tabs : script'[s] \in {"rest", "case"} /\ (s # t => script'[s] = "rest")
    BY <2>1, <2>2 DEF AtRest
  <2>4. CalmInv'
    BY <2>1, <2>3 DEF LoneInv, CalmInv, AtRest
  <2>5. StepInv'
    BY <2>3 DEF StepInv
  <2>6. FlowInv'
    BY <2>1, <2>3 DEF LoneInv, FlowInv, AtRest
  <2>7. RevisionsBuildOnTheLatest'
    BY <2>1 DEF LoneInv, RevisionsBuildOnTheLatest
  <2> QED BY <2>4, <2>5, <2>6, <2>7 DEF LoneInv
<1> QED BY <1>1, <1>2

\* Any other step of a calm page is that of the one tab that runs.
LEMMA OneTab ==
  ASSUME PageInv, LoneInv, calm, NEW t \in Tabs, ~AtRest(t), NEW op,
         script' = [script EXCEPT ![t] = op]
  PROVE  /\ \A s \in Tabs \ {t} : script[s] = "rest" /\ script'[s] = "rest"
         /\ script'[t] = op
         /\ \A r, s \in Tabs : script'[r] = "rest" \/ script'[s] = "rest" \/ r = s
<1>1. script \in [Tabs -> {"rest"} \cup Calling]
  BY DEF PageInv, PageTypeOK
<1>2. \A s \in Tabs \ {t} : script[s] = "rest"
  BY DEF LoneInv, CalmInv, AtRest
<1> QED BY <1>1, <1>2

LEMMA LoneLoadCase ==
  ASSUME PageInv, LoneInv, NEW t \in Tabs, LoadCase(t), calm
  PROVE  LoneInv'
<1>1. ~AtRest(t) /\ next[t] = NoClick /\ late = {} /\ script[t] = "case"
  BY DEF LoadCase, AtRest, LoneInv, CalmInv
<1>2. script' = [script EXCEPT ![t] = "draft"] /\ click' = click /\ next' = next
  BY <1>1, ProceedsCalmly DEF LoadCase
<1>3. UNCHANGED <<server, late, base>> /\ seen' = [seen EXCEPT ![t] = flow]
      /\ seen \in [Tabs -> Status]
  BY DEF LoadCase, PageInv, PageTypeOK
<1>4. /\ \A s \in Tabs \ {t} : script[s] = "rest" /\ script'[s] = "rest"
      /\ script'[t] = "draft"
      /\ \A r, s \in Tabs : script'[r] = "rest" \/ script'[s] = "rest" \/ r = s
  BY <1>1, <1>2, OneTab
<1>5. CalmInv'
  BY <1>1, <1>2, <1>3, <1>4 DEF LoneInv, CalmInv, AtRest, server
<1>6. StepInv'
  BY <1>4 DEF StepInv
<1>7. FlowInv'
  BY <1>1, <1>3, <1>4 DEF LoneInv, FlowInv, server
<1>8. RevisionsBuildOnTheLatest'
  BY <1>3 DEF LoneInv, RevisionsBuildOnTheLatest, server
<1> QED BY <1>5, <1>6, <1>7, <1>8 DEF LoneInv

LEMMA LoneLoadDraft ==
  ASSUME PageInv, LoneInv, NEW t \in Tabs, LoadDraft(t), calm
  PROVE  LoneInv'
<1>1. /\ ~AtRest(t) /\ next[t] = NoClick /\ late = {} /\ script[t] = "draft"
      /\ seen[t] = flow
  BY DEF LoadDraft, AtRest, LoneInv, CalmInv
<1>0. PICK op : op = IF Acts(t) THEN click[t].op ELSE "rest"
  OBVIOUS
<1>2. /\ script' = [script EXCEPT ![t] = op] /\ click' = click /\ next' = next
      /\ op \in {"rest", "save", "start", "task", "decide"}
  BY <1>0, <1>1, ProceedsCalmly, LoadDraftProceeds
<1>3. UNCHANGED <<server, late, seen>> /\ base' = [base EXCEPT ![t] = Len(drafts)]
      /\ base \in [Tabs -> Nat]
  BY DEF LoadDraft, PageInv, PageTypeOK
<1>4. /\ \A s \in Tabs \ {t} : script[s] = "rest" /\ script'[s] = "rest"
      /\ script'[t] = op
      /\ \A r, s \in Tabs : script'[r] = "rest" \/ script'[s] = "rest" \/ r = s
  BY <1>1, <1>2, OneTab
<1>5. CalmInv'
  BY <1>1, <1>2, <1>3, <1>4 DEF LoneInv, CalmInv, AtRest, server
<1>6. StepInv'
  <2>1. op = "task" => flow = "PENDING"
    BY <1>0, <1>1 DEF Acts, AllButtons
  <2> QED BY <1>2, <1>3, <1>4, <2>1 DEF StepInv, server
<1>7. FlowInv'
  BY <1>1, <1>3, <1>4 DEF LoneInv, FlowInv, server
<1>8. RevisionsBuildOnTheLatest'
  BY <1>3 DEF LoneInv, RevisionsBuildOnTheLatest, server
<1> QED BY <1>5, <1>6, <1>7, <1>8 DEF LoneInv

LEMMA LoneActAndRerun ==
  ASSUME PageInv, LoneInv, NEW t \in Tabs, ActAndRerun(t), calm
  PROVE  LoneInv'
<1>1. /\ ~AtRest(t) /\ next[t] = NoClick /\ late = {} /\ seen[t] = flow
      /\ script[t] \in {"save", "start", "task", "patch"}
  BY DEF ActAndRerun, AtRest, LoneInv, CalmInv
<1>2. script' = [script EXCEPT ![t] = "case"] /\ next' = next
  BY <1>1 DEF ActAndRerun, RunAgain, PageInv, PageTypeOK
<1>3. UNCHANGED <<late, seen, base>>
  BY DEF ActAndRerun
<1>4. /\ \A s \in Tabs \ {t} : script[s] = "rest" /\ script'[s] = "rest"
      /\ script'[t] = "case"
      /\ \A r, s \in Tabs : script'[r] = "rest" \/ script'[s] = "rest" \/ r = s
  BY <1>1, <1>2, OneTab
<1>5. CalmInv'
  BY <1>1, <1>2, <1>3, <1>4 DEF LoneInv, CalmInv, AtRest
<1>6. StepInv'
  BY <1>4 DEF StepInv
<1>7. PICK call : call = CallOf(t)
  OBVIOUS
<1>8. /\ Valid(call) /\ Serve(call)
      /\ call.op = script[t] /\ call.click = click[t] /\ call.base = base[t]
      /\ call.click \in Click
  BY <1>1, <1>7, CallIsValid, Behind DEF ActAndRerun, CallOf, Valid, Request
<1>9. verdicts \in Seq(Status) /\ drafts \in Seq(Nat) /\ flow \in Status
  BY DEF PageInv, PageTypeOK
<1>10. CASE script[t] = "save"
  <2>1. SaveDraft(call)
    BY <1>8, <1>10 DEF Serve
  <2>2. drafts' = Append(drafts, Len(drafts))
    BY <1>8, <1>10, <2>1 DEF SaveDraft, LoneInv, CalmInv
  <2>3. RevisionsBuildOnTheLatest'
    BY <1>9, <2>2 DEF LoneInv, RevisionsBuildOnTheLatest
  <2>4. FlowInv'
    BY <1>4, <1>10, <2>1 DEF SaveDraft, LoneInv, FlowInv
  <2> QED BY <1>5, <1>6, <2>3, <2>4 DEF LoneInv
<1>11. CASE script[t] = "start"
  <2>1. StartReview
    BY <1>8, <1>11 DEF Serve
  <2>2. OutcomeOf(<< >>) = "PENDING"
    BY DEF OutcomeOf, Final
  <2>3. RevisionsBuildOnTheLatest'
    BY <2>1 DEF StartReview, LoneInv, RevisionsBuildOnTheLatest
  <2>4. FlowInv'
    BY <2>1, <2>2 DEF StartReview, FlowInv
  <2> QED BY <1>5, <1>6, <2>3, <2>4 DEF LoneInv
<1>12. CASE script[t] = "task"
  <2>1. Transition(call.click.to) /\ Said(call.click.to)
    BY <1>8, <1>12 DEF Serve
  <2>2. flow = "PENDING" /\ OutcomeOf(verdicts) = "PENDING"
    BY <1>4, <1>12 DEF LoneInv, StepInv, FlowInv
  <2>3. call.click.to \in Resolved
    BY <1>8, <1>12, ClickFields, Behind DEF Valid
  <2>4. flow' = call.click.to /\ verdicts' = Append(verdicts, call.click.to)
    BY <2>1, <2>2 DEF Transition, Said
  <2>5. OutcomeOf(verdicts') = flow'
    BY <1>9, <2>2, <2>3, <2>4, OneMoreVerdict DEF Resolved
  <2>6. RevisionsBuildOnTheLatest'
    BY <2>1 DEF Transition, LoneInv, RevisionsBuildOnTheLatest
  <2>7. FlowInv'
    BY <2>5 DEF FlowInv
  <2> QED BY <1>5, <1>6, <2>6, <2>7 DEF LoneInv
<1>13. CASE script[t] = "patch"
  <2>1. Transition(StatusFor(call.click.type)) /\ verdicts' = verdicts
    BY <1>8, <1>13 DEF Serve
  <2>2. flow # "none" /\ OutcomeOf(verdicts) = StatusFor(call.click.type)
    BY <1>8, <1>13 DEF LoneInv, StepInv
  <2>3. RevisionsBuildOnTheLatest'
    BY <2>1 DEF Transition, LoneInv, RevisionsBuildOnTheLatest
  <2>4. FlowInv'
    BY <2>1, <2>2 DEF Transition, FlowInv
  <2> QED BY <1>5, <1>6, <2>3, <2>4 DEF LoneInv
<1> QED BY <1>1, <1>10, <1>11, <1>12, <1>13

LEMMA LoneDecide ==
  ASSUME PageInv, LoneInv, NEW t \in Tabs, Decide(t), calm
  PROVE  LoneInv'
<1>1. /\ ~AtRest(t) /\ next[t] = NoClick /\ late = {} /\ seen[t] = flow
      /\ script[t] = "decide"
  BY DEF Decide, AtRest, LoneInv, CalmInv
<1>2. UNCHANGED <<late, seen, base>>
  BY DEF Decide
<1>3. PICK call : call = CallOf(t)
  OBVIOUS
<1>4. /\ Valid(call) /\ Serve(call)
      /\ call.op = "decide" /\ call.click = click[t] /\ call.click \in Click
  BY <1>1, <1>3, CallIsValid, Behind DEF Decide, CallOf, Valid, Request
<1>5. verdicts \in Seq(Status) /\ flow \in Status
  BY DEF PageInv, PageTypeOK
<1>6. click[t].type \in DecisionType /\ StatusFor(click[t].type) \in {"INFO_REQUESTED"} \cup Resolved
  BY <1>4, ClickFields, StatusOf, Behind DEF Valid
<1>7. PICK op : /\ op \in {"case", "rest", "patch"}
                /\ script' = [script EXCEPT ![t] = op] /\ next' = next
                /\ op = "patch" <=> click[t].attested /\ flow \notin Resolved \cup {"none"}
                /\ op = "patch" => click' = click
  <2>1. CASE RunAgain(t) /\ click[t].attested /\ flow \in Resolved \cup {"none"}
    <3>1. script' = [script EXCEPT ![t] = "case"] /\ next' = next
      BY <1>1, <2>1 DEF RunAgain, PageInv, PageTypeOK
    <3> QED BY <2>1, <3>1
  <2>2. CASE Proceed(t, "rest") /\ ~click[t].attested
    BY <1>1, <2>2, ProceedsCalmly
  <2>3. CASE Proceed(t, "patch") /\ click[t].attested /\ flow \notin Resolved \cup {"none"}
    BY <1>1, <2>3, ProceedsCalmly
  <2> QED BY <1>1, <2>1, <2>2, <2>3 DEF Decide
<1>8. /\ \A s \in Tabs \ {t} : script[s] = "rest" /\ script'[s] = "rest"
      /\ script'[t] = op
      /\ \A r, s \in Tabs : script'[r] = "rest" \/ script'[s] = "rest" \/ r = s
  BY <1>1, <1>7, OneTab
<1>9. flow' = flow /\ drafts' = drafts
  BY <1>4 DEF Serve, RecordDecision, server
<1>10. CalmInv'
  BY <1>1, <1>2, <1>7, <1>8, <1>9 DEF LoneInv, CalmInv, AtRest
<1>11. RevisionsBuildOnTheLatest'
  BY <1>9 DEF LoneInv, RevisionsBuildOnTheLatest
<1>12. flow = "none" \/ flow = OutcomeOf(verdicts)
  BY <1>1, <1>8 DEF LoneInv, FlowInv
<1>13. CASE ~click[t].attested
  <2>1. verdicts' = verdicts
    BY <1>4, <1>13 DEF Serve, server
  <2> QED BY <1>7, <1>8, <1>9, <1>10, <1>11, <1>12, <1>13, <2>1 DEF LoneInv, StepInv, FlowInv
<1>14. CASE click[t].attested /\ flow = "none"
  <2> QED BY <1>7, <1>8, <1>9, <1>10, <1>11, <1>14 DEF LoneInv, StepInv, FlowInv
<1>15. CASE click[t].attested /\ flow # "none"
  <2>1. verdicts' = Append(verdicts, StatusFor(click[t].type))
    BY <1>4, <1>15 DEF Serve, RecordDecision, Said
  <2>2. OutcomeOf(verdicts') = IF flow \in Resolved THEN flow ELSE StatusFor(click[t].type)
    BY <1>5, <1>6, <1>12, <1>15, <2>1, OneMoreVerdict
  <2> QED BY <1>7, <1>8, <1>9, <1>10, <1>11, <1>15, <2>2 DEF LoneInv, StepInv, FlowInv
<1> QED BY <1>13, <1>14, <1>15

LEMMA LoneGenerate ==
  ASSUME PageInv, LoneInv, GenerateNarrative, calm'
  PROVE  LoneInv'
<1>1. /\ calm /\ \A t \in Tabs : script[t] = "rest"
      /\ UNCHANGED <<flow, verdicts, late, script, click, next, seen, base>>
      /\ drafts' = Append(drafts, Len(drafts)) /\ drafts \in Seq(Nat)
  BY DEF GenerateNarrative, AtRest, PageInv, PageTypeOK
<1>2. CalmInv'
  BY <1>1 DEF LoneInv, CalmInv, AtRest
<1>3. StepInv' /\ FlowInv'
  BY <1>1 DEF LoneInv, StepInv, FlowInv
<1>4. RevisionsBuildOnTheLatest'
  BY <1>1 DEF LoneInv, RevisionsBuildOnTheLatest
<1> QED BY <1>2, <1>3, <1>4 DEF LoneInv

LEMMA LoneStep == PageInv /\ LoneInv /\ [PageNext]_pageVars => LoneInv'
<1> SUFFICES ASSUME PageInv, LoneInv, [PageNext]_pageVars PROVE LoneInv'
  OBVIOUS
<1>1. CASE ~calm'
  BY <1>1 DEF LoneInv, CalmInv, StepInv, FlowInv, RevisionsBuildOnTheLatest
<1>2. CASE UNCHANGED pageVars
  BY <1>2 DEF LoneInv, CalmInv, StepInv, FlowInv, RevisionsBuildOnTheLatest, pageVars,
              AtRest
<1>3. CASE calm' /\ PageNext
  <2>1. CASE GenerateNarrative
    BY <1>3, <2>1, LoneGenerate
  <2>2. ASSUME NEW t \in Tabs, Run(t) PROVE LoneInv'
    <3>1. calm /\ ~GiveUp(t)
      BY <1>3, <2>2 DEF Run, LoadCase, LoadDraft, ActAndRerun, Decide, GiveUp
    <3> QED BY <2>2, <3>1, LoneLoadCase, LoneLoadDraft, LoneActAndRerun, LoneDecide DEF Run
  <2>3. ASSUME NEW t \in Tabs, NEW c \in Clicks, ClickButton(t, c) \/ ClickAgain(t, c)
        PROVE  LoneInv'
    BY <1>3, <2>3, LoneClick DEF ClickAgain
  <2>4. ASSUME NEW call \in late, ServeLate(call) PROVE LoneInv'
    BY <1>3, <2>4 DEF ServeLate, LoneInv, CalmInv
  <2> QED BY <1>3, <2>1, <2>2, <2>3, <2>4 DEF PageNext
<1> QED BY <1>1, <1>2, <1>3

LEMMA LoneInvariance == PageSpec => []LoneInv
BY LoneInit, LoneStep, PageInvariance, PTL DEF PageSpec

\* However long a tab was left open, a revision is saved over the draft it was
\* written on, unless runs of the page overlap or are cut short.
THEOREM RevisionsOverLatest == PageSpec => []RevisionsBuildOnTheLatest
<1>1. LoneInv => RevisionsBuildOnTheLatest
  BY DEF LoneInv
<1> QED BY <1>1, LoneInvariance, PTL

\* The two requests of a decision leave the workflow with the first verdict that
\* resolves it, unless runs of the page overlap or are cut short.
THEOREM WorkflowInStep == PageSpec => []WorkflowShowsOutcome
<1>1. LoneInv => WorkflowShowsOutcome
  BY OutcomeOfVerdicts DEF LoneInv, FlowInv, WorkflowShowsOutcome, AtRest
<1> QED BY <1>1, LoneInvariance, PTL

-----------------------------------------------------------------------------
(* The review page: how often a decision is recorded.                      *)

Decision == [by : Tabs, intent : Nat, type : DecisionType]

\* How often tab t's i-th decision is among the recorded ones, and among the requests
\* that may be carried out yet.
RecordedIn(d, t, i) == {k \in DOMAIN d : d[k].by = t /\ d[k].intent = i}
Sends(call, t, i) == call.op = "decide" /\ call.tab = t /\ call.intent = i
UnheardIn(l, t, i) == {call \in l : Sends(call, t, i)}
Spent(t, i) ==
  Cardinality(RecordedIn(decisions, t, i)) + Cardinality(UnheardIn(late, t, i))

\* Whether the running script will send a decision, and whether a click waits for it.
Sending(t) ==
  IF click[t].op = "decide" /\ script[t] \in {"case", "draft", "decide"} THEN 1 ELSE 0
Waiting(t) == IF next[t] = NoClick THEN 0 ELSE 1

\* Every attempt of the decision a tab means but the first has cost it a cut; so has the
\* first, once nothing carries it and nothing was said of it; a click that waits has
\* cut the run it waits for.
TabInv(t) ==
  /\ \A i \in Nat : i > intent[t] => Spent(t, i) = 0
  /\ \A i \in Nat : i <= intent[t] => Spent(t, i) <= 1 + cuts[t]
  /\ Spent(t, intent[t]) + Sending(t) + Waiting(t) <= 1 + cuts[t]
  /\ told[t] => Sending(t) = 0 /\ next[t].op # "decide"
  /\ (~told[t] /\ Sending(t) = 0 /\ Waiting(t) = 0) => Spent(t, intent[t]) <= cuts[t]

RepeatInv == IsFiniteSet(late) /\ \A t \in Tabs : TabInv(t)

LEMMA RecordedIsFinite ==
  ASSUME NEW d \in Seq(Decision), NEW t, NEW i
  PROVE  IsFiniteSet(RecordedIn(d, t, i)) /\ Cardinality(RecordedIn(d, t, i)) \in Nat
<1>1. IsFiniteSet(1..Len(d))
  BY FS_Interval
<1>2. RecordedIn(d, t, i) \in SUBSET (1..Len(d))
  BY DEF RecordedIn
<1> QED BY <1>1, <1>2, FS_Subset, FS_CardinalityType

LEMMA UnheardIsFinite ==
  ASSUME NEW l, IsFiniteSet(l), NEW t, NEW i
  PROVE  IsFiniteSet(UnheardIn(l, t, i)) /\ Cardinality(UnheardIn(l, t, i)) \in Nat
<1>1. UnheardIn(l, t, i) \in SUBSET l
  BY DEF UnheardIn
<1> QED BY <1>1, FS_Subset, FS_CardinalityType

LEMMA OneMoreDecision ==
  ASSUME NEW d \in Seq(Decision), NEW e \in Decision, NEW t, NEW i
  PROVE  Cardinality(RecordedIn(Append(d, e), t, i)) =
           Cardinality(RecordedIn(d, t, i)) + IF e.by = t /\ e.intent = i THEN 1 ELSE 0
<1> DEFINE w == Append(d, e)
           n == Len(d) + 1
<1>1. /\ n \notin DOMAIN d /\ DOMAIN w = DOMAIN d \cup {n}
      /\ w[n] = e /\ \A k \in DOMAIN d : w[k] = d[k]
  OBVIOUS
<1>2. RecordedIn(w, t, i) =
        IF e.by = t /\ e.intent = i THEN RecordedIn(d, t, i) \cup {n} ELSE RecordedIn(d, t, i)
  <2> HIDE DEF w, n
  <2> QED BY <1>1 DEF RecordedIn
<1>3. n \notin RecordedIn(d, t, i)
  BY <1>1 DEF RecordedIn
<1>4. IsFiniteSet(RecordedIn(d, t, i)) /\ Cardinality(RecordedIn(d, t, i)) \in Nat
  BY RecordedIsFinite
<1> HIDE DEF w, n
<1>5. Cardinality(RecordedIn(d, t, i) \cup {n}) = Cardinality(RecordedIn(d, t, i)) + 1
  BY <1>3, <1>4, FS_AddElement
<1> QED BY <1>2, <1>4, <1>5 DEF w

LEMMA OneMoreUnheard ==
  ASSUME NEW l, IsFiniteSet(l), NEW call, NEW t, NEW i
  PROVE  /\ IsFiniteSet(l \cup {call})
         /\ Cardinality(UnheardIn(l \cup {call}, t, i)) <=
              Cardinality(UnheardIn(l, t, i)) + IF Sends(call, t, i) THEN 1 ELSE 0
<1>1. UnheardIn(l \cup {call}, t, i) =
        IF Sends(call, t, i) THEN UnheardIn(l, t, i) \cup {call} ELSE UnheardIn(l, t, i)
  BY DEF UnheardIn
<1>2. IsFiniteSet(UnheardIn(l, t, i)) /\ Cardinality(UnheardIn(l, t, i)) \in Nat
  BY UnheardIsFinite
<1>3. Cardinality(UnheardIn(l, t, i) \cup {call}) <= Cardinality(UnheardIn(l, t, i)) + 1
  BY <1>2, FS_AddElement
<1> QED BY <1>1, <1>2, <1>3, FS_AddElement

LEMMA OneLessUnheard ==
  ASSUME NEW l, IsFiniteSet(l), NEW call \in l, NEW t, NEW i
  PROVE  /\ IsFiniteSet(l \ {call})
         /\ Cardinality(UnheardIn(l \ {call}, t, i)) =
              Cardinality(UnheardIn(l, t, i)) - IF Sends(call, t, i) THEN 1 ELSE 0
<1>1. UnheardIn(l \ {call}, t, i) =
        IF Sends(call, t, i) THEN UnheardIn(l, t, i) \ {call} ELSE UnheardIn(l, t, i)
  BY DEF UnheardIn
<1>2. IsFiniteSet(UnheardIn(l, t, i)) /\ Cardinality(UnheardIn(l, t, i)) \in Nat
  BY UnheardIsFinite
<1>3. Sends(call, t, i) => call \in UnheardIn(l, t, i)
  BY DEF UnheardIn
<1>4. Sends(call, t, i) =>
        Cardinality(UnheardIn(l, t, i) \ {call}) = Cardinality(UnheardIn(l, t, i)) - 1
  BY <1>2, <1>3, FS_RemoveElement
<1> QED BY <1>1, <1>2, <1>4, FS_RemoveElement

\* A request that is carried out records its decision at most once.
LEMMA ServeRecords ==
  ASSUME PageInv, NEW call, Valid(call), Serve(call), NEW t \in Tabs, NEW i \in Nat
  PROVE  Cardinality(RecordedIn(decisions', t, i)) <=
           Cardinality(RecordedIn(decisions, t, i)) + IF Sends(call, t, i) THEN 1 ELSE 0
<1>1. decisions \in Seq(Decision)
  BY DEF PageInv, PageTypeOK, Decision
<1>2. Cardinality(RecordedIn(decisions, t, i)) \in Nat
  BY <1>1, RecordedIsFinite
<1>3. CASE call.op = "decide" /\ call.click.attested
  <2> DEFINE e == [by |-> call.tab, intent |-> call.intent, type |-> call.click.type]
  <2>1. e \in Decision
    BY <1>3, ClickFields, Behind DEF Valid, Request, Decision
  <2>2. decisions' = Append(decisions, e)
    BY <1>3 DEF Serve, RecordDecision
  <2>3. e.by = call.tab /\ e.intent = call.intent
    OBVIOUS
  <2> HIDE DEF e
  <2>4. Cardinality(RecordedIn(Append(decisions, e), t, i)) =
          Cardinality(RecordedIn(decisions, t, i)) + IF e.by = t /\ e.intent = i THEN 1 ELSE 0
    BY <1>1, <2>1, OneMoreDecision
  <2> QED BY <1>2, <1>3, <2>2, <2>3, <2>4 DEF Sends
<1>4. CASE ~(call.op = "decide" /\ call.click.attested)
  <2>1. decisions' = decisions
    BY <1>4, Behind
    DEF Valid, Serve, SaveDraft, StartReview, Transition, server
  <2> QED BY <1>2, <2>1
<1> QED BY <1>3, <1>4

LEMMA SpentIsNat ==
  ASSUME PageInv, IsFiniteSet(late)
  PROVE  \A t \in Tabs, i \in Nat : Spent(t, i) \in Nat
<1>1. decisions \in Seq(Decision)
  BY DEF PageInv, PageTypeOK, Decision
<1> QED BY <1>1, RecordedIsFinite, UnheardIsFinite DEF Spent

LEMMA SpentIsNatNext ==
  ASSUME PageInv', IsFiniteSet(late')
  PROVE  \A t \in Tabs, i \in Nat : Spent(t, i)' \in Nat
<1>1. decisions' \in Seq(Decision)
  BY DEF PageInv, PageTypeOK, Decision
<1> QED BY <1>1, RecordedIsFinite, UnheardIsFinite DEF Spent

\* What a step of the API or of a tab can add.
LEMMA AnsweredAdds ==
  ASSUME PageInv, RepeatInv, NEW call, Valid(call), Serve(call), late' = late
  PROVE  /\ IsFiniteSet(late')
         /\ \A t \in Tabs, i \in Nat :
              Spent(t, i)' <= Spent(t, i) + IF Sends(call, t, i) THEN 1 ELSE 0
<1>1. IsFiniteSet(late) /\ decisions \in Seq(Decision)
  BY DEF RepeatInv, PageInv, PageTypeOK, Decision
<1>2. decisions' \in Seq(Decision)
  BY ServeTypes DEF PageInv, Decision
<1>3. SUFFICES ASSUME NEW t \in Tabs, NEW i \in Nat
               PROVE  Spent(t, i)' <= Spent(t, i) + IF Sends(call, t, i) THEN 1 ELSE 0
  BY <1>1
<1>4. /\ Cardinality(RecordedIn(decisions, t, i)) \in Nat
      /\ Cardinality(RecordedIn(decisions', t, i)) \in Nat
      /\ Cardinality(UnheardIn(late, t, i)) \in Nat
  BY <1>1, <1>2, RecordedIsFinite, UnheardIsFinite
<1> QED BY <1>4, ServeRecords DEF Spent

LEMMA LateAdds ==
  ASSUME PageInv, RepeatInv, NEW call \in late, ServeLate(call)
  PROVE  /\ IsFiniteSet(late')
         /\ \A t \in Tabs, i \in Nat : Spent(t, i)' <= Spent(t, i)
<1>1. IsFiniteSet(late) /\ decisions \in Seq(Decision) /\ late' = late \ {call}
  BY DEF RepeatInv, PageInv, PageTypeOK, Decision, ServeLate
<1>2. Valid(call) /\ Serve(call)
  BY DEF PageInv, PageTypeOK, CallInv, Valid, Request, ServeLate
<1>3. decisions' \in Seq(Decision)
  BY <1>2, ServeTypes DEF PageInv, Decision
<1>4. IsFiniteSet(late')
  BY <1>1, OneLessUnheard
<1>5. SUFFICES ASSUME NEW t \in Tabs, NEW i \in Nat
               PROVE  Spent(t, i)' <= Spent(t, i)
  BY <1>4
<1>6. /\ Cardinality(RecordedIn(decisions, t, i)) \in Nat
      /\ Cardinality(RecordedIn(decisions', t, i)) \in Nat
      /\ Cardinality(UnheardIn(late, t, i)) \in Nat
      /\ Cardinality(UnheardIn(late', t, i)) \in Nat
  BY <1>1, <1>3, <1>4, RecordedIsFinite, UnheardIsFinite
<1>7. Cardinality(UnheardIn(late', t, i)) =
        Cardinality(UnheardIn(late, t, i)) - IF Sends(call, t, i) THEN 1 ELSE 0
  BY <1>1, OneLessUnheard
<1>8. Cardinality(RecordedIn(decisions', t, i)) <=
        Cardinality(RecordedIn(decisions, t, i)) + IF Sends(call, t, i) THEN 1 ELSE 0
  BY <1>2, ServeRecords
<1> QED BY <1>6, <1>7, <1>8 DEF Spent

LEMMA GivenUpAdds ==
  ASSUME PageInv, RepeatInv, NEW call, decisions' = decisions,
         late' = late \/ late' = late \cup {call}
  PROVE  /\ IsFiniteSet(late')
         /\ \A t \in Tabs, i \in Nat :
              Spent(t, i)' <= Spent(t, i) + IF Sends(call, t, i) THEN 1 ELSE 0
<1>1. IsFiniteSet(late) /\ decisions \in Seq(Decision)
  BY DEF RepeatInv, PageInv, PageTypeOK, Decision
<1>2. IsFiniteSet(late')
  BY <1>1, OneMoreUnheard
<1>3. SUFFICES ASSUME NEW t \in Tabs, NEW i \in Nat
               PROVE  Spent(t, i)' <= Spent(t, i) + IF Sends(call, t, i) THEN 1 ELSE 0
  BY <1>2
<1>4. /\ Cardinality(RecordedIn(decisions, t, i)) \in Nat
      /\ Cardinality(UnheardIn(late, t, i)) \in Nat
      /\ Cardinality(UnheardIn(late', t, i)) \in Nat
  BY <1>1, <1>2, RecordedIsFinite, UnheardIsFinite
<1>5. Cardinality(UnheardIn(late', t, i)) <=
        Cardinality(UnheardIn(late, t, i)) + IF Sends(call, t, i) THEN 1 ELSE 0
  <2>1. CASE late' = late
    BY <1>4, <2>1
  <2>2. CASE late' = late \cup {call}
    BY <1>1, <2>2, OneMoreUnheard
  <2> QED BY <2>1, <2>2
<1> QED BY <1>4, <1>5 DEF Spent

\* A tab that a step does not concern.
LEMMA TabUndisturbed ==
  ASSUME PageInv, PageInv', RepeatInv, IsFiniteSet(late'), NEW t \in Tabs,
         \A i \in Nat : Spent(t, i)' <= Spent(t, i),
         script'[t] = script[t], click'[t] = click[t], next'[t] = next[t],
         intent'[t] = intent[t], cuts'[t] = cuts[t], told'[t] = told[t]
  PROVE  TabInv(t)'
<1>1. /\ \A i \in Nat : Spent(t, i) \in Nat /\ Spent(t, i)' \in Nat
      /\ intent[t] \in Nat /\ cuts[t] \in Nat
  BY SpentIsNat, SpentIsNatNext DEF RepeatInv, PageInv, PageTypeOK
<1>2. TabInv(t)
  BY DEF RepeatInv
<1>3. Sending(t)' = Sending(t) /\ Waiting(t)' = Waiting(t)
      /\ Sending(t) \in {0, 1} /\ Waiting(t) \in {0, 1}
  BY DEF Sending, Waiting
<1>4. \A i \in Nat : i > intent[t] => Spent(t, i)' = 0
  BY <1>1, <1>2 DEF TabInv
<1>5. \A i \in Nat : i <= intent[t] => Spent(t, i)' <= 1 + cuts[t]
  BY <1>1, <1>2 DEF TabInv
<1> QED BY <1>1, <1>2, <1>3, <1>4, <1>5 DEF TabInv

\* A step of the tab's run: it may send the decision it carries, with a cut or without.
LEMMA TabRuns ==
  ASSUME PageInv, PageInv', RepeatInv, IsFiniteSet(late'), NEW t \in Tabs,
         NEW a \in {0, 1}, NEW k \in {0, 1},
         \A i \in Nat : Spent(t, i)' <= Spent(t, i) + IF i = intent[t] THEN a ELSE 0,
         intent'[t] = intent[t], cuts'[t] = cuts[t] + k, next'[t] = NoClick,
         told[t] => told'[t],
         told'[t] => Sending(t)' = 0,
         a + Sending(t)' <= Sending(t) + Waiting(t),
         a <= Sending(t),
         k = 0 /\ Waiting(t) = 0 /\ ~told'[t] => Sending(t)' = Sending(t)
  PROVE  TabInv(t)'
<1> PICK n \in Nat : n = intent[t]
  BY DEF PageInv, PageTypeOK
<1>1. /\ \A i \in Nat : Spent(t, i) \in Nat /\ Spent(t, i)' \in Nat
      /\ cuts[t] \in Nat /\ cuts'[t] \in Nat
  BY SpentIsNat, SpentIsNatNext DEF RepeatInv, PageInv, PageTypeOK
<1>2. /\ \A i \in Nat : i > n => Spent(t, i) = 0
      /\ \A i \in Nat : i <= n => Spent(t, i) <= 1 + cuts[t]
      /\ Spent(t, n) + Sending(t) + Waiting(t) <= 1 + cuts[t]
      /\ (~told[t] /\ Sending(t) = 0 /\ Waiting(t) = 0) => Spent(t, n) <= cuts[t]
  BY DEF RepeatInv, TabInv
<1>3. /\ Sending(t) \in {0, 1} /\ Sending(t)' \in {0, 1}
      /\ Waiting(t) \in {0, 1} /\ Waiting(t)' = 0
  BY DEF Sending, Waiting
<1>4. intent'[t] = n /\ Spent(t, n)' <= Spent(t, n) + a
  OBVIOUS
<1>5. \A i \in Nat : i # n => Spent(t, i)' <= Spent(t, i)
  BY <1>1
<1>6. \A i \in Nat : i > n => Spent(t, i)' = 0
  BY <1>1, <1>2, <1>5
<1>7. Spent(t, n)' + Sending(t)' + Waiting(t)' <= 1 + cuts'[t]
  BY <1>1, <1>2, <1>3, <1>4
<1>8. \A i \in Nat : i <= n => Spent(t, i)' <= 1 + cuts'[t]
  <2>1. Spent(t, n)' <= 1 + cuts'[t]
    BY <1>1, <1>3, <1>7
  <2> SUFFICES ASSUME NEW i \in Nat, i <= n, i # n PROVE Spent(t, i)' <= 1 + cuts'[t]
    BY <2>1
  <2> QED BY <1>1, <1>2, <1>5
<1>9. (~told'[t] /\ Sending(t)' = 0) => Spent(t, n)' <= cuts'[t]
  <2> SUFFICES ASSUME ~told'[t], Sending(t)' = 0 PROVE Spent(t, n)' <= cuts'[t]
    OBVIOUS
  <2>1. ~told[t]
    OBVIOUS
  <2>2. CASE k = 1
    BY <1>1, <1>2, <1>3, <1>4, <2>2
  <2>3. CASE k = 0 /\ Waiting(t) = 1
    BY <1>1, <1>2, <1>3, <1>4, <2>3
  <2>4. CASE k = 0 /\ Waiting(t) = 0
    <3>1. Sending(t) = 0 /\ a = 0
      BY <1>3, <2>4
    <3> QED BY <1>1, <1>2, <1>4, <2>1, <2>4, <3>1
  <2> QED BY <1>3, <2>2, <2>3, <2>4
<1>10. next'[t].op # "decide"
  BY DEF NoClick
<1> QED BY <1>4, <1>6, <1>7, <1>8, <1>9, <1>10 DEF TabInv

\* What the script carries on after a call.
LEMMA SendingNext ==
  ASSUME PageInv, NEW t \in Tabs, NEW op \in {"rest"} \cup Calling,
         Proceed(t, op) \/ RunAgain(t)
  PROVE  /\ next'[t] = NoClick
         /\ Waiting(t) = 1 /\ next[t].op # "decide" => Sending(t)' = 0
         /\ Waiting(t) = 0 /\ RunAgain(t) => Sending(t)' = 0
         /\ Waiting(t) = 0 /\ ~RunAgain(t) =>
              Sending(t)' = IF click[t].op = "decide" /\ op \in {"case", "draft", "decide"}
                            THEN 1 ELSE 0
<1> USE DEF PageInv, PageTypeOK
<1>1. CASE RunAgain(t)
  <2>1. next' = [next EXCEPT ![t] = NoClick]
        /\ click'[t] = IF next[t] = NoClick THEN Open ELSE next[t]
    BY <1>1 DEF RunAgain
  <2>2. Waiting(t) = 0 => Sending(t)' = 0
    BY <2>1, OpenIsClick DEF Waiting, Sending
  <2>3. Waiting(t) = 1 /\ next[t].op # "decide" => Sending(t)' = 0
    BY <2>1 DEF Waiting, Sending
  <2> QED BY <1>1, <2>1, <2>2, <2>3
<1>2. CASE ~RunAgain(t)
  <2>1. Waiting(t) = 0 /\ GoOn(t, op) /\ next[t] = NoClick
    BY <1>2 DEF Proceed, Waiting
  <2>2. script'[t] = op /\ click' = click /\ next' = next
    BY <2>1 DEF GoOn
  <2> QED BY <1>2, <2>1, <2>2 DEF Sending
<1> QED BY <1>1, <1>2

\* A step of a tab's run leaves the other tabs alone.
LEMMA OthersUndisturbed ==
  ASSUME PageInv, PageInv', RepeatInv, IsFiniteSet(late'), NEW t \in Tabs,
         \A s \in Tabs, i \in Nat : s # t => Spent(s, i)' <= Spent(s, i),
         \A s \in Tabs \ {t} : /\ script'[s] = script[s] /\ click'[s] = click[s]
                              /\ next'[s] = next[s] /\ intent'[s] = intent[s]
                              /\ cuts'[s] = cuts[s] /\ told'[s] = told[s],
         TabInv(t)'
  PROVE  RepeatInv'
<1> SUFFICES ASSUME NEW s \in Tabs, s # t PROVE TabInv(s)'
  BY DEF RepeatInv
<1> QED BY TabUndisturbed

LEMMA RepeatLoadCase ==
  ASSUME PageInv, PageInv', RepeatInv, NEW t \in Tabs, LoadCase(t)
  PROVE  RepeatInv'
<1>1. /\ script[t] = "case" /\ Proceed(t, "draft") /\ "draft" \in {"rest"} \cup Calling
      /\ UNCHANGED <<late, decisions, intent, cuts, told>>
  BY DEF LoadCase, server, people, Calling
<1>2. IsFiniteSet(late') /\ \A s \in Tabs, i \in Nat : Spent(s, i) \in Nat /\ Spent(s, i)' = Spent(s, i)
  BY <1>1, SpentIsNat DEF RepeatInv, Spent
<1>3. /\ Sending(t) \in {0, 1} /\ Sending(t)' \in {0, 1} /\ Waiting(t) \in {0, 1}
      /\ told[t] => Sending(t) = 0 /\ next[t].op # "decide"
      /\ cuts[t] \in Nat
  BY DEF Sending, Waiting, RepeatInv, TabInv, PageInv, PageTypeOK
<1>4. Waiting(t) = 0 => Sending(t)' = Sending(t)
  <2>1. Waiting(t) = 0 => ~RunAgain(t)
    BY <1>1 DEF Waiting, Proceed, GoOn, RunAgain, PageInv, PageTypeOK
  <2> QED BY <1>1, <2>1, SendingNext DEF Sending
<1>5. TabInv(t)'
  BY <1>1, <1>2, <1>3, <1>4, SendingNext, TabRuns
<1> QED BY <1>1, <1>2, <1>5, Proceeds, OthersUndisturbed

LEMMA RepeatLoadDraft ==
  ASSUME PageInv, PageInv', RepeatInv, NEW t \in Tabs, LoadDraft(t)
  PROVE  RepeatInv'
<1>0. PICK op : op = IF Acts(t) THEN click[t].op ELSE "rest"
  OBVIOUS
<1>1. /\ script[t] = "draft" /\ Proceed(t, op)
      /\ op \in {"rest", "save", "start", "task", "decide"} /\ op \in {"rest"} \cup Calling
      /\ UNCHANGED <<late, decisions, intent, cuts, told>>
  BY <1>0, LoadDraftProceeds DEF LoadDraft, server, people, Calling
<1>2. IsFiniteSet(late') /\ \A s \in Tabs, i \in Nat : Spent(s, i) \in Nat /\ Spent(s, i)' = Spent(s, i)
  BY <1>1, SpentIsNat DEF RepeatInv, Spent
<1>3. /\ Sending(t) \in {0, 1} /\ Sending(t)' \in {0, 1} /\ Waiting(t) \in {0, 1}
      /\ told[t] => Sending(t) = 0 /\ next[t].op # "decide"
      /\ cuts[t] \in Nat
  BY DEF Sending, Waiting, RepeatInv, TabInv, PageInv, PageTypeOK
<1>4. Waiting(t) = 0 => Sending(t)' = Sending(t)
  <2>1. Waiting(t) = 0 => ~RunAgain(t)
    BY <1>1 DEF Waiting, Proceed, GoOn, RunAgain, PageInv, PageTypeOK, Calling
  <2>2. click[t].op = "decide" => op = "decide"
    BY <1>0 DEF Acts, AllButtons
  <2> QED BY <1>1, <2>1, <2>2, SendingNext DEF Sending
<1>5. TabInv(t)'
  BY <1>1, <1>2, <1>3, <1>4, SendingNext, TabRuns
<1> QED BY <1>1, <1>2, <1>5, Proceeds, OthersUndisturbed

LEMMA RepeatActAndRerun ==
  ASSUME PageInv, PageInv', RepeatInv, NEW t \in Tabs, ActAndRerun(t)
  PROVE  RepeatInv'
<1>1. /\ script[t] \in {"save", "start", "task", "patch"} /\ RunAgain(t)
      /\ "rest" \in {"rest"} \cup Calling
      /\ UNCHANGED <<late, intent, cuts, told>>
  BY DEF ActAndRerun, people
<1>2. PICK call : call = CallOf(t)
  OBVIOUS
<1>3. Valid(call) /\ Serve(call) /\ call.op # "decide"
  BY <1>1, <1>2, CallIsValid, Behind DEF ActAndRerun, CallOf
<1>4. IsFiniteSet(late')
      /\ \A s \in Tabs, i \in Nat : Spent(s, i) \in Nat /\ Spent(s, i)' <= Spent(s, i)
  <2>1. \A s \in Tabs, i \in Nat : Spent(s, i) \in Nat
    BY SpentIsNat DEF RepeatInv
  <2> QED BY <1>1, <1>3, <2>1, AnsweredAdds DEF Sends
<1>5. /\ Sending(t) = 0 /\ Sending(t)' \in {0, 1} /\ Waiting(t) \in {0, 1}
      /\ told[t] => next[t].op # "decide"
      /\ cuts[t] \in Nat
  BY <1>1 DEF Sending, Waiting, RepeatInv, TabInv, PageInv, PageTypeOK
<1>6. TabInv(t)'
  BY <1>1, <1>4, <1>5, SendingNext, TabRuns
<1> QED BY <1>1, <1>4, <1>6, Proceeds, OthersUndisturbed

LEMMA RepeatDecide ==
  ASSUME PageInv, PageInv', RepeatInv, NEW t \in Tabs, Decide(t)
  PROVE  RepeatInv'
<1>0. PICK op : op = AfterDecision(t)
  OBVIOUS
<1>1. /\ script[t] = "decide" /\ click[t].op = "decide"
      /\ op \in {"rest", "patch"} /\ op \in {"rest"} \cup Calling
      /\ Proceed(t, op) \/ RunAgain(t)
      /\ UNCHANGED <<late, intent, cuts>>
      /\ told' = [told EXCEPT ![t] = (next[t] = NoClick) \/ @]
  BY <1>0, DecideProceeds, Behind DEF Decide, Tell, AfterDecision
<1>2. PICK call : call = CallOf(t)
  OBVIOUS
<1>3. Valid(call) /\ Serve(call) /\ call.tab = t /\ call.intent = intent[t]
  BY <1>1, <1>2, CallIsValid, Behind DEF Decide, CallOf
<1>4. /\ IsFiniteSet(late')
      /\ \A s \in Tabs, i \in Nat : s # t => Spent(s, i)' <= Spent(s, i)
      /\ \A i \in Nat : Spent(t, i)' <= Spent(t, i) + IF i = intent[t] THEN 1 ELSE 0
  <2>1. \A s \in Tabs, i \in Nat : Spent(s, i) \in Nat /\ Spent(s, i)' \in Nat
    BY <1>1, SpentIsNat, SpentIsNatNext DEF RepeatInv
  <2>2. \A s \in Tabs, i \in Nat :
          Spent(s, i)' <= Spent(s, i) + IF Sends(call, s, i) THEN 1 ELSE 0
    BY <1>1, <1>3, AnsweredAdds
  <2>3. \A s \in Tabs, i \in Nat : s # t => Spent(s, i)' <= Spent(s, i)
    BY <1>3, <2>1, <2>2 DEF Sends
  <2>4. \A i \in Nat : Spent(t, i)' <= Spent(t, i) + IF i = intent[t] THEN 1 ELSE 0
    BY <1>3, <2>1, <2>2 DEF Sends
  <2>5. IsFiniteSet(late')
    BY <1>1 DEF RepeatInv
  <2> QED BY <2>3, <2>4, <2>5
<1>5. /\ Sending(t) = 1 /\ Sending(t)' \in {0, 1} /\ Waiting(t) \in {0, 1}
      /\ ~told[t] /\ cuts[t] \in Nat /\ told \in [Tabs -> BOOLEAN]
  BY <1>1 DEF Sending, Waiting, RepeatInv, TabInv, PageInv, PageTypeOK
<1>6. /\ told'[t] = (Waiting(t) = 0)
      /\ \A s \in Tabs \ {t} : told'[s] = told[s]
  BY <1>1, <1>5 DEF Waiting
<1>7. next'[t] = NoClick /\ (Waiting(t) = 0 => Sending(t)' = 0)
  BY <1>1, SendingNext
<1>8. TabInv(t)'
  <2>1. told'[t] => Sending(t)' = 0
    BY <1>6, <1>7
  <2>2. 1 + Sending(t)' <= Sending(t) + Waiting(t)
    BY <1>5, <1>7
  <2>3. Waiting(t) = 0 => told'[t]
    BY <1>6
  <2>4. 1 \in {0, 1} /\ 0 \in {0, 1} /\ 1 <= Sending(t) /\ intent'[t] = intent[t]
        /\ cuts'[t] = cuts[t] + 0
    BY <1>1, <1>5
  <2> QED BY <1>4, <1>5, <1>7, <2>1, <2>2, <2>3, <2>4, TabRuns
<1> QED BY <1>1, <1>4, <1>6, <1>8, Proceeds, OthersUndisturbed

LEMMA RepeatGiveUp ==
  ASSUME PageInv, PageInv', RepeatInv, NEW t \in Tabs, GiveUp(t)
  PROVE  RepeatInv'
<1>1. /\ Proceed(t, "rest") /\ "rest" \in {"rest"} \cup Calling
      /\ UNCHANGED <<decisions, intent, told>>
      /\ cuts' = [cuts EXCEPT ![t] = @ + 1] /\ cuts \in [Tabs -> Nat]
  BY DEF GiveUp, server, PageInv, PageTypeOK
<1>2. PICK call : call = CallOf(t)
  OBVIOUS
<1>3. /\ late' = late \/ late' = late \cup {call}
      /\ call.tab = t /\ call.intent = intent[t] /\ call.op = script[t]
  BY <1>2 DEF GiveUp, CallOf
<1>4. PICK a \in {0, 1} : a = IF script[t] = "decide" THEN 1 ELSE 0
  OBVIOUS
<1>5. /\ IsFiniteSet(late')
      /\ \A s \in Tabs, i \in Nat : s # t => Spent(s, i)' <= Spent(s, i)
      /\ \A i \in Nat : Spent(t, i)' <= Spent(t, i) + IF i = intent[t] THEN a ELSE 0
  <2>1. /\ IsFiniteSet(late')
        /\ \A s \in Tabs, i \in Nat :
             Spent(s, i)' <= Spent(s, i) + IF Sends(call, s, i) THEN 1 ELSE 0
    BY <1>1, <1>3, GivenUpAdds
  <2>2. \A s \in Tabs, i \in Nat : Spent(s, i) \in Nat /\ Spent(s, i)' \in Nat
    BY <2>1, SpentIsNat, SpentIsNatNext DEF RepeatInv
  <2>3. \A s \in Tabs, i \in Nat : s # t => Spent(s, i)' <= Spent(s, i)
    BY <1>3, <2>1, <2>2 DEF Sends
  <2>4. \A i \in Nat : Spent(t, i)' <= Spent(t, i) + IF i = intent[t] THEN a ELSE 0
    BY <1>3, <1>4, <2>1, <2>2 DEF Sends
  <2> QED BY <2>1, <2>3, <2>4
<1>6. /\ Sending(t) \in {0, 1} /\ Sending(t)' \in {0, 1} /\ Waiting(t) \in {0, 1}
      /\ told[t] => Sending(t) = 0 /\ next[t].op # "decide"
      /\ a <= Sending(t)
  BY <1>4, Behind DEF Sending, Waiting, RepeatInv, TabInv, PageInv, PageTypeOK, CallInv
<1>7. /\ next'[t] = NoClick
      /\ Waiting(t) = 1 /\ next[t].op # "decide" => Sending(t)' = 0
      /\ Waiting(t) = 0 => Sending(t)' = 0
  BY <1>1, SendingNext
<1>8. a + Sending(t)' <= Sending(t) + Waiting(t)
  BY <1>6, <1>7
<1>9. told'[t] => Sending(t)' = 0
  BY <1>1, <1>6, <1>7
<1>10. TabInv(t)'
  BY <1>1, <1>5, <1>6, <1>7, <1>8, <1>9, TabRuns
<1> QED BY <1>1, <1>5, <1>10, Proceeds, OthersUndisturbed

\* A click means a new decision, the same one again, or none.
LEMMA Means ==
  ASSUME PageInv, NEW t \in Tabs, NEW c, Mean(t, c)
  PROVE  /\ \A s \in Tabs \ {t} : intent'[s] = intent[s] /\ told'[s] = told[s]
         /\ \/ c.op = "decide" /\ told[t] /\ intent'[t] = intent[t] + 1 /\ ~told'[t]
            \/ c.op = "decide" /\ ~told[t] /\ intent'[t] = intent[t] /\ ~told'[t]
            \/ c.op # "decide" /\ intent'[t] = intent[t] /\ told'[t] = told[t]
<1>1. intent \in [Tabs -> Nat] /\ told \in [Tabs -> BOOLEAN]
  BY DEF PageInv, PageTypeOK
<1>2. CASE c.op = "decide"
  <2>1. /\ intent' = IF told[t] THEN [intent EXCEPT ![t] = @ + 1] ELSE intent
        /\ told' = [told EXCEPT ![t] = FALSE]
    BY <1>2 DEF Mean
  <2>2. ~told'[t] /\ \A s \in Tabs \ {t} : told'[s] = told[s]
    BY <1>1, <2>1
  <2>3. \A s \in Tabs \ {t} : intent'[s] = intent[s]
    BY <1>1, <2>1
  <2>4. CASE told[t]
    <3>1. intent'[t] = intent[t] + 1
      BY <1>1, <2>1, <2>4
    <3> QED BY <1>2, <2>2, <2>3, <2>4, <3>1
  <2>5. CASE ~told[t]
    BY <1>2, <2>1, <2>2, <2>3, <2>5
  <2> QED BY <2>4, <2>5
<1>3. CASE c.op # "decide"
  BY <1>3 DEF Mean
<1> QED BY <1>2, <1>3

\* The tab of a click, on a page at rest (k = 0) or on a script that runs (k = 1).
LEMMA TabClicked ==
  ASSUME PageInv, PageInv', RepeatInv, NEW t \in Tabs, NEW c, Mean(t, c),
         NEW k \in {0, 1}, UNCHANGED <<late, decisions>>, cuts'[t] = cuts[t] + k,
         Waiting(t) = 0, Waiting(t)' = k,
         IF k = 0 THEN /\ Sending(t) = 0 /\ next'[t].op # "decide"
                       /\ Sending(t)' = IF c.op = "decide" THEN 1 ELSE 0
                  ELSE Sending(t)' = Sending(t) /\ next'[t] = c
  PROVE  TabInv(t)'
<1> PICK n \in Nat : n = intent[t]
  BY DEF PageInv, PageTypeOK
<1>1. /\ \A i \in Nat : Spent(t, i) \in Nat /\ Spent(t, i)' = Spent(t, i)
      /\ cuts[t] \in Nat
  BY SpentIsNat DEF RepeatInv, PageInv, PageTypeOK, Spent
<1>2. /\ \A i \in Nat : i > n => Spent(t, i) = 0
      /\ \A i \in Nat : i <= n => Spent(t, i) <= 1 + cuts[t]
      /\ Spent(t, n) + Sending(t) + Waiting(t) <= 1 + cuts[t]
      /\ told[t] => Sending(t) = 0
      /\ (~told[t] /\ Sending(t) = 0 /\ Waiting(t) = 0) => Spent(t, n) <= cuts[t]
  BY DEF RepeatInv, TabInv
<1>3. Sending(t) \in {0, 1}
  BY DEF Sending
<1>4. CASE c.op = "decide" /\ told[t]
  <2>1. intent'[t] = n + 1 /\ ~told'[t] /\ n + 1 \in Nat
    BY <1>4, Means
  <2>2. \A i \in Nat : i > n + 1 => Spent(t, i)' = 0
    BY <1>1, <1>2
  <2>3. Spent(t, n + 1)' = 0
    BY <1>1, <1>2
  <2>4. \A i \in Nat : i <= n + 1 => Spent(t, i)' <= 1 + cuts'[t]
    <3> SUFFICES ASSUME NEW i \in Nat, i <= n PROVE Spent(t, i)' <= 1 + cuts'[t]
      BY <1>1, <2>3
    <3> QED BY <1>1, <1>2
  <2>5. Spent(t, n + 1)' + Sending(t)' + Waiting(t)' <= 1 + cuts'[t]
    BY <1>1, <1>2, <1>3, <1>4, <2>3
  <2>6. ~(Sending(t)' = 0 /\ Waiting(t)' = 0)
    BY <1>4
  <2> QED BY <2>1, <2>2, <2>4, <2>5, <2>6 DEF TabInv
<1>5. CASE ~(c.op = "decide" /\ told[t])
  <2>1. intent'[t] = n
    BY <1>5, Means
  <2>2. \A i \in Nat : i > n => Spent(t, i)' = 0
    BY <1>1, <1>2
  <2>3. \A i \in Nat : i <= n => Spent(t, i)' <= 1 + cuts'[t]
    <3> SUFFICES ASSUME NEW i \in Nat, i <= n PROVE Spent(t, i)' <= 1 + cuts'[t]
      OBVIOUS
    <3> QED BY <1>1, <1>2
  <2>4. CASE c.op = "decide"
    <3>1. ~told[t] /\ ~told'[t]
      BY <1>5, <2>4, Means
    <3>2. Spent(t, n)' + Sending(t)' + Waiting(t)' <= 1 + cuts'[t]
      BY <1>1, <1>2, <1>3, <2>4, <3>1
    <3>3. ~(Sending(t)' = 0 /\ Waiting(t)' = 0)
      BY <2>4
    <3> QED BY <2>1, <2>2, <2>3, <3>1, <3>2, <3>3 DEF TabInv
  <2>5. CASE c.op # "decide"
    <3>1. told'[t] = told[t]
      BY <2>5, Means
    <3>2. Sending(t)' = Sending(t) /\ next'[t].op # "decide"
      BY <2>5
    <3>3. Spent(t, n)' + Sending(t)' + Waiting(t)' <= 1 + cuts'[t]
      BY <1>1, <1>2, <1>3, <3>2
    <3>4. told'[t] => Sending(t)' = 0
      BY <1>2, <3>1, <3>2
    <3>5. (~told'[t] /\ Sending(t)' = 0 /\ Waiting(t)' = 0) => Spent(t, n)' <= cuts'[t]
      <4> SUFFICES ASSUME ~told'[t], Sending(t)' = 0, k = 0 PROVE Spent(t, n)' <= cuts'[t]
        OBVIOUS
      <4>1. Spent(t, n) <= cuts[t]
        BY <1>2, <3>1
      <4> QED BY <1>1, <4>1
    <3> QED BY <2>1, <2>2, <2>3, <3>2, <3>3, <3>4, <3>5 DEF TabInv
  <2> QED BY <2>4, <2>5
<1> QED BY <1>4, <1>5

LEMMA RepeatClickButton ==
  ASSUME PageInv, PageInv', RepeatInv, NEW t \in Tabs, NEW c \in Clicks, ClickButton(t, c)
  PROVE  RepeatInv'
<1>1. /\ script[t] = "rest" /\ next[t] = NoClick /\ Mean(t, c)
      /\ script' = [script EXCEPT ![t] = "case"] /\ click' = [click EXCEPT ![t] = c]
      /\ UNCHANGED <<late, decisions, next, cuts>>
  BY DEF ClickButton, server, PageInv, CallInv, AtRest
<1>2. /\ script'[t] = "case" /\ click'[t] = c
      /\ \A s \in Tabs \ {t} : script'[s] = script[s] /\ click'[s] = click[s]
  BY <1>1 DEF PageInv, PageTypeOK
<1>3. /\ Waiting(t) = 0 /\ Waiting(t)' = 0 /\ Sending(t) = 0 /\ next'[t].op # "decide"
      /\ Sending(t)' = IF c.op = "decide" THEN 1 ELSE 0
  BY <1>1, <1>2 DEF Waiting, Sending, NoClick
<1>4. cuts'[t] = cuts[t] + 0
  BY <1>1 DEF PageInv, PageTypeOK
<1>5. TabInv(t)'
  BY <1>1, <1>3, <1>4, TabClicked
<1>6. /\ IsFiniteSet(late')
      /\ \A s \in Tabs, i \in Nat : Spent(s, i) \in Nat /\ Spent(s, i)' = Spent(s, i)
  BY <1>1, SpentIsNat DEF RepeatInv, Spent
<1> QED BY <1>1, <1>2, <1>5, <1>6, Means, OthersUndisturbed

LEMMA RepeatClickAgain ==
  ASSUME PageInv, PageInv', RepeatInv, NEW t \in Tabs, NEW c \in Clicks, ClickAgain(t, c)
  PROVE  RepeatInv'
<1>1. /\ next[t] = NoClick /\ Mean(t, c)
      /\ next' = [next EXCEPT ![t] = c] /\ cuts' = [cuts EXCEPT ![t] = @ + 1]
      /\ UNCHANGED <<late, decisions, script, click>>
  BY DEF ClickAgain, server
<1>2. /\ next'[t] = c /\ cuts'[t] = cuts[t] + 1 /\ c # NoClick
      /\ \A s \in Tabs \ {t} : next'[s] = next[s] /\ cuts'[s] = cuts[s]
  BY <1>1, ClicksAssumption, ClickFields DEF PageInv, PageTypeOK
<1>3. Waiting(t) = 0 /\ Waiting(t)' = 1 /\ Sending(t)' = Sending(t)
  BY <1>1, <1>2 DEF Waiting, Sending
<1>4. TabInv(t)'
  BY <1>1, <1>2, <1>3, TabClicked
<1>5. /\ IsFiniteSet(late')
      /\ \A s \in Tabs, i \in Nat : Spent(s, i) \in Nat /\ Spent(s, i)' = Spent(s, i)
  BY <1>1, SpentIsNat DEF RepeatInv, Spent
<1> QED BY <1>1, <1>2, <1>4, <1>5, Means, OthersUndisturbed

LEMMA RepeatServeLate ==
  ASSUME PageInv, PageInv', RepeatInv, NEW call \in late, ServeLate(call)
  PROVE  RepeatInv'
<1>1. UNCHANGED <<script, click, next, intent, cuts, told>>
  BY DEF ServeLate, people
<1>2. IsFiniteSet(late') /\ \A t \in Tabs, i \in Nat : Spent(t, i)' <= Spent(t, i)
  BY LateAdds
<1> QED BY <1>1, <1>2, TabUndisturbed DEF RepeatInv

LEMMA RepeatRest ==
  ASSUME PageInv, PageInv', RepeatInv,
         UNCHANGED <<decisions, late, script, click, next, intent, cuts, told>>
  PROVE  RepeatInv'
BY DEF RepeatInv, TabInv, Spent, Sending, Waiting

LEMMA RepeatInit == PageInit => RepeatInv
<1> SUFFICES ASSUME PageInit PROVE RepeatInv
  OBVIOUS
<1>1. IsFiniteSet(late)
  BY FS_EmptySet DEF PageInit
<1>2. \A t \in Tabs, i \in Nat : Spent(t, i) = 0
  <2>1. \A t \in Tabs, i \in Nat : RecordedIn(decisions, t, i) = {} /\ UnheardIn(late, t, i) = {}
    BY DEF PageInit, RecordedIn, UnheardIn
  <2> QED BY <2>1, FS_EmptySet DEF Spent
<1>3. \A t \in Tabs : Sending(t) = 0 /\ Waiting(t) = 0 /\ next[t].op # "decide"
  BY DEF PageInit, Sending, Waiting, NoClick
<1>4. ASSUME NEW t \in Tabs PROVE TabInv(t)
  <2>1. intent[t] = 0 /\ cuts[t] = 0 /\ told[t]
    BY DEF PageInit
  <2> QED BY <1>2, <1>3, <2>1 DEF TabInv
<1> QED BY <1>1, <1>4 DEF RepeatInv

LEMMA RepeatStep == PageInv /\ PageInv' /\ RepeatInv /\ [PageNext]_pageVars => RepeatInv'
<1> SUFFICES ASSUME PageInv, PageInv', RepeatInv, [PageNext]_pageVars PROVE RepeatInv'
  OBVIOUS
<1>1. CASE UNCHANGED pageVars
  BY <1>1, RepeatRest DEF pageVars
<1>2. CASE GenerateNarrative
  BY <1>2, RepeatRest DEF GenerateNarrative, people
<1>3. ASSUME NEW t \in Tabs, Run(t) PROVE RepeatInv'
  BY <1>3, RepeatLoadCase, RepeatLoadDraft, RepeatActAndRerun, RepeatDecide, RepeatGiveUp
  DEF Run
<1>4. ASSUME NEW t \in Tabs, NEW c \in Clicks, ClickButton(t, c) \/ ClickAgain(t, c)
      PROVE  RepeatInv'
  BY <1>4, RepeatClickButton, RepeatClickAgain
<1>5. ASSUME NEW call \in late, ServeLate(call) PROVE RepeatInv'
  BY <1>5, RepeatServeLate
<1> QED BY <1>1, <1>2, <1>3, <1>4, <1>5 DEF PageNext

LEMMA RepeatInvariance == PageSpec => []RepeatInv
BY RepeatInit, RepeatStep, PageInvariance, PTL DEF PageSpec

\* A decision meant once is recorded once, and once more at most for each run that was
\* cut short.
THEOREM RepeatsAreCuts == PageSpec => []RepeatsFollowCuts
<1>1. PageInv /\ RepeatInv => RepeatsFollowCuts
  <2> SUFFICES ASSUME PageInv, RepeatInv, NEW t \in Tabs, NEW i \in 1..intent[t]
               PROVE  Cardinality(RecordedIn(decisions, t, i)) <= 1 + cuts[t]
    BY DEF RepeatsFollowCuts, RecordedIn
  <2>1. intent[t] \in Nat /\ cuts[t] \in Nat /\ decisions \in Seq(Decision) /\ IsFiniteSet(late)
    BY DEF PageInv, PageTypeOK, RepeatInv, Decision
  <2>2. i \in Nat /\ i <= intent[t]
    BY <2>1
  <2>3. Spent(t, i) <= 1 + cuts[t]
    BY <2>2 DEF RepeatInv, TabInv
  <2>4. /\ Cardinality(RecordedIn(decisions, t, i)) \in Nat
        /\ Cardinality(UnheardIn(late, t, i)) \in Nat
    BY <2>1, RecordedIsFinite, UnheardIsFinite
  <2> QED BY <2>1, <2>3, <2>4 DEF Spent
<1> QED BY <1>1, PageInvariance, RepeatInvariance, PTL

=============================================================================
