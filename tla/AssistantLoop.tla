---------------------------- MODULE AssistantLoop ----------------------------
(***************************************************************************)
(* The investigation assistant: a question on the page                     *)
(* (pages/5_Assistant.py), the rounds of the model with its tools          *)
(* (assistant/loop.py), the tools on the case API (assistant/tools.py),    *)
(* and the history the page keeps for the next question.                   *)
(*                                                                         *)
(* The model is free to call any tool, known or not, with any arguments,   *)
(* in every round, the last one included, in which no tools are offered to *)
(* it: what it calls is executed.  Its text is left out.                   *)
(***************************************************************************)
EXTENDS Naturals, Sequences

CONSTANTS
  MaxIterations,    \* MAX_ITERATIONS (8)
  MaxCalls,         \* bound: how many tools the model calls in a round
  MaxQuestions,     \* bound: how many questions are asked
  Callable          \* the calls the model may make

VARIABLES
  pc,           \* idle, complete, execute, answered or dead
  question,     \* the number of the question
  history,      \* st.session_state["assistant_api_messages"]
  messages,     \* the messages of the turn
  pending,      \* the calls of the round that are still to be executed
  iteration,    \* the rounds before this one
  effects,      \* what the tools have changed at the API, by call
  excused       \* history: the questions whose turn was lost or whose history was cleared

vars == <<pc, question, history, messages, pending, iteration, effects, excused>>

\* What each tool changes, call by call.
Changes ==
  [get_alert_details |-> << >>, calculate_regulatory_urgency |-> <<"score">>,
   assemble_case_file |-> <<"case", "file">>, draft_supporting_narrative |-> <<"draft">>,
   start_human_review |-> <<"workflow">>]
Tools == DOMAIN Changes

\* Arguments are an object with or without the key the tool needs, other JSON, or no JSON.
Args == {"object", "lacking", "other", "garbage"}
Call == [tool : Tools \cup {"unknown"}, args : Args]
Calls == UNION {[1..n -> Callable] : n \in 0..MaxCalls}

ASSUME AssistantAssumption ==
  MaxIterations \in Nat /\ MaxCalls \in Nat /\ MaxQuestions \in Nat /\ Callable \subseteq Call

Id(at, k) == <<question, at, k>>
User == [role |-> "user", calls |-> << >>, of |-> << >>, result |-> "none"]
Assistant(ids) == [role |-> "assistant", calls |-> ids, of |-> << >>, result |-> "none"]
Tool(id, result) == [role |-> "tool", calls |-> << >>, of |-> id, result |-> result]

Init ==
  /\ pc = "idle" /\ question = 0 /\ iteration = 0
  /\ history = << >> /\ messages = << >> /\ pending = << >>
  /\ effects = {} /\ excused = {}

Goto(from, to) == pc = from /\ pc' = to

-----------------------------------------------------------------------------
\* Mutant: the turn works on the history itself.
AskInPlace ==
  /\ Goto("idle", "complete")
  /\ question < MaxQuestions
  /\ question' = question + 1
  /\ messages' = Append(history, User)
  /\ history' = messages'
  /\ iteration' = 0
  /\ UNCHANGED <<pending, effects, excused>>

\* The turn works on a copy of the history.
Ask ==
  /\ Goto("idle", "complete")
  /\ question < MaxQuestions
  /\ question' = question + 1
  /\ messages' = Append(history, User)
  /\ iteration' = 0
  /\ UNCHANGED <<history, pending, effects, excused>>

\* One of the MAX_ITERATIONS + 1 rounds.
Complete ==
  \E calls \in Calls :
    LET ids == [k \in DOMAIN calls |-> Id(Len(messages), k)]
    IN  /\ Goto("complete", IF calls = << >> THEN "answered" ELSE "execute")
        /\ messages' = Append(messages, Assistant(ids))
        /\ pending' = [k \in DOMAIN calls |-> [call |-> calls[k], id |-> ids[k]]]
        /\ UNCHANGED <<question, history, iteration, effects, excused>>

\* v2_completion raises: the turn ends, and the page with it.
CompletionFails ==
  /\ Goto("complete", "dead")
  /\ UNCHANGED <<question, history, messages, pending, iteration, effects, excused>>

\* How a call may end: what it has changed, and what the model is told.  "failed" is an
\* error of the API, or no answer of it in time: after any of the changes, the last one
\* included, since what fails may be the step after it (the event of a draft).
\* "refused" is an error of the loop or the tool itself, without a call of the API: no
\* JSON, a key that is lacking, a tool that is not there ("unshowable" if the arguments
\* are no object), the id of a case where an alert's is needed.  A known tool raises
\* when its arguments are no object.
Outcomes(call) ==
  LET Changed(n) == {Changes[call.tool][i] : i \in 1..n}
      all == Len(Changes[call.tool])
      Nothing(result) == [changed |-> {}, result |-> result]
  IN  CASE call.args \in {"lacking", "garbage"} \/ call.tool \notin Tools ->
             {Nothing(IF call.args = "other" THEN "unshowable" ELSE "refused")}
        [] call.args = "other" /\ call.tool \in Tools -> {Nothing("raise")}
        [] call.args = "object" /\ call.tool \in Tools ->
             {[changed |-> Changed(all), result |-> "done"]}
             \cup {[changed |-> Changed(n), result |-> "failed"] : n \in 0..all}
             \cup {Nothing("refused") : t \in {"assemble_case_file"} \cap {call.tool}}

\* Mutant: a call that never reached the API is tried again instead of being answered.
ExecutedAgain(o) ==
  LET again == o.result \in {"refused", "unshowable"}
  IN  /\ effects' = effects \cup {[kind |-> c, id |-> Head(pending).id] : c \in o.changed}
      /\ messages' = IF again THEN messages
                     ELSE Append(messages, Tool(Head(pending).id, o.result))
      /\ pending' = IF again THEN pending ELSE Tail(pending)
      /\ iteration' = IF pending' = << >> THEN iteration + 1 ELSE iteration

Executed(o) ==
  /\ effects' = effects \cup {[kind |-> c, id |-> Head(pending).id] : c \in o.changed}
  /\ messages' = Append(messages, Tool(Head(pending).id, o.result))
  /\ pending' = Tail(pending)
  /\ iteration' = IF Len(pending) = 1 THEN iteration + 1 ELSE iteration

\* The calls of a round one after another; after the last round the turn ends with them,
\* and a text of the loop's own that the model never sees.
Execute ==
  /\ pending # << >>
  /\ \E o \in Outcomes(Head(pending).call) :
       /\ o.result # "raise"
       /\ Executed(o)
       /\ Goto("execute", IF pending' # << >> THEN "execute"
                          ELSE IF iteration' > MaxIterations THEN "answered" ELSE "complete")
  /\ UNCHANGED <<question, history, excused>>

ToolRaises ==
  /\ pending # << >>
  /\ \E o \in Outcomes(Head(pending).call) : o.result = "raise"
  /\ Goto("execute", "dead")
  /\ pending' = << >>
  /\ UNCHANGED <<question, history, messages, iteration, effects, excused>>

\* The page lists the arguments of every call, which raises unless they are an object.
Showable == \A i \in DOMAIN messages : messages[i].result # "unshowable"

\* Back to the question box: nothing but the history is left of the turn.
Leave ==
  /\ messages' = << >> /\ iteration' = 0
  /\ UNCHANGED <<question, pending, effects>>

\* Mutant: the page keeps question and answer only.
ShowText ==
  /\ Goto("answered", "idle")
  /\ Showable
  /\ history' = history \o <<User, Assistant(<< >>)>>
  /\ Leave
  /\ UNCHANGED excused

\* The page shows the turn and, at the end, keeps its messages.
Show ==
  /\ Goto("answered", "idle")
  /\ Showable
  /\ history' = messages
  /\ Leave
  /\ UNCHANGED excused

\* It keeps nothing of a turn that died, that it cannot show, or during which somebody
\* clicked: the run ends at the first thing it shows after the turn.
Lose ==
  /\ Goto("answered", "idle") \/ Goto("dead", "idle")
  /\ excused' = excused \cup {question}
  /\ Leave
  /\ UNCHANGED history

Clear ==
  /\ Goto("idle", "idle")
  /\ history' = << >>
  /\ excused' = 0..question
  /\ UNCHANGED <<question, messages, pending, iteration, effects>>

Turn == Complete \/ CompletionFails \/ Execute \/ ToolRaises \/ Show \/ Lose
Next == Ask \/ Turn \/ Clear

\* Every call has a timeout, and the page runs its script to the end.
Spec == Init /\ [][Next]_vars /\ WF_vars(Turn)

-----------------------------------------------------------------------------
(* Properties.                                                             *)

TypeOK ==
  /\ pc \in {"idle", "complete", "execute", "answered", "dead"}
  /\ question \in 0..MaxQuestions
  /\ iteration \in 0..MaxIterations + 1
  /\ pc = "execute" <=> pending # << >>

\* Whatever the model called and however calls and turns failed: in the history the next
\* question is sent with, every call is answered by one tool message, in order and before
\* anything else is said, and no question is left standing alone at its end.
HistoryIsAnswered ==
  /\ \A i \in DOMAIN history : \A k \in DOMAIN history[i].calls :
       i + k \in DOMAIN history /\ history[i + k].role = "tool" /\ history[i + k].of = history[i].calls[k]
  /\ \A i \in DOMAIN history : history[i].role = "tool" =>
       \E j \in 1..(i - 1) : i - j \in DOMAIN history[j].calls
  /\ history # << >> => history[Len(history)].role # "user"

\* What the tools have changed at the API and what the history tells agree as far as they
\* can: every change belongs to a call that the history calls done or failed, unless its
\* turn was lost or the history cleared; and a call that it calls refused changed nothing.
ChangesAreTold ==
  pc = "idle" => \A e \in effects :
    /\ \/ e.id[1] \in excused
       \/ \E i \in DOMAIN history :
            history[i].of = e.id /\ history[i].result \in {"done", "failed"}
    /\ \A i \in DOMAIN history : history[i].result = "refused" => history[i].of # e.id

\* Every turn comes to an end, although the model may call tools in every round.
TurnsEnd == pc # "idle" ~> pc = "idle"
=============================================================================
