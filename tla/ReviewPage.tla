------------------------------ MODULE ReviewPage ------------------------------
(***************************************************************************)
(* The cockpit's pages for one case: 4_Review_Decide.py, and the           *)
(* generation of drafts of 3_Narrative.py, in several browser tabs over    *)
(* one API (components/api_client.py).                                     *)
(*                                                                         *)
(* Streamlit runs the page's script from the top at every click: the run   *)
(* loads the case and the latest draft anew, and the clicked button acts   *)
(* when the script comes to it, if it is still there.  A request is one    *)
(* step here (modules CaseDecisions, ReviewWorkflow and CaseRecords take   *)
(* them apart); the client gives up waiting after its timeout, and the API *)
(* may still carry the request out.  Workflows are the local fallback, the *)
(* only kind this page can start.                                          *)
(***************************************************************************)
EXTENDS Naturals, Sequences, FiniteSets

CONSTANTS
  Tabs,         \* browser tabs on the case
  Clicks,       \* the clicks considered
  MaxClicks,    \* bound: clicks, the loading of a page apart
  MaxDrafts,    \* bound: generated drafts
  MaxCuts       \* bound: no more runs are cut short once a tab had this many

DecisionType == {"approve_for_escalation", "return_for_edit", "request_information"}
Resolved == {"APPROVED", "RETURNED"}
Status == {"none", "PENDING", "INFO_REQUESTED"} \cup Resolved

\* DECISION_TO_WORKFLOW_STATUS.
StatusFor(type) ==
  CASE type = "approve_for_escalation" -> "APPROVED"
    [] type = "return_for_edit" -> "RETURNED"
    [] type = "request_information" -> "INFO_REQUESTED"

\* What a person may click: save the revised text, start the review, resolve the
\* simulated task, record a decision; "open" loads the page without a click.
Click == [op : {"open", "save", "start"}]
         \cup [op : {"task"}, to : Resolved]
         \cup [op : {"decide"}, type : DecisionType, attested : BOOLEAN]

ASSUME ClicksAssumption == Clicks \subseteq Click
ASSUME BoundsAssumption == {MaxClicks, MaxDrafts, MaxCuts} \subseteq Nat

Open == [op |-> "open"]
NoClick == [op |-> "none"]

VARIABLES
  drafts,       \* the case's drafts: for each version, the version it was written over
  flow,         \* status of the latest review workflow
  decisions,    \* the recorded decisions, each with the tab and the intention behind it
  late,         \* requests their tab no longer waits for
  script,       \* where each tab's script stands: at rest, or in which call
  click,        \* what the run was started by
  next,         \* what was clicked while it ran: at most one
  seen,         \* the workflow status the run has loaded
  base,         \* the draft version on the page, 0 for none
  shown,        \* the buttons on the page
  intent,       \* history: how many different decisions were meant so far
  told,         \* history: the page has said what became of the last of them
  clicks,       \* history: clicks made, loading apart
  cuts,         \* history: runs cut short, by the client's timeout or by a click
  verdicts,     \* history: what people said of the workflow, in order
  calm          \* history: no runs have overlapped, none was cut short

pageVars == <<drafts, flow, decisions, late, script, click, next, seen, base, shown,
              intent, told, clicks, cuts, verdicts, calm>>
server == <<drafts, flow, decisions, verdicts>>
people == <<intent, told, clicks, cuts>>

Calling == {"case", "draft", "save", "start", "task", "decide", "patch"}
Buttons == {"open", "save", "start", "task", "decide"}

PageTypeOK ==
  /\ drafts \in Seq(Nat)
  /\ flow \in Status
  /\ decisions \in Seq([by : Tabs, intent : Nat, type : DecisionType])
  /\ late \subseteq [op : Calling, tab : Tabs, n : Nat, click : Click, base : Nat,
                     intent : Nat]
  /\ script \in [Tabs -> {"rest"} \cup Calling]
  /\ click \in [Tabs -> Click]
  /\ next \in [Tabs -> Click \cup {NoClick}]
  /\ seen \in [Tabs -> Status]
  /\ base \in [Tabs -> Nat]
  /\ shown \in [Tabs -> SUBSET Buttons]
  /\ {intent, cuts} \subseteq [Tabs -> Nat]
  /\ told \in [Tabs -> BOOLEAN]
  /\ clicks \in Nat
  /\ verdicts \in Seq(Status)
  /\ calm \in BOOLEAN

PageInit ==
  /\ drafts = << >>
  /\ flow = "none"
  /\ decisions = << >>
  /\ late = {}
  /\ script = [t \in Tabs |-> "rest"]
  /\ click = [t \in Tabs |-> Open]
  /\ next = [t \in Tabs |-> NoClick]
  /\ seen = [t \in Tabs |-> "none"]
  /\ base = [t \in Tabs |-> 0]
  /\ shown = [t \in Tabs |-> {"open"}]
  /\ intent = [t \in Tabs |-> 0]
  /\ told = [t \in Tabs |-> TRUE]
  /\ clicks = 0
  /\ cuts = [t \in Tabs |-> 0]
  /\ verdicts = << >>
  /\ calm = TRUE

-----------------------------------------------------------------------------
(* What the API does with a request.                                       *)

\* A person has spoken of the workflow: the page's decisions and its task count
\* once there is one.
Said(to) == verdicts' = IF flow = "none" THEN verdicts ELSE Append(verdicts, to)

\* POST drafts: the text of the box, as the next version.
SaveDraft(call) ==
  /\ drafts' = Append(drafts, call.base)
  /\ UNCHANGED <<flow, decisions, verdicts>>

\* POST review-workflows.
StartReview ==
  /\ flow' = "PENDING"
  /\ verdicts' = << >>
  /\ UNCHANGED <<drafts, decisions>>

\* PATCH review-workflows: any status is accepted; without a workflow, 404.
Transition(to) ==
  /\ flow' = IF flow = "none" THEN "none" ELSE to
  /\ UNCHANGED <<drafts, decisions>>

\* POST decisions, attested: a key made for this request alone.
RecordDecision(call) ==
  /\ decisions' = Append(decisions, [by |-> call.tab, intent |-> call.intent,
                                     type |-> call.click.type])
  /\ Said(StatusFor(call.click.type))
  /\ UNCHANGED <<drafts, flow>>

Serve(call) ==
  CASE call.op \in {"case", "draft"} -> UNCHANGED server
    [] call.op = "save" -> SaveDraft(call)
    [] call.op = "start" -> StartReview
    [] call.op = "task" -> Transition(call.click.to) /\ Said(call.click.to)
    [] call.op = "decide" -> IF call.click.attested THEN RecordDecision(call)
                             ELSE UNCHANGED server
    [] call.op = "patch" -> Transition(StatusFor(call.click.type)) /\ UNCHANGED verdicts

-----------------------------------------------------------------------------
(* The run of a page.                                                      *)

AtRest(t) == script[t] = "rest"

\* The request the tab waits for.
CallOf(t) == [op |-> script[t], tab |-> t, n |-> clicks, click |-> click[t],
              base |-> base[t], intent |-> intent[t]]

\* What the page shows when its script has come to its end.
AllButtons(status, version) ==
  {"open", "decide"}
  \cup (IF version = 0 THEN {} ELSE {"save"})
  \cup (IF status = "none" /\ version # 0 THEN {"start"} ELSE {})
  \cup (IF status = "PENDING" THEN {"task"} ELSE {})

\* A script that raises leaves what stands above the failing call.
ButtonsAbove(t, op) ==
  AllButtons(seen[t], base[t]) \cap
    CASE op \in {"case", "draft"} -> {"open"}
      [] op = "save" -> {"open", "save"}
      [] op \in {"start", "task"} -> {"open", "save", "start", "task"}
      [] op \in {"decide", "patch"} -> Buttons

MayBeCut == \A t \in Tabs : cuts[t] < MaxCuts

\* A decision the page has not said anything of is repeated, not meant anew.
Mean(t, c) ==
  /\ c.op # "open" => clicks < MaxClicks
  /\ clicks' = IF c.op = "open" THEN clicks ELSE clicks + 1
  /\ IF c.op = "decide"
     THEN /\ intent' = IF told[t] THEN [intent EXCEPT ![t] = @ + 1] ELSE intent
          /\ told' = [told EXCEPT ![t] = FALSE]
     ELSE UNCHANGED <<intent, told>>

\* A click on a page at rest, and the run it starts.
ClickButton(t, c) ==
  /\ AtRest(t) /\ c.op \in shown[t]
  /\ script' = [script EXCEPT ![t] = "case"]
  /\ click' = [click EXCEPT ![t] = c]
  /\ Mean(t, c)
  /\ calm' = (calm /\ \A s \in Tabs : AtRest(s))
  /\ UNCHANGED <<server, late, next, seen, base, shown, cuts>>

\* A click while the script runs stops it at its next st call; what it was
\* started by is forgotten.
ClickAgain(t, c) ==
  /\ ~AtRest(t) /\ next[t] = NoClick
  /\ MayBeCut /\ c.op \in shown[t]
  /\ next' = [next EXCEPT ![t] = c]
  /\ Mean(t, c)
  /\ cuts' = [cuts EXCEPT ![t] = @ + 1]
  /\ calm' = FALSE
  /\ UNCHANGED <<server, late, script, click, seen, base, shown>>

\* The script goes on to its next call, or comes to its end, or is started anew:
\* by the click that waits for it, or else by st.rerun.
GoOn(t, op) ==
  /\ script' = [script EXCEPT ![t] = op]
  /\ UNCHANGED <<click, next>>

RunAgain(t) ==
  /\ script' = [script EXCEPT ![t] = "case"]
  /\ click' = [click EXCEPT ![t] = IF next[t] = NoClick THEN Open ELSE next[t]]
  /\ next' = [next EXCEPT ![t] = NoClick]

Proceed(t, op) == IF next[t] = NoClick THEN GoOn(t, op) ELSE RunAgain(t)

LoadCase(t) ==
  /\ script[t] = "case"
  /\ seen' = [seen EXCEPT ![t] = flow]
  /\ Proceed(t, "draft")
  /\ UNCHANGED <<server, late, base, shown, people, calm>>

\* Mutant: the box has a key, and keeps its text when the draft below it changes.
LoadDraftUnderBox(t) ==
  /\ script[t] = "draft"
  /\ LET latest == Len(drafts)
         acts == click[t].op \in AllButtons(seen[t], latest) \ {"open"}
     IN /\ base' = [base EXCEPT ![t] = IF click[t].op = "save" THEN @ ELSE latest]
        /\ shown' = [shown EXCEPT ![t] = AllButtons(seen[t], latest)]
        /\ Proceed(t, IF acts THEN click[t].op ELSE "rest")
  /\ UNCHANGED <<server, late, seen, people, calm>>

\* GET drafts/latest; then the script comes to the clicked button, if it is still
\* on the page.  A new draft makes the text box a new one, holding that draft: the
\* revision typed over the old draft is gone, and there are no changes to save.
LoadDraft(t) ==
  /\ script[t] = "draft"
  /\ LET latest == Len(drafts)
         acts == /\ click[t].op \in AllButtons(seen[t], latest) \ {"open"}
                 /\ click[t].op = "save" => base[t] = latest
     IN /\ base' = [base EXCEPT ![t] = latest]
        /\ shown' = [shown EXCEPT ![t] = AllButtons(seen[t], latest)]
        /\ Proceed(t, IF acts THEN click[t].op ELSE "rest")
  /\ UNCHANGED <<server, late, seen, people, calm>>

\* The answer to a save, a start or a transition: st.rerun.
ActAndRerun(t) ==
  /\ script[t] \in {"save", "start", "task", "patch"}
  /\ Serve(CallOf(t))
  /\ RunAgain(t)
  /\ UNCHANGED <<late, seen, base, shown, people, calm>>

Tell(t) == told' = [told EXCEPT ![t] = (next[t] = NoClick) \/ @]

\* Mutant: the decision moves the workflow whatever it has come to.
DecideAnyway(t) ==
  /\ script[t] = "decide"
  /\ Serve(CallOf(t))
  /\ Tell(t)
  /\ IF ~click[t].attested THEN Proceed(t, "rest")
     ELSE IF seen[t] # "none" THEN Proceed(t, "patch")
     ELSE RunAgain(t)
  /\ UNCHANGED <<late, seen, base, shown, intent, clicks, cuts, calm>>

\* Mutant: the form stays submitted in the run that st.rerun starts.
DecideAndStay(t) ==
  /\ script[t] = "decide"
  /\ Serve(CallOf(t))
  /\ Tell(t)
  /\ IF ~click[t].attested THEN Proceed(t, "rest")
     ELSE IF seen[t] \notin Resolved \cup {"none"} THEN Proceed(t, "patch")
     ELSE script' = [script EXCEPT ![t] = "case"] /\ UNCHANGED <<click, next>>
  /\ UNCHANGED <<late, seen, base, shown, intent, clicks, cuts, calm>>

\* The answer to a decision: without attestation 422, and its message; else the
\* workflow moves too, unless it was resolved when the run loaded it.
Decide(t) ==
  /\ script[t] = "decide"
  /\ Serve(CallOf(t))
  /\ Tell(t)
  /\ IF ~click[t].attested THEN Proceed(t, "rest")
     ELSE IF seen[t] \notin Resolved \cup {"none"} THEN Proceed(t, "patch")
     ELSE RunAgain(t)
  /\ UNCHANGED <<late, seen, base, shown, intent, clicks, cuts, calm>>

\* The client stops waiting, or hears of an error it does not handle, and the
\* script raises; the API may carry the request out yet.
GiveUp(t) ==
  /\ ~AtRest(t) /\ MayBeCut
  /\ late' = IF script[t] \in {"case", "draft"} THEN late ELSE late \cup {CallOf(t)}
  /\ shown' = [shown EXCEPT ![t] = ButtonsAbove(t, script[t])]
  /\ Proceed(t, "rest")
  /\ cuts' = [cuts EXCEPT ![t] = @ + 1]
  /\ calm' = FALSE
  /\ UNCHANGED <<server, seen, base, intent, told, clicks>>

-----------------------------------------------------------------------------
ServeLate(call) ==
  /\ Serve(call)
  /\ late' = late \ {call}
  /\ UNCHANGED <<script, click, next, seen, base, shown, people, calm>>

\* The narrative page has a draft generated, in yet another tab.
GenerateNarrative ==
  /\ Len(drafts) < MaxDrafts
  /\ drafts' = Append(drafts, Len(drafts))
  /\ calm' = (calm /\ \A t \in Tabs : AtRest(t))
  /\ UNCHANGED <<flow, decisions, verdicts, late, script, click, next, seen, base,
                 shown, people>>

Run(t) ==
  \/ LoadCase(t)
  \/ LoadDraft(t)
  \/ ActAndRerun(t)
  \/ Decide(t)
  \/ GiveUp(t)

PageNext ==
  \/ GenerateNarrative
  \/ \E t \in Tabs : Run(t) \/ \E c \in Clicks : ClickButton(t, c) \/ ClickAgain(t, c)
  \/ \E call \in late : ServeLate(call)

PageSpec == PageInit /\ [][PageNext]_pageVars

-----------------------------------------------------------------------------
(* Properties.                                                             *)

\* What a reader of the verdicts would say of the workflow: the first that
\* resolves it stands; short of one, information is awaited once asked for.
Outcome ==
  LET final == {i \in DOMAIN verdicts : verdicts[i] \in Resolved}
  IN IF final # {} THEN verdicts[CHOOSE i \in final : \A j \in final : i <= j]
     ELSE IF verdicts # << >> THEN "INFO_REQUESTED"
     ELSE "PENDING"

\* Between runs of the page that neither overlapped nor were cut short, the
\* workflow shows the first resolving verdict, given by a decision or in the
\* task (4_Review_Decide.py 138-145 and 193-197): the two requests of a decision
\* never leave it out of step.
WorkflowShowsOutcome ==
  (calm /\ (\A t \in Tabs : AtRest(t)) /\ flow # "none") => flow = Outcome

\* Unless runs overlap or are cut short, a revision is saved over the very draft
\* it was written on, however long its tab was left open and whatever other tabs
\* and the generator saved meanwhile (4_Review_Decide.py 53-72).
RevisionsBuildOnTheLatest ==
  calm => \A v \in DOMAIN drafts : drafts[v] = v - 1

\* A decision its maker meant once is recorded once, and once more at most for
\* each run that was cut short, by a lost answer or an impatient click: the key
\* of record_decision is made anew per request and so replays nothing
\* (api_client.py 43-49), but a run that ends well never sends it again.
RepeatsFollowCuts ==
  \A t \in Tabs : \A i \in 1..intent[t] :
    Cardinality({d \in DOMAIN decisions :
                   decisions[d].by = t /\ decisions[d].intent = i}) <= 1 + cuts[t]

=============================================================================
