# TrustSphere RiskOps Copilot: a TLA+ verification project

TLA+ models of the TrustSphere backend (`src/trustsphere`), TLC runs on small
instances, and TLAPS proofs for every value of the constants. Paths below are
relative to the repository.

## 1. The system

A FastAPI service (`api/app.py`) scores alerts, assembles case files with
evidence, drafts explanations, records human decisions and runs review workflows
on SAP Build Process Automation (SBPA). A Streamlit cockpit is its client.

The endpoints are plain `def` functions, so FastAPI runs each request on a thread
of its pool; all threads share one `Repository` (`api/deps.py` caches it). There
are two: `LocalSQLiteRepository` (one `sqlite3` connection shared by all
threads, each write in `with self.conn`) and `HanaRepository` (autocommit, one
transaction per statement). No endpoint spans a transaction over several
repository calls: an endpoint that makes three writes commits three times, other
requests run in between, and an exception after the first write leaves it there.
That is the source of nearly every hard behaviour here.

### Inventory

| Component | State | Operations | What makes it correct | Status |
|---|---|---|---|---|
| Decisions API (`routers/cases.py` 141-229) | CASES.STATUS, DECISIONS, AUDIT_EVENTS | `create_decision`, lists | only attested decisions move a case; an answered decision is not overwritten by an older one; the trail accounts for the decisions | modelled |
| Idempotency keys (`services/idempotency.py`) | IDEMPOTENCY_KEYS | lookup, store | replay is exact; a body mismatch is 409; work done twice is not reported as success twice | modelled |
| Review workflow API (`routers/cases.py` 236-402) | WORKFLOW_INSTANCES, AUDIT_EVENTS | start, PATCH, sync | rows stay whole; no lost update; an approval was reported; a failed trigger falls back | modelled |
| Audit trail (`services/audit.py`) | AUDIT_EVENTS | `record_event`, list | every state-changing write has its event; append-only | modelled (in the module of each writer) |
| SAP Build client (`workflows/sbpa.py`) | token, remote instances | token, start, get, `map_outcome` | never claims an outcome SBPA did not report | partly (what sync and start observe, `map_outcome`) |
| SQLite repository (`persistence/local.py`) | one connection, all tables | every statement | an answered write is stored; a call is one transaction | modelled |
| HANA repository (`persistence/hana.py`) | all tables | every statement | multi-statement writes leave no mixed row; a failed lookup is noted | partly (keys, citations, scores, predictions, lookups) |
| Case creation, files, drafts (`routers/cases.py` 36-135) | CASES, CASE_FILES, CITATIONS, CASE_DRAFTS | create-or-get, assemble, draft | one case per alert; draft versions count up; an audited file is whole; the event names the draft | modelled |
| Alert scoring and queue (`routers/alerts.py`, `scoring/`, `config/scoring_policy.yaml`) | PRIORITY_SCORES, ALERT_FACTORS | score, score all, alert, queue | worse data never ranks an alert lower; what was not known is declared; one score per alert; a batch leaves no alert out | modelled |
| SLA prediction (`prediction/`) | PREDICTIVE_SCORES | predict, latest | worse data never gains time | partly (the heuristic; not the fitted model) |
| Explanations and generation (`routers/explanations.py`, `generation/`) | CASE_DRAFTS | choice of generator, recipes and retries, fallback, validation | what is shown as supported stands on the case file; a failing AI Core does not fail the request; the draft is audited | modelled |
| Evidence retrieval (`retrieval/`) | none (reads) | SQL, graph, vector | every item is cited once, nothing else is | modelled |
| Assistant (`assistant/`) | the conversation | rounds, tools | the history stays one the API accepts; changes are told; a turn ends | modelled |
| Cockpit (`streamlit_app/`) | session state, open pages | pages, API client | a decision and its workflow transition stay in step; revisions build on the latest draft; a repeat needs a reason | partly (review page, its client, the assistant's page) |
| Domain types, settings, wiring | none | - | - | not modelled: declarations |
| Scripts, mock API | none | - | - | not modelled: not part of the service |

How they interact: the cockpit and the assistant's tools call the API over HTTP; the
API's handlers call the repository, the scoring engine, the retrievers, the
generators, SBPA; all of them meet in the tables. `CaseDecisions`, `ReviewWorkflow`,
`CaseRecords`, `ScoreStore` take the handlers apart over the tables they share,
`ReviewPage` and `AssistantLoop` compose the clients with whole requests of them,
`SqliteConnection` says what of the tables' atomicity holds on SQLite.

Hard behaviours, by kind: interleaving of requests between their commits; lost
updates by read-modify-write handlers; an exception or the end of the process
between two commits; client retries that race the first handler; a sync that
waits for SBPA while others write; transactions of different threads on one
SQLite connection; check-then-insert races; delete-and-insert over tables without
a key; pages and answers that are stale; a chain of retries and fallbacks; a model
that may answer anything. `PROJECT.json` lists each hazard at its line with the
properties that cover it.

## 2. Modules

| Module | Models | Composes / refines |
|---|---|---|
| `CaseDecisions` | `create_decision`, call by call | - |
| `ExactlyOnce` | abstract: what `docs/api-contract.md` (Idempotency) promises | - |
| `Idempotency` | the five keyed endpoints: lookup, work, store, reply | implements `ExactlyOnce` |
| `ReviewWorkflow` | start, PATCH, sync over the rows of one case and SBPA | - |
| `CaseRecords` | create-or-get, assemble, draft, explanation over the records of a case | - |
| `SqliteConnection` | the threads' writes on the one `sqlite3` connection | what the others assume of SQLite |
| `ScoreStore` | score, score-all, predict, alert and queue over keyless tables, statement by statement | - |
| `Scoring` | lookups of both backends, the policy, the engine, the heuristic, the order of the queue | what a save of `ScoreStore` saves |
| `Grounding` | retrieval, citations, generators with their retries, validation | what a file and a draft of `CaseRecords` hold |
| `AssistantLoop` | the assistant's rounds, its tools, the history of its page | its tools are requests of the modules above |
| `ReviewPage` | the review page in several tabs, with its client | requests of `CaseDecisions`, `ReviewWorkflow`, `CaseRecords` as single steps |
| `*Proofs` | theorems about the module of that name; `ScoringProofs` also about `ScoreStore` | extends it |
| `CockpitProofs` | theorems about `AssistantLoop` and `ReviewPage` | extends both |
| `MC*` | small instances for TLC | extends it |

In the first six, a step is one repository call (in `SqliteConnection` and `ScoreStore`,
one statement) with the code around it; `pc[r]` is where the handler of request `r`
stands, and a request is served once. Variables marked "history" in a module are not in
the program; they remember what a property needs.

**CaseDecisions.** `Receive` is the code up to the construction of `Decision`
(404/422 included; a case always exists, since none is ever deleted and the ids
come from `Cases`), then `SaveDecision`, `UpdateCaseStatus`, `RecordEvent` are the
three commits, in the order of the source. `Fail` is an exception in any of them or
the end of the process. The row keeps `attested` as the code does, so the
attestation can be asked of the stored record. A decision's `at` is the UTC clock,
assumed strictly increasing; `list_decisions` orders by it.

**Idempotency.** `Start`, `Replay` and `Conflict` are the three results of
`check_idempotency`; `Write` is one of the writes of the endpoint (which ones, is in
the other modules); `Store` is `store_idempotent_response`: INSERT OR REPLACE on
SQLite, a plain INSERT on HANA that a recorded key makes fail (500, the work being
done). `deployment.overlap` says whether a client may repeat a request while the
first handler still runs; a client that waits for its answer, or for longer
than the handler takes, does not.
`Implements ExactlyOnce`: `rows` is the record, a request in flight is "waiting".

**ReviewWorkflow.** A handler's `plan` is the row it read (`seen`) and the row it will
write (`new`); `Save` writes the whole row, as `save_workflow_instance` does. `Latest` is
the row with the greatest STARTED_AT. `Patched` keeps the two tests of the code apart: an
empty `external_instance_id` is dropped by `or` and still counts as passed by `is None`. A
sync first reads (`SyncRead`), then asks SBPA (`SyncAnswered`, `SyncUnavailable`), then
writes. A completed instance has a `Context`: where a boolean about approval stands in it,
if anywhere, and which of the words that `map_outcome` looks for occur; `MapOutcome` is
that search, in its order, and `Readings` adds IN_REVIEW for a completed instance whose
context cannot be read. `StartReview` includes the trigger: with a process definition
configured, the payload refers to an unbound name and the request ends in 500. The second
disjunct stays possible then, since the key file is looked up anew on every call.
`Restart` ends all handlers and may change the settings.

**CaseRecords.** The case id is a function of the alert id, so a case is named by its
alert, and `cases` keeps the request that made it (`Earlier` for one that was there
before). `SelectCase`, `InsertCase`, `ReadCase` are the three transactions of
`get_or_create_case`; `ComputeVersion`, `InsertDraft`, `ReadDraft` those of
`save_draft`; an insert that finds its primary key taken ends in 500
("conflict"). `Assemble` reads the evidence and stamps the file, `SaveFile`,
`SaveCitations` and `RecordAssembly` store it: on HANA `SaveCitations` is repeated,
one transaction per citation. `before[r]` remembers who was answered when `r`
arrived, which lets a property tell a race from a sequence. The lookup of the case
belongs to the step after it, because cases are never deleted.

**SqliteConnection.** Each call that writes has a `program`, the keys of the rows it
inserts. Python's `sqlite3` looks whether a transaction is open (`Look`), and releases
the interpreter lock for `BEGIN`, each statement, `COMMIT` and `ROLLBACK`
(`Begin`, `Execute`, `Commit`, `Rollback`); the `with` block looks again before it
commits or rolls back. Steps of the threads interleave between any two of these.
`met[c]` remembers the calls that ran while `c` did. The library itself is
external: modelled from how the repository uses it.

**ScoreStore.** `save_score` is `DeleteScore`, `InsertScore`, `DeleteFactors`,
`InsertFactor` (once per factor), `EndBlock`. `db` is what the connection sees,
`committed` what a rollback leaves: on HANA every statement is committed at once, on
SQLite the end of any block commits all of the connection and a failure in any block, at
its first statement too (`FailInBlock`), rolls all of it back. A row names the request
that wrote it. Neither table has a primary key, which is why two saves can leave two
scores, and why `mixed` and `disturbed` remember which saves another block reached into.
`ReadPage` takes any order of alerts that ORDER BY CREATED_AT allows, anew for each page.
`ReadQueue` is a page of the queue, as long as LIMIT and OFFSET make it (natural numbers:
negative ones are left out). What RISK_ALERTS holds does not change while the service
runs: nothing in the service writes it.

**Scoring.** One alert, the rows about it (`world`) changing from outside (`Change`),
scored again and again (`Rescore`). `LocalInputs`, `HanaInputs` and the two
complexities are the lookups of the two repositories, separate programs in the code; on
HANA each of the further lookups (`Lookups`) may fail. `Urgency`, `TierOf`, `Override`,
`ScoreAlert` are the engine over the numbers of the policy file; `Margin` is the deadline
less the heuristic's expectation; `Ahead` is the ORDER BY of the queue. Hundredths of a
point and five-hundredths of an hour make the code's weights and roundings exact in
integers. Whole hours, whole risk scores and whole amounts are assumed.

**Grounding.** Evidence is counted: an item is the i-th of its section. `CaseFile` is what
the three retrievers find and cite, with `failed` the lookups that may raise by themselves
on HANA and are caught there. `Choose`, `Discover`, `Post`, `Parse` are `get_generator`
and the AI Core generator with its recipes (`path`: the saved prompt, an inline one with a
schema, one without) and its one retry of a busy service; `Raise` is the exception
handling of generator and endpoint. A sentence is what it cites, its numbers but for those
that stand free in it and in the case file (`Numbers`, after the neighbours `_NUM_RE`
allows a number to have), and its kind; `Written(f)` is anything the model may write.
`Fallback` (`Stated`, `CiteByLocator`) and `Validate` end the request.

**AssistantLoop.** `Ask` copies the page's history, `Complete` is one completion (any
calls, known or not, also in the last round, which offers no tools), `Execute` is one
tool call with all the ways its HTTP calls may end (`Outcomes`: an error may come after any
of the changes, the last one included). A turn dies of a completion that fails
(`CompletionFails`) or of a tool that raises (`ToolRaises`). `Show` writes the history
back, if the page can list the arguments of every call (`Showable`); `Lose` is the run that
ends before: a dead turn, arguments that are no object, a click during the turn. `effects`
is what the tools have changed at the API.

**ReviewPage.** Streamlit runs a page's script from the top at every click. `LoadCase`,
`LoadDraft` are the reads of a run; then the clicked button acts, if the script still
shows it: `ActAndRerun`, `Decide` (whose workflow transition is a second request).
`GiveUp` is the client's timeout, after which the API may yet carry out the request
(`ServeLate`); `ClickAgain` stops a run at its next call. `shown`, `base`, `seen` are what
the tab shows, which may be stale in any way. How Streamlit reruns, and that a text box
over a new draft is a new box, is modelled from how the pages use it. Live SBPA workflows
and the sync button are left to `ReviewWorkflow`. The run's reads of alert and audit
trail, which nothing it does depends on, are left out.

## 3. Runs

| Run | Bounds | Shows |
|---|---|---|
| `case_decisions` | 2 cases, 3 requests | status, decisions and trail stay accountable to each other in every interleaving and failure |
| `idempotency` | 2 keys, 2 bodies, 3 requests, 2 writes | the handlers implement `ExactlyOnce` on HANA with any client and on SQLite with a client that waits |
| `idempotency_sqlite_overlap` | same | violation: on SQLite overlapping requests of a key get different answers |
| `review_workflow` | 1 case, 4 requests of 6 bodies, 1 SBPA instance | rows coherent and accounted for, an approval reported or read where one is spoken of, only stale writes lose |
| `workflow_outcome` | as `review_workflow` | violation: a nested `approved: false` is stored as an approval |
| `case_records` | 1 alert, 4 requests of 5 kinds, 2 citations, both backends | creates agree, versions are dense, audited files are whole, nobody reads less than was there, only races are refused |
| `sqlite_connection` | 4 calls of 1 or 2 rows over 3 keys | a call that met no other is one transaction; a row is lost only by another's rollback |
| `score_store` | 3 requests, 4 alerts (one closed, two of one time, one unknown), 2 factors, batch pages of 1, queue pages of 1 and 2, 1 failure, both backends | a save alone is whole, calm readers see one save, old rows go, a batch misses ties only, every request ends |
| `scoring` | 3 worlds, 2 changes of any field, 2 failed lookups, both backends | worse data never ranks lower or gains time, the backends agree, failed lookups are declared |
| `grounding` | 4 worlds, every failing lookup, every setup, one sentence of each kind | evidence is traceable, what is supported stands on the file, explanations are answered |
| `assistant_loop` | 2 questions, 1 round with tools and the last one, 2 calls of 3 kinds in each | the history is answered, changes are told, turns end |
| `review_page` | 2 tabs, 3 clicks of 7 kinds, 2 generated drafts, 1 cut in all | workflow and decision in step, revisions over the latest draft, repeats only after cuts |

Why the bounds are enough. Three decisions give two that overlap and one before or
after, the least that can show a superseded status come back; two cases show that
one does not disturb the other. For keys, three requests are two that race and one
that replays. For workflows, four requests are a start, two read-modify-write
handlers of its row and one more start (so that the latest row changes) or a third
handler. Conflicts are between two handlers of one row; a fourth adds no new pair.
For case records, four requests are a create, an assembly and two writers that race,
or three drafts of which two compute the same version; two citations give a file
with some of them. Cases do not share rows, so one alert is enough. On the connection,
three calls are one that writes, one whose statement raises and one that has
the key it wants; a fourth comes after.

In `score_store`, two saves of one alert under a reader are the least that can mix; two
factors give a save cut short between them; with pages of one alert, the two alerts of one
time may change places between pages, and the closed one is scored and not queued. A queue
of two rows is read by its first page of one and by a page that begins at the second. The
six sets of requests keep those that touch no common row apart. In `scoring`, two changes
reach any combination of two fields, on both sides of every limit the policy draws between
them (the values sit on the limits); a property of two scorings needs no third. In
`grounding`, worlds with all there is, with passages beyond the embedded ones, with
nothing to find and with no alert exercise each branch of the retrievers; sentences are
validated one by one, so one is enough. In `assistant_loop`, two calls in a round give one
that is answered while the next raises, two rounds a last one with calls after one with
calls, and two questions a history that is used. A refused call differs from one that
cannot be shown only by being kept, and is left to the proofs. In `review_page`, three
clicks are a decision, its repetition and something in between from the other tab. All
safety properties of these runs are also proved for any size of the bounds (section 4).

All runs but `scoring` disable the deadlock check: every request is served once, a bounded
number of questions or clicks is made, and a state in which all are answered is the end
of the instance.

**Fairness.** Three modules state it, each for a liveness property. `ScoreStore`: weak
fairness of the steps of each request once it is received, since a thread of the pool runs
its handler to the end; neither clients nor exceptions are fair, and `RequestsEnd` says in
particular that score-all comes to an empty page. `Grounding`: weak fairness of the
handler, since every HTTP call to AI Core has a timeout; which of its outcomes happens is
open, so `ExplanationsAreAnswered` rests on the chain of retries being finite.
`AssistantLoop`: weak fairness of the turn, for the same reasons; the model may call tools
in every round, the last one included, so `TurnsEnd` rests on the cap of the loop
(MAX_ITERATIONS + 1 rounds) and on every call being executed once. Elsewhere there is
none: the client may never send, a thread may be cut short anywhere, and nothing in the
code retries, so nothing must eventually happen except an answer, which `Fail` can always
be.

### What disagrees with the documentation

Shown by a run:

1. Overlapping requests on SQLite (`idempotency_sqlite_overlap`): the documentation
   promises the original response byte for byte; the lookup does not reserve the key.
2. A completed SAP Build context with `approved: false` below its top level is stored as
   APPROVED (`workflow_outcome`); `docs/api-contract.md:189-190` and `map_outcome` promise
   IN_REVIEW rather than a guess. Only a boolean at the top level counts as one.

Seen while modelling; the passing properties are stated so as to hold beside them:

- `routers/cases.py:258-259` "any failure keeps the honest local fallback rather than failing
  the request": with a process definition configured, the payload of the trigger names the
  unbound variable `case` (270), and every start ends in 500 (`StartReview`).
- `generation/validation.py:4-5` "every number it wrote must exist somewhere in the CaseFile":
  one that a letter, a hyphen or a slash touches is not looked for, and the sentence stays
  supported (`AnswersStandByTheFile` allows "glued" numbers for that).
- `routers/cases.py:394`: a blank `external_instance_id` flips `is_fallback` without an
  instance (`Patched` in `ReviewWorkflow`).
- `routers/cases.py:373`: a PATCH answered 200 can be undone by one that read the row
  before it (`OnlyStaleWritesLose` says that nothing else can undo it).
- "Every write path appends an AUDIT_EVENTS row": of two drafts saved at the same time,
  both events can name the later one (`persistence/local.py:577`; `LoneDraftsAreAudited`).
- "Full append-only audit trail": on SQLite a thread's rollback discards what another
  has written in the open transaction and answered as stored (`persistence/local.py:71`;
  `LossNeedsARollback`).
- `generation/fallback.py:29-39` cites a fact by citations whose locator holds the id of
  the alert, company or transaction, but locators name tables: no fact the fallback states
  is supported (`CiteByLocator`); the unit tests have locators with ids.
- `generation/validation.py:6` "Failures don't block the result": a sentence that is
  not text, possible on the recipe without a schema, ends the request in 500. So does
  `get_generator()` outside the `try` when AI Core is demanded without credentials.
- `assistant/tools.py:106-107` promises never an exception; arguments that are JSON but
  no object raise, and the turn dies (`ToolRaises`).
- A turn of the assistant whose tool calls cannot be listed (arguments that are no object for
  an unknown tool, `pages/5_Assistant.py:97`), or that a click interrupts, leaves no
  trace in the history, whatever its tools have changed (`Lose`; `ChangesAreTold` excepts it).
- `assistant/loop.py:116-117` "shouldn't happen": if the model calls tools in the last
  round, they are executed and the history ends with their answers; the text shown is not
  in it.
- `config/scoring_policy.yaml`: a country that is missing with tier LOW counts 0, not the
  default; a deadline passed by less than an hour counts 90, not 100; counterparties are
  not screened against sanctions; related alerts are counted by company, not through
  CASE_ALERTS. A forced tier of HIGH lowers an alert whose score makes it CRITICAL
  (it still moves up, to the group of the overrides).
- `docs/api-contract.md:54-57` has complexity as the last tie-break of the queue; the
  SQL does not.
- On HANA, failed lookups of owners and of KYC change the complexity without a caveat, and
  so does a missing company the restriction (`FailedLookupsAreDeclared` speaks of score,
  tier and override).
- score-all pages by OFFSET under an order with ties: alerts created at the same time can be
  missed (`BatchMissesOnlyTies`).
- `domain/cases.py:4-6`: an empty policy context or timeline is not listed as missing.

Worth knowing, and no contradiction of a document: overlapping decisions may leave
the case status on a different one of them than the history lists last
(`StatusNotSuperseded` bounds how stale it can be, `RecordsAgree` needs no
overlap); a decision cut short before its event is on record without one; two scorings
of one alert on HANA that overlap may leave two scores, until the next lone scoring mends
them; a person who clicks again records a decision twice, because every click makes its
own key (`RepeatsFollowCuts`).

## 4. Proofs

Eight modules hold the proofs about ten; `PROJECT.json` names the property each theorem
states. Each `*Proofs` module proves `Init => IInv`, `IInv /\ [Next]_vars => IInv'` (one
lemma per action, one step per conjunct) and `IInv => Inv`, and combines them with PTL.
Where a property needs much more than the others of its module, its invariant is proved
separately, on top of the first. The strengthenings say what a handler in the middle has
done:

- `CaseDecisionsProofs`: an accepted request has an acceptable body
  (`AcceptedInv`); from "setStatus" on its decision is stored, with the content of
  its body, and every stored one belongs to such a request (`StoredInv`); the
  status a case shows is the one its `setter` asks for (`SetterInv`), and the
  setter of an answered request's case was not answered before that request arrived
  (`OrderInv`); events name requests past their last call (`TrailInv`).
  Without these, none of the properties is inductive: they speak of finished
  requests only. `RecordsTellOneStory` (`RecordsAgree`) needs the order in time as well: a
  decision sent after another was answered is dated later (`ClockInv`), and no event
  follows that of a request it was answered before (`TrailOrderInv`); so where requests
  did not overlap, last decision, last event and status are one request's.
- `IdempotencyProofs`: how much of its work a request has done by where it is
  (`WorkInv`), what a row stands for (`RowInv`), what a reply is about to
  say (`ReplyInv`), what was answered (`AnswerInv`), and, where clients wait, that
  one handler of a key runs at a time (`SerialInv`). Every theorem assumes
  `RowsAreKept`: no deployment both replaces rows and lets requests of a key
  overlap. The run `idempotency_sqlite_overlap` shows that the assumption is needed.
- `ReviewWorkflowProofs`: what a plan may contain at each point (`PlanInv`), rows
  are coherent (`FlowInv`), the latest row exists (`LatestInv`), and each row is
  accounted for (`AccountInv`). `ApprovalNeedsReport` (`ApprovalIsGrounded`) speaks of the
  row only; the invariant follows the plan that becomes it, from the moment SBPA answered
  (`GroundInv`), and uses that a completed instance keeps its context and that `MapOutcome`
  is APPROVED only for a context that speaks of approval. `SerialTrail`
  (`TrailRetells`) needs what is true while a lone handler is under way: it works from the
  current row, and the events lead up to the row it read (`SerialInv`).
- `CaseRecordsProofs`: which endpoint a call belongs to (`OpInv`), what a create has
  found (`CaseInv`), how much of a file is stored by where its assembly is
  (`FileInv`, and `AuditInv` for after its event), that the maxima the code selects
  exist (`LatestInv`, `MaxInv`), that a computed version follows one that is there
  (`DraftInv`, without which a gap could not be excluded), and that whoever took a
  key had not been answered when the refused request came (`RaceInv`). What handlers read
  back is a second invariant, `ReadInv`: the file in hand is as late as any assembly
  answered before (`FreshFileInv`), the computed version passes every draft answered before
  (`PassedInv`), what is read after the insert is one's own draft or a later one
  (`GivenDraftInv`), and the events name what was given (`DraftEventInv`). `FreshReads`
  (`ReadsAreFresh`) is then monotonicity of the tables; `AuditedDrafts`
  (`LoneDraftsAreAudited`) uses that a draft later than one's own is of a request met.
- `SqliteConnectionProofs`: which statement a call has come to (`NextInv`); that an
  open transaction has a running call and holds rows of running calls only
  (`TxInv`); that calls running together have met (`MetInv`); that what a call has
  written is there unless one it met rolled back (`LossInv`); that a call alone has
  the transaction for itself (`AloneInv`) and left all or nothing (`EndedInv`).
- `ScoringProofs`, on `Scoring`: the invariant (`ScoresInv`) says only that the stored
  score is the `Assess` of some rows of the right type; the argument is about the functions. Each factor
  is monotone in the fields it is made of (`RiskierTypology`, `RiskierEntity`,
  `RiskierJurisdiction`, `RiskierSla`, `RiskierMateriality`; the piecewise curves through
  `HoursScoreIs` and `RatioScoreIs`), so is their weighted sum (`RiskierUrgency`); riskier rows
  trigger no fewer overrides (`RiskierTriggers`), and an earlier override forces no lower
  tier (`OverrideIs`); together the place in the queue (`RiskierRank`). Counts only grow, so
  the expected hours do (`RiskierExpected`) and the margin shrinks (`RiskierMargin`).
  `RiskierRanksHigher` is then an action property from the invariant.
- `ScoringProofs`, on `ScoreStore`: `StoreInv` has the types, which kinds of request come
  to a statement, and that HANA has nothing uncommitted. On it stand four invariants, one
  for each property. `LoneSaves`: blocks that could reach into each other are marked as
  mixed (`MeetInv`); a save that met none has done exactly the statements before its own
  (`ProgressInv`); and what a rollback, by whichever
  statement of whichever block, would leave of an alert is one whole save, unless its last
  save was disturbed or is going on (`CommittedInv`, which is what makes the
  property survive the rollback of an unrelated block on SQLite). `StaleScoresGo`: a
  request that has saved an alert, or is past its deletes, left no row of a request
  answered before it was sent, neither in the tables nor in what a rollback brings back
  (`GoneInv`). `CalmReaders`: what an undisturbed reader has read so far is one save's, and
  still there to be read the rest of, and a page is as long as what is in the tables allows
  until that is counted (`CalmInv`). `BatchIsComplete`: an alert created at a
  time of its own has the same place, the number of the older ones, in every listing
  (`PlaceOfAlert`); those whose place the pages have passed are scored or left in the page
  in hand (`BatchInv`), and an empty page has passed all places.
- `GroundingProofs`: traceability is a fact about `CaseFile` (`FactsAreCited`,
  `EdgesAreCited`, `PassagesAreCited`, and `CitedIsFiled` for the other direction); the
  invariant (`FileInv`) remembers that the file is one of the rows. An answer is what `Validated`
  makes of what was written: supported only by citations of the file, and without a number
  it sees and does not find (`ValidatedIsGrounded`), and the citations of a file name its
  items (`CitedIsFiled`). For the fallback the converse is needed: what it writes is
  remembered until it is validated (`AnswerInv`), its relationships and passages have their
  citations in the file (`FiledIsCited`), and so they stay supported
  (`FallbackIsSupported`).
- `CockpitProofs`, on `AssistantLoop`: while a round is executed, each call is answered at
  its place or waits for it (`Awaiting`, in `AnsweredInv`); the rounds stay
  within the cap, although the last one may have calls (`LoopInv`), whose answers are then
  the last messages. Every change is told in the messages of the turn, or of a turn that is
  over (`ToldInv`); that no message denies one needs that a call has an id of its own: it
  says where its answer will stand, so that what is executed next has never been answered
  before (`PastInv`).
- `CockpitProofs`, on `ReviewPage`: which click is behind a call (`CallInv`). As long as
  runs neither overlap nor are cut short, one script runs and has loaded what is there
  (`CalmInv`); the workflow is out of step only between a decision and its transition
  (`StepInv`, `FlowInv`), whence `WorkflowInStep`; and `RevisionsOverLatest` follows from
  the script's draft being the last one. `RepeatsAreCuts` counts (`RepeatInv`): the records
  of a decision, the requests of it that may yet be carried out, the one the script is to
  send and the click that waits are together at most one more than the runs cut short.

Assumptions on constants are the named ASSUMEs of the modules: sentinels differ from
values, an endpoint makes at least one write, the bounds are numbers, rows have the types of
their columns, RISK_ALERTS holds finitely many alerts.

Some theorems state what no run lists, because a run's properties are kept to the hard
ones: type correctness of the modules (`ReviewWorkflow`'s is also listed in a run),
`AppendOnly` (decisions), `AddOnly` (case records), `Durability` (the connection).

Model-checked only: the three liveness properties (`RequestsEnd`,
`ExplanationsAreAnswered`, `TurnsEnd`), which need ENABLED and fairness, and so are out of
the prover's reach. Every safety and action property of a passing run has its theorem. Of
the properties shown violated, the replay of `idempotency_sqlite_overlap` is proved for
deployments where `RowsAreKept`; the others are false of the code as it is.

## 5. Abstractions

- A repository call is one atomic transaction. On HANA this holds for single
  statements; on SQLite it holds for calls that do not overlap on the
  shared connection (theorem `Atomicity` of `SqliteConnectionProofs`). When they do,
  an answered row can go (`LossNeedsARollback`), and then the other
  modules' properties hold of SQLite only as far as no such rollback happens. That
  a thread reads another's uncommitted rows is not modelled.
- Ids made by `uuid4` are distinct; a row is named by the request that made it.
- The clock is strictly increasing. Rows of equal time have no defined order in
  the SQL.
- Payloads, comments, actors and wording are left out; a decision is its case, type
  and attestation.
- A request of `ReviewPage` and a tool call of `AssistantLoop` is one step: the modules of
  the endpoints take them apart. Two overlapping decisions, say, are those of `CaseDecisions`.
- The number of factors, the page size and MAX_ITERATIONS are constants: 5, 500 and 8 in the
  code, smaller in the runs, any number in the proofs that speak of them.
- A box with the text of a draft is told from a newer one by the draft's version; Streamlit
  compares texts, so two equal drafts, as the fallback may write, keep what was typed.
- `ReadsAreFresh` says of an explanation's case file only where the draft is not saved: the
  draft, when there is one, is what the request was given last.
- A SAP Build context holds one kind of boolean about approval; with both a nested one and
  one at the top level, the latter decides as in the code. Keys and values are searched alike.
- The native search's ranking and the local one are any choice of passages; the order of
  evidence in a file is left out, so the fallback's "first three" are any three.
- Sentences, reasons, caveats and advisories are what they rest on, not their words.

## 6. Not modelled

- Tokens, URLs and the service key of SBPA and AI Core: I/O.
- The fitted model (`prediction/local_ml.py`) and `features`: numbers learnt from data.
- The queue's and the case's pages, charts, theme: they show what they read.
- HANA's connection handling, column checks and SQL text.
- Domain types, settings, application wiring: declarations; settings that change control
  are constants or variables of the modules (`Backends`, `mode`, `sbpa`).
- Scripts (data preparation, seeding, demo checks) and the mock API: not part of the service.
