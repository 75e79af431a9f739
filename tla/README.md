# Zhigu: a verification project

Zhigu is an investment-research product: a Go server (`app/server`), two Python
executors (`app/research-service`, `app/futures-service`), PostgreSQL and a Vue client.
This directory holds TLA+ models of its stateful parts, the TLC instances that check
them and TLAPS proofs about them. Section 3 relates each module to the code, section 4
says what is checked, section 6 what is proved, and section 7 where the code does not do
what its documents or comments say.

## 1. Inventory

Paths are relative to `src/app/server/service` unless they start with `app/`.

| Component | State | Operations | What makes it hard | What makes it correct |
|---|---|---|---|---|
| Research run lifecycle: `finance/run_state.go`, `worker.go`, `workflow.go`, `nodes.go`, part of `research_service.go` | a row of `finance_research_runs` (status, stage, version, lease, deadline, deleted_at), its tasks, tokens and report; the local variables of each process | `CreateResearch`, `CancelResearch`, `DeleteResearch`, `Tick` (queue timeouts, reaping, convergence, retention, claims), `Orchestrator.Run` (freeze, research, synthesize, verify, publish), heartbeat, role goroutines | every statement is its own transaction; five kinds of process read, then write; leases expire; the executor is remote; the server may stop between any two statements | closed runs stay closed, one writer per run, a report matches its run, cancellations and deletions are carried out |
| Research executor: `app/research-service/app/jobs.py`, `main.py`, `worker_ops.py` | SQLite table `tasks` (status, payload, result, acked), one thread per task, a semaphore of four, the quiesce epoch | submit, get, cancel, ack, purge, restart, quiesce begin/status/end | handlers run in a thread pool, task threads outlive a cancellation, a restart loses the threads | a task ends once, a canceled task stays canceled, a purged payload stays purged, a quiesced worker writes nothing |
| Tokens and tool grants: `finance/grants.go`, `evidence_service.go` | token rows with purpose, expiry and revocation; evidence rows | issue, authorise, revoke; register evidence | issue races revocation; evidence is inserted after an unlocked read | no evidence for a closed run |
| Research budget and model calls: `finance/budget_service.go`, `budget_memory.go`, `http_counted.go`, `model_proxy.go` | `finance_usage_ledger` | reserve, reconcile | concurrent reservations, lost answers, retries with the same request id | limits are never exceeded, an unknown outcome stays charged |
| Admission: drafts and `CreateResearch` in `finance/research_service.go` | drafts, idempotency keys, the scheduler row | parse, confirm, create | double submission, one active run per owner, two in all | the limits hold, a repeated request gets the first answer |
| Intel queue: `intel/worker.go`, `budget.go` | jobs with lease epochs, an outbox, usage rows | create, claim, complete, reserve, settle; claim and complete a delivery | leases expire under a running worker and nothing renews them; six statements of a job have no transaction around them | every call paid, the latest claim decides, every job ends, every notification delivered |
| Intel replay: `intel/service.go`, `replay.go`, `queries.go` | namespaces (generation, replay version), events, notifications, idempotency rows | replay step, reset, mute, subscribe | reset against running jobs, idempotency take-over after two minutes | no row of an old generation is visible |
| Futures runs: `futures/domain_runs.go`, `scheduler.go`, `runs.go`, `worker_client.go` | runs, worker tasks | create, claim, watchdog, cancel, delete | the same questions as for research runs, with another scheduler | at most two running, every run ends |
| Futures outbox, grants, budget: `futures/outbox.go`, `grants.go`, `budget.go` | outbox rows, grants, ledgers | enqueue, claim, retry, dead-letter; issue, consume; reserve, settle | retries and lost answers | no event lost before it is dead, no double use |
| Futures objects: `futures/domain_*.go`, `verifier.go`, `maintenance.go` | hypotheses and their revisions, watch lists, documents | create, revise, verify, delete | optimistic versions, cascades | revisions only grow, deletion is complete |
| Workbench: `workbench/hub.go`, `drafts.go`, `versions.go`, `strategy/live.go` | drafts with revisions, generations, saved versions, backtest runs and the slots of each user | generate, edit, save; start, cancel and execute a backtest; delete | a goroutine per generation and per backtest writes statuses without asking for the one it replaces | nothing is overwritten unseen; a slot per execution |
| Strategy market: `strategy_market/*.go` | items, versions, evidence, copies, idempotency rows | create, validate, publish, withdraw, import and review evidence, copy | answers get lost and requests are repeated | a request is done once and answered as it was |
| Strategy language, indicators, backtest: `strategy`, `indicators`, `backtest` | the books of a simulation; otherwise pure functions | parse, compile, evaluate, simulate | warm-up and lags, lots and settlement, corporate actions | a rule says what the editor shows; cash is what the fills made of it |
| Market data: `market/*.go` | snapshots and their bar rows, the trading calendar | quote, history, series | the day's bar still forms, a snapshot's rows are written after it | a final bar is final |
| Sessions and write barrier: `httpx/*.go` | password hashes, session rows, requests in flight, the epoch of a backup | login, reset, log out; begin and end a backup | a reset against a login in flight, requests in flight against a backup, restarts | an old password opens nothing; no write during a backup |
| Report generation: `finance/nodes.go`, `verdict.go`, `publish_gate.go` | the report under construction | compose, repair, judge, publish | several gates judge the same claims | every published claim is grounded |
| Model configuration and policy: `finance/config_service.go` | configuration versions, of which one is active; the policy | save, test, activate, patch | several statements without a transaction | a served model was tested |
| Documents and questions: `finance/document_service.go`, `web_document.go`, `questions.go` | files and rows by owner and content | upload, import, ask | file and row are two stores | a row has its file, a span its text |
| Start-up: `initialize/*.go`, `main.go` | the schema and its ledger | plan, apply and register migrations | servers of several releases on legacy or partial databases | a server serves the schema it was built for |
| Web client: `app/web` | view state | | | not modelled |

How the parts meet: the Go server is one process with many goroutines over one PostgreSQL
database. User requests, the worker of the research side (`Tick`, every two seconds) and
one orchestrator per claimed run share the row of a run and nothing else; what holds them
together is the row's `version`, its lease and its status. The server calls the Python
executor over HTTP (submit, get, cancel, ack, purge), and the executor calls back for tools
and models under tokens that the server issued. The intel queue has the same shape (a
table, a lease with an epoch, a paid call in the middle) with another fence. A backup
quiesces the server and the executors through an epoch each of them acknowledges.

## 2. Plan and state

| Step | Modules | State |
|---|---|---|
| 1 | `ResearchRun`, `ResearchRunInv`, `ResearchRunProofs`, `ResearchRunSafety` | checked; all safety proved, and that its `exec` is a `TaskBoard` |
| 2 | `TaskBoard` (abstract), `Executor` | checked; safety and the refinement proved (`PlatformProofs`) |
| 3 | `IntelQueue` | checked; all safety proved (`IntelProofs`) |
| 4 | `IntelSpace`, `ListPages`, `IntelReplay` | checked; the first two proved (`IntelProofs`) |
| 5 | `ResearchAdmission`, `ResearchAdmissionProofs` | checked; all safety proved |
| 6 | `FinanceBudget`, `ModelCalls`, `FuturesBudget` | checked; proved (`FinanceProofs`, `FuturesProofs`) |
| 7 | `ToolCalls`, `FinanceConfig`, `ReportGate`, `ResearchDocuments`, `DocumentSpans` | checked; all but `ResearchDocuments`, which has no safety to prove, proved (`FinanceProofs`) |
| 8 | `FuturesGrants`, `FuturesHypotheses`, `FuturesRelease`, `FuturesDrafts`, `FuturesEvidence`, `FuturesRuns` | checked; safety proved (`FuturesProofs`, the last in `PlatformProofs`), liveness checked |
| 9 | `StrategyDrafts`, `StrategyBacktests`, `BacktestLedger`, `StrategyMarket`, `MarketData`, `StrategyRules` | checked; all but the last proved (`StrategyProofs`) |
| 10 | `Sessions`, `WriteBarrier`, `Migrations` | checked; proved (`PlatformProofs`) |

What would come next: a proof that the replay of `IntelReplay` stores what an evaluation of
everything would give, for any fixture that is well formed; the futures outbox; one composition
of the write barrier with the quiesce epoch of the executor.

## 3. Modules and code

Every module translates one part of the code; `PROJECT.json` ("map") names the lines of
each definition. The rule for what is one action is the same everywhere: a statement, a
transaction whose reads are protected by the locks it holds, or an external call. What a
process has read and uses later is in a variable of that process, so that other processes
act in between. A crash drops these variables and keeps the tables.

The suite modules `MCPlatform`, `MCIntel`, `MCFinance`, `MCFutures` and `MCStrategy` hold several
components in one instance: the variable `part` is chosen in the first state and says
which component runs; the variables of the others keep their initial values. The components
of a suite share no state in these models, so that the instance is their sum and not their
product. A suite EXTENDS its components, so that the properties of its runs are the
formulas the theorems state; where two components would use a name twice, it carries the
component's name (`SessionNext`, `QueueSpec`). `IntelReplay` and `StrategyRules`, about which
nothing is proved, are instances.

### ResearchRun

One action is one SQL statement, one transaction or one HTTP call. A value that a
statement reads and a later statement uses is kept in the process that read it, so that
every interleaving of the processes between the two is a behaviour of the model.

| Variable | Code |
|---|---|
| `row` | `finance_research_runs`: status, stage, version, `lease_until` (none, live or expired), whether `queued_at` and `deadline_at` are past, `deleted_at` |
| `report` | the published `finance_reports` row of the run |
| `task`, `exec` | the status of each role's task in PostgreSQL and in the executor |
| `token` | the internal tokens and grants of the run, together |
| `worker`, `orch`, `role`, `fin`, `req` | locals of `Tick`, `Orchestrator.Run`, the role goroutines, `finalizeCancel` and the user requests |

| Actions | Code |
|---|---|
| `CreateResearch`, `CancelResearch`, `DeleteResearch`, `ReqRevoke`, `ReqCancelTask`, `ReqReload`, `ReqMarkDeleted` | the handlers in `research_service.go` and what follows their transactions |
| `FinCancelTask`, `FinLoad`, `FinUpdate`, `FinMarkDeleted`, `FinTasks` | `finalizeCancel`: a cancel call per task, the guarded update, `deleted_at`, the tasks |
| `TickStart`, `FailQueueTimeout`, `WorkerRevoke`, `ReapStart`, `ReapExpiredLease`, `ConvergeStart`, `ConvergeCancel`, `ClaimStart`, `Claim`, `SkipClaim`, `TickEnd` | `worker.go`, `run_state.go` |
| `OrchLoad`, `OrchFreeze`, `OrchResearch`, `RoleRenew`, `RoleToken`, `RoleSubmit`, `RoleWait`, `RoleWrite`, `OrchSynthesize`, `OrchFail`, `OrchPublish`, `OrchPublishRefused` | `workflow.go`, `nodes.go`, `Publish` |
| `Heartbeat`, `LeaseExpires`, `DeadlinePasses`, `QueueTimeoutPasses` | `renewLease` and the clock |
| `ExecFinish`, `Crash` | the executor's side; loss of all goroutines of the server |

Abstracted: the texts (a role's answer is usable or not; a synthesis validates or not), the
clock (only the comparisons the code makes), the aggregation of a run's tokens.

### TaskBoard and Executor

`TaskBoard` is what the server needs of the executor: a task is accepted at most once, ends
at most once, and keeps its ending. `Executor` has the table, the task threads and their
permits, the submit request in its two steps (the look at the quiesce state and the insert
under the lock), purging, restart and quiescing, and implements `TaskBoard` (`ImplementsBoard`).
`ResearchRun` keeps `exec`, a board of its own (`ExecutorContract`): what one module proves of
the executor is what the other takes for granted. Both halves are theorems (`ExecutorIsBoard`,
`ServerSeesABoard`).

### IntelQueue

`job`, `usage`, `settled`/`unknown`, `stored` and `review` are the tables
`finance_intel_jobs`, `finance_intel_usage`, `finance_intel_extraction_runs` and
`finance_intel_review_items`; `worker` holds the locals of `ProcessJob` in each server.
`ClaimJob`, `Prepare`, `Fetch`, `Reserve`, `CallModel`, `Settle`, `Store`, `Review` and
`CompleteJob` are its statements in their order; a crash may come between any two. Jobs are
created through administrators' routes, which a demo session never reaches, and so live in the namespace that is
never reset: their generation is left out. `RenewJob` has no caller: no lease is renewed.

### The research side around a run

- `ResearchAdmission` (`research_service.go`): `ParseClaim`, `PatchClaim` and, statement by
  statement, `CreateResearch`: the lookup of its key, the row lock of the draft, the check of
  what the user confirmed, the count of active runs, the row lock of the scheduler, the count
  of the day, the inserts. The two row locks (`draftLock`, `schedLock`) are variables; a unique
  violation aborts the transaction and gives both up.
- `FinanceBudget` (`budget_service.go`): `Reserve` and `Reconcile` as functions on ledgers, since
  each is one transaction under a row lock. `ModelCalls` (`model_proxy.go`, `grants.go`) uses them:
  cache, reservation, the provider's answer or its loss, crashes, and the tokens of a task.
- `ToolCalls` (`grants.go`, `evidence_service.go`): a grant from `CreateGrant` over
  `DataQuery` (the lock, the fetch inside the transaction, the commit) to `CompleteGrant`,
  `CalculateMetric`, `Register` (a read without a lock, a later insert) and `ValidateRole`.
- `FinanceConfig` (`config_service.go`): `SaveModel`, tests, `Activate` and `PatchPolicy`, whose
  statements have no transaction around them.
- `ResearchDocuments` (`document_service.go`, `web_document.go`, `questions.go`): files and rows of
  concurrent uploads, imports and questions.
- `DocumentSpans` (`document_service.go`, `web_document.go`): the extraction of one document, part by
  part: `ReadPage` (PDF: the spans of the page, moved by the length of what was read before it),
  `ReadParagraph` (DOCX and web pages: a paragraph is a span), `ReadText` (TXT: as it is) and `Finish`,
  which trims the text of a PDF or a web page once more after its spans were cut.
- `ReportGate` (`nodes.go`, `verdict.go`, `report_model_v2.go`, `report_gate_v2.go`, `publish_gate.go`):
  from the two answers over composition, repair and gates to the verdict. A text is its
  subject, its tone, what it cites and the number it states.

### Intel

- `IntelSpace` (`service.go`, `queries.go`, `api/v1/intel`): a demo session's space with its generation,
  subscriptions, mutes, notifications with their outbox, and the idempotency row that another
  request takes over after two minutes.
- `IntelReplay` (`replay.go`): replay steps over the fixture of the repository's tests, with the
  rules of evidence (supersession, conflicts, staleness, phase), both branches and resets.
- `ListPages` (`futures/pagination.go`, `api/v1/intel/cursor.go`): a reader of a keyset list and one of
  an offset list while rows come, change and go.

### Futures

- `FuturesRuns`: creation under the owner's advisory lock, claim, lease, execution, cancellation,
  deletion, maintenance; `told` are the notifications. `exec` are the goroutines of the schedulers,
  `pc` being how far `ExecuteRun` has come: `claimed`, `posted` (the task is out and its lease is being
  renewed), `complete` (a candidate was accepted), `acknowledge` and `fail` (the two statements after an
  error). What ends a run and who executes it are independent: the maintenance, a cancellation or
  a deletion may come first, and the goroutine finds out at its next statement.
- `FuturesGrants`: `Use` is four steps (a look at the grant, the lease, the consumption under the
  row lock, the lease again), then the tool.
- `FuturesBudget`: the accounts of a user and of the module, seeded by whichever call is first,
  with `Reserve`, `Settle` and `SettleUnknown`.
- `FuturesHypotheses`: what the owner sees on the screen and sends, against the maintenance round of
  each server, which reads first and writes "if the version is the one I read".
- `FuturesRelease`: sources and their versions, probes and gates, operations, admissions.
- `FuturesDrafts`: documents, drafts and runs of one owner with idempotency keys, tombstones, deletion
  jobs and the purge.
- `FuturesEvidence`: observations with their chain of revisions, the manifest frozen for an execution,
  calculations, and the check of the candidate that comes back.

### Strategies and market data

- `StrategyDrafts` (`workbench/hub.go`, `drafts.go`, `versions.go`): a draft's revisions, the window that shows
  one, generations with the goroutine behind each, saved versions, restarts.
- `StrategyBacktests`: the slot of a request, the goroutine's status writes, cancellation, deletion,
  restarts. `BacktestLedger` (`backtest/engine.go`): the daily loop on whole amounts.
- `StrategyMarket` (`strategy_market/*.go`): all writing operations under idempotency keys.
- `StrategyRules` (`strategy`, `indicators`): the editor's conditions, their expansion, limits, warm-up
  and evaluation, against what the editor shows.
- `MarketData` (`market/service.go`, `calendar.go`, `intrabar.go`, `quote.go` and the providers): the calendar day, snapshots whose rows are written after them,
  two loaders, the bar that still forms, the answers.

### Platform

- `Sessions` (`httpx/session.go`, `api/v1/finance/handlers.go`, the triggers of `010_sessions.sql`): login with
  its slow hash check, the upgrade of a hash, requests of a tab, logout, resets by an operator.
- `WriteBarrier` (`httpx/write_barrier.go`): Go's `RWMutex` with its preference for a waiting writer,
  the row of the epoch, restarts that close the barrier again.
- `Migrations` (`initialize`): the plan, its application and registration under an advisory lock, over
  every state a legacy database can have; a crash at any point.

## 4. Runs

Each property of a passing run has a mutant in `PROJECT.json`: a plausible bug of the code
under which that run finds it violated.

| Run | Question | Properties |
|---|---|---|
| `RunLifecycle` | one run under a user request, the worker, one orchestrator, a crash and a lossy executor: who closes it, and that it ends | `ReportMatchesRun`, `ConfirmedCancel`, `CancelConverges`, `RunEnds` |
| `RunRedispatch` | a run claimed twice, retention by month | `FenceExclusive`, `CanceledTaskStays`, `ExecutorContract` |
| `RunTwoRequests` | cancellation and deletion, or either of them twice, at once | `DeletedIsClosed` |
| `Platform`, executor | the task runner with a restart and answers that raise | `ImplementsBoard`, `TasksAreServed` |
| `Platform`, barrier | backups, writers and restarts | `NoWriteInBackup` |
| `Platform`, sessions | logins and requests against resets | `ResetIsFinal` |
| `Platform`, migrations | servers of three releases over any legacy database | `ServesItsOwnSchema` |
| `Platform`, admission | calls of `CreateResearch` at once, with limits of one | `WithinLimits`, `EveryCallAnswered` |
| `Platform`, futures | futures runs on two executions, against cancellations, lost leases, the maintenance and servers that stop | `ExecutesOnce`, `FuturesRunEndsAsAsked` |
| `Intel`, queue | two servers on one queue, a crash, a lease that runs out | `OutcomeIsLatest`, `JobEnds` |
| `Intel`, space | requests, replays and the outbox against a reset | `NothingComesTwice` |
| `Intel`, pages | readers of changing lists | `PagesAreOneList` |
| `Intel`, replay | the fixture day by day, in both branches | `StoredAsEvaluated` |
| `Finance`, model | two callers of the model proxy | `SentWithinBudget`, `ReplaysAreAnswers` |
| `Finance`, tools | two grants of two roles against the closing of the run | `CitedWasFetched` |
| `Finance`, config | two administrators | `ServedWasTested` |
| `Finance`, spans | every short text in parts | `SpansPointIntoText` |
| `Finance`, gate | every pair of answers | `PublishedIsEarned` |
| `Futures`, grants | two requests with one token | `GrantOpensOneCall` |
| `Futures`, budget | calls of two users, lost answers | `LedgerBalances` |
| `Futures`, hypotheses | an owner against the maintenance | `ClosedStaysClosed` |
| `Futures`, release | sources against probes, gates and operations | `LiveAsProbed` |
| `Futures`, drafts | two calls, one key, the purge | `KeysAndDeletionsHold` |
| `Futures`, evidence | revisions that arrive around an execution | `CitesWhatWasKnown` |
| `Strategy`, drafts | two generations against edits and restarts | `NothingLostUnseen` |
| `Strategy`, backtests | three backtests of two users | `SlotsAreExecutions` |
| `Strategy`, ledger | five bars with any prices, volumes and signals | `BooksBalance` |
| `Strategy`, market | repeated and lost requests | `EachKeyOnce` |
| `Strategy`, rules | six conditions over all bars | `RuleMeansWhatItShows` |
| `Strategy`, data | two loaders over three days | `FinalBarsHold` |

Runs that find a violation, each of one sentence that the repository says of itself
(`PROJECT.json` quotes it):

| Run | What TLC finds |
|---|---|
| `RunDeleteLost` | `finalizeCancel` sets `canceled` and `deleted_at` in two statements; after a crash between them the deletion is lost |
| `DocumentFileLost` | the loser of two uploads of one content removes the file of the winner |
| `BacktestRevived` | a cancellation of a queued backtest is overwritten by `preparing_data`, and the backtest goes on |
| `HypothesisUnseen` | an acknowledgement clears `needs_review` for a check nobody has seen, since versions are counted per condition |

### Bounds

- *One run* in the `Run...` instances: every property there speaks of one run, and runs
  meet only in the admission limits, which `ResearchAdmission` has, and in the order in which
  a tick serves them. One orchestrator where the question is another one, two in
  `RunRedispatch`, where the second claim is the question. Two requests in
  `RunTwoRequests` give each pair of handlers at once; its symmetry (`MCAlike`) is used there
  only, since it has no temporal property. One role: the roles are alike and meet only in
  acknowledgements and in the quality of their answers; the proofs hold for any number.
- *One crash or restart* of processes that keep nothing over it; two restarts of the
  barrier (`MaxReopens`), since the second must find the row of a later epoch.
- *Platform.* Two tasks for one permit: one waits for the other. Two backups, so that one
  begins while the other is open. Two passwords and three hashes: a reset, and the
  upgrade of a hash by a login that is already under way. Three migrations, the second edited
  in one of three releases, so that each server meets a ledger that is older, newer or
  different. Two users and two drafts with limits of one: the last place is always contested.
  Futures runs: a user with two runs and an execution, or one run and two executions (`MaxAtWork`), so that a
  second execution is free whenever a lease runs out, and a second run is made while a deleted one still
  executes.
- *Intel.* `CallLimit` 3 stands for the reservations the token limit of a day pays for; with
  one crash and one slow worker (`MaxSlow`) an extraction gets a third attempt and the
  refusal of its result happens. Four rows and limits of one and two make lists of several
  pages. The fixture is the repository's own.
- *Finance.* Budgets of one call, so that the second is refused; two callers with two
  request ids and bodies, so that an id is repeated with another body. Two records of which one
  is too late for `as_of`. Two configurations, policy versions of an invalid limit (`MCLimits`).
  Two parts of up to four characters, in each of the four formats: an offset is wrong already at
  the first separator, and a part has room for two paragraphs and their break. Two pieces of evidence, of which one role lacks one, and one number.
- *Futures.* Two requests and two tokens with two arguments. Two users with four calls and
  a module limit below the sum of theirs. Two conditions, one of them manual. Two gates for one
  source. Two calls on one key. Three observations: a revision before and one after the
  manifest.
- *Strategy.* Two generations with two keys, so that a key is repeated and one is new.
  Three backtests with one slot per user (the code's two only adds states).
  Five bars: buy, settle, split or dividend, stop, sell. Seven bars are more than the longest
  warm-up of the conditions. Three days with a holiday between them.

## 5. Fairness

`ResearchRun` (`FairSpec`): the worker ticks every two seconds and its statements return; request
handlers, finalizations, orchestrators and role goroutines go on unless the server
crashes, since every call they make has a time limit; time passes, so that leases without
a beating orchestrator, deadlines and queue timeouts run out. Nothing is assumed of the
executor (`ExecFinish` is not fair: the deadline is what ends a wait) nor of calls under
`Lossy`. After a crash the server is back at once and its next tick is fair.

`MCPlatform`: waiting threads of the executor get free permits, a thread at work ends (its
calls have time limits), and the server repeats the purge of an expired task at every tick.
A handler of `CreateResearch` goes on while it is not waiting for a lock. Requests, restarts
and quiescing are not fair.

Of futures runs, the maintenance goes on and the deadline of a run passes; neither the scheduler
nor the server that executes a run is assumed to go on.

`MCIntel`: each server's loop claims every second and goes on with its job; an
abandoned lease runs out. A lease under a worker at work may run out and need not.

All of it is weak fairness: each of these steps stays enabled until it is taken.

## 6. Proofs

| Module | Theorems, in the order of the modules they are about |
|---|---|
| `ResearchRunProofs` | `TypeCorrect` |
| `ResearchRunSafety` | `ReportsMatch`, `DeletedClosed`, `OneWriter`, `Advance`, `CanceledTasks`, `CancelIsConfirmed`, `TokensOfClosedRuns`, `ServerSeesABoard` |
| `ResearchAdmissionProofs` | `Limits`, `Confirmed`, `Answers`, `DocumentIsBound` |
| `FinanceProofs` | `SentIsPaid`, `ReplaysAnswer` (`ModelCalls` on `FinanceBudget`); `Fetching`, `Closing` (`ToolCalls`); `ServedIsTested` (`FinanceConfig`); `PublishedIsFounded` (`ReportGate`); `SpansAreInPlace` (`DocumentSpans`) |
| `IntelProofs` | `TypeCorrect`, `SuccessHasResult`, `LatestDecides`, `SettlesOnce`, `EveryCallPaid`, `TwoCallsAtOnce` (`IntelQueue`); `OneGenerationOneMove` (`IntelSpace`); `OneListOfPages` (`ListPages`) |
| `FuturesProofs` | `OneCall` (`FuturesGrants`); `AccountsBalance` (`FuturesBudget`); `ClosedIsFinal` (`FuturesHypotheses`); `LiveOwesItToAProbe` (`FuturesRelease`); `KeysAndDeletions` (`FuturesDrafts`); `CitesTheNewestThen` (`FuturesEvidence`) |
| `StrategyProofs` | `DraftsAreSeen` (`StrategyDrafts`); `SlotsAreCounted` (`StrategyBacktests`); `CashIsAccounted` (`BacktestLedger`); `KeysActOnce` (`StrategyMarket`); `FinalBarsAreFinal` (`MarketData`) |
| `PlatformProofs` | `TypeCorrect`, `ThreadsAndRows`, `ExecutorIsBoard` (`Executor`); `BackupIsQuiet` (`WriteBarrier`); `ResetEndsSessions` (`Sessions`); `ServesWhatItEmbeds` (`Migrations`); `RunsOnce`, `CancelIsFinal` (`FuturesRuns`) |

Every safety property of a passing run is a theorem, except two (below). The theorems
hold for all values of the constants under the assumptions that the modules name and TLC
evaluates: names of processes and rows are apart from the null values, bounds are numbers,
what is counted is finite, owners are owners. Two hypotheses stand in the theorems
themselves: `Sound` of `ResearchAdmissionProofs` (finitely many calls, `NoCall` is none of
them, limits are numbers) and `TasksHaveRuns` of `FinanceProofs` (each task belongs to a
run). Four assumptions say more:

- `ALotPaysItsFee` of `BacktestLedger`: a lot, sold one tick below the price, brings at least the minimum
  commission. This is a fact of the market and not of the engine, which does not ask: at a price below
  it, a sale takes cash away, and with none left the cash is negative.
- `MigrationAssumption`: the files have different names and are not empty, and a release embeds a
  prefix of them, which is how files are added to the repository.
- `PagesAssumption`: the rows of a list are finitely many.
- `DataAssumption`: there is a first day.

None of these properties is inductive: each depends on what a process remembers of the
tables. The invariants say what a remembered value is still worth.

*ResearchRun.* `IInv` (module `ResearchRunInv`):

- `Typed`, `Fresh`: types, and that a row nobody has inserted is untouched;
- `Fenced`: a remembered version is never ahead of the row, and as long as it equals the
  row's version the status is the one the process saw. This is what makes the version a
  fence; `FenceExclusive` and `ReportMatchesRun` follow from it;
- `Closing`: whoever is about to revoke tokens, cancel tasks or set `deleted_at` works on
  a run that is closed or canceling, and stays so;
- `Acked`: an acknowledgement of the executor, once collected, stays true, since ended tasks
  are never revived. `ConfirmedCancel` rests on it.

The proof has two halves. `NextMoves` shows that each action moves the rows in one of few
ways (`Moves`: how a row may change, and what the processes may remember of it after it);
`MovesPreserve` shows, once and for all actions, that such a move preserves `IInv`. The action
properties follow from `IInv` and from which actions write the field in question
(`TaskWriters`, `TokenWriters`, `ExecWriters`). `ServerSeesABoard` is a refinement: every way the server
and the executor write `exec` moves one task as `TaskBoard` allows (`TaskAdvances`).

*Executor.* The invariant is `TypeOK` and `ThreadsMatchRows`. For the refinement,
`StepKeeps` shows for one task at a time that a step keeps or advances what the server
sees of it; a restart, which ends many tasks at once, is the reason why `TaskBoard` lets
several tasks advance in a step.

*ResearchAdmission.* `Locks`: what a call found under a row lock stays true while it holds
the lock (its draft is confirmable; there is room for one more run). `Made` and `Answered`: a
stored run is what its caller saw, and an answer names one. The steps that insert nothing are
treated together (`RunsStay`): what counts against a limit only becomes less.

*ModelCalls.* `Charged`: every row of the ledger counts, and the rows are within both limits; `ProxyBacked`:
whatever was sent has a row, from the reservation on; `Answered`: an answer, in hand, stored or replayed,
is of a request that was sent. That a failed or unknown call keeps its unit is what makes the first
inductive.

*ToolCalls.* `Backed`: records are stored only together with the mark `executed` of an existing
grant. `Linked`: whatever is citable for a task came that way, under a grant of this task.
`Closing` rests on the lock of the run that orders `CreateGrant` with the closing.

*FinanceConfig.* What counts as passed, is about to be activated or was activated has passed once, under its
own digest. *ReportGate.* What `verify` looks at is what both roles returned; the published report has passed the
gate, and its verdict is the one of its fact check, which looks at the claim and the arguments only
(`FactCheckStays`), and so survives every step that leaves them alone.

*IntelQueue.* `Numbered`: a claim and its worker carry one epoch, and no epoch is given twice,
so that two workers on one job never hold the same row of usage. `Reserved`: a reservation is
made, used and settled in this order. `Resulted`: an extraction succeeds by way of its result
and its review item only. `EveryCallPaid` counts: the calls received for a job are at most
its reservations that no worker holds before its call (`Used`), and all reservations are
within the limit. `TwoCallsAtOnce` needs `Alone`: until a lease runs out under a worker, a job
runs for one worker, so that counting jobs is counting calls.

*IntelSpace.* `SpaceInv`: a key asks for the version it found, and once its request has moved the replay this
version is past for good; so a request that is taken over or repeated finds the version changed.

*ListPages.* `KeysetOK`: of the rows that were there from the beginning, the reader has seen exactly those at or
after his position. It is inductive because a new row is newer than every position, and because the page
of a position is all of the rest above its last row (`PageOfRest`).

*DocumentSpans.* `SpansInv`: the spans of what was read so far lie over the text they quote, apart from each other,
and cover its ink; the text of a document in parts is trimmed. A text is of any length, so nothing is
computed: a block is a longest stretch without a break, around each inked character there is one (`BlockAround`, by
the nearest breaks on both sides), and two blocks with a character in common are one (`BlocksApart`). Joining moves
the spans of the new part by the length of the old ones and leaves the text trimmed (`JoinedTrimmed`), which is why
the last trim moves nothing. Nothing in the code says so: a TXT is not trimmed before its spans are cut, and is the one
format with such spans whose text is not trimmed after it.

*FuturesGrants.* A request past `Consume` owns its grant (`Owned`), and no two requests own one
(`Apart`), whatever happens to the lease in between.

*FuturesBudget.* `Balanced`: both accounts of a call are sums over its reservations. The sums are folds; `SumSplit`
shows that a fold over a finite set gives up any one index, in whatever order it takes them.

*FuturesHypotheses, FuturesRelease, FuturesEvidence.* What a maintenance round read is not ahead of the row, and the
same version means the same life. Each live version of the operations is vouched for by a gate it consumed, and
consumed gates do not change. A record of a manifest stays the newest of the rows there were when it was
frozen (`feknown`), since rows are only appended and sources only switched off.

*FuturesRuns.* `Claimed`: whoever has an execution has left the queue, and nothing leads back; so a claim never finds an
execution at its run, though it asks for none. `Frozen`: what is about to be completed has its manifest. `Ending`:
a cancellation that was asked for shows in the status, and a user was told of what is there. Each
statement moves a row as `RowMoves` allows, which is all that the executions of other runs,
and the cancellation, rely on; `CancelIsFinal`, the other half
of `FuturesRunEndsAsAsked`, is one conjunct of it.

*FuturesDrafts.* An object and the key it was made under point at each other (`ObjectsHaveKeys`, `KeysHaveObjects`), also
while it is hidden; a call only carries an answer that was not deleted before the call began (`CallSound`). An id
is never taken twice (`Taken`), even after a purge has removed its row.

*StrategyDrafts, StrategyBacktests, StrategyMarket.* A generation's base is never newer than what it read, and that never
newer than the draft (`BaseIsRead`). The slots of a user are the cardinality of the runs that execute for him, so
that each return of a slot needs a run to take away. The keys in the copies and in the audit trail are
those that have been answered (`KeysAnswered`).

*BacktestLedger.* There is at most one lot, whoever is about to buy holds none, cash is the initial capital and the
deltas that were reported, and neither cash nor the receivable is negative. The lemmas on `sumQty`, `reduceLots` and
lot rounding need only sums over sequences of at most one lot.

*MarketData.* A series stored on a day has one bar per session, and only the bar of that day may be open (`SeriesAt`); a
call holds a series of today, since it does not last into the next day. Hence a snapshot whose newest final
bar is that of the last complete session has no open bar but today's.

*WriteBarrier.* `Locked`: lock, `active` and the step of `Begin` agree. `Acknowledged`: an
acknowledged backup is active and its row is the last that was started, which is why a
restart finds it and none other.

*Sessions.* A login that is about to upgrade a hash has verified what was typed with the only hash there was: what it
writes is of the same password, and if a reset came first its transaction finds another hash and denies the login.

*Migrations.* What is registered is always a prefix (`InOrder`), and what the registered files declare is there but for
what a later one dropped (`Applied`); the transaction under way has registered all it embeds but what it has yet to
apply, which comes after everything registered (`WorkOK`).

The library's induction theorems take an operator as a parameter, which the provers cannot
instantiate. Where a proof needs induction over a finite set or up to a number (sums, the least
or the greatest element), it goes by the smallest counterexample: among the subsets that
refute a claim there is a smallest one (`SmallestSubset`, from the well-foundedness of the
strict subset relation), and removing an element from it is a contradiction.

Only model-checked:

- everything under fairness (`CancelConverges`, `RunEnds`, `TasksAreServed`, `EveryCallAnswered`,
  the first half of `FuturesRunEndsAsAsked`, `JobEnds`), which needs ENABLED and is out of the prover's reach;
- `StoredAsEvaluated`: each step of a replay against one evaluation of the whole fixture, whose records are
  computed and not general;
- `RuleMeansWhatItShows`: what recursive operators over rules compute, for all small rules.

## 7. Where the code and its documents differ

Met while modelling. A property in brackets states the document's side and does not hold of
the module; those without a run of their own are defined in their modules, with the comment
that the code does not keep them.

*Research runs and executor*
- A role checks the run, then issues a token and submits: a cancellation between is followed by
  a new outbound call [`ResearchRun!NoSubmitAfterCancel`; `spec/验收与接入清单.md:71`].
- A deletion is lost by a crash between two statements [run `RunDeleteLost`].
- An answer of the model that is no JSON object raises outside every handler of `_run`: the row
  stays `running` [`Executor!TasksEnd`; `app/README.md:130`].
- A submission that looked before the quiescing inserts its task after it was acknowledged
  [`Executor!QuietWhenGranted`; `spec/后端生产化_开发SPEC.md:317`]. A restart forgets the epoch.
- `Cancel` of the executor is an answer about the row; the thread behind it goes on calling
  models and tools, while `spec/开发交付_SPEC.md:244` asks that the workers have stopped.
- A token issued after the revocation stays live, since `IssueTaskToken` ignores the status of the
  run (`grants.go:46`).

*Research tools, budget, documents*
- `DataQuery` fetches inside the transaction that marks its grant `executed`: after a rollback the
  same grant is fetched again [`ToolCalls!QueriedOnce`; `spec/验收与接入清单.md:55`].
- A model call that failed goes out again under the same request id (`spec/开发交付_SPEC.md:256`); a
  pending cache row left by a crash is answered "in flight" for ever.
- A negative limit passes `PatchPolicy`, and a crash or a second administrator between its
  statements raises the policy in force [`FinanceConfig!PolicyOnlyLowers`, `BudgetsWithinHardCap`].
- The loser of two uploads removes the winner's file [run `DocumentFileLost`].
- `Ask` counts questions and inserts one without a lock, and does not compare the request of a
  repeated key. `ParseClaim` does the same with its rate limit.
- Two concurrent `CreateResearch` with one key: the second gets a conflict instead of the replay,
  since the unique violation has aborted its transaction (`research_service.go:470`).
- Two gates judge one claim differently; the rows of a failed gate are rolled back with it.

*Intel*
- A job is claimed any number of times [`IntelQueue!AttemptsBounded`;
  `spec/投资事件情报与证据时间线_开发SPEC.md:259`]; a retry does not reuse a stored result (line 260); nothing
  settles the reservation of a lost attempt.
- The limit of two calls counts jobs: after a lease ran out under a worker there may be three calls.
- `ClaimOutbox` takes `pending` rows only, so that a delivery whose worker stopped is never taken
  again, against its own comment (`worker.go:364`). `RenewJob` has no caller.
- An idempotency row taken over after two minutes lets the operation run twice (line 372); a reset
  deletes the row of its own request.
- An offset is no position: a row is shown twice or missed [`ListPages!OffsetShowsEachOnce`, lines 253
  and 324].
- A `branch` in the request of a replay step is followed for that step, where the session's own
  branch is promised (`replay.go:142`, line 347); a mute set before the event exists is kept under another name.
- `ReassignEvidence` does not advance the version of the events; `PatchNotification` answers a `read_at`
  that it does not store.

*Futures*
- An acknowledgement clears a review nobody has seen [run `HypothesisUnseen`].
- The latest admitted version is offered even if a later one is suspended
  [`FuturesRelease!OfferedIsAdmitted`].
- A source disabled between the verification and the completion is still cited
  [`FuturesEvidence!CitesLiveSources`; `spec/期货研究模块_开发SPEC.md:215`].
- A deleted run frees its quota while it executes; a canceling run is not counted by
  `ClaimQueuedRun` (line 238); `enforceRunLimits` (`budget.go:132`) has no caller although
  `docs/futures-operations.md:54` relies on it.
- `ExpireStaleRuns` closes runs without a notification. A failing row aborts a whole purge.

*Strategies and market data*
- A cancellation of a backtest or of a generation is overwritten by a late status write [run
  `BacktestRevived`; `StrategyDrafts!CanceledGenerationStays`]; after a crash rows stay `running`.
- A patch of the rule leaves the editor's state of another rule
  [`StrategyDrafts!EditorShowsTheRule`]; a saved rule that is opened in the editor and saved
  again loses its continuity checks [`StrategyRules!ReopenedSaysTheSame`].
- Dividends drop out of the profit of a position once they are paid, so that its stop loss fires
  without that loss [`BacktestLedger!StopLossIsALoss`, `spec/策略模块_开发SPEC.md:331`]; `MaxHoldingBars` is
  never looked at (line 260).
- Rows of a snapshot are written after it, so that two readers get different ones
  [`MarketData!SnapshotIsOne`, lines 174 and 528]; the bar of a week still forming is taken for final
  [`FormingIsNotFinal`, line 169]; a fall-back provider answers unadjusted bars to an adjusted
  request [`AdjustedAsAsked`, lines 157 and 255].
- `Validate` of a published version may fail it or bind it to another evidence; `ReviewEvidence`
  ignores the status of the item.

*Platform*
- A write that arrives during a backup waits in the middleware's `RLock`, so that the answer 503
  `BACKUP_QUIESCING` is never given (`write_barrier.go:119`) [`WriteBarrier!RefusedDuringBackup`;
  `write_barrier_test.go:29`]. An `End` whose update commits but reports an error leaves the barrier
  closed until a restart. Background workers are not covered by the barrier.
- Triggers and data statements of a migration declare no object: a legacy database without them is
  adopted as a baseline.

## 8. Not modelled

- *Input and output*: prompts, parsing of model answers, clients of data providers and models,
  HTML and file formats, the wording of reports. Their outcome is a choice in the modules above.
- *Real arithmetic*: indicators other than crossings and simple averages, performance figures of
  a backtest, formulas of the futures verifier.
- *Reading*: lists, dashboards, search and charts that change nothing, except the two ways of
  paging (`ListPages`).
- *Without a state of its own*: encryption of secrets, address checks of outbound calls, metrics,
  health probes, environment parsing, the wiring of `main.go`.
- *The Python futures executor* keeps nothing: its answers and failures are choices of
  `FuturesRuns` and `FuturesEvidence`, its tool calls are `FuturesGrants`.
- *Left out with a state*: the futures outbox (a claim by status and lease as in `IntelQueue`), the login
  rate limiter, administration of intel sources and of review items, the layout of the workbench.
- *The web client* shows what the server answers.

The status of every component is in `PROJECT.json`.
