# TLA+ specifications of Reconner

Reconner is a Go service that scans web targets: a scheduler runs scans made of
modules, an operator controls them over HTTP and Telegram, an agent hunts on its
own, and SQLite holds all durable state. These modules specify the parts where the
difficulty lies: who owns a scan, what a row says about it and what is left after
a cancel, a shutdown or a crash; what a scan is made of, and what becomes of its
findings; and the services around it that must survive lost answers, slow clients
and each other.

Line numbers refer to `src/internal/scheduler/scheduler.go` unless a file is named;
other files are named by their path under `src/internal/`.

## 1. Inventory

| Component | State | Operations | Hard behaviour |
|---|---|---|---|
| Scan scheduler, life of a scan | `tasks.status`, `targets.scan_status`; in memory `running`, `cancelMap`, `taskTargets`, `paused`, `stopping` | `createTask`, `tryStartTask`, `executeTask`, `CancelTask`, `CancelTasksForTarget`, `PauseTarget`, `ResumeTarget`, `SuspendActiveForShutdown`, `Stop`, `recoverPendingTasks`, `ResumeInterrupted` | rows and maps change in separate steps; operator, executor and shutdown race; crash between any two statements |
| Admission | pending rows, the channel `queue`, `running`, load of the machine | `processQueue`, `drainPendingTasks`, `tryStartTask`, `effectiveMaxConcurrent` | full channel, `LIMIT 10`, a ceiling that moves, starvation |
| Phases of a scan | `completed_modules`, `current_module`, `updated_at`, `skipCancel`, `skipReq`, the phase's context | module loop, `beginPhase`/`finish`, `SkipCurrentPhase`, `ResumeTask` | skip, watchdog and cancel at once; parallel groups; repeated resumes |
| Module planner (`scheduler/planner.go`) | none | `normalizeRequestedModules`, `PlanModules`, `parallelPhaseIndices` | order and closure of dependencies, with phases that run side by side |
| Guided tasks, time estimates | task rows | `executeGuidedTask`, `scanETA` | little of its own |
| Monitoring scheduler | `monitor_last_run`, watch tasks, the rows of the last probe | `runDueMonitors`, `escalateIfChanged`, `MonitorScanner.Run` | compares with rows that other scans overwrite; passes that fail, are parked, resumed or lost |
| Telegram bot (`api/telegram_bot.go`) | token, cursor, generation, outbox rows, chats | `pollLoop`, `drainOutbox`, `Configure`, commands | at most once for commands, at least once for messages, reconfiguration during a poll |
| Websocket hub | clients, bounded channels | `Run`, `Broadcast`, `ServeWS` | dropped events, eviction of slow clients |
| Agent runtime (`agent/runtime.go`, `hunter.go`, `store.go`) | one slot per target, environment, rows of runs and threads | `start`, `acquireSlot`, `release`, `Cancel`, `LoadThread`, `hunterTick` | an operator preempts the hunter; starts that fail halfway; rows of dead runs |
| Host throttle (`scanner/throttle.go`) | delay and semaphore per host | acquire, wait, observe | the delay consumes the budget whose end raises the delay |
| Tool executor (`tools/executor.go`) | table of processes by task | run, `KillTask` | entries overwritten in a parallel group |
| Finding lifecycle (`scanner/lifecycle.go`, `finding_lifecycle.go`, `candidate.go`, `verify.go`) | candidates, audit trail, findings | `RecordCandidateResult`, `applyState`, `projectFinding`, `reopenCandidate`, the scorer, triage | several writers of one row, statement by statement, without a transaction |
| Bounty catalogue (`bounty/`) | programs, assets, scope events | `SyncAll`, `replaceAssets`, `reconcileProject`, `ResolveScopeEvent` | commit and reconciliation in two steps |
| Release checker (`api/update_handlers.go`) | cached answer, entity tag, request in flight | `check`, `fetch` | waiters of a leader whose own request is cancelled |
| Login limiter, users | counters, sessions | `allowed`/`recordFailure`, `UpdateUser` | check then act, last administrator |
| HTTP API | none of its own | handlers | calls the scheduler from many goroutines |
| Detectors, capture, browser, configuration, migrations, frontend, extension | data | network input and output, parsing, rendering | outside the reach of a model checker |

How they meet: HTTP handlers and the Telegram bot's commands call the scheduler
from their own goroutines. Scheduler, handlers and monitors share the database;
SQLite executes one statement at a time. The scheduler calls the notifier
(Telegram's outbox) and the hub's `Broadcast`, neither of which blocks it.
`cmd/reconner/main.go` recovers, resumes, serves, parks and stops.

What makes each component correct is stated as properties for the modelled ones
(section 3); section 7 says what is left out, and section 8 what comes next.
`PROJECT.json` lists every component, and every hazard at its line.

## 2. Modules

| Module | Models | Properties proved in |
|---|---|---|
| `ScanLifecycle` | the life of task rows, their goroutines, operator requests, shutdown, crash, restart | `ScanLifecycleProofs`, `ScanControlProofs` |
| `TaskRow` | abstract: what the scheduler promises about a row and the work for it | implemented by `ScanLifecycle` |
| `TaskAdmission` | channel, drain, ranking, ceiling, limits | `AutopilotProofs` |
| `PhaseControl` | the module loop of one scan and its resumes | `PhaseControlProofs` |
| `ModulePlanner` | from a request to the phases of a scan | `ScanContentsProofs` |
| `FindingLifecycle` | candidates, their trail, the row that shows them | `ScanContentsProofs` |
| `Monitoring` | the periodic watch of one target | `AutopilotProofs` |
| `AgentRuntime` | who may run an agent on a target | `AutopilotProofs` |
| `TelegramUpdates` | poll loop, cursor, settings of the bot | `TelegramProofs` |
| `TelegramOutbox` | notices, outbox, drain, operator's requests | `TelegramProofs` |
| `NotificationLedger` | abstract: what the outbox promises | implemented by `TelegramOutbox` |
| `WebsocketHub` | hub, clients, their two pumps | `ServicesProofs` |
| `HostThrottle` | pacing of the requests to one host, in discrete time | `ServicesProofs` |
| `ReleaseChecker` | the shared, cached check for a release | `ServicesProofs` |
| `BountySync` | the catalogue of bounty programs and the projects linked to it | `BountySyncProofs` |
| `MC...` | values of the constants for TLC | |

The three modules of the scheduler look at it at different scales. `ScanLifecycle`
abstracts the modules of a scan to a number of phases, and the choice of the
next row to any pending row. `TaskAdmission` is that choice, and abstracts what a
scan does to "leaves pending, later returns". `PhaseControl` is what happens
between the start and the end of one scan, and abstracts the admission to the
start of the task. They are not composed: what one abstracts, it allows in every
order. `Monitoring` looks at the passes of one target in the same way: admission is
`Start` at any time, and what other scans do to the rows it reads is `OtherScan`.

`MCScanContents`, `MCTelegram`, `MCServices` and `MCAutopilot` each extend two to
four component modules that share no state. Their variable `part`, chosen at the
start, says which of them a behaviour runs, so one run checks them all and no
product of unrelated states is explored; the fairness of each part is stated over
its own actions.

### ScanLifecycle and TaskRow

The unit of atomicity is one SQL statement or one critical section of `s.mu` or
`s.pauseMu`. So `PauseTarget` is four steps (find the task, close the gate,
update the row, update the target), as is `CancelTask`, and any other process may
move between them.

- `row`, `scan` are the two status columns. `owner[t]` is the entry of a task in
  `running`, `cancelMap` and `taskTargets`, which always change together: the
  goroutine whose cancel function is registered. `gor[w]` is a goroutine in
  `executeTask` with its program counter, remaining phases and verdict, and
  `ctxDone` the cancelled contexts.
- `hs[h]` is a request in progress with the locals it holds over its steps.
  `asked` is a history variable: tasks an operator asked
  to stop, except by requests that died with the process.
- `life` is the main goroutine: resuming, serving, the five steps of
  `SuspendActiveForShutdown`, `Stop`, down. `Crash` may happen anywhere; `Forget`
  clears what lives in memory. `Boot` is `recoverPendingTasks`, followed by
  `RetireParked` and `RequeueParked` for each interrupted row.
- `Faults` lets the start update fail five times, a park fail (the early return),
  and the final update fail (its error is dropped).
- `Row` instantiates `TaskRow` with `stage` for the status of a row, running and paused
  being one stage and the three ends another, and `working` for the tasks that a
  goroutine past the guarded start update works on. A resumed scan is a new row, as in
  the code, so in `TaskRow` no row leads back.

Steps that are fused: the calls of cancel functions after `s.mu.Unlock()` with the
critical section they follow (the functions are in locals by then, and cancelling
later only shortens what follows), and the reads at the beginning of `executeTask`
with its guarded update. Requests may go on while the service shuts down, since
`srv.Shutdown` waits at most 15 seconds. Requests may also come before the
resuming is over: the Telegram bot is started first (`main.go`).

### TaskAdmission

`queue` has the capacity of the channel, `batch` are the rows of the running drain,
`probe` is the row that `tryStartTask` read before it took the lock. The load is
one of three levels and may change at any time; `EffectiveMaxConcurrent` is the
arithmetic of the code, with `resourceTargetCeiling` (at least 1) as `Base`. The
critical section, which counts and then inserts, is one step. The release of a
slot by the deferred function is `ReleaseSlot`; cancels are in `ScanLifecycle`.

### PhaseControl

One scan, which is the row of its latest task. `row.old` says that `updated_at` is
older than the watchdog of the current module: every statement that stamps the
column resets it, and time (`TimePasses`, `ModuleStalls`) sets it. `run` holds the
locals of `executeTask`, `phase` the context and the two map entries of
`beginPhase`, numbered, so that a skip that calls the cancel function of an earlier
phase is visible. The plan is the set of its entries; their order, which no resume
changes, is that of `Plan0`. `skipper` is a skip between its unlock and its cancel. `hist` is
history: which modules had their turn, were recorded, skipped, stalled, wedged at a
shutdown or dropped by a resume.

A module is what the scheduler sees of it: it returns nil or an error, at any time,
also nil after its context ended (`nosqli.go` 77, `ssrf.go` 145), or it outlives its
deadline. `ResumeTask` is taken once the old executor has unwound; the executor's
final reads and update are one step, and an operator's cancel is two.

### ModulePlanner

`request` is what the operator ticks, put together word by word; `Executed` is the
list `executeTask` works with: `Normalized` (first of equal words), `PlanModules`
(closure over `moduleRequires`, the order of `AllModules`, unknown words behind),
`Stripped` (speed and network words, enumeration in single-endpoint mode). `PhaseOf`
numbers the phases of parallel execution. All of it is free of recursion: a list is a
function on some numbers, in their order, and what a filter drops leaves a gap
(`Those`); a list followed by another starts behind its last number (`Followed`).

### FindingLifecycle

One place (type, URL, parameter), the candidates there, and the one row of
`vuln_findings` they share. `rec[r]` is a goroutine between two SQL statements of
`RecordCandidateResult` or `RecordCandidateDetection`: store, look, reopen, look
again, read, compare and swap, audit, project, upsert. `Abandon` ends it after any
statement. The scoring pass reads rows and writes them later (`ScoreRead`,
`ScoreWrite`), triage writes the row at any time. `been` and `vouched` are history:
the states a candidate was in, and whether the row is a finding for another reason
than a verifier's proof (it predates candidates, the operator said so, or the scoring
pass overwrote a change it had not seen).

### Monitoring

`site` is a number the page's changes raise, `page` the same number as the last
probe stored it; `alive`, `hosts` and `counted` are the hosts that exist, their rows
and the count cached on the target. `pass[p]` is a task row that is not over, with
the modules left, what it knows as a baseline, and its history. The order of
`WatchModules` is the code's (a pass has its modules as a set, and those
its loop has passed in `behind`); so is that `createTask` does not plan a watch anew.
An operator may pause a pass, also for good: a module under way goes on, none begins.
`Restart` is a graceful stop or a crash with the next start; `Resume` retires a
parked row and creates a scan without the watch's type, as `ResumeTask` does.

### AgentRuntime

`slot` is `r.active` of one target and `env` `r.runEnv`, which are set in separate
steps under one lock. `at[p]` is where a call of `start`, or the goroutine it begins,
is; operators call once, a loop of the hunter again and again. `watch[h]` is the
loop's own place. A preemption is three steps apart: cancel, wait, look again. The
rows of runs and threads change with `StartRun`, `FinishRun` and the three reclaims;
`viewer` is a request between reading that a thread is running and asking whether a
worker is live for it.

### TelegramUpdates

`config` is the row of `telegram_config`, `offset` and `generation` the two numbers
in memory. The loop reads settings, asks the server, and for each update claims (a
guarded UPDATE) and executes. `Configure` is five steps: bump, check, store, read
again, copy the cursor. The server keeps what it has not seen confirmed, and answers
or fails. `Restart` may come between any two steps; `struck` is history: the commands
it found claimed and not yet executed.

### TelegramOutbox and NotificationLedger

A row per chat and notice. A scan starts, stores findings, ends phases and ends;
each enqueues what the chats subscribe to, findings by a sweep. `drainOutbox` takes
due rows in a batch; sending a row has four ends: shown and answered, shown with the
answer lost, refused, or nothing recorded since the database or the process failed.
Chats are muted or deleted, the bot is switched, failed rows renewed. `Ledger`
instantiates the abstract module with `owed` for pending rows, `settled` for sent,
`dropped` for failed and deleted ones, `told` for what was shown.

### WebsocketHub, HostThrottle, ReleaseChecker

The hub's `select` cases are `Register`, `Unregister`, `FanOut` and `Tick`; a client
has a reader and a writer with every way they end. Broadcasts are numbered in the
order the hub accepts them.

`HostThrottle` counts time in steps of what a clean answer takes off the delay.
`left` is the rest of a request's budget, which runs while it waits for its slot and
while it sleeps the delay; time passes only when no caller has something to do at
once. Stopping a scan sets `left` to 0. A request whose budget ends in the queue leaves
its place there, wherever that is. The figures in the code (12 slots, 60 ms, 2 s,
15 s) are constants; an instance keeps their order, with a budget that outlasts the
largest delay and the time of an answer of all who share the slot.

`ReleaseChecker` has four ages of an answer (a minute, half an hour, six hours) and a
leader whose request may be cancelled while others wait for it. What GitHub shows is the
newest release, an older one or none, since releases are withdrawn and shown again. Its
answer is what it shows, of no release too (404, draft, prerelease), with an entity tag
or without; or "not modified", if the tag kept is of just that; or an error. `since` is
history: what GitHub has shown since the cached answer was stored.

### BountySync

One platform, some of its programs, and some assets of each. `listed` and `offer` are
what the platform publishes, and change under the service; `prog` and `rows` are the
two tables of the catalogue, `link`, `asset` and `events` what a project knows. A catalogue
is empty at first, or known, with any program linked to each project. Time is
the age of a program's details, in the classes the code tells apart, and `due`.

`work[w]` is a goroutine, with what it has read and still holds: the pass of `SyncAll`
(`Sync`, admitted once by `TryLock`), or a request that opens a program and may create a
project from it. Both go through `ensureDetails` (`Look`, `Lock`, `LookAgain`,
`FetchScope`, `Save`, `Replace`), and end it, still under the program's lock, with the
reconciliation of each linked project (`Get`, `Read`, `Have`, `Apply`, `Tell`). `Get`
asks for the program as a reader would, and so may enter `ensureDetails` a second time;
`outer` holds the projects of the reconciliation it came from. Programs that left the
listing are reconciled without the lock. The statements of a reconciliation are fused to
two steps, the suspensions with the events of what is new or changed, and then the
events of the suspensions, which is where a crash matters: what was suspended is not
told again. `Aborts` ends a goroutine anywhere, `BountyRestart` all of them.

## 3. Runs

Every run has `CHECK_DEADLOCK FALSE`: requests, restarts and resumes are bounded,
and the service may be down.

| Run | Instance | Properties |
|---|---|---|
| `LifecycleShutdown` | pause, resume, shutdown; 1 restart; a stale task; start may fail; with fairness; 536 thousand states | `StopWaitsForCancelledOnly`, `GracefulExitLeavesNoZombie`, `GateMatchesRow`, `CancelledOnlyOnRequest`, `StopReturns` |
| `LifecycleOperator` | all requests, no restart; the last update may fail; 3.0 million | `OneExecutorPerTask`, `SlotsBelongToLiveRuns`, `KeepsRow` |
| `LifecycleRecovery` | cancel, shutdown, crash; 1 restart; parking may fail; 5.0 million | `ShownActiveHasScan`, `CancelSurvivesPark` |
| `PhasesInTurn` | 2 modules one by one that need not return, 2 resumes, 1 skip; with fairness; 187 thousand | `FinishedCoversPlan`, `DropsOnlyStalled`, `NothingSavedRunsAgain`, `SkippedStaysSkipped`, `ScanEnds` |
| `PhasesTogether` | a token and 4 modules, a group split by a stage, 1 resume, 1 skip, waits longer than a watchdog; 4.4 million | `BarriersHold`, `SkipHitsOnlyItsPhase` |
| `ScanContents` | requests of up to 2 of 49 words; 2 candidates at one place, 2 recorders, 3 observations, 1 score, triage or cut; 1.1 million | `PlanFeedsDetectors`, `TrailIsOneStory`, `FindingsAreProven`, `ConfirmedIsSticky`, `RejectionSparesOthers` |
| `Telegram` | 2 bots whose update ids cross, 2 settings requests, 1 crash; a chat, a finding, ends of phases, 2 attempts, 2 mishaps; with fairness; 148 thousand | `OncePerCursor`, `CrashLosesOne`, `CommandsAreExecuted`, `NoFindingSlips`, `OwedIsSettled`, `KeepsLedger` |
| `Services` | 2 browsers, 2 broadcasts, channels of 2 and 1; 2 senders on 1 slot, 1 illness, 1 stopped scan; 2 page requests, a release that is withdrawn or shown again once; a program, an asset, a project, 1 change of the platform, and either a request beside the pass or 1 abort or restart; with fairness; 176 thousand | `NoGap`, `HealthyHostRecovers`, `ShownFollowsGitHub`, `RemovalsReachProjects`, `AdditionsReachOperators` |
| `Autopilot` | 2 operators, a hunter of 2 cycles, a crash; a watched target with 1 piece of news, 1 mishap (also a pause), 1 restart; 4 tasks of 2 targets, channel of 2, base ceiling 3, one scan per target, three loads; with fairness; 280 thousand | `OneRunPerTarget`, `RunningRowHasWorker`, `ChangesAreNoticed`, `SlotsBounded`, `SlotsComeBack`, `WatchGoesOn`, `NoFreeSlotUnused` |

The lifecycle runs have one target, two tasks and two goroutines. Two tasks of one
target are the least that can race for a slot, for the status of the target and for
the status of a sibling; two goroutines are the least that can work on one task.
Targets meet only in the ceiling, which `TaskAdmission` covers with two targets, and
the proofs hold for any number. One handler runs at a time; `ScanLifecycleProofs`
covers any number. One phase is enough, because phases are alike and the steps
around them are separate. Goroutines are only ever compared for equality, so the
runs of safety properties use them as a symmetry set; the runs with liveness do not.

What a run leaves out (requests, faults, `Aged`) it leaves out for size, or because the
code does not keep the promise there: section 4 lists those cases by property.

The admission part of `Autopilot` has as many rows per drain as there are tasks: with
fewer, `NoFreeSlotUnused` fails (section 4). The phase runs use the stretch
`ssrf, lfi, csti, cmdi` of `AllModules` or parts of it: `csti` is in no group and
splits the three members of group 2, so a look-ahead, a barrier and a late member occur.
`MaxResumes` is 2 where the plan is shrunk twice, which two modules suffice for.

In `ScanContents` a request of two words already has a detector beside each other
module, token and switch; three add nothing that depends on more than a pair, since
closure and order are stated for pairs. Two candidates and two recorders are the least
that can disagree about the shared row; three observations let a confirmation be
followed by a late rejection and a reopening. Words, candidates and recorders are
alike, and the run uses the last two as symmetry sets; it checks no liveness.

In `Telegram` the first bot has come further with its ids than the second, which is
where a cursor that outlives its bot shows; with two settings requests a bot can be
replaced and put back. One chat is enough because rows of different chats share only
the batch, whose limit of two makes two rows of one chat compete. Two attempts let a
row fail for good; two mishaps let an operator's request follow a crash.
`CommandsAreExecuted` excuses only the command that a crash found between claim and
execution: others, also those that came before the crash, are executed after it.

In `Services` two browsers tell eviction of one from service of the other, with
channels that two broadcasts and a ping fill. Two senders share one slot, so waiting,
pacing and budget meet; the largest delay (4) is reached from two bad answers. One
release and one withdrawal are enough to have a leader hold an older answer, or an
answer of nothing, while another is shown. In
`Autopilot` two operators and one hunter give a preemption and a request in between; two rows of passes let a resumed scan stand beside the next watch.
`WatchGoesOn` excuses a watch that the operator leaves paused for good: as long as it
is, `runDueMonitors` counts it as active (2486).; two rows of passes let a resumed scan stand beside the next watch.

The bounty part of `Services` has one project, because projects of a program are
reconciled one after the other and share nothing, and one program, because programs
meet only in the refresh of linked ones. One change of the platform is enough to have
the pass and a request hold different scopes; one abort or restart falls between any
two steps of a pass. The run takes the request and the fault in turn, for size. `Dated`
is FALSE: with dates the pass can lock itself out (section 4), and with several linked
programs that left the platform it may never reach one that did not. Its two liveness
properties also hold in larger instances checked by hand: request and fault in one
behaviour (144 thousand states of `BountySpec`), two programs of one project or two
projects of one program without a request (26 and 49 thousand), and a platform with
dates, two changes, a fault, no request (127 thousand).

Properties that TLC has found to hold and that are in no run: `ClientsAreReaped` of
`WebsocketHub`, a liveness property; and, since a theorem states each of them,
`RowsOnlyMoveForward` (which `KeepsRow` implies), `RepeatsAreExplained`, `OneRefresher`
and `NobodyHoldsAndWaits` of `BountySync` (2.1 million states, the second with `Dated`
FALSE) and `SlotsAreShared` of `HostThrottle` (three requests on one slot, 68 thousand).

## 4. Disagreements found

Each of these runs checks one property that a comment or a test states or a handler
answers, and TLC finds an execution of the code that violates it. `PROJECT.json`
quotes the text and the lines.

| Run | Property | In short |
|---|---|---|
| `CancelRacesAdmission` | `StopRequestReachesScan` | a cancel that meets an admission is lost, the scan works on |
| `NewSubdomainsEscalate` | `NewSubdomainsEscalate` | the baseline of a watch is read again after its own enumeration, so its new hosts are never new |
| `LinkedProgramsStarve` | `LinkedAreRefreshed` | linked programs that left the platform fail first at every refresh and use up its limit of failures |

The last run scales the limit of failures from three to one, and has two linked
programs, so that one of them is enough to use it up; with the limit of the code and two
programs the property holds, as it does until three linked programs have left. No asset
matters to it, so `Assets` is empty.

The rows of the next table are of the same kind; they have no run of their own, and are
reproduced by adding the property to the run named, with the constants given.

| Property | Run and constants | The code | The text it contradicts |
|---|---|---|---|
| `DeletedScanReleasesSlot` | `LifecycleShutdown` with `Ops = {"pause", "delete"}`, `Aged = {}`, `Faults = {}` | 853: deleting a target passes its paused scan by; the goroutine polls for ever, with a slot | `api/target_handlers.go` 569-571: the scan is cancelled "so its goroutine stops immediately" |
| `NoFreeSlotUnused` | `Autopilot` with `DrainLimit = 2`, `QueueCap = 1`, `Base = 2`, `Priority <- AllEqual`, `Pressures = {0}` | 1106: ten rows of a busy target hide all others | 724-725: "the two-second database drain picks it up" |
| `RecordedMeansDone` | `PhasesInTurn` | 1722: a module cut short by a cancel returns nil and is recorded | 739-741: a resume covers "only the modules that never finished" |
| `WedgedIsNotRepeated` | `PhasesInTurn` | 509, 834, 1757: park, cancel and the executor's end refresh `updated_at` | 477-479: "Keep updated_at as last module progress so ResumeTask can skip a phase wedged longer than its module watchdog" |
| `PinnedStaysPinned` | `PhasesInTurn` with `Pinned = TRUE` | 794: a resume creates its task without `scope_override` | 593-594: "a scan pinned to ONE asset's scope" |
| `RejectedIsNotShown` | `ScanContents` with `Candidates = {x}`, `MaxRecords = 2`, `MaxOthers = 0` | `scanner/lifecycle.go` 142-184: the projections of two transitions come in the other order than the transitions | `scanner/lifecycle.go` 134-137: "so a later REJECTED/INCONCLUSIVE verdict cannot leave a stale "confirmed" finding" |
| `CursorOfStoredBot` | `Telegram` | `api/telegram_bot.go` 514-521: between the check of the generation and the claim, `Configure` may store another bot, whose cursor the claim then moves | `api/telegram_bot.go` 224-226: the counter "closes the narrow window where an old bot response could otherwise claim an update cursor immediately after a replacement token is stored" |
| `HealthyHostFullSpeed` | `Services` | `scanner/insertion.go` 917: a request ended by its own stop or budget counts as a failure of the host | `scanner/throttle.go` 19-21: "a healthy host carries ZERO added delay" |
| `HunterSparesOperators` | `Autopilot` | `agent/hunter.go` 180: the cycle's clock cancels whoever holds the slot, by then an operator's run | `agent/runtime.go` 433-434: "The hunter never preempts the operator" |
| `HunterRunsEnd` | `Autopilot` | `agent/hunter.go` 172-176: a stopped loop leaves its run, whose only limit was that loop | `agent/runtime.go` 640-641: "the cycle deadline (or operator cancel) is the only stop besides stop_hunt" |
| `CacheRefreshes` | `LinkedProgramsStarve` with `Programs = {p1}`, `Assets = {a1}`, `Projects = {t1}`, `Readers = {r1}`, `Dated = TRUE`, `GiveUpAfter = 3`; `NobodyHoldsAndWaits` fails there too | `bounty/providers.go` 481: `reconcileProject` asks for the program under its lock; when a listing came in between with a later date, the goroutine waits for itself, and with it every later request and pass | `README.md` 170: "The cache refreshes every six hours" |
| `MissingIsSuspended` | `LinkedProgramsStarve` with `Programs = {p1}`, `Assets = {a1}`, `Projects = {t1}`, `GiveUpAfter = 3` | `bounty/providers.go` 519 and `bounty/catalog.go` 396: the refresh of linked programs, and the reconciliation itself when details are old, ask the platform for the scope of a program that has left its listing; when it answers, the assets are active again while the status stays unavailable | `bounty/providers.go` 132-134: "marked unavailable, its cached assets become inactive, and linked projects suspend those assets" |
| `ReturnsReachOperators` | the same with `MaxChanges = 2` | `bounty/catalog.go` 422: an asset that was suspended and is in scope again is neither new nor modified, so no event is made and it stays suspended | `README.md` 185: "newly published upstream assets become pending scope events" |
| `AnswersAreCurrent` | `Services` | `api/update_handlers.go` 158: an answer without an entity tag, as a 404 may be, leaves the old tag beside it; once the release of that tag is the latest again, "not modified" keeps the answer that came without | `README.md` 99: "When a newer release is available, the dashboard shows one non-blocking notice" |
| `ReclaimedIsGone` | `Autopilot` | `agent/runtime.go` 248: a run begins between the look at the slot and the reclaim of its thread | `agent/store.go` 371: "unsticks one operator-facing thread whose worker is gone" |

These are the limits of properties that hold as the runs have them. The theorems of
section 6 name in their hypotheses the requests, faults and settings that lead to them.

| Property | Fails when | Because |
|---|---|---|
| `StopWaitsForCancelledOnly` | `Ops` of `LifecycleShutdown` gets `"cancelTask"` or `"cancelTarget"` | line 1184: a late goroutine deletes the entry its successor has made |
| `CancelledOnlyOnRequest` | `Faults` of `LifecycleShutdown` gets `"park"` | 395: rows that could not be parked are concluded as cancelled when `Stop` cancels their contexts |
| `GracefulExitLeavesNoZombie` | `LifecycleShutdown` with `Ops = {"cancelTask", "shutdown"}`, `Faults = {"final"}` | 824: a goroutine whose entry a cancel has taken is not parked, starts after the park, and loses its last update |
| `CancelSurvivesPark` | `Ops` of `LifecycleRecovery` gets `"pause"` | 833: a cancel does not update a paused row, which the shutdown then parks |
| `ShownActiveHasScan` | `Ops` of `LifecycleRecovery` gets `"pause"` or `"resume"`, or `Aged` a task | 935: a pause, and a resume in the same way, writes the target after its scan has ended; 446 and 460: recovery reconciles targets before it cancels stale rows |
| `GateMatchesRow` | `Handlers` of `LifecycleShutdown` gets a second one, or `Ops` `"delete"` | 932: a resume moves between the gate and the row of a pause; 853: the goroutine of a deleted target waits on |
| `SkippedStaysSkipped` | `Parallel` of `PhasesInTurn` is TRUE and its plan `Three` | 1665: a skipped group is not recorded |
| `DropsOnlyStalled` | `LongWait` of `PhasesInTurn` is TRUE, or `Parallel` and its plan `Slow` | 773: time that a parked scan waits for its resume counts as a stall; the row names the first member of a group, which is dropped when another one stalls |

Seen while reading, without a property: a cancel that shutdown meets between its two
statements is undone by the park (833); scans are admitted under severe pressure, up
to a third of the base ceiling (2257, against the comment at 2269); a restart repeats
every member of a parallel group that ended in an error (473, 1675); stopping a
target leaves its paused scan alone (853); a task whose remaining entries are only
tokens is resumed as an empty scan (782); a resumed watch is no watch any more, so it
neither moves `monitor_last_run` nor follows up (794); the environment of a hunter's
run is set before it has the slot, and may be the one an operator's run reads
(`agent/hunter.go` 149); the findings of a phase that a restart interrupts are swept
only if the resumed scan stores something after it (`api/telegram_bot.go` 662); a
rejected scope event is made anew by the next reconciliation (`bounty/catalog.go` 449);
an approval takes the terms of the day it is given, not those the event showed (479); a
crash between a suspension and its event leaves the suspension untold (433), since the
next reconciliation tells only of assets that are not yet suspended; `Save` writes back
the status it read before it waited for the lock (`bounty/providers.go` 471), and the
details count as fetched before their assets are stored (`bounty/service.go` 557), so a
crash in between leaves a stale scope for six hours.

## 5. Fairness

- `ScanLifecycle!Fairness`: goroutines run, the main goroutine proceeds, an accepted
  request is carried through. No fairness for creating, requesting, shutting down or
  crashing. That a phase ends is part of it; `PhaseControl!ScanEnds` justifies it.
- `TaskAdmission!FairSpec`: the queue goroutine runs and an admitted goroutine
  updates its row. Scans need not end.
- `PhaseControl!Fairness`: the loop proceeds, the phase's timer fires, and a module
  returns some time after its context has ended. Nothing makes a module return
  before that.
- `MCTelegram!MCFairness`: weak fairness of the poll loop, of a settings request once
  begun, and of the drain, which are goroutines with a ticker or a timeout. Strong
  fairness of an answer of the server: `pollLoop` asks again for ever, and a server
  that is never reached delivers nothing. No fairness for users, operators, crashes.
- `MCServices!MCFairness`: the pumps and the hub's cases run; time passes; scanners go
  on sending, since a delay is lowered only by answers. A host may stay ill for ever,
  which is why `HealthyHostRecovers` supposes that it does not.
- `BountySync!BountyFairness`, stated again in `MCServices!MCFairness`: goroutines run,
  the ticker of `bountyCatalogScheduler` begins a due pass, time passes. Strong fairness
  of `Lock`, since `sync.Mutex` starves nobody, and of an answer of the platform, for the
  listing and for each program it lists: the pass asks again every six hours or sooner,
  and a platform that never answers tells nothing. No fairness for readers, operators,
  the platform's changes, aborts.
- `MCAutopilot!MCFairness`: `start` and the goroutine of a run go on, an operator's
  preemption looks again, a loop of the hunter watches; a run ends on its own when it
  is an operator's (it has a cap of iterations) or was cancelled, the hunter's need
  not. The queue goroutine runs and an admitted goroutine updates its row, as in
  `TaskAdmission!FairSpec`. The one-minute ticker of the watches runs, thirty minutes pass, and the
  scheduler works off a pass (`NoFreeSlotUnused` and `ScanEnds` justify that).

`MCScanContents` states no fairness: it checks safety and action properties only.

## 6. Proofs

Every safety property that a passing run checks, invariant or action property, is also
a theorem, and so are both refinements. A theorem holds for all values of the constants
that satisfy its module's assumption (`ConstantsAssumption`, `PhaseAssumption`, ...),
and for every fault and request those allow, except for what its `ASSUME` leaves out.
What it leaves out is there because the property fails with it: section 4 has the runs.

### ScanLifecycleProofs

- `TypeCorrect`, `OneExecutor`, `NoSlotLeaks`: `Spec => [](...)` of `TypeOK`,
  `OneExecutorPerTask`, `SlotsBelongToLiveRuns`
- `RowsMoveForward`: `Spec => RowsOnlyMoveForward`

The inductive invariant is `IInv == TypeOK /\ RunsAreInformed /\ OneExecutorPerTask
/\ SlotsBelongToLiveRuns`. Neither property is inductive alone. `RunsAreInformed` says
that a goroutine knows its task, and its verdict once it has one: without it, nothing is
known of the row a verdict is written to. That `OneExecutorPerTask` is preserved rests on
two facts proved separately: work begins only with a row that is pending
(`WorkStartsFromPending`), and a row that has left pending never returns to it
(`EveryStepForward`). So the guarded update is the lock that the `running` map, which
forgets a task when it is cancelled, cannot be. `SlotsBelongToLiveRuns` needs that only
admission adds an entry (`WhoTakesSlots`).

### ScanControlProofs

| Theorem | Property | Leaves out |
|---|---|---|
| `CancelledMeansAsked` | `CancelledOnlyOnRequest` | a park that fails |
| `StopWaitsForCancelledOrAsked` | while `Stop` waits, a goroutine's context is cancelled or its task was asked to stop | nothing |
| `StopFindsEveryContext` | `StopWaitsForCancelledOnly` | cancels and deletes |
| `NoZombieAfterExit` | `GracefulExitLeavesNoZombie` | crashes, a final update that fails |
| `CancelIsFinal` | `CancelSurvivesPark` | pauses |
| `ShownScansAreReal` | `ShownActiveHasScan` | pauses and resumes, rows pending for hours |
| `GateAgreesWithRow` | `GateMatchesRow` | a second request at a time, deletes |
| `SchedulerKeepsRow` | `KeepsRow` | nothing |

All rest on `WhoWritesRows`, a list of every way in which a step changes a row, and on
two invariants. `Sound` is `IInv` with what holds of requests (`RequestsAreSound`: the
rows a request has selected exist and belong to its target), of rows (`RowsAreSound`: a
row to be resumed is settled), of goroutines (`RunsAreSound`: where a verdict may come
from) and of the map (`Registered`: a goroutine without its entry was asked to stop).
`Steady` adds that a cancelled context belongs to a living goroutine (`ContextsAreLive`)
and that the row of one that works says so unless somebody else parked, cancelled or
deleted it (`WorkedRows`). Each theorem then has a part of its own:

- `CutsAreMeant`: a goroutine about to conclude as cancelled was asked to, or its row is
  parked already. That is the order park, cancel, look again of a shutdown, and it needs
  `TasksExist`.
- `StoppedRuns`: while `Stop` waits, who lives has a cancelled context or a task that
  was asked to stop. Before that, in the loop over the map, who lives may be still to come.
- `ActiveRowsEnd`: an active row has a goroutine that will conclude it. So the exit, for
  which all of them are through, leaves none, parked or not.
- `AskedSettle` with `NonePaused`: a task asked to stop is settled, or a request still
  has it to do.
- `ShownIsBacked`: a target shown as active has a scan, a goroutine that has still to
  settle it or a cancel that has still to refresh it.
- `GateInv` with `DownIsEmpty`: gate and row agree but for the one request between its
  two steps, whose place says how they differ.
- `SchedulerKeepsRow` maps each step to one of `TaskRow` or to a stutter: an insert, the
  beginning of work, its end, or a move onward. `WorkMoves` says how the set of tasks
  worked on changes; that the beginning is enabled in `TaskRow` is `OneExecutorPerTask`,
  and that no selected or parked row is absent is `Sound`.

### PhaseControlProofs

- `PhaseTypeCorrect`, `FinishedIsWhole` (`FinishedCoversPlan`), `BarriersAlwaysHold`
  (`BarriersHold`), `SkipIsAimed` (`SkipHitsOnlyItsPhase`), `RecordedNeverRuns`
  (`NothingSavedRunsAgain`)
- `SkippedNeverRuns` (`SkippedStaysSkipped`), where modules run one at a time
- `DropsAreStalled` (`DropsOnlyStalled`), where besides no wait outlasts a watchdog

`ScanInv` is the type invariant with `Nested` (a group, what is in flight and what has
returned are within each other), `RecordKept` (what was ever recorded and is still in the row's plan is recorded in the
row, which is what the filtered plan of a resume and the union of completed lists
achieve), `SkipAims` (a phase marked as skipped is one somebody aimed at), `NothingLost` (each entry of the original plan is still planned, recorded,
dropped or skipped), `Barriers` and, one at a time, `OneByOne`. Barriers are stated with
positions of the original plan, since a resume's plan keeps its order.

### AutopilotProofs

`AgentRuntime`: `AgentTypeCorrect`, `OneRun` (`OneRunPerTarget`), `RunningHasWorker`
(`RunningRowHasWorker`). The invariant is `AgentTypeOK /\ SlotIsHeld /\ HunterCallsOnce
/\ RunningRowHasWorker`. `OneRunPerTarget` is not inductive: it says nothing of a start
that has the slot and no run yet. `SlotIsHeld`, that whoever is between acquiring and
releasing is the holder, is, and needs `HunterCallsOnce`, that a loop of the hunter never
calls `start` while its last run is under way: otherwise its second call would move a
program counter that still holds the slot.

`Monitoring`: `MonTypeCorrect`, `ChangesNoticed` (`ChangesAreNoticed`). `MonInv` adds that
the stored page is never newer than the site, that each pass is `Fine` (row and
executor agree on where it stands, and one in debt is a watch with its monitor still to
come), and `DebtStands`: while a pass owes the comparison of a change, the stored page is
still older than the site, whatever other scans stored in between.

`TaskAdmission`: `AdmissionTypeCorrect` and `AdmissionSafe`, that is `SlotsBounded` with
`SlotsAreHeld`. The ceiling under any load is at most `Base` (`CeilingWithinBase`), the
critical section counts before it inserts one task, and a release only removes.

### ScanContentsProofs

`ModulePlanner`: `PlansFeed`, that `PlanFeedsDetectors` holds of requests of any length,
with repetitions and unknown words in any order. Normalisation keeps the first of equal
words, so each word has one number; words of the canonical list are in its order, in
which every parameter source is before every detector and `verify` behind them; groups
of parallel execution are apart there, so between a detector and what it needs some
phase begins; phases are counted by `Cardinality`, so a phase that begins later has a
larger number.

`FindingLifecycle`: `LifeTypeCorrect`, `FindingsProven`, `ConfirmedStays`,
`RejectionSpares`, `OneStory`. `LifeInv` says that whatever a recorder, the scorer or the
row holds of a candidate is a state that candidate has been in, and that a swap about to
be made is legal and does not leave `CONFIRMED`; from it the first properties follow
action by action. `OneStory` needs `StoryOK` in addition, over the entries written and
the one each recorder still owes after its swap: versions grow by one per swap
(`SwapAddsOne`), so two entries of one version are the same entry and neighbours join.

### TelegramProofs

The outbox: `OutboxTypeCorrect`, `RepeatsExplained`, `SweepsAreLossless`, and the
refinement `OutboxKeepsLedger`: `OutboxSpec => KeepsLedger`, that is `Ledger!LedgerSpec`
under the mapping of section 2. `OutInv` adds that a row in hand is still pending or was
deleted, that a positive answer is about a notice that was shown (without it `Settle`
would not be enabled in the ledger), and that a row that may be sent again knows of no
delivery.

The updates: `UpdatesTypeCorrect`, `AtMostOncePerCursor`, `CrashesLoseFew`
(`CrashLosesOne`). The invariant bounds the executions of a command by the number of
resets, plus one once the cursor has passed it, counting a claimed command as executed
(`CursorOK`): the guarded claim is what trades one for the other. For the crashes it is
joined by `Orderly`, as long as the cursor was not reset: the server keeps what was not
confirmed, the batch is in order and continues the cursor, and `FewLost`: what the cursor
has passed and nobody executed is at most one command per crash, not counting the one
claimed just now.

### ServicesProofs

- `WebsocketHub`: `HubTypeCorrect`, `NoSendOnClosed` (no member's channel is closed, so
  that the hub cannot panic by sending to one), `NobodySkips` (`NoGap`). `GapInv` numbers
  events by position: what a client was sent, then what its channel holds, then what the
  hub has queued are consecutive, from the number that was next when it joined.
- `HostThrottle`: `ThrottleTypeCorrect`, `SlotsShared` (`SlotsAreShared`). The invariant
  counts the holders of a slot and lists those who wait, each once; a slot given back
  goes to the first in the queue, so the count stays, or to nobody when it is empty.
- `ReleaseChecker`: `ReleaseTypeCorrect`, `CheckFollowsGitHub` (`ShownFollowsGitHub`).
  `RelInv` says that only one request asks at a time (`OneAsks`), that what it found
  cached when it set out is still what is cached, and that its answer is an error, what
  is cached, or something GitHub has shown since that was stored (`Fresh`). So an error
  is merged with what is shown, and any other change follows GitHub.

### BountySyncProofs

`BountyTypeCorrect`, `OneRefreshes` (`OneRefresher`), and, on a platform without dates,
`NobodyWaitsForItself` (`NobodyHoldsAndWaits`), the other half of the deadlock of section
4. `BountyInv` is the type invariant with `WorkIsSound` (what a goroutine has at each of
its steps), `ReachesBound`, `LocksAreHeld` (who is between `Lock` and the way out of
`ensureDetails`, also inside a reconciliation that entered it again, holds the lock of its
program) and `HeldIsFresh`: without dates, details are young from the moment they are
stored until the lock is given back, so a reconciliation never asks for it again. That
time does not pass the limit of a day meanwhile is an assumption of the model
(`Older`): a request lives for minutes.

### Only model-checked

The liveness properties: `StopReturns`, `ScanEnds`, `CommandsAreExecuted`,
`OwedIsSettled`, `HealthyHostRecovers`, `RemovalsReachProjects`,
`AdditionsReachOperators`, `SlotsComeBack`, `WatchGoesOn` and `NoFreeSlotUnused`, and
`ClientsAreReaped`. Liveness under fairness, `ENABLED` and induction over data are beyond
the prover. The violations of section 4 are TLC's, too: a theorem could only repeat them.

## 7. Not modelled

Within the modelled parts:

- Guided tasks (`executeGuidedTask`), statistics, logs and broadcasts of the scheduler.
- Failing writes of progress and of `completed_modules` (their errors are dropped).
- In `ScanLifecycle`, who creates tasks: any absent task may be created at any time,
  which includes monitors and escalation.
- Ties of `created_at`: ids stand for creation order.
- A resume of a task while its old executor still unwinds.
- A crash between the retirement of a parked row and the creation of its successor is
  in the model; the scan is lost then, and no text promises otherwise.
- What a Telegram command does, and who may send one. Its calls of the scheduler are
  requests of `ScanLifecycle`.
- What the agent's run does between start and end, and the cooldown of its hunter.
- Fingerprints of candidates, the arithmetic of scores, the choice of modules of a
  follow-up, what counts as a difference of two pages.
- Of the bounty catalogue: the parsing of four platforms, filters and the index of its
  list (which calls `ensureDetails` as a reader does), assets edited by hand,
  notifications, and that the four platforms are taken in turn.

Parts without a module, and why:

- Tool executor: a table of operating system processes; two members of a parallel
  group overwrite each other's entry, which matters to `KillTask` alone.
- Login and users: single statements, but for the check of the last administrator,
  which two requests can pass together (`auth/auth.go` 279-352).
- Detectors and recon engines, which are most of the source: network input and output
  and matching of text against servers that a model would have to invent. What the
  scheduler, the throttle and the candidates see of them is modelled.
- Agent tools, traffic capture, browser, configuration, migrations, frontend and
  extension: data, formatting and rendering.

## 8. Plan

Done: all modules of section 2, the proofs of section 6, and both refinements. What is
left, in order of worth:

1. A property over two rows: a parked scan is resumed as a new task, or known to be lost
   (a crash between retirement and insert).
2. `Accounts`: the last administrator, sessions of a deleted user.
3. `ToolExecutor`: entries of the process table overwritten in a parallel group.

## Running

    tlc -config LifecycleShutdown.cfg MCScanLifecycle.tla
    tlc -config Telegram.cfg MCTelegram.tla
    tlc -config NewSubdomainsEscalate.cfg Monitoring.tla
    tlapm TelegramProofs.tla
