---------------------------- MODULE PhaseControl ----------------------------
(***************************************************************************)
(* The phases of one scan: the module loop of executeTask, the per-phase   *)
(* context of beginPhase with its watchdog, SkipCurrentPhase, and the      *)
(* completed_modules column that lets ResumeTask continue a scan after a   *)
(* cancel, a failure, a graceful shutdown or a crash                       *)
(* (internal/scheduler/scheduler.go).                                      *)
(*                                                                         *)
(* The row of the scan is the row of its latest task: ResumeTask creates a *)
(* new task for the modules that are left.  Pausing and the races for the  *)
(* row's status are the subject of module ScanLifecycle.                   *)
(***************************************************************************)
EXTENDS Naturals, Sequences, FiniteSets

CONSTANTS
    Modules,      \* scanner modules
    Tokens,       \* pseudo-modules (speed_slow, ...) that executeTask strips
    Plan0,        \* tasks.modules of the original task
    GroupOf,      \* parallelGroup; 0 for a module that is in no group
    Parallel,     \* Limits.ParallelModules
    LongWait,     \* a task may wait for its resume longer than a module watchdog
    Pinned,       \* the original task was created with a scope_override
    None,
    MaxResumes,   \* bound: calls of ResumeTask
    MaxSkips      \* bound: operator skips

Listed(plan) == {plan[i] : i \in DOMAIN plan}

ASSUME PhaseAssumption ==
    /\ Plan0 \in Seq(Modules \cup Tokens)
    /\ \A i, j \in DOMAIN Plan0 : Plan0[i] = Plan0[j] => i = j
    /\ Modules \cap Tokens = {}
    /\ GroupOf \in [Modules \cup Tokens -> Nat]
    /\ {Parallel, LongWait, Pinned} \subseteq BOOLEAN
    /\ None \notin Modules
    /\ MaxResumes \in Nat /\ MaxSkips \in Nat

VARIABLES
    up,       \* the process runs
    row,      \* the tasks row; old: updated_at is past the module's watchdog
    run,      \* executeTask's locals; live: the scan's context is not cancelled
    phase,    \* the phase's context, and its entries in skipCancel and skipReq
    skipper,  \* phase whose cancel function SkipCurrentPhase took, 0 for none
    used,     \* resumes and skips so far
    hist      \* history: what happened to the modules

vars == <<up, row, run, phase, skipper, used, hist>>

Idle    == [pc |-> "off", live |-> FALSE, handled |-> {}, group |-> {}, inflight |-> {},
            okay |-> {}, erred |-> FALSE, completed |-> {}, taskErr |-> FALSE, outcome |-> "none"]
NoPhase(n) == [no |-> n, ctx |-> "cancelled", registered |-> FALSE, skipReq |-> FALSE, aimed |-> FALSE]

\* Every list of modules here is Plan0 with some of its entries left out, and no
\* entry is listed twice: the set of its entries stands for it, in Plan0's order.
Before(m, n) == \E i, j \in DOMAIN Plan0 : i < j /\ Plan0[i] = m /\ Plan0[j] = n

\* executeTask strips the tokens from the list it was sent.
mods == row.plan \cap Modules

Init ==
    /\ up = TRUE
    /\ row = [status |-> "pending", plan |-> Listed(Plan0), saved |-> {}, current |-> None,
              old |-> FALSE, pinned |-> Pinned]
    /\ run = Idle
    /\ phase = NoPhase(0)
    /\ skipper = 0
    /\ used = [resumes |-> 0, skips |-> 0]
    /\ hist = [covered |-> {}, saved |-> {}, skipped |-> {},
               stalled |-> {}, wedged |-> {}, dropped |-> {}]

-----------------------------------------------------------------------------
(***************************************************************************)
(* executeTask.                                                            *)
(***************************************************************************)
StartTask ==
    /\ up
    /\ row.status = "pending"
    /\ row' = [row EXCEPT !.status = "running", !.old = FALSE]
    /\ run' = [Idle EXCEPT !.pc = "loop", !.live = TRUE]
    /\ UNCHANGED <<up, phase, skipper, used, hist>>

Unhandled == mods \ run.handled

\* A bug: all members of the group, wherever they are listed.
phaseIndicesAhead(m) == {n \in Unhandled : ~Before(n, m) /\ GroupOf[n] = GroupOf[m]}

\* Only adjacent members of a group run together.
parallelPhaseIndices(m) ==
    {n \in Unhandled : ~Before(n, m) /\ \A k \in mods :
                          ~Before(k, m) /\ ~Before(n, k) => GroupOf[k] = GroupOf[m]}

PhaseFrom(m) ==
    IF Parallel /\ GroupOf[m] > 0 THEN parallelPhaseIndices(m) ELSE {m}

\* One round of the loop up to the start of the modules: current_module is
\* written, beginPhase registers a fresh context and clears the skip request.
BeginPhase ==
    /\ run.pc = "loop" /\ run.live
    /\ \E m \in Unhandled :
         /\ \A n \in Unhandled \ {m} : Before(m, n)
         /\ run' = [run EXCEPT !.pc = "run", !.handled = @ \cup PhaseFrom(m), !.group = PhaseFrom(m),
                               !.inflight = PhaseFrom(m), !.okay = {}, !.erred = FALSE, !.outcome = "none"]
         /\ row' = [row EXCEPT !.current = m, !.old = FALSE]
    /\ phase' = [no |-> phase.no + 1, ctx |-> "live", registered |-> TRUE,
                  skipReq |-> FALSE, aimed |-> FALSE]
    /\ UNCHANGED <<up, skipper, used, hist>>

Together == Cardinality(run.group) > 1

\* A module returns: nil or an error, whether its context is live or ended (most
\* scanners leave their loops on ctx.Err() and return nil).  In a parallel group
\* an error counts at once, and only while both contexts are live; alone, it
\* counts after the phase.
ModuleReturns(m, err) ==
    /\ run.pc = "run"
    /\ m \in run.inflight
    /\ run' = [run EXCEPT !.inflight = @ \ {m},
                          !.okay = IF err THEN @ ELSE @ \cup {m},
                          !.erred = @ \/ (err /\ (Together => phase.ctx = "live"))]
    /\ hist' = IF run.live THEN [hist EXCEPT !.covered = @ \cup {m}] ELSE hist
    /\ UNCHANGED <<up, row, phase, skipper, used>>

\* A bug: one timer for the scan, armed by its first phase only.
DeadlineFiresOnce ==
    /\ run.pc = "run" /\ phase.no = 1
    /\ phase.ctx = "live"
    /\ phase' = [phase EXCEPT !.ctx = "deadline"]
    /\ UNCHANGED <<up, row, run, skipper, used, hist>>

\* The phase's own timer.
DeadlineFires ==
    /\ run.pc = "run"
    /\ phase.ctx = "live"
    /\ phase' = [phase EXCEPT !.ctx = "deadline"]
    /\ UNCHANGED <<up, row, run, skipper, used, hist>>

\* A module that ignores its ended context outlives its watchdog.
ModuleStalls ==
    /\ run.pc = "run" /\ run.inflight # {} /\ phase.ctx = "deadline"
    /\ row' = [row EXCEPT !.old = TRUE]
    /\ hist' = [hist EXCEPT !.stalled = @ \cup run.inflight]
    /\ UNCHANGED <<up, run, phase, skipper, used>>

\* finishPhase, and what the loop makes of its two answers.  A group that the
\* operator skipped keeps only the members that returned nil.
FinishPhase ==
    LET timedOut == phase.ctx = "deadline" /\ run.live
        skipped  == phase.skipReq /\ run.live
        outcome  == IF skipped THEN "skipped" ELSE IF timedOut THEN "timedOut" ELSE "ended"
        whole    == IF Together THEN outcome = "timedOut" ELSE outcome # "ended"
        failed   == run.erred /\ (Together \/ outcome = "ended")
    IN
    /\ run.pc = "run" /\ run.inflight = {}
    /\ run' = [run EXCEPT !.pc = IF ~Together /\ failed THEN "loop" ELSE "persist",
                          !.completed = @ \cup (IF whole THEN run.group ELSE run.okay),
                          !.taskErr = @ \/ failed, !.outcome = outcome]
    /\ phase' = [phase EXCEPT !.ctx = "cancelled", !.registered = FALSE, !.skipReq = FALSE]
    /\ UNCHANGED <<up, row, skipper, used, hist>>

\* A bug: completed_modules is not saved after a skip.
PersistUnlessSkipped ==
    /\ run.pc = "persist"
    /\ row' = [row EXCEPT !.saved = IF run.outcome = "skipped" THEN @ ELSE run.completed, !.old = FALSE]
    /\ run' = [run EXCEPT !.pc = "loop"]
    /\ hist' = [hist EXCEPT !.saved = @ \cup row'.saved,
                            !.skipped = IF run.outcome = "skipped" THEN @ \cup run.group ELSE @]
    /\ UNCHANGED <<up, phase, skipper, used>>

PersistCompleted ==
    /\ run.pc = "persist"
    /\ row' = [row EXCEPT !.saved = run.completed, !.old = FALSE]
    /\ run' = [run EXCEPT !.pc = "loop"]
    /\ hist' = [hist EXCEPT !.saved = @ \cup run.completed,
                            !.skipped = IF run.outcome = "skipped" THEN @ \cup run.group ELSE @]
    /\ UNCHANGED <<up, phase, skipper, used>>

\* A bug: the errors of the modules are not looked at.
FinishTaskCheerfully ==
    /\ run.pc = "loop"
    /\ Unhandled = {} \/ ~run.live
    /\ row' = IF row.status = "interrupted" THEN [row EXCEPT !.old = FALSE]
              ELSE [row EXCEPT !.status = IF ~run.live THEN "cancelled" ELSE "finished",
                               !.current = None, !.old = FALSE]
    /\ run' = Idle
    /\ UNCHANGED <<up, phase, skipper, used, hist>>

\* The verdict: a parked row keeps its status and its current_module.
FinishTask ==
    /\ run.pc = "loop"
    /\ Unhandled = {} \/ ~run.live
    /\ row' = IF row.status = "interrupted" THEN [row EXCEPT !.old = FALSE]
              ELSE [row EXCEPT !.status = IF ~run.live THEN "cancelled"
                                          ELSE IF run.taskErr THEN "failed" ELSE "finished",
                               !.current = None, !.old = FALSE]
    /\ run' = Idle
    /\ UNCHANGED <<up, phase, skipper, used, hist>>

-----------------------------------------------------------------------------
(***************************************************************************)
(* The operator.                                                           *)
(***************************************************************************)
\* SkipCurrentPhase takes the cancel function under pauseMu ...
SkipRead ==
    /\ up
    /\ row.status = "running" /\ phase.registered
    /\ skipper = 0 /\ used.skips < MaxSkips
    /\ phase' = [phase EXCEPT !.skipReq = TRUE, !.aimed = TRUE]
    /\ skipper' = phase.no
    /\ used' = [used EXCEPT !.skips = @ + 1]
    /\ UNCHANGED <<up, row, run, hist>>

\* A bug: the cancel function is looked up when it is called.
SkipCancelCurrent ==
    /\ skipper # 0
    /\ phase' = IF phase.ctx = "live" THEN [phase EXCEPT !.ctx = "cancelled"] ELSE phase
    /\ skipper' = 0
    /\ UNCHANGED <<up, row, run, used, hist>>

\* ... and calls it after the unlock: only the context it belongs to is
\* cancelled, which may be over by then.
SkipCancel ==
    /\ skipper # 0
    /\ phase' = IF skipper = phase.no /\ phase.ctx = "live"
                  THEN [phase EXCEPT !.ctx = "cancelled"] ELSE phase
    /\ skipper' = 0
    /\ UNCHANGED <<up, row, run, used, hist>>

CancelContext ==
    /\ run' = [run EXCEPT !.live = FALSE]
    /\ phase' = IF phase.ctx = "live" THEN [phase EXCEPT !.ctx = "cancelled"] ELSE phase

CancelTask ==
    /\ up /\ run.live
    /\ row' = IF row.status = "running" THEN [row EXCEPT !.status = "cancelled", !.old = FALSE] ELSE row
    /\ CancelContext
    /\ UNCHANGED <<up, skipper, used, hist>>

\* A bug: the age of the row is not looked at.
LooksWhenInFlight(m) == m = row.current /\ m \notin row.saved

\* ResumeTask drops what is done and a current module that looks stalled, and
\* hands createTask neither the type nor the scope of the old task.  Called by
\* the operator and by ResumeInterrupted; here once the old task has unwound.
Looks(m) == row.old /\ m = row.current /\ m \notin row.saved

\* A bug: the list is cut after as many modules as were completed.
RemainingSuffix == {m \in row.plan : Cardinality({n \in row.plan : Before(n, m)}) >= Cardinality(row.saved)}

Remaining == {m \in row.plan : ~(m \in row.saved \/ Looks(m))}

ResumeTask ==
    /\ up /\ run.pc = "off"
    /\ row.status \in {"failed", "cancelled"}
    /\ Remaining # {}
    /\ used.resumes < MaxResumes
    /\ row' = [status |-> "pending", plan |-> Remaining, saved |-> {}, current |-> None,
               old |-> FALSE, pinned |-> FALSE]
    /\ used' = [used EXCEPT !.resumes = @ + 1]
    /\ hist' = [hist EXCEPT !.dropped = @ \cup {m \in Modules : Looks(m)}]
    /\ UNCHANGED <<up, run, phase, skipper>>

-----------------------------------------------------------------------------
(***************************************************************************)
(* Shutdown, crash, restart.                                               *)
(***************************************************************************)
\* SuspendActiveForShutdown stamps updated_at on every admitted row ...
ParkRow ==
    /\ up
    /\ row.status = "running" /\ run.live
    /\ row' = [row EXCEPT !.status = "interrupted", !.old = FALSE]
    /\ hist' = IF row.old THEN [hist EXCEPT !.wedged = @ \cup {row.current}] ELSE hist
    /\ UNCHANGED <<up, run, phase, skipper, used>>

\* ... then cancels the contexts.
ParkCancel ==
    /\ up
    /\ row.status = "interrupted" /\ run.live
    /\ CancelContext
    /\ UNCHANGED <<up, row, skipper, used, hist>>

\* The process ends, unwound or not.
ProcessEnds ==
    /\ up
    /\ used.resumes < MaxResumes
    /\ up' = FALSE
    /\ run' = Idle
    /\ phase' = NoPhase(phase.no)
    /\ skipper' = 0
    /\ UNCHANGED <<row, used, hist>>

\* The service is down, or nobody resumes the task, for longer than a watchdog.
TimePasses ==
    /\ LongWait /\ run.pc = "off" /\ ~row.old
    /\ row' = [row EXCEPT !.old = TRUE]
    /\ UNCHANGED <<up, run, phase, skipper, used, hist>>

\* recoverPendingTasks stamps the zombie it cancels; ResumeInterrupted retires
\* a parked row without touching updated_at.
Boot ==
    /\ ~up
    /\ up' = TRUE
    /\ row' = IF row.status = "running" THEN [row EXCEPT !.status = "cancelled", !.old = FALSE]
              ELSE IF row.status = "interrupted" THEN [row EXCEPT !.status = "cancelled"] ELSE row
    /\ UNCHANGED <<run, phase, skipper, used, hist>>

ExecutorStep ==
    \/ StartTask \/ BeginPhase \/ DeadlineFires \/ FinishPhase \/ PersistCompleted \/ FinishTask
    \/ \E m \in Modules, err \in BOOLEAN : ModuleReturns(m, err)

Next ==
    \/ ExecutorStep \/ ModuleStalls
    \/ SkipRead \/ SkipCancel \/ CancelTask \/ ResumeTask
    \/ ParkRow \/ ParkCancel \/ ProcessEnds \/ TimePasses \/ Boot

Spec == Init /\ [][Next]_vars

\* The loop proceeds, the phase's timer fires, and a module returns once its
\* context has ended.  Nothing makes a module return before that.
Fairness ==
    /\ WF_vars(BeginPhase \/ FinishPhase \/ PersistCompleted \/ FinishTask)
    /\ WF_vars(DeadlineFires)
    /\ WF_vars(\E m \in Modules, err \in BOOLEAN : phase.ctx # "live" /\ ModuleReturns(m, err))

FairSpec == Spec /\ Fairness

-----------------------------------------------------------------------------
(***************************************************************************)
(* Properties.                                                             *)
(***************************************************************************)
Starts(m) == m \in run'.inflight \ run.inflight

\* "Nothing already finished is re-run, because completed_modules is persisted
\* incrementally" (InterruptedStatus): a module once recorded is never started
\* again, through any number of failures, crashes and resumes.
NothingSavedRunsAgain == [][\A m \in hist.saved : ~Starts(m)]_vars

\* A scan that ends as finished has lost no module of the original request on
\* the way through its resumes: each is recorded, was dropped as stalled, or was
\* in a group the operator skipped (executeTask: "only a clean finish means 100%
\* done").
FinishedCoversPlan ==
    row.status = "finished" =>
      (Listed(Plan0) \ Tokens) \subseteq hist.saved \cup hist.dropped \cup hist.skipped

\* What completed_modules records ended while its scan was live, so a resume
\* covers all "the modules that never finished" (ResumeTask).
RecordedMeansDone == hist.saved \subseteq hist.covered

\* Ordering barriers: while a module runs, every module listed before it has
\* had its turn, except members of the same uninterrupted group
\* (parallelPhaseIndices: "looking ahead across a sequential stage starts
\* consumers before their inputs exist").
BarriersHold ==
    \A i, j \in DOMAIN Plan0 :
      i < j /\ Plan0[j] \in run.inflight /\ Plan0[i] \in Modules =>
        \/ Plan0[i] \in hist.covered \cup hist.saved \cup hist.dropped
        \/ \A k \in i..j : Plan0[k] \in Modules =>
                GroupOf[Plan0[k]] = GroupOf[Plan0[j]] /\ GroupOf[Plan0[j]] > 0

\* A skip aborts only the phase that was current when it was accepted, though
\* the cancel function is called after the unlock and the executor may have
\* moved on (SkipCurrentPhase, beginPhase).
SkipHitsOnlyItsPhase ==
    /\ run.pc = "run" /\ run.live /\ phase.ctx = "cancelled" => phase.aimed
    /\ run.outcome = "skipped" => phase.aimed

\* A resume never goes for a module the operator skipped: "mark it handled (so
\* a resume doesn't redo it)" (executeTask).
SkippedStaysSkipped == [][\A m \in hist.skipped : ~Starts(m)]_vars

\* Only a module that outlived its watchdog is dropped by ResumeTask ("Skipping
\* stalled in-flight module on resume"), as long as no wait is counted as one.
DropsOnlyStalled == hist.dropped \subseteq hist.stalled

\* A module wedged at a graceful shutdown is not started again: "keep
\* updated_at as last module progress so ResumeTask can skip a phase wedged
\* longer than its module watchdog" (suspendActive).
WedgedIsNotRepeated == [][\A m \in hist.wedged : ~Starts(m)]_vars

\* A scan pinned to one asset stays pinned: "so a target's assets scan
\* individually instead of the whole target at once" (CreateScopedTask).
PinnedStaysPinned == Pinned /\ run.inflight # {} => row.pinned

\* "A wedged module cannot hold a scheduler slot forever" (beginPhase): every
\* round of the loop is followed by the end of the task.
ScanEnds == run.pc = "run" ~> run.pc = "off"

=============================================================================
