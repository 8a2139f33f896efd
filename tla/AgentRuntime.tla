----------------------------- MODULE AgentRuntime -----------------------------
(***************************************************************************)
(* Who may run an AI agent on a target: start, acquireSlot, release,       *)
(* Cancel, LoadThread of internal/agent/runtime.go, hunterTick, StartHunter*)
(* and StopHunter of hunter.go, StartRun, FinishRun and the reclaims of    *)
(* store.go.                                                               *)
(*                                                                         *)
(* A target has one slot.  A chat or hunt of the operator takes it from    *)
(* the 24/7 hunter by cancelling the hunter's run and waiting until the    *)
(* slot is free; nobody takes it from the operator.  The environment the   *)
(* tools of a run obey is kept beside the slot under the same lock, but    *)
(* not set in the same step.  The hunter watches its run from outside and  *)
(* cancels it when the cycle is over; the run itself has no limit.  The    *)
(* slot is memory; that a thread and a run are running is in the database, *)
(* and readers of a thread repair what a dead run left behind.             *)
(*                                                                         *)
(* One target: targets share nothing but the loop of the hunter.           *)
(***************************************************************************)
EXTENDS Naturals, FiniteSets

CONSTANTS
    Operators,  \* requests of operators, each starts at most one run
    Hunters,    \* hunterLoop goroutines, started one after the other
    Threads,    \* chat threads of the target
    HunterThread, \* the thread of mode always_on
    Nobody,     \* no holder, no thread
    MaxCycles,  \* bound: cycles of the hunter
    MaxCrashes  \* bound: restarts of the process

ASSUME AgentAssumption ==
    /\ Operators \cap Hunters = {} /\ Nobody \notin Operators \cup Hunters
    /\ HunterThread \notin Threads /\ Nobody \notin Threads \cup {HunterThread}
    /\ MaxCycles \in Nat /\ MaxCrashes \in Nat

Starters == Operators \cup Hunters
AllThreads == Threads \cup {HunterThread}

VARIABLES
    slot,      \* r.active: whose run holds it, and the thread it is bound to
    env,       \* r.runEnv: "none", "operator" or "hunter"
    at,        \* where start and the goroutine it begins are, per starter
    on,        \* thread a starter works on
    cancelled, \* starters whose context is cancelled
    runRow,    \* agent_runs.status of a starter's run: "none", "running", "over"
    threadRow, \* agent_threads.status: "idle" or "running"
    watch,     \* hunterTick, per loop: "off", "rest", "picked", "starting", "watching", "closing"
    hunter,    \* the loop r.hunterStop belongs to
    stopped,   \* loops whose context is cancelled
    viewer,    \* a request that looks at a thread: where it is, and the thread
    cycles, crashes \* used up of the bounds

agentVars == <<slot, env, at, on, cancelled, runRow, threadRow,
               watch, hunter, stopped, viewer, cycles, crashes>>
hunterVars == <<watch, hunter, stopped, cycles>>
rows == <<runRow, threadRow>>

Free == [holder |-> Nobody, thread |-> Nobody]
Idle == [at |-> "idle", thread |-> Nobody]
Working == {"loop", "finish"}

AgentTypeOK ==
    /\ slot \in [holder : Starters \cup {Nobody}, thread : AllThreads \cup {Nobody}]
    /\ env \in {"none", "operator", "hunter"}
    /\ at \in [Starters -> {"idle", "acquire", "env", "resolve", "begin", "loop",
                            "finish", "release", "done"}]
    /\ on \in [Starters -> AllThreads \cup {Nobody}]
    /\ cancelled \subseteq Starters
    /\ runRow \in [Starters -> {"none", "running", "over"}]
    /\ threadRow \in [AllThreads -> {"idle", "running"}]
    /\ watch \in [Hunters -> {"off", "rest", "picked", "starting", "watching", "closing"}]
    /\ hunter \in Hunters \cup {Nobody}
    /\ stopped \subseteq Hunters
    /\ viewer \in [at : {"idle", "saw", "stale"}, thread : AllThreads \cup {Nobody}]
    /\ cycles \in Nat /\ crashes \in Nat

\* r.Busy
Busy == slot.holder # Nobody
\* r.liveFor
LiveFor(t) == Busy /\ slot.thread = t

\* Where a starter is once its call of start is over.
Over(p) == IF p \in Operators THEN "done" ELSE "idle"

-----------------------------------------------------------------------------
\* An operator asks for a chat or a hunt on a thread.
Ask(o, t) ==
    /\ at[o] = "idle"
    /\ at' = [at EXCEPT ![o] = "acquire"]
    /\ on' = [on EXCEPT ![o] = t]
    /\ UNCHANGED <<slot, env, cancelled, rows, hunterVars, viewer, crashes>>

\* A bug: preempting takes the slot at once.
AcquireByForce(p) ==
    /\ at[p] = "acquire"
    /\ ~Busy \/ (p \in Operators /\ slot.holder \in Hunters)
    /\ slot' = [holder |-> p, thread |-> Nobody]
    /\ at' = [at EXCEPT ![p] = "env"]
    /\ cancelled' = (cancelled \cup {slot.holder}) \ {p, Nobody}
    /\ UNCHANGED <<env, on, rows, hunterVars, viewer, crashes>>

\* acquireSlot finds the slot free and takes it, with a new context.
Acquire(p) ==
    /\ at[p] = "acquire" /\ ~Busy
    /\ slot' = [holder |-> p, thread |-> Nobody]
    /\ at' = [at EXCEPT ![p] = "env"]
    /\ cancelled' = cancelled \ {p}
    /\ UNCHANGED <<env, on, rows, hunterVars, viewer, crashes>>

\* acquireSlot finds the hunter in the slot: an operator cancels its run, sleeps
\* and looks again.
Preempt(p) ==
    /\ at[p] = "acquire" /\ p \in Operators /\ slot.holder \in Hunters
    /\ cancelled' = cancelled \cup {slot.holder}
    /\ UNCHANGED <<slot, env, at, on, rows, hunterVars, viewer, crashes>>

\* acquireSlot gives up: the slot is not to be had, or not within five seconds.
\* The tick of a hunter ends with its call.
Refuse(p) ==
    /\ at[p] = "acquire" /\ Busy
    /\ p \in Operators /\ slot.holder \in Hunters => slot.holder \in cancelled
    /\ at' = [at EXCEPT ![p] = Over(p)]
    /\ watch' = IF p \in Hunters THEN [watch EXCEPT ![p] = "rest"] ELSE watch
    /\ UNCHANGED <<slot, env, on, cancelled, rows, hunter, stopped, viewer, cycles, crashes>>

\* setRunEnv for an operator; the environment of the hunter was set before start.
SetEnv(p) ==
    /\ at[p] = "env"
    /\ env' = IF p \in Operators THEN "operator" ELSE env
    /\ at' = [at EXCEPT ![p] = "resolve"]
    /\ UNCHANGED <<slot, on, cancelled, rows, hunterVars, viewer, crashes>>

\* resolveThread, and the slot is bound to the thread.
Resolve(p) ==
    /\ at[p] = "resolve" /\ p \notin cancelled
    /\ slot' = IF Busy THEN [slot EXCEPT !.thread = on[p]] ELSE slot
    /\ at' = [at EXCEPT ![p] = "begin"]
    /\ UNCHANGED <<env, on, cancelled, rows, hunterVars, viewer, crashes>>

\* Append and StartRun, and the goroutine begins.
Begin(p) ==
    /\ at[p] = "begin" /\ p \notin cancelled
    /\ runRow' = [runRow EXCEPT ![p] = "running"]
    /\ threadRow' = [threadRow EXCEPT ![on[p]] = "running"]
    /\ at' = [at EXCEPT ![p] = "loop"]
    /\ watch' = IF p \in Hunters THEN [watch EXCEPT ![p] = "watching"] ELSE watch
    /\ UNCHANGED <<slot, env, on, cancelled, hunter, stopped, viewer, cycles, crashes>>

\* A bug: a start that fails keeps what it acquired.
StartFailsQuietly(p) ==
    /\ at[p] \in {"resolve", "begin"}
    /\ at' = [at EXCEPT ![p] = Over(p)]
    /\ watch' = IF p \in Hunters THEN [watch EXCEPT ![p] = "rest"] ELSE watch
    /\ UNCHANGED <<slot, env, on, cancelled, rows, hunter, stopped, viewer, cycles, crashes>>

\* Resolving the thread, appending the message or storing the run fails: release.
StartFails(p) ==
    /\ at[p] \in {"resolve", "begin"}
    /\ slot' = Free /\ env' = "none"
    /\ at' = [at EXCEPT ![p] = Over(p)]
    /\ watch' = IF p \in Hunters THEN [watch EXCEPT ![p] = "rest"] ELSE watch
    /\ UNCHANGED <<on, cancelled, rows, hunter, stopped, viewer, cycles, crashes>>

\* The loop of the run returns: it is done, failed, or saw its context cancelled.
LoopEnds(p) ==
    /\ at[p] = "loop"
    /\ at' = [at EXCEPT ![p] = "finish"]
    /\ UNCHANGED <<slot, env, on, cancelled, rows, hunterVars, viewer, crashes>>

\* FinishRun: the rows of the run and of its thread.
FinishRun(p) ==
    /\ at[p] = "finish"
    /\ runRow' = [runRow EXCEPT ![p] = "over"]
    /\ threadRow' = [threadRow EXCEPT ![on[p]] = "idle"]
    /\ at' = [at EXCEPT ![p] = "release"]
    /\ UNCHANGED <<slot, env, on, cancelled, hunterVars, viewer, crashes>>

\* release: the slot and the environment of the target go together.
Release(p) ==
    /\ at[p] = "release"
    /\ slot' = Free /\ env' = "none"
    /\ at' = [at EXCEPT ![p] = Over(p)]
    /\ UNCHANGED <<on, cancelled, rows, hunterVars, viewer, crashes>>

-----------------------------------------------------------------------------
\* StartHunter: at most one loop has its cancel function stored.
StartHunter(h) ==
    /\ hunter = Nobody /\ watch[h] = "off" /\ at[h] = "idle"
    /\ hunter' = h
    /\ watch' = [watch EXCEPT ![h] = "rest"]
    /\ stopped' = stopped \ {h}
    /\ UNCHANGED <<slot, env, at, on, cancelled, rows, viewer, cycles, crashes>>

StopHunter ==
    /\ hunter # Nobody
    /\ stopped' = stopped \cup {hunter}
    /\ hunter' = Nobody
    /\ UNCHANGED <<slot, env, at, on, cancelled, rows, watch, viewer, cycles, crashes>>

\* A stopped loop returns, from its rest or from watching; its run goes on.
HunterLeaves(h) ==
    /\ h \in stopped /\ watch[h] \in {"rest", "watching"}
    /\ watch' = [watch EXCEPT ![h] = "off"]
    /\ UNCHANGED <<slot, env, at, on, cancelled, rows, hunter, stopped, viewer, cycles, crashes>>

\* hunterTick picks the target if nobody is busy there ...
HunterPicks(h) ==
    /\ watch[h] = "rest" /\ h \notin stopped /\ ~Busy /\ cycles < MaxCycles
    /\ cycles' = cycles + 1
    /\ watch' = [watch EXCEPT ![h] = "picked"]
    /\ UNCHANGED <<slot, env, at, on, cancelled, rows, hunter, stopped, viewer, crashes>>

\* ... and, after it chose a playbook, sets the environment of a run it has not
\* started, and calls start.
HunterStarts(h) ==
    /\ watch[h] = "picked"
    /\ env' = "hunter"
    /\ watch' = [watch EXCEPT ![h] = "starting"]
    /\ at' = [at EXCEPT ![h] = "acquire"]
    /\ on' = [on EXCEPT ![h] = HunterThread]
    /\ UNCHANGED <<slot, cancelled, rows, hunter, stopped, viewer, cycles, crashes>>

\* The slot was seen free: the cycle is recorded.
HunterSeesEnd(h) ==
    /\ watch[h] \in {"watching", "closing"} /\ ~Busy
    /\ watch' = [watch EXCEPT ![h] = "rest"]
    /\ UNCHANGED <<slot, env, at, on, cancelled, rows, hunter, stopped, viewer, cycles, crashes>>

\* The cycle has lasted long enough: whoever holds the slot is cancelled.
HunterDeadline(h) ==
    /\ watch[h] = "watching" /\ Busy
    /\ cancelled' = cancelled \cup {slot.holder}
    /\ watch' = [watch EXCEPT ![h] = "closing"]
    /\ UNCHANGED <<slot, env, at, on, rows, hunter, stopped, viewer, cycles, crashes>>

\* Five seconds later the cycle is recorded in any case.
HunterCloses(h) ==
    /\ watch[h] = "closing"
    /\ watch' = [watch EXCEPT ![h] = "rest"]
    /\ UNCHANGED <<slot, env, at, on, cancelled, rows, hunter, stopped, viewer, cycles, crashes>>

-----------------------------------------------------------------------------
\* Cancel of a live run.
CancelLive ==
    /\ Busy
    /\ cancelled' = cancelled \cup {slot.holder}
    /\ UNCHANGED <<slot, env, at, on, rows, hunterVars, viewer, crashes>>

\* Cancel found no live run, and then a chat thread that is running.
CancelStale(t) ==
    /\ viewer.at = "idle" /\ ~Busy /\ t \in Threads /\ threadRow[t] = "running"
    /\ viewer' = [at |-> "stale", thread |-> t]
    /\ UNCHANGED <<slot, env, at, on, cancelled, rows, hunterVars, crashes>>

\* LoadThread reads a chat thread that is running ...
LoadThread(t) ==
    /\ viewer.at = "idle" /\ t \in Threads /\ threadRow[t] = "running"
    /\ viewer' = [at |-> "saw", thread |-> t]
    /\ UNCHANGED <<slot, env, at, on, cancelled, rows, hunterVars, crashes>>

\* ... and asks whether a worker is live for it.
LoadThreadLive ==
    /\ viewer.at = "saw"
    /\ viewer' = IF LiveFor(viewer.thread) THEN Idle ELSE [viewer EXCEPT !.at = "stale"]
    /\ UNCHANGED <<slot, env, at, on, cancelled, rows, hunterVars, crashes>>

\* ReclaimThread
Reclaim ==
    /\ viewer.at = "stale"
    /\ runRow' = [p \in Starters |-> IF runRow[p] = "running" /\ on[p] = viewer.thread
                                     THEN "over" ELSE runRow[p]]
    /\ threadRow' = [threadRow EXCEPT ![viewer.thread] = "idle"]
    /\ viewer' = Idle
    /\ UNCHANGED <<slot, env, at, on, cancelled, hunterVars, crashes>>

\* A bug: a new process forgets what was running in the old one.
ReclaimNothing == UNCHANGED rows
\* ReclaimOrphans, when the process starts
ReclaimOrphans ==
    /\ runRow' = [p \in Starters |-> IF runRow[p] = "running" THEN "over" ELSE runRow[p]]
    /\ threadRow' = [t \in AllThreads |-> "idle"]

\* The process dies and starts again.
AgentRestart ==
    /\ crashes < MaxCrashes
    /\ crashes' = crashes + 1
    /\ slot' = Free /\ env' = "none" /\ cancelled' = {}
    /\ at' = [p \in Starters |-> IF at[p] = "idle" THEN "idle" ELSE Over(p)]
    /\ watch' = [h \in Hunters |-> "off"]
    /\ hunter' = Nobody /\ stopped' = {} /\ viewer' = Idle
    /\ ReclaimOrphans
    /\ UNCHANGED <<on, cycles>>

-----------------------------------------------------------------------------
AgentInit ==
    /\ slot = Free /\ env = "none"
    /\ at = [p \in Starters |-> "idle"]
    /\ on = [p \in Starters |-> Nobody]
    /\ cancelled = {}
    /\ runRow = [p \in Starters |-> "none"]
    /\ threadRow = [t \in AllThreads |-> "idle"]
    /\ watch = [h \in Hunters |-> "off"]
    /\ hunter = Nobody /\ stopped = {} /\ viewer = Idle
    /\ cycles = 0 /\ crashes = 0

\* What start and the goroutine of a run do on their own; a run of the hunter ends
\* on its own only if it likes to.
StartStep(p) ==
    Acquire(p) \/ Refuse(p) \/ SetEnv(p) \/ Resolve(p) \/ Begin(p) \/ StartFails(p)
        \/ FinishRun(p) \/ Release(p) \/ (LoopEnds(p) /\ (p \in Operators \/ p \in cancelled))
HunterStep(h) ==
    HunterLeaves(h) \/ HunterStarts(h) \/ HunterSeesEnd(h) \/ HunterDeadline(h) \/ HunterCloses(h)

AgentNext ==
    \/ \E p \in Starters :
        \/ Acquire(p) \/ Preempt(p) \/ Refuse(p) \/ SetEnv(p) \/ Resolve(p) \/ Begin(p)
        \/ StartFails(p) \/ LoopEnds(p) \/ FinishRun(p) \/ Release(p)
    \/ \E o \in Operators, t \in Threads : Ask(o, t)
    \/ \E h \in Hunters :
        \/ StartHunter(h) \/ HunterLeaves(h) \/ HunterPicks(h) \/ HunterStarts(h)
        \/ HunterSeesEnd(h) \/ HunterDeadline(h) \/ HunterCloses(h)
    \/ StopHunter \/ CancelLive \/ LoadThreadLive \/ Reclaim \/ AgentRestart
    \/ \E t \in Threads : CancelStale(t) \/ LoadThread(t)

AgentSpec == AgentInit /\ [][AgentNext]_agentVars

AgentFairness ==
    /\ \A p \in Starters : WF_agentVars(StartStep(p)) /\ WF_agentVars(Preempt(p))
    /\ \A h \in Hunters : WF_agentVars(HunterStep(h))

FairAgentSpec == AgentSpec /\ AgentFairness

-----------------------------------------------------------------------------
\* Two runs never work on a target at once: a preempted hunter has left before the
\* operator's run begins.
OneRunPerTarget ==
    \A p, q \in Starters : at[p] \in Working /\ at[q] \in Working => p = q

\* A run that the database shows as running has a goroutine that will record its
\* end: none is left behind by a cancel, a refusal, a preemption or a crash.
RunningRowHasWorker ==
    \A p \in Starters : runRow[p] = "running" => at[p] \in Working

\* The slot comes back whoever holds it.  The one exception is a run of the hunter
\* whose loop was stopped: nobody watches its clock any more.
SlotsComeBack ==
    \A p \in Starters : slot.holder = p ~> (slot.holder # p \/ p \in stopped)

\* runtime.go:433 (acquireSlot): "The hunter never preempts the operator".
HunterSparesOperators ==
    [][\A o \in Operators : slot.holder = o /\ o \in cancelled' \ cancelled =>
         ~ \E h \in Hunters : HunterDeadline(h)]_agentVars

\* runtime.go:640 (loop): an unlimited run of the hunter ends, as "the cycle deadline
\* (or operator cancel) is the only stop besides stop_hunt" and the deadline comes.
HunterRunsEnd == \A h \in Hunters : at[h] = "loop" ~> at[h] # "loop"

\* store.go:371: ReclaimThread "unsticks one operator-facing thread whose worker is gone".
ReclaimedIsGone == [][Reclaim => ~LiveFor(viewer.thread)]_agentVars
=============================================================================
