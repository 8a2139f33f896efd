--------------------------- MODULE ScanLifecycle ---------------------------
(***************************************************************************)
(* The life of a scan in internal/scheduler/scheduler.go.                  *)
(*                                                                         *)
(* Three kinds of process touch the same rows and maps: one goroutine per  *)
(* admitted task (executeTask), the admission loop (processQueue), and the *)
(* goroutines that serve the operator (HTTP handlers and the Telegram      *)
(* bot).  The main goroutine parks the scans at a graceful shutdown, and a *)
(* restart recovers and resumes them.  Every SQL statement and every       *)
(* critical section of s.mu or s.pauseMu is one atomic step, so the model  *)
(* shows what happens between two of them.                                 *)
(*                                                                         *)
(* A scan's modules are abstracted to a number of phases; what a phase     *)
(* leaves behind is the subject of module PhaseControl, and the choice of  *)
(* the next pending row that of module TaskAdmission.                      *)
(***************************************************************************)
EXTENDS Naturals, FiniteSets

CONSTANTS
    Tasks,      \* ids of the task rows that can be created, in creation order
    Targets,    \* scan targets (projects)
    TargetOf,   \* tasks.target_id of every task
    Workers,    \* goroutines that run executeTask: bounds how many live at once
    Handlers,   \* goroutines that serve operator requests
    None,       \* no task, no worker
    Ceiling,    \* effectiveMaxConcurrent without pressure
    PerTarget,  \* Limits.MaxScansPerTarget
    Phases,     \* modules a scan still has to run when it is admitted
    MaxBoots,   \* bound: restarts of the service
    Ops,        \* operator requests a run considers
    Aged,       \* tasks that may have been pending for over 2h at a restart
    Faults      \* SQL statements that may fail: "start", "park", "final"

ASSUME ConstantsAssumption ==
    /\ Tasks \subseteq Nat
    /\ TargetOf \in [Tasks -> Targets]
    /\ None \notin Tasks \cup Workers \cup Targets
    /\ Ceiling \in Nat /\ PerTarget \in Nat /\ Phases \in Nat /\ MaxBoots \in Nat
    /\ Ops \subseteq {"cancelTask", "cancelTarget", "delete", "pause", "resume", "shutdown", "crash"}
    /\ Aged \subseteq Tasks
    /\ Faults \subseteq {"start", "park", "final"}

VARIABLES
    row,        \* tasks.status of every task ("none": no such row)
    scan,       \* targets.scan_status
    owner,      \* s.running, s.cancelMap and s.taskTargets: the goroutine whose
                \* cancel function is registered for a task, None without an entry
    gor,        \* the executeTask goroutines
    ctxDone,    \* goroutines whose context is cancelled
    gate,       \* s.paused
    probe,      \* task whose row tryStartTask found pending
    hs,         \* the operator's requests in progress
    asked,      \* history: tasks an operator asked to stop, and got or may get an answer
    life,       \* where the main goroutine is
    toPark,     \* rows SuspendActiveForShutdown still has to park
    toCancel,   \* cancel functions it took when it closed admission
    boots,      \* restarts so far
    parked,     \* interrupted rows ResumeInterrupted has still to visit
    requeue,    \* row it has retired and not yet resumed
    seenFull    \* targets it has already resumed a full scan of

dbVars   == <<row, scan>>
memVars  == <<owner, gor, ctxDone, gate, probe>>
mainVars == <<life, toPark, toCancel, boots, parked, requeue, seenFull>>
vars     == <<dbVars, memVars, hs, asked, mainVars>>

-----------------------------------------------------------------------------
Active   == {"running", "paused"}
Terminal == {"finished", "failed", "cancelled"}
Status   == {"none", "pending", "interrupted", "deleted"} \cup Active \cup Terminal
ScanStatus == {"idle", "pending", "running", "paused", "failed", "deleted"}

\* From the guarded pending -> running update on, a goroutine does the scan's work.
WorkPc == {"mark", "loop", "run", "recheck", "write", "settle"}
RunPc  == {"none", "start", "exit"} \cup WorkPc
Verdict == {"none", "interrupted"} \cup Terminal
Run    == [pc : RunPc, task : Tasks \cup {None}, left : 0..Phases, verdict : Verdict]
NoRun  == [pc |-> "none", task |-> None, left |-> 0, verdict |-> "none"]

HandlerPc == {"idle", "ctUpdate", "ckUnmap", "ckUpdate", "refresh", "delete", "reconcile",
              "pauseGate", "pauseRow", "pauseTarget", "resumeGate", "resumeRow", "resumeTarget"}
Request == [pc : HandlerPc, target : Targets \cup {None}, ids : SUBSET Tasks, del : BOOLEAN]
NoRequest == [pc |-> "idle", target |-> None, ids |-> {}, del |-> FALSE]

LifePc == {"resuming", "serving", "list", "park", "parkTargets", "cancelAll",
           "closing", "waiting", "down"}

TypeOK ==
    /\ row \in [Tasks -> Status]
    /\ scan \in [Targets -> ScanStatus]
    /\ owner \in [Tasks -> Workers \cup {None}]
    /\ gor \in [Workers -> Run]
    /\ ctxDone \subseteq Workers
    /\ gate \subseteq Tasks
    /\ probe \in Tasks \cup {None}
    /\ hs \in [Handlers -> Request]
    /\ asked \subseteq Tasks
    /\ life \in LifePc
    /\ toPark \subseteq Tasks /\ toCancel \subseteq Workers
    /\ boots \in 0..MaxBoots
    /\ parked \subseteq Tasks
    /\ requeue \in Tasks \cup {None}
    /\ seenFull \subseteq Targets

TasksOf(g) == {t \in Tasks : TargetOf[t] = g}
HasRow(g, statuses) == \E t \in TasksOf(g) : row[t] \in statuses
Up       == life # "down"
Stopping == life \notin {"resuming", "serving"}

(***************************************************************************)
(* Statements shared by several callers.                                   *)
(***************************************************************************)
\* UPDATE targets SET scan_status: no effect once the target is deleted.
SetScan(g, s) == scan' = IF scan[g] = "deleted" THEN scan ELSE [scan EXCEPT ![g] = s]

RefreshTargetScanStatus(g, terminal) ==
    SetScan(g, IF HasRow(g, {"running"}) THEN "running"
               ELSE IF HasRow(g, {"paused", "interrupted"}) THEN "paused"
               ELSE IF HasRow(g, {"pending"}) THEN "pending" ELSE terminal)

\* INSERT INTO tasks: ids are handed out in creation order, and the foreign key
\* refuses a deleted target.
CanInsert(t) ==
    /\ row[t] = "none"
    /\ scan[TargetOf[t]] # "deleted"
    /\ \A u \in TasksOf(TargetOf[t]) : row[u] = "none" => t <= u

\* runningTaskForTarget: the newest running or paused task of the target.
NewestActive(g) == {t \in TasksOf(g) : row[t] \in Active /\
                      \A u \in TasksOf(g) : row[u] \in Active => u <= t}

Init ==
    /\ row = [t \in Tasks |-> "none"]
    /\ scan = [g \in Targets |-> "idle"]
    /\ owner = [t \in Tasks |-> None]
    /\ gor = [w \in Workers |-> NoRun]
    /\ ctxDone = {} /\ gate = {} /\ probe = None
    /\ hs = [h \in Handlers |-> NoRequest]
    /\ asked = {}
    /\ life = "serving" /\ toPark = {} /\ toCancel = {} /\ boots = 0
    /\ parked = {} /\ requeue = None /\ seenFull = {}

-----------------------------------------------------------------------------
(***************************************************************************)
(* Creation and admission.                                                 *)
(***************************************************************************)
\* createTask holds s.mu for reading from the stopping check to the INSERT.
CreateTask(t) ==
    /\ ~Stopping
    /\ CanInsert(t)
    /\ row' = [row EXCEPT ![t] = "pending"]
    /\ UNCHANGED <<scan, memVars, hs, asked, mainVars>>

\* tryStartTask reads the row before it takes s.mu.
ProbePending(t) ==
    /\ Up
    /\ probe = None
    /\ row[t] = "pending"
    /\ probe' = t
    /\ UNCHANGED <<dbVars, owner, gor, ctxDone, gate, hs, asked, mainVars>>

Running == {t \in Tasks : owner[t] # None}
\* A bug: admission ignores s.stopping.
AdmissibleWhileStopping(t) ==
    /\ owner[t] = None
    /\ Cardinality(Running) < Ceiling
    /\ Cardinality(Running \cap TasksOf(TargetOf[t])) < PerTarget

Admissible(t) ==
    /\ ~Stopping
    /\ owner[t] = None
    /\ Cardinality(Running) < Ceiling
    /\ Cardinality(Running \cap TasksOf(TargetOf[t])) < PerTarget

RefuseTask ==
    /\ probe # None
    /\ ~Admissible(probe)
    /\ probe' = None
    /\ UNCHANGED <<dbVars, owner, gor, ctxDone, gate, hs, asked, mainVars>>

AdmitTask(w) ==
    /\ probe # None
    /\ Admissible(probe)
    /\ gor[w] = NoRun
    /\ owner' = [owner EXCEPT ![probe] = w]
    /\ gor' = [gor EXCEPT ![w] = [pc |-> "start", task |-> probe, left |-> Phases, verdict |-> "none"]]
    /\ probe' = None
    /\ UNCHANGED <<dbVars, ctxDone, gate, hs, asked, mainVars>>

-----------------------------------------------------------------------------
(***************************************************************************)
(* executeTask, one goroutine per admitted task.                           *)
(***************************************************************************)
At(w, pc) == Up /\ gor[w].pc = pc
Goto(w, pc) == gor' = [gor EXCEPT ![w].pc = pc]
Conclude(w, pc, v) == gor' = [gor EXCEPT ![w].pc = pc, ![w].verdict = v]

\* A bug: the update names the row by id alone.
StartRowUnguarded(w) ==
    /\ At(w, "start")
    /\ row' = [row EXCEPT ![gor[w].task] = "running"]
    /\ Goto(w, "mark")
    /\ UNCHANGED <<scan, owner, ctxDone, gate, probe, hs, asked, mainVars>>

\* UPDATE tasks SET status='running' WHERE id=? AND status='pending'.  The rows
\* that the reads above it turn away (deleted, cancelled) fail this guard too.
StartRow(w) ==
    LET t == gor[w].task IN
    /\ At(w, "start")
    /\ IF row[t] = "pending"
       THEN row' = [row EXCEPT ![t] = "running"] /\ Goto(w, "mark")
       ELSE row' = row /\ Goto(w, "exit")
    /\ UNCHANGED <<scan, owner, ctxDone, gate, probe, hs, asked, mainVars>>

\* All five attempts met a busy database.
StartRowFails(w) ==
    /\ "start" \in Faults
    /\ At(w, "start")
    /\ Goto(w, "exit")
    /\ UNCHANGED <<dbVars, owner, ctxDone, gate, probe, hs, asked, mainVars>>

MarkTargetRunning(w) ==
    /\ At(w, "mark")
    /\ SetScan(TargetOf[gor[w].task], "running")
    /\ Goto(w, "loop")
    /\ UNCHANGED <<row, owner, ctxDone, gate, probe, hs, asked, mainVars>>

\* The head of the module loop: the context is live and the pause gate open.
EnterPhase(w) ==
    /\ At(w, "loop")
    /\ gor[w].left > 0
    /\ w \notin ctxDone
    /\ gor[w].task \notin gate
    /\ gor' = [gor EXCEPT ![w].pc = "run", ![w].left = @ - 1]
    /\ UNCHANGED <<dbVars, owner, ctxDone, gate, probe, hs, asked, mainVars>>

LeavePhase(w) ==
    /\ At(w, "run")
    /\ Goto(w, "loop")
    /\ UNCHANGED <<dbVars, owner, ctxDone, gate, probe, hs, asked, mainVars>>

\* A bug: waitIfPaused does not watch the context.
LeaveLoopUnlessPaused(w) ==
    /\ At(w, "loop")
    /\ gor[w].left = 0 \/ (w \in ctxDone /\ gor[w].task \notin gate)
    /\ gate' = gate \ {gor[w].task}
    /\ \E v \in (IF w \in ctxDone THEN {"cancelled"} ELSE {"finished", "failed"}) :
         Conclude(w, "recheck", v)
    /\ UNCHANGED <<dbVars, owner, ctxDone, probe, hs, asked, mainVars>>

\* The loop ends; the pause entry is dropped and the verdict taken from the
\* context, or from the error of some module.
LeaveLoop(w) ==
    /\ At(w, "loop")
    /\ gor[w].left = 0 \/ w \in ctxDone
    /\ gate' = gate \ {gor[w].task}
    /\ \E v \in (IF w \in ctxDone THEN {"cancelled"} ELSE {"finished", "failed"}) :
         Conclude(w, "recheck", v)
    /\ UNCHANGED <<dbVars, owner, ctxDone, probe, hs, asked, mainVars>>

\* A bug: the verdict is written without a second look at the row.
RecheckNothing(w) ==
    /\ At(w, "recheck")
    /\ Goto(w, "write")
    /\ UNCHANGED <<dbVars, owner, ctxDone, gate, probe, hs, asked, mainVars>>

\* persistedStatus == InterruptedStatus keeps the row parked.
RecheckRow(w) ==
    /\ At(w, "recheck")
    /\ Conclude(w, "write",
                IF row[gor[w].task] = "interrupted" THEN "interrupted" ELSE gor[w].verdict)
    /\ UNCHANGED <<dbVars, owner, ctxDone, gate, probe, hs, asked, mainVars>>

\* The final UPDATE names the row by id alone.
WriteVerdict(w) ==
    LET t == gor[w].task IN
    /\ At(w, "write")
    /\ row' = IF gor[w].verdict = "interrupted" \/ row[t] = "deleted" THEN row
              ELSE [row EXCEPT ![t] = gor[w].verdict]
    /\ Goto(w, "settle")
    /\ UNCHANGED <<scan, owner, ctxDone, gate, probe, hs, asked, mainVars>>

\* It is not retried: a busy database loses it.
WriteVerdictFails(w) ==
    /\ "final" \in Faults
    /\ At(w, "write")
    /\ Goto(w, "settle")
    /\ UNCHANGED <<dbVars, owner, ctxDone, gate, probe, hs, asked, mainVars>>

SettleTarget(w) ==
    /\ At(w, "settle")
    /\ RefreshTargetScanStatus(TargetOf[gor[w].task],
                               IF gor[w].verdict = "failed" THEN "failed" ELSE "idle")
    /\ Goto(w, "exit")
    /\ UNCHANGED <<row, owner, ctxDone, gate, probe, hs, asked, mainVars>>

\* A bug: the deferred function forgets the running map.
ExitRunKeepsSlot(w) ==
    /\ At(w, "exit")
    /\ gor' = [gor EXCEPT ![w] = NoRun]
    /\ ctxDone' = ctxDone \ {w}
    /\ UNCHANGED <<dbVars, owner, gate, probe, hs, asked, mainVars>>

\* The deferred function of tryStartTask deletes the entries of the task,
\* whichever goroutine they belong to.
ExitRun(w) ==
    /\ At(w, "exit")
    /\ owner' = [owner EXCEPT ![gor[w].task] = None]
    /\ gor' = [gor EXCEPT ![w] = NoRun]
    /\ ctxDone' = ctxDone \ {w}
    /\ UNCHANGED <<dbVars, gate, probe, hs, asked, mainVars>>

ExecutorStep(w) ==
    \/ StartRow(w) \/ StartRowFails(w) \/ MarkTargetRunning(w)
    \/ EnterPhase(w) \/ LeavePhase(w) \/ LeaveLoop(w)
    \/ RecheckRow(w) \/ WriteVerdict(w) \/ WriteVerdictFails(w)
    \/ SettleTarget(w) \/ ExitRun(w)

-----------------------------------------------------------------------------
(***************************************************************************)
(* The operator's requests.                                                *)
(***************************************************************************)
Accept(h, op) == Up /\ hs[h].pc = "idle" /\ op \in Ops
HandlerAt(h, pc) == Up /\ hs[h].pc = pc
HandlerTo(h, pc) == hs' = [hs EXCEPT ![h].pc = pc]
Done(h) == hs' = [hs EXCEPT ![h] = NoRequest]

\* One critical section of s.mu: call the cancel functions, drop the entries.
Unmap(S) ==
    /\ owner' = [t \in Tasks |-> IF t \in S THEN None ELSE owner[t]]
    /\ ctxDone' = ctxDone \cup ({owner[t] : t \in S} \cap Workers)

\* CancelTask: unmap, guarded update, refresh.
CancelTask(h, t) ==
    /\ Accept(h, "cancelTask")
    /\ row[t] \notin {"none", "deleted"}
    /\ Unmap({t})
    /\ hs' = [hs EXCEPT ![h] = [pc |-> "ctUpdate", target |-> TargetOf[t], ids |-> {t}, del |-> FALSE]]
    /\ asked' = asked \cup {t}
    /\ UNCHANGED <<dbVars, gor, gate, probe, mainVars>>

CancelTaskRow(h) ==
    /\ HandlerAt(h, "ctUpdate")
    /\ row' = [t \in Tasks |-> IF t \in hs[h].ids /\ row[t] \in {"running", "pending"}
                               THEN "cancelled" ELSE row[t]]
    /\ HandlerTo(h, "refresh")
    /\ UNCHANGED <<scan, memVars, asked, mainVars>>

\* CancelTasksForTarget selects the rows first; a paused scan is not selected.
CancelTasksForTarget(h, g, del) ==
    /\ Accept(h, IF del THEN "delete" ELSE "cancelTarget")
    /\ scan[g] # "deleted"
    /\ hs' = [hs EXCEPT ![h] = [pc |-> "ckUnmap", target |-> g, del |-> del,
                                ids |-> {t \in TasksOf(g) : row[t] \in {"running", "pending"}}]]
    /\ asked' = asked \cup {t \in TasksOf(g) : row[t] \in Active \cup {"pending"}}
    /\ UNCHANGED <<dbVars, memVars, mainVars>>

CancelSelected(h) ==
    /\ HandlerAt(h, "ckUnmap")
    /\ Unmap(hs[h].ids)
    /\ HandlerTo(h, IF hs[h].ids = {} THEN "refresh" ELSE "ckUpdate")
    /\ UNCHANGED <<dbVars, gor, gate, probe, asked, mainVars>>

\* One unguarded UPDATE per selected row.
CancelSelectedRow(h, t) ==
    /\ HandlerAt(h, "ckUpdate")
    /\ t \in hs[h].ids
    /\ row' = IF row[t] = "deleted" THEN row ELSE [row EXCEPT ![t] = "cancelled"]
    /\ hs' = [hs EXCEPT ![h].ids = @ \ {t},
                        ![h].pc = IF hs[h].ids = {t} THEN "refresh" ELSE "ckUpdate"]
    /\ UNCHANGED <<scan, memVars, asked, mainVars>>

\* A bug: the target's status is left as it was.
CancelWithoutRefresh(h) ==
    /\ HandlerAt(h, "refresh")
    /\ IF hs[h].del THEN HandlerTo(h, "delete") ELSE Done(h)
    /\ UNCHANGED <<dbVars, memVars, asked, mainVars>>

RefreshAfterCancel(h) ==
    /\ HandlerAt(h, "refresh")
    /\ RefreshTargetScanStatus(hs[h].target, "idle")
    /\ IF hs[h].del THEN HandlerTo(h, "delete") ELSE Done(h)
    /\ UNCHANGED <<row, memVars, asked, mainVars>>

\* deleteTargetByID: the cascade takes the task rows along.
DeleteTarget(h) ==
    /\ HandlerAt(h, "delete")
    /\ scan' = [scan EXCEPT ![hs[h].target] = "deleted"]
    /\ row' = [t \in Tasks |-> IF t \in TasksOf(hs[h].target) /\ row[t] # "none"
                               THEN "deleted" ELSE row[t]]
    /\ Done(h)
    /\ UNCHANGED <<memVars, asked, mainVars>>

\* PauseTarget; without an active task it heals a stale target instead.
PauseTarget(h, g) ==
    /\ Accept(h, "pause")
    /\ scan[g] # "deleted"
    /\ hs' = [hs EXCEPT ![h] = [pc |-> IF NewestActive(g) = {} THEN "reconcile" ELSE "pauseGate",
                                target |-> g, ids |-> NewestActive(g), del |-> FALSE]]
    /\ UNCHANGED <<dbVars, memVars, asked, mainVars>>

ReconcileOrphanedTarget(h) ==
    LET g == hs[h].target IN
    /\ HandlerAt(h, "reconcile")
    /\ IF scan[g] \in {"running", "paused"} /\ ~HasRow(g, Active \cup {"pending"})
       THEN scan' = [scan EXCEPT ![g] = "idle"] ELSE scan' = scan
    /\ Done(h)
    /\ UNCHANGED <<row, memVars, asked, mainVars>>

PauseGate(h) ==
    /\ HandlerAt(h, "pauseGate")
    /\ gate' = gate \cup hs[h].ids
    /\ HandlerTo(h, "pauseRow")
    /\ UNCHANGED <<dbVars, owner, gor, ctxDone, probe, asked, mainVars>>

\* A bug: UPDATE ... SET status='paused' without AND status='running'.
PauseRowUnguarded(h) ==
    /\ HandlerAt(h, "pauseRow")
    /\ row' = [t \in Tasks |-> IF t \in hs[h].ids /\ row[t] # "deleted" THEN "paused" ELSE row[t]]
    /\ HandlerTo(h, "pauseTarget")
    /\ UNCHANGED <<scan, memVars, asked, mainVars>>

PauseRow(h) ==
    /\ HandlerAt(h, "pauseRow")
    /\ row' = [t \in Tasks |-> IF t \in hs[h].ids /\ row[t] = "running" THEN "paused" ELSE row[t]]
    /\ HandlerTo(h, "pauseTarget")
    /\ UNCHANGED <<scan, memVars, asked, mainVars>>

PauseTargetRow(h) ==
    /\ HandlerAt(h, "pauseTarget")
    /\ SetScan(hs[h].target, "paused")
    /\ Done(h)
    /\ UNCHANGED <<row, memVars, asked, mainVars>>

ResumeTarget(h, g) ==
    /\ Accept(h, "resume")
    /\ NewestActive(g) # {}
    /\ hs' = [hs EXCEPT ![h] = [pc |-> "resumeGate", target |-> g,
                                ids |-> NewestActive(g), del |-> FALSE]]
    /\ UNCHANGED <<dbVars, memVars, asked, mainVars>>

\* A bug: the pause entry stays.
ResumeGateKept(h) ==
    /\ HandlerAt(h, "resumeGate")
    /\ HandlerTo(h, "resumeRow")
    /\ UNCHANGED <<dbVars, memVars, asked, mainVars>>

ResumeGate(h) ==
    /\ HandlerAt(h, "resumeGate")
    /\ gate' = gate \ hs[h].ids
    /\ HandlerTo(h, "resumeRow")
    /\ UNCHANGED <<dbVars, owner, gor, ctxDone, probe, asked, mainVars>>

\* A bug: UPDATE ... SET status='running' without AND status='paused'.
ResumeRowUnguarded(h) ==
    /\ HandlerAt(h, "resumeRow")
    /\ row' = [t \in Tasks |-> IF t \in hs[h].ids /\ row[t] # "deleted" THEN "running" ELSE row[t]]
    /\ HandlerTo(h, "resumeTarget")
    /\ UNCHANGED <<scan, memVars, asked, mainVars>>

ResumeRow(h) ==
    /\ HandlerAt(h, "resumeRow")
    /\ row' = [t \in Tasks |-> IF t \in hs[h].ids /\ row[t] = "paused" THEN "running" ELSE row[t]]
    /\ HandlerTo(h, "resumeTarget")
    /\ UNCHANGED <<scan, memVars, asked, mainVars>>

ResumeTargetRow(h) ==
    /\ HandlerAt(h, "resumeTarget")
    /\ SetScan(hs[h].target, "running")
    /\ Done(h)
    /\ UNCHANGED <<row, memVars, asked, mainVars>>

OperatorStep(h) ==
    \/ \E t \in Tasks : CancelTask(h, t) \/ CancelSelectedRow(h, t)
    \/ \E g \in Targets :
         \/ \E del \in BOOLEAN : CancelTasksForTarget(h, g, del)
         \/ PauseTarget(h, g) \/ ResumeTarget(h, g)
    \/ CancelTaskRow(h) \/ CancelSelected(h) \/ RefreshAfterCancel(h) \/ DeleteTarget(h)
    \/ ReconcileOrphanedTarget(h) \/ PauseGate(h) \/ PauseRow(h) \/ PauseTargetRow(h)
    \/ ResumeGate(h) \/ ResumeRow(h) \/ ResumeTargetRow(h)

-----------------------------------------------------------------------------
(***************************************************************************)
(* The main goroutine: graceful shutdown, crash, restart.                  *)
(***************************************************************************)
\* SuspendActiveForShutdown: stopScheduling closes admission and takes the cancel
\* functions, a second critical section the admitted ids; then rows are touched.
BeginShutdown ==
    /\ life = "serving"
    /\ "shutdown" \in Ops
    /\ life' = "list"
    /\ toCancel' = {owner[t] : t \in Running}
    /\ UNCHANGED <<dbVars, memVars, hs, asked, toPark, boots, parked, requeue, seenFull>>

ListAdmitted ==
    /\ life = "list"
    /\ life' = "park"
    /\ toPark' = Running
    /\ UNCHANGED <<dbVars, memVars, hs, asked, toCancel, boots, parked, requeue, seenFull>>

\* A bug: whatever was admitted is parked.
ParkAdmittedUnguarded(t) ==
    /\ life = "park"
    /\ t \in toPark
    /\ row' = IF row[t] = "deleted" THEN row ELSE [row EXCEPT ![t] = "interrupted"]
    /\ toPark' = toPark \ {t}
    /\ UNCHANGED <<scan, memVars, hs, asked, life, toCancel, boots, parked, requeue, seenFull>>

ParkAdmitted(t) ==
    /\ life = "park"
    /\ t \in toPark
    /\ row' = IF row[t] \in Active \cup {"pending"} THEN [row EXCEPT ![t] = "interrupted"] ELSE row
    /\ toPark' = toPark \ {t}
    /\ UNCHANGED <<scan, memVars, hs, asked, life, toCancel, boots, parked, requeue, seenFull>>

\* suspendActive: any other active row, then the targets of interrupted rows.
ParkRemaining ==
    /\ life = "park"
    /\ toPark = {}
    /\ row' = [t \in Tasks |-> IF row[t] \in Active THEN "interrupted" ELSE row[t]]
    /\ life' = "parkTargets"
    /\ UNCHANGED <<scan, memVars, hs, asked, toPark, toCancel, boots, parked, requeue, seenFull>>

ParkTargets ==
    /\ life = "parkTargets"
    /\ scan' = [g \in Targets |-> IF HasRow(g, {"interrupted"}) THEN "paused" ELSE scan[g]]
    /\ life' = "cancelAll"
    /\ UNCHANGED <<row, memVars, hs, asked, toPark, toCancel, boots, parked, requeue, seenFull>>

\* A failing park returns before the cancel functions are called.
ParkFails ==
    /\ "park" \in Faults
    /\ life = "park"
    /\ life' = "closing"
    /\ toPark' = {} /\ toCancel' = {}
    /\ UNCHANGED <<dbVars, memVars, hs, asked, boots, parked, requeue, seenFull>>

CancelAll ==
    /\ life = "cancelAll"
    /\ ctxDone' = ctxDone \cup {w \in toCancel : gor[w] # NoRun}
    /\ life' = "closing"
    /\ toCancel' = {}
    /\ UNCHANGED <<dbVars, owner, gor, gate, probe, hs, asked, toPark, boots, parked, requeue, seenFull>>

\* Stop, after srv.Shutdown: cancel what is registered, then wait.
StopScheduler ==
    /\ life = "closing"
    /\ ctxDone' = ctxDone \cup {owner[t] : t \in Running}
    /\ life' = "waiting"
    /\ UNCHANGED <<dbVars, owner, gor, gate, probe, hs, asked,
                   toPark, toCancel, boots, parked, requeue, seenFull>>

\* What the process loses when it ends.
Forget ==
    /\ owner' = [t \in Tasks |-> None]
    /\ gor' = [w \in Workers |-> NoRun]
    /\ ctxDone' = {} /\ gate' = {} /\ probe' = None
    /\ hs' = [h \in Handlers |-> NoRequest]
    /\ life' = "down" /\ toPark' = {} /\ toCancel' = {}
    /\ parked' = {} /\ requeue' = None /\ seenFull' = {}
    /\ asked' = asked \ UNION {hs[h].ids : h \in Handlers}
    /\ UNCHANGED <<dbVars, boots>>

\* s.wg.Wait returned.
ProcessExit ==
    /\ life = "waiting"
    /\ \A w \in Workers : gor[w] = NoRun
    /\ Forget

Crash ==
    /\ "crash" \in Ops
    /\ Up
    /\ boots < MaxBoots
    /\ Forget

\* A bug: the zombies are cancelled and their targets left as they were.
BootWithoutReconcile ==
    /\ life = "down"
    /\ boots < MaxBoots
    /\ boots' = boots + 1
    /\ row' = [t \in Tasks |-> IF row[t] \in Active THEN "cancelled" ELSE row[t]]
    /\ parked' = {t \in Tasks : row[t] = "interrupted"}
    /\ life' = "resuming"
    /\ UNCHANGED <<scan, memVars, hs, asked, toPark, toCancel, requeue, seenFull>>

\* recoverPendingTasks, before anything else runs: zombies are cancelled, then
\* orphaned targets are reset, then the stale pending rows are cancelled.
Boot ==
    /\ life = "down"
    /\ boots < MaxBoots
    /\ boots' = boots + 1
    /\ LET swept == [t \in Tasks |-> IF row[t] \in Active THEN "cancelled" ELSE row[t]]
           waiting(g) == \E t \in TasksOf(g) : swept[t] \in Active \cup {"pending"}
       IN  /\ scan' = [g \in Targets |-> IF scan[g] \in {"running", "paused"} /\ ~waiting(g)
                                         THEN "idle" ELSE scan[g]]
           /\ \E stale \in SUBSET {t \in Aged : swept[t] = "pending"} :
                row' = [t \in Tasks |-> IF t \in stale THEN "cancelled" ELSE swept[t]]
    /\ parked' = {t \in Tasks : row[t] = "interrupted"}
    /\ life' = "resuming"
    /\ UNCHANGED <<memVars, hs, asked, toPark, toCancel, requeue, seenFull>>

(***************************************************************************)
(* ResumeInterrupted: main goroutine, while the queue already runs and the *)
(* Telegram bot already accepts commands.  All tasks are full scans here.  *)
(***************************************************************************)
RetireParked(t) ==
    /\ life = "resuming"
    /\ requeue = None
    /\ t \in parked
    /\ row' = IF row[t] = "deleted" THEN row ELSE [row EXCEPT ![t] = "cancelled"]
    /\ parked' = parked \ {t}
    /\ seenFull' = seenFull \cup {TargetOf[t]}
    /\ requeue' = IF TargetOf[t] \in seenFull THEN None ELSE t
    /\ UNCHANGED <<scan, memVars, hs, asked, life, toPark, toCancel, boots>>

\* ResumeTask of the retired row: a new pending row ...
RequeueParked(t) ==
    /\ requeue # None
    /\ TargetOf[t] = TargetOf[requeue]
    /\ CanInsert(t)
    /\ row' = [row EXCEPT ![t] = "pending"]
    /\ requeue' = None
    /\ UNCHANGED <<scan, memVars, hs, asked, life, toPark, toCancel, boots, parked, seenFull>>

\* ... or an error: nothing left to run, target gone, INSERT failed.
RequeueNothing ==
    /\ requeue # None
    /\ requeue' = None
    /\ UNCHANGED <<dbVars, memVars, hs, asked, life, toPark, toCancel, boots, parked, seenFull>>

ClearPausedMarkers ==
    /\ life = "resuming"
    /\ parked = {} /\ requeue = None
    /\ scan' = [g \in Targets |->
                  IF scan[g] = "paused" /\ ~HasRow(g, Active \cup {"pending", "interrupted"})
                  THEN "idle" ELSE scan[g]]
    /\ life' = "serving"
    /\ UNCHANGED <<row, memVars, hs, asked, toPark, toCancel, boots, parked, requeue, seenFull>>

-----------------------------------------------------------------------------
Next ==
    \/ \E t \in Tasks : CreateTask(t) \/ ProbePending(t) \/ ParkAdmitted(t) \/ RetireParked(t)
                        \/ RequeueParked(t)
    \/ RefuseTask
    \/ \E w \in Workers : AdmitTask(w) \/ ExecutorStep(w)
    \/ \E h \in Handlers : OperatorStep(h)
    \/ BeginShutdown \/ ListAdmitted \/ ParkRemaining \/ ParkTargets \/ ParkFails \/ CancelAll
    \/ StopScheduler \/ ProcessExit \/ Crash \/ Boot \/ RequeueNothing \/ ClearPausedMarkers

Spec == Init /\ [][Next]_vars

\* Goroutines run, the main goroutine proceeds, and an accepted request is
\* carried through; nobody has to issue a request, shut down or crash.  A phase
\* ends by itself or at its watchdog.
Fairness ==
    /\ \A w \in Workers : WF_vars(ExecutorStep(w))
    /\ \A h \in Handlers : WF_vars(OperatorStep(h) /\ hs[h].pc # "idle")
    /\ WF_vars(ListAdmitted \/ ParkRemaining \/ ParkTargets \/ CancelAll \/ StopScheduler \/ ProcessExit)
    /\ \A t \in Tasks : WF_vars(ParkAdmitted(t))

FairSpec == Spec /\ Fairness

-----------------------------------------------------------------------------
(***************************************************************************)
(* Properties.                                                             *)
(***************************************************************************)
Working(w) == gor[w].pc \in WorkPc
HandlersIdle == \A h \in Handlers : hs[h].pc = "idle"

\* At most one goroutine does the work of a task, and only for a row that has
\* left pending: the guarded pending -> running update is the only lock, since
\* the running map forgets a task as soon as it is cancelled (tryStartTask,
\* CancelTask, executeTask).
OneExecutorPerTask ==
    /\ \A w \in Workers : Working(w) => row[gor[w].task] \notin {"none", "pending"}
    /\ \A v, w \in Workers : Working(v) /\ Working(w) /\ gor[v].task = gor[w].task => v = w

\* No slot leaks: an entry of running/cancelMap belongs to a live goroutine of
\* that very task, so capacity always comes back (tryStartTask's deferred
\* deletes, CancelTask, CancelTasksForTarget).
SlotsBelongToLiveRuns ==
    \A t \in Tasks : owner[t] # None => gor[owner[t]].task = t

\* No statement of any actor brings a row back: a terminal or deleted row never
\* becomes active or resumable again, and no row returns to pending.  Pause,
\* resume, cancel, park and the executor update the same row concurrently.
RowsOnlyMoveForward ==
    [][\A t \in Tasks :
         /\ row[t] \in Terminal => row'[t] \in Terminal \cup {"deleted"}
         /\ row[t] = "deleted" => row'[t] = "deleted"
         /\ row[t] # "none" /\ row[t] # "pending" => row'[t] # "pending"]_vars

\* A scan that no operator stopped is never marked cancelled while the process
\* runs: shutdown parks the row before it cancels the context, and executeTask
\* re-reads the row before its final update (scheduler.go 494-527, 1742-1747).
CancelledOnlyOnRequest ==
    [][\A t \in Tasks : row'[t] = "cancelled" /\ row[t] # "cancelled"
                          => t \in asked \/ life \in {"down", "resuming"}]_vars

\* "Stop must never wait for a scanner that still has an active context"
\* (scheduler.go 391-393): when wg.Wait begins every live goroutine is cancelled.
StopWaitsForCancelledOnly ==
    life = "waiting" => \A w \in Workers : gor[w] # NoRun => w \in ctxDone

\* After a graceful exit no row claims to be active, so the next start's zombie
\* sweep (recoverPendingTasks) cancels nothing that could have been resumed.
GracefulExitLeavesNoZombie ==
    life = "down" => \A t \in Tasks : row[t] \notin Active

\* Between requests the pause gate in memory and the paused status in the row
\* agree for every scan still in its module loop (PauseTarget, ResumeTarget,
\* waitIfPaused): neither a scan that runs on while shown as paused, nor one
\* that waits while shown as running.
GateMatchesRow ==
    HandlersIdle /\ ~Stopping =>
      \A w \in Workers : gor[w].pc \in {"mark", "loop", "run"} =>
        (gor[w].task \in gate <=> row[gor[w].task] = "paused")

\* Once requests and unwinding goroutines are through, a target shown as running
\* or paused has a scan behind it (refreshTargetScanStatus,
\* reconcileOrphanedTarget: "a leftover zombie from a crash/restart").
ShownActiveHasScan ==
    life = "serving" /\ HandlersIdle
      /\ (\A w \in Workers : gor[w].pc \in {"none", "loop", "run"})
    => \A g \in Targets : scan[g] \in Active =>
         \/ HasRow(g, Active \cup {"pending", "interrupted"})
         \/ \E w \in Workers : Working(w) /\ TargetOf[gor[w].task] = g

\* A scan the operator asked to stop has its context cancelled once the request
\* has been served (handleCancelScan: "stops the target's ENTIRE running scan";
\* deleteTargetByID: "so its goroutine stops immediately").
StopRequestReachesScan ==
    HandlersIdle => \A w \in Workers : Working(w) /\ gor[w].task \in asked => w \in ctxDone

\* A cancel that was carried through is not undone by a shutdown: only a task
\* whose cancel is still between two of its statements can be parked, and so
\* resumed by the next start (SuspendActiveForShutdown's guarded updates).
CancelSurvivesPark ==
    [][\A t \in asked : row[t] # "interrupted" /\ row'[t] = "interrupted" =>
         \E h \in Handlers : hs[h].pc \in {"ctUpdate", "ckUnmap", "ckUpdate"} /\ t \in hs[h].ids]_vars

\* A graceful shutdown ends: once rows are being parked the process exits,
\* paused scans included, because waitIfPaused watches the context.
StopReturns == life = "list" ~> life = "down"

\* The goroutine of a deleted target's scan ends, and with it its slot comes
\* back (deleteTargetByID: "so its goroutine stops immediately").
DeletedScanReleasesSlot ==
    \A w \in Workers :
      Working(w) /\ row[gor[w].task] = "deleted" ~> ~(Working(w) /\ row[gor[w].task] = "deleted")

\* The scheduler keeps the promise of TaskRow: the work of a task begins once, with
\* its row leaving pending, and no statement of any actor brings a row back
\* (executeTask's guarded update, CancelTask, PauseTarget, suspendActive,
\* recoverPendingTasks, ResumeInterrupted).
StageOf(s) == IF s \in Active THEN "active" ELSE IF s \in Terminal THEN "over" ELSE s
WorkedOn == {t \in Tasks : \E w \in Workers : Working(w) /\ gor[w].task = t}
Row == INSTANCE TaskRow WITH
    stage <- [t \in Tasks |-> StageOf(row[t])],
    working <- WorkedOn
KeepsRow == Row!RowSpec

=============================================================================
