------------------------ MODULE ScanLifecycleProofs ------------------------
(***************************************************************************)
(* Proofs about ScanLifecycle, for every number of tasks, targets,         *)
(* goroutines and concurrent operator requests, with crashes, restarts and *)
(* failing statements.                                                     *)
(***************************************************************************)
EXTENDS ScanLifecycle, TLAPS

LEMMA NoRunIsRun == NoRun \in Run
  BY ConstantsAssumption DEF NoRun, Run, RunPc, WorkPc, Verdict

LEMMA NoRequestIsRequest == NoRequest \in Request
  BY DEF NoRequest, Request, HandlerPc

\* UPDATE targets keeps the column's type.
LEMMA SetScanType ==
    ASSUME scan \in [Targets -> ScanStatus], NEW g, NEW s \in ScanStatus, SetScan(g, s)
    PROVE  scan' \in [Targets -> ScanStatus]
  BY DEF SetScan

LEMMA RefreshType ==
    ASSUME scan \in [Targets -> ScanStatus], NEW g, NEW s \in {"idle", "failed"},
           RefreshTargetScanStatus(g, s)
    PROVE  scan' \in [Targets -> ScanStatus]
<1>1. \E x \in ScanStatus : SetScan(g, x)
  BY DEF RefreshTargetScanStatus, ScanStatus
<1> QED
  BY <1>1, SetScanType

\* A run's record keeps its type when only its program counter moves.
LEMMA GotoType ==
    ASSUME gor \in [Workers -> Run], NEW w \in Workers, NEW pc \in RunPc, Goto(w, pc)
    PROVE  gor' \in [Workers -> Run]
  BY DEF Goto, Run

LEMMA ConcludeType ==
    ASSUME gor \in [Workers -> Run], NEW w \in Workers, NEW pc \in RunPc, NEW v \in Verdict,
           Conclude(w, pc, v)
    PROVE  gor' \in [Workers -> Run]
<1>1. gor[w] \in Run
  OBVIOUS
<1>2. [gor[w] EXCEPT !.pc = pc, !.verdict = v] \in Run
  BY <1>1 DEF Run
<1>3. gor' = [gor EXCEPT ![w] = [gor[w] EXCEPT !.pc = pc, !.verdict = v]]
  BY DEF Conclude
<1> QED
  BY <1>2, <1>3

LEMMA HandlerToType ==
    ASSUME hs \in [Handlers -> Request], NEW h \in Handlers, NEW pc \in HandlerPc, HandlerTo(h, pc)
    PROVE  hs' \in [Handlers -> Request]
  BY DEF HandlerTo, Request

LEMMA DoneType ==
    ASSUME hs \in [Handlers -> Request], NEW h \in Handlers, Done(h)
    PROVE  hs' \in [Handlers -> Request]
  BY NoRequestIsRequest DEF Done

LEMMA ExecutorType ==
    ASSUME TypeOK, NEW w \in Workers, ExecutorStep(w)
    PROVE  TypeOK'
<1> USE ConstantsAssumption DEF TypeOK, dbVars, mainVars, Status, Active, Terminal
<1>0. gor[w] \in Run
  OBVIOUS
<1>1. CASE StartRow(w)
  <2>1. gor' \in [Workers -> Run]
    BY <1>1, GotoType DEF StartRow, RunPc, WorkPc
  <2> QED
    BY <1>1, <2>1 DEF StartRow
<1>2. CASE StartRowFails(w)
  BY <1>2, GotoType DEF StartRowFails, RunPc
<1>3. CASE MarkTargetRunning(w)
  <2>1. gor' \in [Workers -> Run] /\ scan' \in [Targets -> ScanStatus]
    BY <1>3, GotoType, SetScanType DEF MarkTargetRunning, RunPc, WorkPc, ScanStatus
  <2> QED
    BY <1>3, <2>1 DEF MarkTargetRunning
<1>4. CASE EnterPhase(w)
  <2>1. gor[w].left - 1 \in 0..Phases
    BY <1>0, <1>4 DEF EnterPhase, Run
  <2>2. gor' \in [Workers -> Run]
    BY <1>4, <2>1 DEF EnterPhase, Run, RunPc, WorkPc
  <2> QED
    BY <1>4, <2>2 DEF EnterPhase
<1>5. CASE LeavePhase(w)
  BY <1>5, GotoType DEF LeavePhase, RunPc, WorkPc
<1>6. CASE LeaveLoop(w)
  <2>1. gor' \in [Workers -> Run]
    BY <1>6, ConcludeType DEF LeaveLoop, Verdict, RunPc, WorkPc
  <2> QED
    BY <1>6, <2>1 DEF LeaveLoop
<1>7. CASE RecheckRow(w)
  <2>1. gor' \in [Workers -> Run]
    BY <1>0, <1>7, ConcludeType DEF RecheckRow, Run, Verdict, RunPc, WorkPc
  <2> QED
    BY <1>7, <2>1 DEF RecheckRow
<1>8. CASE WriteVerdict(w)
  <2>1. gor' \in [Workers -> Run]
    BY <1>8, GotoType DEF WriteVerdict, RunPc, WorkPc
  <2>2. gor[w].verdict \in Status
    BY <1>0 DEF Run, Verdict
  <2> QED
    BY <1>8, <2>1, <2>2 DEF WriteVerdict
<1>9. CASE WriteVerdictFails(w)
  BY <1>9, GotoType DEF WriteVerdictFails, RunPc, WorkPc
<1>10. CASE SettleTarget(w)
  <2>1. gor' \in [Workers -> Run]
    BY <1>10, GotoType DEF SettleTarget, RunPc
  <2>2. scan' \in [Targets -> ScanStatus]
    BY <1>10, RefreshType DEF SettleTarget
  <2> QED
    BY <1>10, <2>1, <2>2 DEF SettleTarget
<1>11. CASE ExitRun(w)
  BY <1>11, NoRunIsRun DEF ExitRun
<1> QED
  BY <1>1, <1>2, <1>3, <1>4, <1>5, <1>6, <1>7, <1>8, <1>9, <1>10, <1>11 DEF ExecutorStep

LEMMA OperatorType ==
    ASSUME TypeOK, NEW h \in Handlers, OperatorStep(h)
    PROVE  TypeOK'
<1> USE ConstantsAssumption DEF TypeOK, dbVars, memVars, mainVars
<1> USE DEF Status, Active, Terminal
<1>0. hs[h] \in Request
  OBVIOUS
<1>1. ASSUME NEW t \in Tasks, CancelTask(h, t)
      PROVE  TypeOK'
  BY <1>1 DEF CancelTask, Unmap, Request, HandlerPc
<1>2. ASSUME NEW t \in Tasks, CancelSelectedRow(h, t)
      PROVE  TypeOK'
  <2>1. hs' \in [Handlers -> Request]
    BY <1>0, <1>2 DEF CancelSelectedRow, Request, HandlerPc
  <2> QED
    BY <1>2, <2>1 DEF CancelSelectedRow
<1>3. ASSUME NEW g \in Targets, NEW del \in BOOLEAN, CancelTasksForTarget(h, g, del)
      PROVE  TypeOK'
  BY <1>3 DEF CancelTasksForTarget, TasksOf, Request, HandlerPc
<1>4. ASSUME NEW g \in Targets, PauseTarget(h, g) \/ ResumeTarget(h, g)
      PROVE  TypeOK'
  <2>1. NewestActive(g) \in SUBSET Tasks
    BY DEF NewestActive, TasksOf
  <2>2. \A pc \in HandlerPc :
          [pc |-> pc, target |-> g, ids |-> NewestActive(g), del |-> FALSE] \in Request
    BY <2>1 DEF Request
  <2>3. hs' \in [Handlers -> Request]
    BY <1>4, <2>2 DEF PauseTarget, ResumeTarget, HandlerPc
  <2> QED
    BY <1>4, <2>3 DEF PauseTarget, ResumeTarget
<1>5. CASE CancelTaskRow(h)
  BY <1>5, HandlerToType DEF CancelTaskRow, HandlerPc
<1>6. CASE CancelSelected(h)
  BY <1>6, HandlerToType DEF CancelSelected, Unmap, HandlerPc
<1>7. CASE RefreshAfterCancel(h)
  <2>1. scan' \in [Targets -> ScanStatus]
    BY <1>7, RefreshType DEF RefreshAfterCancel
  <2>2. hs' \in [Handlers -> Request]
    BY <1>7, HandlerToType, DoneType DEF RefreshAfterCancel, HandlerPc
  <2> QED
    BY <1>7, <2>1, <2>2 DEF RefreshAfterCancel
<1>8. CASE DeleteTarget(h)
  BY <1>8, DoneType DEF DeleteTarget, TasksOf, ScanStatus
<1>9. CASE ReconcileOrphanedTarget(h)
  BY <1>9, DoneType DEF ReconcileOrphanedTarget, ScanStatus
<1>10. CASE PauseGate(h) \/ ResumeGate(h)
  <2>1. hs[h].ids \subseteq Tasks
    BY <1>0 DEF Request
  <2> QED
    BY <1>10, <2>1, HandlerToType DEF PauseGate, ResumeGate, HandlerPc
<1>11. CASE PauseRow(h) \/ ResumeRow(h)
  BY <1>11, HandlerToType DEF PauseRow, ResumeRow, HandlerPc
<1>12. CASE PauseTargetRow(h) \/ ResumeTargetRow(h)
  BY <1>12, DoneType, SetScanType DEF PauseTargetRow, ResumeTargetRow, ScanStatus
<1> QED
  BY <1>1, <1>2, <1>3, <1>4, <1>5, <1>6, <1>7, <1>8, <1>9, <1>10, <1>11, <1>12 DEF OperatorStep

LEMMA MainType ==
    ASSUME TypeOK,
           \/ BeginShutdown \/ ListAdmitted \/ ParkRemaining \/ ParkTargets \/ ParkFails \/ CancelAll
           \/ StopScheduler \/ ProcessExit \/ Crash \/ Boot \/ RequeueNothing \/ ClearPausedMarkers
           \/ \E t \in Tasks : ParkAdmitted(t) \/ RetireParked(t) \/ RequeueParked(t)
    PROVE  TypeOK'
<1> USE ConstantsAssumption DEF TypeOK, dbVars, memVars, mainVars
<1> USE DEF Status, Active, Terminal, ScanStatus, LifePc
<1>1. ASSUME Forget PROVE TypeOK'
  <2>1. asked' \subseteq Tasks
    BY <1>1, Zenon DEF Forget
  <2>2. /\ owner' \in [Tasks -> Workers \cup {None}]
        /\ gor' \in [Workers -> Run] /\ hs' \in [Handlers -> Request]
    BY <1>1, NoRunIsRun, NoRequestIsRequest, Zenon DEF Forget
  <2>3. /\ row' \in [Tasks -> Status] /\ scan' \in [Targets -> ScanStatus]
        /\ ctxDone' = {} /\ gate' = {} /\ probe' = None /\ toPark' = {} /\ toCancel' = {}
        /\ parked' = {} /\ requeue' = None /\ seenFull' = {} /\ boots' = boots
        /\ life' \in LifePc
    BY <1>1 DEF Forget
  <2> QED
    BY <2>1, <2>2, <2>3
<1>2. CASE BeginShutdown \/ ListAdmitted
  BY <1>2 DEF BeginShutdown, ListAdmitted, Running
<1>3. CASE ParkRemaining
  BY <1>3 DEF ParkRemaining
<1>4. CASE ParkTargets
  BY <1>4 DEF ParkTargets
<1>5. CASE ParkFails
  BY <1>5 DEF ParkFails
<1>6. CASE CancelAll
  BY <1>6 DEF CancelAll
<1>7. CASE StopScheduler
  BY <1>7 DEF StopScheduler, Running
<1>8. CASE ProcessExit \/ Crash
  BY <1>1, <1>8 DEF ProcessExit, Crash
<1>9. CASE Boot
  <2>1. row' \in [Tasks -> Status] /\ scan' \in [Targets -> ScanStatus]
    BY <1>9 DEF Boot
  <2>2. parked' \subseteq Tasks /\ boots' \in 0..MaxBoots /\ life' \in LifePc
    BY <1>9 DEF Boot
  <2> QED
    BY <1>9, <2>1, <2>2 DEF Boot
<1>10. CASE RequeueNothing
  BY <1>10 DEF RequeueNothing
<1>11. CASE ClearPausedMarkers
  BY <1>11 DEF ClearPausedMarkers
<1>12. ASSUME NEW t \in Tasks, ParkAdmitted(t) \/ RetireParked(t) \/ RequeueParked(t)
       PROVE  TypeOK'
  <2>1. CASE ParkAdmitted(t)
    BY <2>1 DEF ParkAdmitted
  <2>2. CASE RetireParked(t)
    BY <2>2 DEF RetireParked
  <2>3. CASE RequeueParked(t)
    BY <2>3 DEF RequeueParked
  <2> QED
    BY <1>12, <2>1, <2>2, <2>3
<1> QED
  BY <1>2, <1>3, <1>4, <1>5, <1>6, <1>7, <1>8, <1>9, <1>10, <1>11, <1>12

LEMMA AdmissionType ==
    ASSUME TypeOK,
           \/ RefuseTask
           \/ \E w \in Workers : AdmitTask(w)
           \/ \E t \in Tasks : CreateTask(t) \/ ProbePending(t)
    PROVE  TypeOK'
<1> USE ConstantsAssumption DEF TypeOK, dbVars, memVars, mainVars, Status
<1>1. CASE RefuseTask
  BY <1>1 DEF RefuseTask
<1>2. ASSUME NEW w \in Workers, AdmitTask(w)
      PROVE  TypeOK'
  BY <1>2 DEF AdmitTask, Run, RunPc, Verdict
<1>3. ASSUME NEW t \in Tasks, CreateTask(t) \/ ProbePending(t)
      PROVE  TypeOK'
  BY <1>3 DEF CreateTask, ProbePending
<1> QED
  BY <1>1, <1>2, <1>3

LEMMA InitType == Init => TypeOK
  BY ConstantsAssumption, NoRunIsRun, NoRequestIsRequest
  DEF Init, TypeOK, Status, ScanStatus, LifePc

LEMMA NextType == TypeOK /\ [Next]_vars => TypeOK'
<1> SUFFICES ASSUME TypeOK, [Next]_vars
             PROVE  TypeOK'
  OBVIOUS
<1>1. CASE UNCHANGED vars
  BY <1>1 DEF TypeOK, vars, dbVars, memVars, mainVars
<1> QED
  BY <1>1, ExecutorType, OperatorType, MainType, AdmissionType DEF Next

-----------------------------------------------------------------------------
(***************************************************************************)
(* What a step leaves alone.                                               *)
(***************************************************************************)
\* A goroutine that exists has a task, and a verdict once it left the loop.
RunsAreInformed ==
    \A w \in Workers :
      /\ gor[w].pc # "none" => gor[w].task \in Tasks
      /\ gor[w].pc \in {"recheck", "write", "settle"} => gor[w].verdict # "none"

\* Only admission, the goroutines themselves and the end of the process touch
\* the goroutines.
LEMMA WhoTouchesRuns ==
    ASSUME [Next]_vars
    PROVE  \/ \E w \in Workers : ExecutorStep(w) \/ AdmitTask(w)
           \/ UNCHANGED gor
           \/ Forget
<1> USE DEF memVars
<1>1. ASSUME NEW h \in Handlers, OperatorStep(h)
      PROVE  UNCHANGED gor
  BY <1>1 DEF OperatorStep, CancelTask, CancelTaskRow, CancelTasksForTarget, CancelSelected,
              CancelSelectedRow, RefreshAfterCancel, DeleteTarget, PauseTarget,
              ReconcileOrphanedTarget, PauseGate, PauseRow, PauseTargetRow, ResumeTarget,
              ResumeGate, ResumeRow, ResumeTargetRow
<1>2. ASSUME NEW t \in Tasks,
             CreateTask(t) \/ RequeueParked(t) \/ ProbePending(t) \/ ParkAdmitted(t) \/ RetireParked(t)
      PROVE  UNCHANGED gor
  BY <1>2 DEF CreateTask, RequeueParked, ProbePending, ParkAdmitted, RetireParked
<1>3. CASE \/ RefuseTask \/ BeginShutdown \/ ListAdmitted
           \/ ParkRemaining \/ ParkTargets \/ ParkFails \/ CancelAll
           \/ StopScheduler \/ RequeueNothing \/ ClearPausedMarkers \/ Boot \/ UNCHANGED vars
  BY <1>3 DEF RefuseTask, BeginShutdown, ListAdmitted, ParkRemaining, ParkTargets, ParkFails, CancelAll,
              StopScheduler, RequeueNothing, ClearPausedMarkers, Boot, vars
<1> QED
  BY <1>1, <1>2, <1>3 DEF Next, ProcessExit, Crash

\* A step of a goroutine changes that goroutine only, and keeps its task until
\* it exits.
LEMMA ExecutorKeepsTask ==
    ASSUME TypeOK, NEW w \in Workers, ExecutorStep(w)
    PROVE  /\ \A v \in Workers \ {w} : gor'[v] = gor[v]
           /\ gor[w].pc # "none"
           /\ ~ExitRun(w) => gor'[w].task = gor[w].task /\ UNCHANGED owner
<1> USE DEF TypeOK, At
<1>0. gor[w] \in Run
  OBVIOUS
<1>1. CASE StartRow(w)
  <2>1. gor[w].pc = "start" /\ (Goto(w, "mark") \/ Goto(w, "exit")) /\ UNCHANGED owner
    BY <1>1 DEF StartRow
  <2> QED
    BY <1>0, <2>1 DEF Goto, Run
<1>2. CASE StartRowFails(w) \/ MarkTargetRunning(w) \/ LeavePhase(w)
  BY <1>0, <1>2 DEF StartRowFails, MarkTargetRunning, LeavePhase, Goto, Run
<1>3. CASE WriteVerdict(w) \/ WriteVerdictFails(w) \/ SettleTarget(w)
  BY <1>0, <1>3 DEF WriteVerdict, WriteVerdictFails, SettleTarget, Goto, Run
<1>4. CASE LeaveLoop(w) \/ RecheckRow(w)
  BY <1>0, <1>4 DEF LeaveLoop, RecheckRow, Conclude, Run
<1>5. CASE EnterPhase(w)
  BY <1>0, <1>5 DEF EnterPhase, Run
<1>6. CASE ExitRun(w)
  BY <1>6 DEF ExitRun
<1> QED
  BY <1>1, <1>2, <1>3, <1>4, <1>5, <1>6 DEF ExecutorStep

LEMMA RunsStayInformed == TypeOK /\ RunsAreInformed /\ [Next]_vars => RunsAreInformed'
<1> SUFFICES ASSUME TypeOK, RunsAreInformed, [Next]_vars
             PROVE  RunsAreInformed'
  OBVIOUS
<1> USE DEF TypeOK, RunsAreInformed
<1>1. CASE UNCHANGED gor
  BY <1>1
<1>2. CASE Forget
  BY <1>2 DEF Forget, NoRun
<1>3. ASSUME NEW w \in Workers, AdmitTask(w)
      PROVE  RunsAreInformed'
  <2>1. probe \in Tasks
    BY <1>3 DEF AdmitTask
  <2> QED
    BY <1>3, <2>1 DEF AdmitTask
<1>4. ASSUME NEW w \in Workers, ExecutorStep(w)
      PROVE  RunsAreInformed'
  <2>1. /\ \A v \in Workers \ {w} : gor'[v] = gor[v]
        /\ ~ExitRun(w) => gor'[w].task \in Tasks
    BY <1>4, ExecutorKeepsTask
  <2>2. gor'[w].pc \in {"recheck", "write", "settle"} => gor'[w].verdict # "none"
    <3>0. gor[w] \in Run
      OBVIOUS
    <3>1. CASE LeaveLoop(w) \/ RecheckRow(w)
      BY <1>4, <3>0, <3>1 DEF LeaveLoop, RecheckRow, At, Conclude, Run
    <3>2. CASE WriteVerdict(w) \/ WriteVerdictFails(w) \/ SettleTarget(w)
      BY <3>0, <3>2 DEF WriteVerdict, WriteVerdictFails, SettleTarget, At, Goto, Run
    <3>3. CASE StartRow(w) \/ StartRowFails(w) \/ MarkTargetRunning(w) \/ LeavePhase(w)
      BY <3>0, <3>3 DEF StartRow, StartRowFails, MarkTargetRunning, LeavePhase, Goto, Run
    <3>4. CASE EnterPhase(w) \/ ExitRun(w)
      BY <3>0, <3>4 DEF EnterPhase, ExitRun, Run, NoRun
    <3> QED
      BY <1>4, <3>1, <3>2, <3>3, <3>4 DEF ExecutorStep
  <2>3. CASE ExitRun(w)
    BY <2>1, <2>2, <2>3 DEF ExitRun, NoRun
  <2> QED
    BY <2>1, <2>2, <2>3
<1> QED
  BY <1>1, <1>2, <1>3, <1>4, WhoTouchesRuns

-----------------------------------------------------------------------------
(***************************************************************************)
(* Rows only move forward.                                                 *)
(***************************************************************************)
Forward(t) ==
    /\ row[t] \in Terminal => row'[t] \in Terminal \cup {"deleted"}
    /\ row[t] = "deleted" => row'[t] = "deleted"
    /\ row[t] \notin {"none", "pending"} => row'[t] \notin {"none", "pending"}

\* Every statement of every actor moves every row forward.
LEMMA EveryStepForward ==
    TypeOK /\ RunsAreInformed /\ [Next]_vars => \A t \in Tasks : Forward(t)
<1> SUFFICES ASSUME TypeOK, RunsAreInformed, [Next]_vars
             PROVE  \A t \in Tasks : Forward(t)
  OBVIOUS
<1> USE DEF TypeOK, Forward, Terminal, Active, dbVars
<1>1. ASSUME NEW w \in Workers, ExecutorStep(w)
      PROVE  \A t \in Tasks : Forward(t)
  <2>1. CASE WriteVerdict(w)
    <3>1. gor[w].verdict \in {"interrupted"} \cup Terminal
      BY <2>1 DEF RunsAreInformed, WriteVerdict, At, Run, Verdict
    <3> QED
      BY <2>1, <3>1 DEF WriteVerdict
  <2>2. CASE StartRow(w)
    BY <2>2 DEF StartRow
  <2> QED
    BY <1>1, <2>1, <2>2
    DEF ExecutorStep, StartRowFails, MarkTargetRunning, EnterPhase, LeavePhase, LeaveLoop,
        RecheckRow, WriteVerdictFails, SettleTarget, ExitRun
<1>2. ASSUME NEW h \in Handlers, OperatorStep(h)
      PROVE  \A t \in Tasks : Forward(t)
  BY <1>2 DEF OperatorStep, CancelTask, CancelTaskRow, CancelTasksForTarget, CancelSelected,
              CancelSelectedRow, RefreshAfterCancel, DeleteTarget, PauseTarget,
              ReconcileOrphanedTarget, PauseGate, PauseRow, PauseTargetRow, ResumeTarget,
              ResumeGate, ResumeRow, ResumeTargetRow
<1>3. ASSUME NEW t \in Tasks, CreateTask(t) \/ RequeueParked(t)
      PROVE  \A u \in Tasks : Forward(u)
  BY <1>3 DEF CreateTask, RequeueParked, CanInsert
<1>4. ASSUME NEW t \in Tasks, ProbePending(t) \/ ParkAdmitted(t) \/ RetireParked(t)
      PROVE  \A u \in Tasks : Forward(u)
  BY <1>4 DEF ProbePending, ParkAdmitted, RetireParked
<1>5. ASSUME NEW w \in Workers, AdmitTask(w)
      PROVE  \A t \in Tasks : Forward(t)
  BY <1>5 DEF AdmitTask
<1>6. CASE Boot
  BY <1>6 DEF Boot
<1>7. CASE \/ RefuseTask \/ BeginShutdown \/ ListAdmitted
           \/ ParkRemaining \/ ParkTargets \/ ParkFails \/ CancelAll
             \/ StopScheduler \/ RequeueNothing \/ ClearPausedMarkers \/ UNCHANGED vars
  BY <1>7 DEF RefuseTask, BeginShutdown, ListAdmitted, ParkRemaining, ParkTargets, ParkFails, CancelAll,
              StopScheduler, RequeueNothing, ClearPausedMarkers, vars
<1>8. CASE ProcessExit \/ Crash
  BY <1>8 DEF ProcessExit, Crash, Forget
<1> QED
  BY <1>1, <1>2, <1>3, <1>4, <1>5, <1>6, <1>7, <1>8 DEF Next

-----------------------------------------------------------------------------
(***************************************************************************)
(* One executor per task.  A goroutine starts to work only by taking its   *)
(* row out of pending, and a row that has left pending never returns, so   *)
(* nobody else can start to work for the same task, whatever the running   *)
(* map says.                                                               *)
(***************************************************************************)
\* A goroutine that starts to work has found its row pending.
LEMMA WorkStartsFromPending ==
    ASSUME TypeOK, RunsAreInformed, NEW w \in Workers, ExecutorStep(w), Working(w)', ~Working(w)
    PROVE  row[gor[w].task] = "pending" /\ row'[gor[w].task] = "running"
<1> USE DEF TypeOK, Working, WorkPc, At
<1>0. gor[w] \in Run
  OBVIOUS
<1>1. CASE StartRow(w)
  <2>1. gor[w].task \in Tasks
    BY <1>1 DEF StartRow, RunsAreInformed
  <2>2. CASE row[gor[w].task] = "pending"
    BY <1>1, <2>1, <2>2 DEF StartRow
  <2>3. CASE row[gor[w].task] # "pending"
    BY <1>0, <1>1, <2>3 DEF StartRow, Goto, Run
  <2> QED
    BY <2>2, <2>3
<1>2. CASE ExitRun(w) \/ StartRowFails(w) \/ SettleTarget(w)
  BY <1>0, <1>2 DEF ExitRun, StartRowFails, SettleTarget, Goto, NoRun, Run
<1> QED
  BY <1>1, <1>2 DEF ExecutorStep, MarkTargetRunning, EnterPhase, LeavePhase, LeaveLoop,
        RecheckRow, WriteVerdict, WriteVerdictFails

LEMMA OneExecutorStep ==
    TypeOK /\ RunsAreInformed /\ OneExecutorPerTask /\ [Next]_vars => OneExecutorPerTask'
<1> SUFFICES ASSUME TypeOK, RunsAreInformed, OneExecutorPerTask, [Next]_vars
             PROVE  OneExecutorPerTask'
  OBVIOUS
<1>0. \A t \in Tasks : Forward(t)
  BY EveryStepForward
<1>1. \A v \in Workers : Working(v) => gor[v].task \in Tasks
  BY DEF RunsAreInformed, Working, WorkPc
<1>2. CASE \A v \in Workers : Working(v)' => Working(v) /\ gor'[v].task = gor[v].task
  BY <1>0, <1>1, <1>2 DEF OneExecutorPerTask, Forward
<1>3. ASSUME NEW w \in Workers, ExecutorStep(w)
      PROVE  OneExecutorPerTask'
  <2>1. /\ gor[w].task \in Tasks
        /\ \A v \in Workers \ {w} : gor'[v] = gor[v]
        /\ Working(w)' => gor'[w].task = gor[w].task
    BY <1>3, ExecutorKeepsTask DEF RunsAreInformed, TypeOK, ExitRun, Working, WorkPc, NoRun
  <2>2. CASE Working(w)' /\ ~Working(w)
    <3>1. row[gor[w].task] = "pending" /\ row'[gor[w].task] = "running"
      BY <1>3, <2>2, WorkStartsFromPending
    <3>2. \A v \in Workers \ {w} : Working(v)' <=> Working(v)
      BY <2>1 DEF Working
    <3>3. \A v \in Workers \ {w} : Working(v) => gor[v].task # gor[w].task
      BY <3>1 DEF OneExecutorPerTask
    <3>4. \A v \in Workers : Working(v)' => row'[gor'[v].task] \notin {"none", "pending"}
      BY <1>0, <1>1, <2>1, <2>2, <3>1, <3>2 DEF OneExecutorPerTask, Forward
    <3>5. \A u, v \in Workers : Working(u)' /\ Working(v)' /\ gor'[u].task = gor'[v].task => u = v
      BY <2>1, <2>2, <3>2, <3>3 DEF OneExecutorPerTask
    <3> QED
      BY <3>4, <3>5 DEF OneExecutorPerTask
  <2>3. CASE Working(w)' => Working(w)
    <3>1. \A v \in Workers : Working(v)' => Working(v) /\ gor'[v].task = gor[v].task
      BY <2>1, <2>3 DEF Working
    <3> QED
      BY <1>2, <3>1
  <2> QED
    BY <2>2, <2>3
<1>4. ASSUME NEW w \in Workers, AdmitTask(w)
      PROVE  OneExecutorPerTask'
  BY <1>2, <1>4 DEF AdmitTask, TypeOK, Working, WorkPc
<1>5. CASE Forget
  BY <1>2, <1>5 DEF Forget, NoRun, Working, WorkPc
<1>6. CASE UNCHANGED gor
  BY <1>2, <1>6 DEF Working
<1> QED
  BY <1>3, <1>4, <1>5, <1>6, WhoTouchesRuns

-----------------------------------------------------------------------------
(***************************************************************************)
(* No slot leaks: an entry of the running map belongs to a goroutine of    *)
(* that task, whose exit deletes it.                                       *)
(***************************************************************************)
\* Only admission takes a slot.
LEMMA WhoTakesSlots ==
    ASSUME TypeOK, [Next]_vars, ~ \E w \in Workers : AdmitTask(w)
    PROVE  \A t \in Tasks : owner'[t] \in {owner[t], None}
<1> USE DEF TypeOK, memVars
<1>1. ASSUME NEW h \in Handlers, OperatorStep(h)
      PROVE  \A t \in Tasks : owner'[t] \in {owner[t], None}
  BY <1>1 DEF OperatorStep, CancelTask, CancelTaskRow, CancelTasksForTarget, CancelSelected,
              CancelSelectedRow, RefreshAfterCancel, DeleteTarget, PauseTarget, Unmap,
              ReconcileOrphanedTarget, PauseGate, PauseRow, PauseTargetRow, ResumeTarget,
              ResumeGate, ResumeRow, ResumeTargetRow
<1>2. ASSUME NEW t \in Tasks,
             CreateTask(t) \/ RequeueParked(t) \/ ProbePending(t) \/ ParkAdmitted(t) \/ RetireParked(t)
      PROVE  UNCHANGED owner
  BY <1>2 DEF CreateTask, RequeueParked, ProbePending, ParkAdmitted, RetireParked
<1>3. CASE \/ RefuseTask \/ BeginShutdown \/ ListAdmitted
           \/ ParkRemaining \/ ParkTargets \/ ParkFails \/ CancelAll
           \/ StopScheduler \/ RequeueNothing \/ ClearPausedMarkers \/ Boot \/ UNCHANGED vars
  BY <1>3 DEF RefuseTask, BeginShutdown, ListAdmitted, ParkRemaining, ParkTargets, ParkFails, CancelAll,
              StopScheduler, RequeueNothing, ClearPausedMarkers, Boot, vars
<1>4. CASE Forget
  BY <1>4 DEF Forget
<1>5. ASSUME NEW w \in Workers, ExecutorStep(w)
      PROVE  \A t \in Tasks : owner'[t] \in {owner[t], None}
  <2>1. CASE ExitRun(w)
    BY <2>1 DEF ExitRun
  <2>2. CASE ~ExitRun(w)
    BY <1>5, <2>2, ExecutorKeepsTask
  <2> QED
    BY <2>1, <2>2
<1> QED
  BY <1>1, <1>2, <1>3, <1>4, <1>5 DEF Next, ProcessExit, Crash

LEMMA SlotsStep == TypeOK /\ SlotsBelongToLiveRuns /\ [Next]_vars => SlotsBelongToLiveRuns'
<1> SUFFICES ASSUME TypeOK, SlotsBelongToLiveRuns, [Next]_vars, NEW t \in Tasks, owner'[t] # None
             PROVE  gor'[owner'[t]].task = t
  BY DEF SlotsBelongToLiveRuns
<1> USE DEF TypeOK, SlotsBelongToLiveRuns
<1>1. ASSUME NEW w \in Workers, AdmitTask(w)
      PROVE  gor'[owner'[t]].task = t
  <2>1. \A u \in Tasks : owner[u] # w
    BY <1>1, ConstantsAssumption DEF AdmitTask, NoRun
  <2>2. CASE t = probe
    BY <1>1, <2>2 DEF AdmitTask
  <2>3. CASE t # probe
    BY <1>1, <2>1, <2>3 DEF AdmitTask
  <2> QED
    BY <2>2, <2>3
<1>2. CASE ~ \E w \in Workers : AdmitTask(w)
  <2>0. owner'[t] = owner[t] /\ owner[t] \in Workers /\ gor[owner[t]].task = t
    BY <1>2, WhoTakesSlots
  <2>1. CASE UNCHANGED gor
    BY <2>0, <2>1
  <2>2. CASE Forget
    BY <2>0, <2>2 DEF Forget
  <2>3. ASSUME NEW w \in Workers, ExecutorStep(w)
        PROVE  gor'[owner'[t]].task = t
    <3>1. CASE ExitRun(w)
      <4>1. owner[t] # w
        BY <2>0, <3>1 DEF ExitRun
      <4> QED
        BY <2>0, <3>1, <4>1 DEF ExitRun
    <3>2. CASE ~ExitRun(w)
      BY <2>0, <2>3, <3>2, ExecutorKeepsTask
    <3> QED
      BY <3>1, <3>2
  <2> QED
    BY <1>2, <2>1, <2>2, <2>3, WhoTouchesRuns
<1> QED
  BY <1>1, <1>2

-----------------------------------------------------------------------------
(***************************************************************************)
(* The theorems.                                                           *)
(***************************************************************************)
IInv == TypeOK /\ RunsAreInformed /\ OneExecutorPerTask /\ SlotsBelongToLiveRuns

\* The strengthened invariant is inductive.
LEMMA Inductive == (Init => IInv) /\ (IInv /\ [Next]_vars => IInv')
<1>1. Init => IInv
  BY InitType DEF Init, IInv, RunsAreInformed, OneExecutorPerTask, SlotsBelongToLiveRuns,
                  NoRun, Working, WorkPc
<1>2. IInv /\ [Next]_vars => IInv'
  BY NextType, RunsStayInformed, OneExecutorStep, SlotsStep DEF IInv
<1> QED
  BY <1>1, <1>2

\* The rows, the scheduler's maps and every process keep their types.
THEOREM TypeCorrect == Spec => []TypeOK
BY InitType, NextType, PTL DEF Spec

\* At most one goroutine works for a task, whatever the operator, a shutdown, a
\* crash or a failing statement does to the running map (tryStartTask,
\* CancelTask, executeTask's guarded update).
THEOREM OneExecutor == Spec => []OneExecutorPerTask
<1>1. IInv => OneExecutorPerTask
  BY DEF IInv
<1> QED
  BY <1>1, Inductive, PTL DEF Spec

\* Every slot in the running map is held by a live goroutine of its own task,
\* so every slot is given back (tryStartTask's deferred deletes).
THEOREM NoSlotLeaks == Spec => []SlotsBelongToLiveRuns
<1>1. IInv => SlotsBelongToLiveRuns
  BY DEF IInv
<1> QED
  BY <1>1, Inductive, PTL DEF Spec

\* No interleaving of statements revives a terminal or deleted row, or puts a
\* row back to pending.
THEOREM RowsMoveForward == Spec => RowsOnlyMoveForward
<1>1. IInv /\ [Next]_vars =>
        [\A t \in Tasks :
           /\ row[t] \in Terminal => row'[t] \in Terminal \cup {"deleted"}
           /\ row[t] = "deleted" => row'[t] = "deleted"
           /\ row[t] # "none" /\ row[t] # "pending" => row'[t] # "pending"]_vars
  BY EveryStepForward DEF IInv, Forward
<1> QED
  BY <1>1, Inductive, PTL DEF Spec, RowsOnlyMoveForward

=============================================================================
