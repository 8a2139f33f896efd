-------------------------- MODULE ScanControlProofs --------------------------
(***************************************************************************)
(* What ScanLifecycle promises of a cancel, a pause, a shutdown and a      *)
(* restart, proved for every number of tasks, targets, goroutines and      *)
(* restarts.  A theorem that does not hold of every operation or every     *)
(* failing statement names in its hypotheses those it leaves out.          *)
(***************************************************************************)
EXTENDS ScanLifecycleProofs

(***************************************************************************)
(* Who writes what.                                                        *)
(***************************************************************************)
\* Every way in which a step changes the row of a task.
Inserted(t)  == /\ row[t] = "none" /\ row'[t] = "pending" /\ CanInsert(t) /\ (~Stopping \/ requeue # None)
                /\ CreateTask(t) \/ RequeueParked(t)
StartedBy(w, t)  == StartRow(w) /\ gor[w].task = t /\ row[t] = "pending" /\ row'[t] = "running"
                      /\ gor'[w] = [gor[w] EXCEPT !.pc = "mark"]
ConcludedBy(w, t) == WriteVerdict(w) /\ gor[w].task = t /\ row'[t] = gor[w].verdict
                      /\ row[t] # "deleted" /\ gor[w].verdict # "interrupted"
CancelledBy(h, t) == /\ t \in hs[h].ids /\ row'[t] = "cancelled"
                     /\ \/ CancelTaskRow(h) /\ row[t] \in {"running", "pending"}
                        \/ CancelSelectedRow(h, t) /\ row[t] # "deleted"
DeletedBy(h, t)  == DeleteTarget(h) /\ TargetOf[t] = hs[h].target /\ row[t] # "none"
                      /\ row'[t] = "deleted"
PausedBy(h, t)   == PauseRow(h) /\ t \in hs[h].ids /\ row[t] = "running" /\ row'[t] = "paused"
ResumedBy(h, t)  == ResumeRow(h) /\ t \in hs[h].ids /\ row[t] = "paused" /\ row'[t] = "running"
ParkedNow(t)     == /\ life = "park" /\ row[t] \in Active \cup {"pending"} /\ row'[t] = "interrupted"
                    /\ ParkAdmitted(t) \/ (ParkRemaining /\ row[t] \in Active)
SweptAtBoot(t)   == Boot /\ row[t] \in Active \cup {"pending"} /\ row'[t] = "cancelled"
                      /\ (row[t] = "pending" => t \in Aged)
Retired(t)       == RetireParked(t) /\ row[t] # "deleted" /\ row'[t] = "cancelled"
RowWritten(t) ==
    \/ Inserted(t)
    \/ \E w \in Workers : StartedBy(w, t) \/ ConcludedBy(w, t)
    \/ \E h \in Handlers : CancelledBy(h, t) \/ DeletedBy(h, t) \/ PausedBy(h, t) \/ ResumedBy(h, t)
    \/ ParkedNow(t) \/ SweptAtBoot(t) \/ Retired(t)

LEMMA WhoWritesRows ==
    ASSUME TypeOK, [Next]_vars
    PROVE  \A t \in Tasks : row'[t] # row[t] => RowWritten(t)
<1> USE DEF TypeOK, dbVars
<1>1. ASSUME NEW u \in Tasks, CreateTask(u) \/ RequeueParked(u)
      PROVE  \A t \in Tasks : row'[t] # row[t] => Inserted(t)
  <2>1. \A t \in Tasks : row'[t] # row[t] => t = u
    BY <1>1 DEF CreateTask, RequeueParked
  <2>2. CanInsert(u) /\ row[u] = "none" /\ row'[u] = "pending" /\ (~Stopping \/ requeue # None)
    BY <1>1 DEF CreateTask, RequeueParked, CanInsert
  <2> QED
    BY <1>1, <2>1, <2>2 DEF Inserted
<1>2. ASSUME NEW w \in Workers, ExecutorStep(w), NEW t \in Tasks, row'[t] # row[t]
      PROVE  StartedBy(w, t) \/ ConcludedBy(w, t)
  <2>1. CASE StartRow(w)
    <3>1. /\ gor[w].task = t /\ row[t] = "pending" /\ row'[t] = "running"
          /\ Goto(w, "mark")
      BY <1>2, <2>1 DEF StartRow
    <3> QED
      BY <2>1, <3>1 DEF StartedBy, Goto
  <2>2. CASE WriteVerdict(w)
    BY <1>2, <2>2 DEF WriteVerdict, ConcludedBy
  <2> QED
    BY <1>2, <2>1, <2>2
    DEF ExecutorStep, StartRowFails, MarkTargetRunning, EnterPhase, LeavePhase, LeaveLoop,
        RecheckRow, WriteVerdictFails, SettleTarget, ExitRun
<1>3. ASSUME NEW h \in Handlers, OperatorStep(h), NEW t \in Tasks, row'[t] # row[t]
      PROVE  CancelledBy(h, t) \/ DeletedBy(h, t) \/ PausedBy(h, t) \/ ResumedBy(h, t)
  <2>1. CASE CancelTaskRow(h)
    BY <1>3, <2>1 DEF CancelTaskRow, CancelledBy
  <2>2. ASSUME NEW u \in Tasks, CancelSelectedRow(h, u) PROVE CancelledBy(h, t)
    BY <1>3, <2>2 DEF CancelSelectedRow, CancelledBy
  <2>3. CASE DeleteTarget(h)
    BY <1>3, <2>3 DEF DeleteTarget, DeletedBy, TasksOf
  <2>4. CASE PauseRow(h)
    BY <1>3, <2>4 DEF PauseRow, PausedBy
  <2>5. CASE ResumeRow(h)
    BY <1>3, <2>5 DEF ResumeRow, ResumedBy
  <2> QED
    BY <1>3, <2>1, <2>2, <2>3, <2>4, <2>5
    DEF OperatorStep, CancelTask, CancelTasksForTarget, CancelSelected, RefreshAfterCancel,
        PauseTarget, ReconcileOrphanedTarget, PauseGate, PauseTargetRow, ResumeTarget,
        ResumeGate, ResumeTargetRow
<1>4. ASSUME NEW u \in Tasks, ParkAdmitted(u), NEW t \in Tasks, row'[t] # row[t]
      PROVE  ParkedNow(t)
  BY <1>4 DEF ParkAdmitted, ParkedNow
<1>5. ASSUME ParkRemaining, NEW t \in Tasks, row'[t] # row[t]
      PROVE  ParkedNow(t)
  BY <1>5 DEF ParkRemaining, ParkedNow
<1>6. ASSUME Boot, NEW t \in Tasks, row'[t] # row[t]
      PROVE  SweptAtBoot(t)
  BY <1>6 DEF Boot, SweptAtBoot, Active
<1>7. ASSUME NEW u \in Tasks, RetireParked(u), NEW t \in Tasks, row'[t] # row[t]
      PROVE  Retired(t)
  BY <1>7 DEF RetireParked, Retired
<1>8. ASSUME NEW t \in Tasks, ProbePending(t)
      PROVE  UNCHANGED row
  BY <1>8 DEF ProbePending
<1>9. ASSUME NEW w \in Workers, AdmitTask(w)
      PROVE  UNCHANGED row
  BY <1>9 DEF AdmitTask
<1>10. CASE \/ RefuseTask \/ BeginShutdown \/ ListAdmitted \/ ParkTargets \/ ParkFails \/ CancelAll
            \/ StopScheduler \/ ProcessExit \/ Crash \/ RequeueNothing \/ ClearPausedMarkers
            \/ UNCHANGED vars
  BY <1>10 DEF RefuseTask, BeginShutdown, ListAdmitted, ParkTargets, ParkFails, CancelAll,
               StopScheduler, ProcessExit, Crash, Forget, RequeueNothing, ClearPausedMarkers, vars
<1> QED
  BY <1>1, <1>2, <1>3, <1>4, <1>5, <1>6, <1>7, <1>8, <1>9, <1>10 DEF Next, RowWritten

\* How a goroutine moves.
Moves == {<<"start", "mark">>, <<"start", "exit">>, <<"mark", "loop">>, <<"loop", "run">>,
          <<"run", "loop">>, <<"loop", "recheck">>, <<"recheck", "write">>,
          <<"write", "settle">>, <<"settle", "exit">>, <<"exit", "none">>}

LEMMA ExecutorMoves ==
    ASSUME TypeOK, NEW w \in Workers, ExecutorStep(w)
    PROVE  /\ \A v \in Workers \ {w} : gor'[v] = gor[v]
           /\ <<gor[w].pc, gor'[w].pc>> \in Moves
           /\ gor'[w].pc = "none" => ExitRun(w) /\ gor'[w] = NoRun
           /\ gor'[w].pc # "none" => gor'[w].task = gor[w].task /\ UNCHANGED <<owner, ctxDone>>
           /\ gor'[w].pc = "mark" => StartRow(w) /\ row[gor[w].task] = "pending"
           /\ gor'[w].pc = "loop" => gor[w].pc = "run" \/ MarkTargetRunning(w)
           /\ gor'[w].pc = "run" => gor[w].task \notin gate
           /\ gor'[w].pc = "recheck" => /\ gor'[w].verdict \in Terminal
                                        /\ gor'[w].verdict = "cancelled" <=> w \in ctxDone
                                        /\ gate' = gate \ {gor[w].task}
           /\ gor'[w].pc # "recheck" => UNCHANGED gate
           /\ gor'[w].pc = "write" => gor'[w].verdict =
                 IF row[gor[w].task] = "interrupted" THEN "interrupted" ELSE gor[w].verdict
           /\ gor'[w].pc = "settle" => WriteVerdict(w) \/ WriteVerdictFails(w)
           /\ gor'[w].pc = "exit" => StartRow(w) \/ StartRowFails(w) \/ SettleTarget(w)
           /\ gor'[w].pc \in {"settle", "mark", "loop", "run"} => gor'[w].verdict = gor[w].verdict
           /\ UNCHANGED <<probe, hs, asked, mainVars>>
<1> USE DEF TypeOK, At, Moves
<1>0. gor[w] \in Run
  OBVIOUS
<1>1. CASE StartRow(w)
  <2>1. gor[w].pc = "start" /\ ((Goto(w, "mark") /\ row[gor[w].task] = "pending") \/ Goto(w, "exit"))
    BY <1>1 DEF StartRow
  <2> QED
    BY <1>0, <1>1, <2>1 DEF StartRow, Goto, Run
<1>2. CASE StartRowFails(w) \/ MarkTargetRunning(w) \/ LeavePhase(w)
  BY <1>0, <1>2 DEF StartRowFails, MarkTargetRunning, LeavePhase, Goto, Run
<1>3. CASE WriteVerdict(w) \/ WriteVerdictFails(w) \/ SettleTarget(w)
  BY <1>0, <1>3 DEF WriteVerdict, WriteVerdictFails, SettleTarget, Goto, Run
<1>4. CASE LeaveLoop(w)
  <2>1. PICK v \in (IF w \in ctxDone THEN {"cancelled"} ELSE {"finished", "failed"}) :
          Conclude(w, "recheck", v)
    BY <1>4 DEF LeaveLoop
  <2>2. gor'[w].pc = "recheck" /\ gor'[w].verdict = v /\ gor'[w].task = gor[w].task
        /\ \A u \in Workers \ {w} : gor'[u] = gor[u]
    BY <1>0, <2>1 DEF Conclude, Run
  <2> QED
    BY <1>4, <2>2 DEF LeaveLoop, Terminal
<1>5. CASE RecheckRow(w)
  BY <1>0, <1>5 DEF RecheckRow, Conclude, Run
<1>6. CASE EnterPhase(w)
  BY <1>0, <1>6 DEF EnterPhase, Run
<1>7. CASE ExitRun(w)
  BY <1>7 DEF ExitRun, NoRun
<1> QED
  BY <1>1, <1>2, <1>3, <1>4, <1>5, <1>6, <1>7 DEF ExecutorStep

\* Steps that are nobody's but the main goroutine's, the scheduler's and the creators'.
MainStep ==
    \/ BeginShutdown \/ ListAdmitted \/ ParkRemaining \/ ParkTargets \/ ParkFails \/ CancelAll
    \/ StopScheduler \/ ProcessExit \/ Crash \/ Boot \/ RequeueNothing \/ ClearPausedMarkers
    \/ \E t \in Tasks : ParkAdmitted(t) \/ RetireParked(t) \/ RequeueParked(t)
QueueStep == RefuseTask \/ \E t \in Tasks : CreateTask(t) \/ ProbePending(t)

\* A step is somebody's.
LEMMA WhoseStep ==
    ASSUME [Next]_vars
    PROVE  \/ \E w \in Workers : ExecutorStep(w) \/ AdmitTask(w)
           \/ \E h \in Handlers : OperatorStep(h)
           \/ MainStep \/ QueueStep \/ UNCHANGED vars
BY DEF Next, MainStep, QueueStep

LEMMA OperatorFrame ==
    ASSUME TypeOK, NEW h \in Handlers, OperatorStep(h)
    PROVE  /\ \A k \in Handlers \ {h} : hs'[k] = hs[k]
           /\ asked \subseteq asked'
           /\ UNCHANGED <<gor, probe, life, toPark, toCancel, boots, parked, requeue, seenFull>>
<1> USE DEF TypeOK, memVars, mainVars, HandlerTo, Done
<1>1. ASSUME NEW t \in Tasks, CancelTask(h, t) \/ CancelSelectedRow(h, t)
      PROVE  /\ \A k \in Handlers \ {h} : hs'[k] = hs[k]
             /\ asked \subseteq asked' /\ UNCHANGED <<gor, probe, mainVars>>
  BY <1>1 DEF CancelTask, CancelSelectedRow
<1>2. ASSUME NEW g \in Targets, NEW del \in BOOLEAN,
             CancelTasksForTarget(h, g, del) \/ PauseTarget(h, g) \/ ResumeTarget(h, g)
      PROVE  /\ \A k \in Handlers \ {h} : hs'[k] = hs[k]
             /\ asked \subseteq asked' /\ UNCHANGED <<gor, probe, mainVars>>
  BY <1>2 DEF CancelTasksForTarget, PauseTarget, ResumeTarget
<1>3. CASE CancelTaskRow(h) \/ CancelSelected(h) \/ RefreshAfterCancel(h) \/ DeleteTarget(h)
  BY <1>3 DEF CancelTaskRow, CancelSelected, RefreshAfterCancel, DeleteTarget
<1>4. CASE ReconcileOrphanedTarget(h) \/ PauseGate(h) \/ PauseRow(h) \/ PauseTargetRow(h)
  BY <1>4 DEF ReconcileOrphanedTarget, PauseGate, PauseRow, PauseTargetRow
<1>5. CASE ResumeGate(h) \/ ResumeRow(h) \/ ResumeTargetRow(h)
  BY <1>5 DEF ResumeGate, ResumeRow, ResumeTargetRow
<1>6. OperatorStep(h) =>
        \/ \E t \in Tasks : CancelTask(h, t) \/ CancelSelectedRow(h, t)
        \/ \E g \in Targets, del \in BOOLEAN :
              CancelTasksForTarget(h, g, del) \/ PauseTarget(h, g) \/ ResumeTarget(h, g)
        \/ CancelTaskRow(h) \/ CancelSelected(h) \/ RefreshAfterCancel(h) \/ DeleteTarget(h)
        \/ ReconcileOrphanedTarget(h) \/ PauseGate(h) \/ PauseRow(h) \/ PauseTargetRow(h)
        \/ ResumeGate(h) \/ ResumeRow(h) \/ ResumeTargetRow(h)
  BY DEF OperatorStep
<1>7. CASE \E t \in Tasks : CancelTask(h, t) \/ CancelSelectedRow(h, t)
  BY <1>1, <1>7
<1>8. CASE \E g \in Targets, del \in BOOLEAN :
              CancelTasksForTarget(h, g, del) \/ PauseTarget(h, g) \/ ResumeTarget(h, g)
  BY <1>2, <1>8
<1> QED
  BY <1>3, <1>4, <1>5, <1>6, <1>7, <1>8

LEMMA MainFrame ==
    ASSUME MainStep
    PROVE  Forget \/ UNCHANGED <<gor, owner, hs, asked, gate, probe>>
<1> USE DEF memVars
<1>1. ASSUME NEW t \in Tasks, ParkAdmitted(t) \/ RetireParked(t) \/ RequeueParked(t)
      PROVE  UNCHANGED <<gor, owner, hs, asked, gate, probe>>
  BY <1>1 DEF ParkAdmitted, RetireParked, RequeueParked
<1> QED
  BY <1>1 DEF MainStep, BeginShutdown, ListAdmitted, ParkRemaining, ParkTargets, ParkFails, CancelAll,
     StopScheduler, ProcessExit, Crash, Boot, RequeueNothing, ClearPausedMarkers

LEMMA QueueFrame ==
    ASSUME QueueStep
    PROVE  UNCHANGED <<gor, owner, ctxDone, scan, hs, asked, gate, mainVars>>
BY DEF QueueStep, RefuseTask, CreateTask, ProbePending, memVars, dbVars

\* What the end of the process leaves.
LEMMA AfterForget ==
    ASSUME TypeOK, Forget
    PROVE  /\ \A w \in Workers : gor'[w] = NoRun /\ gor'[w].pc = "none"
           /\ \A h \in Handlers : hs'[h] = NoRequest /\ hs'[h].pc = "idle" /\ hs'[h].ids = {}
           /\ \A t \in Tasks : owner'[t] = None
           /\ asked' \subseteq asked
           /\ life' = "down" /\ parked' = {} /\ requeue' = None /\ gate' = {} /\ UNCHANGED <<row, scan>>
BY DEF Forget, NoRun, NoRequest, dbVars

\* The goroutine that AdmitTask creates.
LEMMA Admitted ==
    ASSUME TypeOK, NEW w \in Workers, AdmitTask(w)
    PROVE  /\ probe \in Tasks /\ ~Stopping /\ gor[w] = NoRun /\ owner[probe] = None
           /\ gor'[w].pc = "start" /\ gor'[w].task = probe /\ gor'[w].verdict = "none"
           /\ \A v \in Workers \ {w} : gor'[v] = gor[v]
           /\ owner' = [owner EXCEPT ![probe] = w]
           /\ UNCHANGED <<row, scan, ctxDone, gate, hs, asked, mainVars>>
BY DEF AdmitTask, Admissible, TypeOK, dbVars

-----------------------------------------------------------------------------
(***************************************************************************)
(* The requests.                                                           *)
(***************************************************************************)
\* A request comes in, with the operation it is for and the rows it has selected ...
Accepted(h) ==
    /\ hs[h].pc = "idle" /\ Up
    /\ hs'[h].target \in Targets
    /\ \A t \in hs'[h].ids : t \in Tasks /\ TargetOf[t] = hs'[h].target
    /\ UNCHANGED <<row, scan, gate>>
    /\ \/ /\ hs'[h].pc = "ctUpdate" /\ "cancelTask" \in Ops /\ asked' = asked \cup hs'[h].ids
          /\ \A t \in hs'[h].ids : row[t] \notin {"none", "deleted"}
          /\ Unmap(hs'[h].ids)
       \/ /\ hs'[h].pc = "ckUnmap" /\ ("cancelTarget" \in Ops \/ "delete" \in Ops)
          /\ UNCHANGED <<owner, ctxDone>>
          /\ hs'[h].ids = {t \in TasksOf(hs'[h].target) : row[t] \in {"running", "pending"}}
          /\ asked' = asked \cup {t \in TasksOf(hs'[h].target) : row[t] \in Active \cup {"pending"}}
       \/ /\ \/ hs'[h].pc \in {"reconcile", "pauseGate"} /\ "pause" \in Ops
             \/ hs'[h].pc = "resumeGate" /\ "resume" \in Ops
          /\ hs'[h].ids = NewestActive(hs'[h].target)
          /\ UNCHANGED <<asked, owner, ctxDone>>
    /\ hs'[h].del => "delete" \in Ops

\* ... goes on to its next statement ...
HandlerGoes(h) ==
    /\ hs'[h].target = hs[h].target /\ hs'[h].ids \subseteq hs[h].ids /\ hs'[h].del = hs[h].del
    /\ UNCHANGED asked
    /\ \/ hs'[h].pc = "refresh" /\ CancelTaskRow(h)
       \/ hs'[h].pc \in {"refresh", "ckUpdate"} /\ CancelSelected(h) /\ hs'[h].ids = hs[h].ids
       \/ \E t \in Tasks : /\ hs'[h].pc \in {"refresh", "ckUpdate"} /\ CancelSelectedRow(h, t)
                           /\ hs'[h].ids = hs[h].ids \ {t} /\ t \in hs[h].ids
       \/ hs'[h].pc = "delete" /\ RefreshAfterCancel(h) /\ hs[h].del
       \/ hs'[h].pc = "pauseRow" /\ PauseGate(h) /\ hs'[h].ids = hs[h].ids
       \/ hs'[h].pc = "pauseTarget" /\ PauseRow(h)
       \/ hs'[h].pc = "resumeRow" /\ ResumeGate(h) /\ hs'[h].ids = hs[h].ids
       \/ hs'[h].pc = "resumeTarget" /\ ResumeRow(h)

\* ... or is answered.
Answered(h) ==
    /\ hs'[h] = NoRequest /\ UNCHANGED asked
    /\ \/ RefreshAfterCancel(h) \/ DeleteTarget(h) \/ ReconcileOrphanedTarget(h)
       \/ PauseTargetRow(h) \/ ResumeTargetRow(h)

LEMMA HandlerMoves ==
    ASSUME TypeOK, NEW h \in Handlers, OperatorStep(h)
    PROVE  Accepted(h) \/ HandlerGoes(h) \/ Answered(h)
<1> USE DEF TypeOK, dbVars, memVars
<1>0. hs[h] \in Request
  OBVIOUS
<1>1. ASSUME NEW t \in Tasks, CancelTask(h, t)
      PROVE  Accepted(h)
  <2>1. hs'[h] = [pc |-> "ctUpdate", target |-> TargetOf[t], ids |-> {t}, del |-> FALSE]
    BY <1>1 DEF CancelTask
  <2>2. TargetOf[t] \in Targets /\ hs'[h].ids = {t} /\ hs'[h].pc = "ctUpdate"
        /\ hs'[h].target = TargetOf[t] /\ ~hs'[h].del
    BY <2>1, ConstantsAssumption
  <2> QED
    BY <1>1, <2>2 DEF CancelTask, Accept, Accepted
<1>2. ASSUME NEW g \in Targets, NEW del \in BOOLEAN, CancelTasksForTarget(h, g, del)
      PROVE  Accepted(h)
  <2> DEFINE S == {t \in TasksOf(g) : row[t] \in {"running", "pending"}}
  <2>1. hs'[h] = [pc |-> "ckUnmap", target |-> g, del |-> del, ids |-> S]
    BY <1>2 DEF CancelTasksForTarget
  <2>2. hs'[h].pc = "ckUnmap" /\ hs'[h].target = g /\ hs'[h].ids = S /\ hs'[h].del = del
    BY <2>1
  <2>3. \A t \in S : t \in Tasks /\ TargetOf[t] = g
    BY DEF TasksOf
  <2>4. asked' = asked \cup {t \in TasksOf(g) : row[t] \in Active \cup {"pending"}}
        /\ hs[h].pc = "idle" /\ Up /\ (del => "delete" \in Ops)
        /\ ("cancelTarget" \in Ops \/ "delete" \in Ops) /\ UNCHANGED <<dbVars, memVars>>
    BY <1>2 DEF CancelTasksForTarget, Accept
  <2> QED
    BY <2>2, <2>3, <2>4 DEF Accepted
<1>3. ASSUME NEW g \in Targets, PauseTarget(h, g) \/ ResumeTarget(h, g)
      PROVE  Accepted(h)
  <2>1. \A t \in NewestActive(g) : t \in Tasks /\ TargetOf[t] = g
    BY DEF NewestActive, TasksOf
  <2>2. PICK pc : /\ hs'[h] = [pc |-> pc, target |-> g, ids |-> NewestActive(g), del |-> FALSE]
                  /\ \/ pc \in {"reconcile", "pauseGate"} /\ "pause" \in Ops
                     \/ pc = "resumeGate" /\ "resume" \in Ops
    BY <1>3 DEF PauseTarget, ResumeTarget, Accept
  <2>3. hs'[h].pc = pc /\ hs'[h].target = g /\ hs'[h].ids = NewestActive(g) /\ ~hs'[h].del
    BY <2>2
  <2>4. hs[h].pc = "idle" /\ Up /\ UNCHANGED <<dbVars, memVars, asked>>
    BY <1>3 DEF PauseTarget, ResumeTarget, Accept
  <2> QED
    BY <2>1, <2>2, <2>3, <2>4 DEF Accepted
<1>4. ASSUME NEW t \in Tasks, CancelSelectedRow(h, t)
      PROVE  HandlerGoes(h)
  BY <1>0, <1>4 DEF CancelSelectedRow, HandlerGoes, Request
<1>5. ASSUME CancelTaskRow(h) \/ CancelSelected(h) \/ PauseGate(h) \/ PauseRow(h)
             \/ ResumeGate(h) \/ ResumeRow(h)
      PROVE  HandlerGoes(h)
  BY <1>0, <1>5 DEF CancelTaskRow, CancelSelected, PauseGate, PauseRow, ResumeGate, ResumeRow,
     HandlerTo, HandlerGoes, Request
<1>6. ASSUME RefreshAfterCancel(h)
      PROVE  HandlerGoes(h) \/ Answered(h)
  BY <1>0, <1>6 DEF RefreshAfterCancel, HandlerTo, Done, HandlerGoes, Answered, Request
<1>7. ASSUME DeleteTarget(h) \/ ReconcileOrphanedTarget(h) \/ PauseTargetRow(h) \/ ResumeTargetRow(h)
      PROVE  Answered(h)
  BY <1>7 DEF DeleteTarget, ReconcileOrphanedTarget, PauseTargetRow, ResumeTargetRow, Done, Answered
<1> QED
  BY <1>1, <1>2, <1>3, <1>4, <1>5, <1>6, <1>7 DEF OperatorStep

-----------------------------------------------------------------------------
(***************************************************************************)
(* What every behaviour keeps, whatever is asked for and whatever fails.   *)
(***************************************************************************)
\* A row in one of these is not taken up again under the same id.
Settled == {"interrupted", "deleted"} \cup Terminal

Stopper == {"ctUpdate", "ckUnmap", "ckUpdate"}
RequestIsSound(h) ==
    /\ hs[h].pc # "idle" => hs[h].target \in Targets
    /\ hs[h].pc = "idle" => hs[h].ids = {}
    /\ \A t \in hs[h].ids : t \in Tasks /\ TargetOf[t] = hs[h].target /\ row[t] # "none"
    /\ hs[h].pc \in Stopper => hs[h].ids \subseteq asked
    /\ hs[h].pc = "ctUpdate" => "cancelTask" \in Ops
    /\ hs[h].pc \in {"ckUnmap", "ckUpdate"} => "cancelTarget" \in Ops \/ "delete" \in Ops
    /\ hs[h].pc \in {"reconcile", "pauseGate", "pauseRow", "pauseTarget"} => "pause" \in Ops
    /\ hs[h].pc \in {"resumeGate", "resumeRow", "resumeTarget"} => "resume" \in Ops
    /\ hs[h].del \/ hs[h].pc = "delete" => "delete" \in Ops
RequestsAreSound == \A h \in Handlers : RequestIsSound(h)

\* Rows that were asked about exist, and rows to be resumed are settled; outside a
\* shutdown an interrupted row waits for ResumeInterrupted.
RowsAreSound ==
    /\ \A t \in asked : row[t] # "none"
    /\ \A t \in parked : row[t] \in Settled
    /\ life # "resuming" => parked = {} /\ requeue = None
    /\ ~Stopping => \A t \in Tasks : row[t] = "interrupted" => t \in parked

\* The verdict of a goroutine is one that its loop gave it, and RecheckRow's own.
RunIsSound(w) ==
    /\ gor[w].pc = "none" => gor[w] = NoRun
    /\ gor[w].pc = "recheck" => gor[w].verdict \in Terminal
    /\ gor[w].pc \in {"write", "settle"} => gor[w].verdict \in Terminal \cup {"interrupted"}
RunsAreSound == \A w \in Workers : RunIsSound(w)

\* A goroutine that lost its entry in the running map was asked to stop.
Registered ==
    \A w \in Workers : gor[w].pc # "none" => gor[w].task \in asked \/ owner[gor[w].task] = w

Sound == IInv /\ RequestsAreSound /\ RowsAreSound /\ RunsAreSound /\ Registered

LEMMA RowStays ==
    ASSUME TypeOK, RunsAreInformed, [Next]_vars, NEW t \in Tasks
    PROVE  /\ row[t] # "none" => row'[t] # "none"
           /\ row[t] \in Settled => row'[t] \in Settled
           /\ row'[t] = "interrupted" => row[t] = "interrupted" \/ life = "park"
<1>1. CASE row'[t] = row[t]
  BY <1>1
<1>2. ASSUME NEW w \in Workers, ConcludedBy(w, t)
      PROVE  row'[t] \in Terminal /\ row[t] # "deleted"
  BY <1>2 DEF ConcludedBy, WriteVerdict, At, RunsAreInformed, TypeOK, Run, Verdict
<1>3. CASE row'[t] # row[t]
  <2>1. RowWritten(t)
    BY <1>3, WhoWritesRows
  <2> QED
    BY <1>2, <2>1 DEF RowWritten, Inserted, StartedBy, CancelledBy, DeletedBy, PausedBy,
       ResumedBy, ParkedNow, SweptAtBoot, Retired, Settled, Terminal, Active
<1> QED
  BY <1>1, <1>3

\* Who is asked to stop, and by whom.
LEMMA AskedMoves ==
    ASSUME TypeOK, [Next]_vars
    PROVE  \/ asked' = asked
           \/ Forget
           \/ \E h \in Handlers : OperatorStep(h) /\ Accepted(h)
<1>1. ASSUME NEW w \in Workers, ExecutorStep(w) \/ AdmitTask(w)
      PROVE  asked' = asked
  BY <1>1, ExecutorMoves, Admitted
<1>2. ASSUME NEW h \in Handlers, OperatorStep(h)
      PROVE  asked' = asked \/ Accepted(h)
  BY <1>2, HandlerMoves DEF HandlerGoes, Answered
<1>3. MainStep \/ QueueStep \/ UNCHANGED vars => asked' = asked \/ Forget
  BY MainFrame, QueueFrame DEF vars
<1> QED
  BY <1>1, <1>2, <1>3, WhoseStep

\* Requests change by steps of their own.
LEMMA RequestMoves ==
    ASSUME TypeOK, [Next]_vars, NEW k \in Handlers
    PROVE  hs'[k] = hs[k] \/ Forget \/ OperatorStep(k)
<1>1. ASSUME NEW w \in Workers, ExecutorStep(w) \/ AdmitTask(w)
      PROVE  hs'[k] = hs[k]
  BY <1>1, ExecutorMoves, Admitted
<1>2. ASSUME NEW h \in Handlers, OperatorStep(h)
      PROVE  hs'[k] = hs[k] \/ k = h
  BY <1>2, OperatorFrame
<1>3. MainStep \/ QueueStep \/ UNCHANGED vars => hs' = hs \/ Forget
  BY MainFrame, QueueFrame DEF vars
<1> QED
  BY <1>1, <1>2, <1>3, WhoseStep

LEMMA RequestsStep ==
    TypeOK /\ RunsAreInformed /\ RequestsAreSound /\ [Next]_vars => RequestsAreSound'
<1> SUFFICES ASSUME TypeOK, RunsAreInformed, RequestsAreSound, [Next]_vars, NEW k \in Handlers
             PROVE  RequestIsSound(k)'
  BY DEF RequestsAreSound
<1>1. RequestIsSound(k)
  BY DEF RequestsAreSound
<1>2. \A t \in Tasks : row[t] # "none" => row'[t] # "none"
  BY RowStays
<1>3. CASE Forget
  BY <1>3, AfterForget DEF RequestIsSound, NoRequest, Stopper
<1>4. CASE hs'[k] = hs[k] /\ asked \subseteq asked'
  BY <1>1, <1>2, <1>4 DEF RequestIsSound, Stopper
<1>5. CASE OperatorStep(k)
  <2>1. CASE Accepted(k)
    <3>1. \A t \in hs'[k].ids : t \in Tasks /\ row[t] # "none"
      BY <2>1 DEF Accepted, NewestActive, TasksOf, Active
    <3>2. hs'[k].pc \in Stopper => hs'[k].ids \subseteq asked'
      BY <2>1, Zenon DEF Accepted, Active, Stopper
    <3> QED
      BY <1>2, <2>1, <3>1, <3>2 DEF Accepted, RequestIsSound, Stopper
  <2>2. CASE HandlerGoes(k)
    <3>1. /\ hs'[k].target = hs[k].target /\ hs'[k].ids \subseteq hs[k].ids
          /\ hs'[k].del = hs[k].del /\ asked' = asked
      BY <2>2 DEF HandlerGoes
    <3>2. <<hs[k].pc, hs'[k].pc>> \in
             {<<"ctUpdate", "refresh">>, <<"ckUnmap", "refresh">>, <<"ckUnmap", "ckUpdate">>,
              <<"ckUpdate", "ckUpdate">>, <<"ckUpdate", "refresh">>, <<"refresh", "delete">>,
              <<"pauseGate", "pauseRow">>, <<"pauseRow", "pauseTarget">>,
              <<"resumeGate", "resumeRow">>, <<"resumeRow", "resumeTarget">>}
      BY <2>2 DEF HandlerGoes, CancelTaskRow, CancelSelected, CancelSelectedRow, PauseGate,
         PauseRow, ResumeGate, ResumeRow, RefreshAfterCancel, HandlerAt
    <3>3. hs'[k].pc = "delete" => hs[k].del
      BY <2>2 DEF HandlerGoes, CancelTaskRow, CancelSelected, CancelSelectedRow, PauseGate,
         PauseRow, ResumeGate, ResumeRow, HandlerAt
    <3> QED
      BY <1>1, <1>2, <3>1, <3>2, <3>3 DEF RequestIsSound, Stopper
  <2>3. CASE Answered(k)
    BY <2>3 DEF Answered, NoRequest, RequestIsSound, Stopper
  <2> QED
    BY <1>5, <2>1, <2>2, <2>3, HandlerMoves
<1>6. asked \subseteq asked' \/ Forget
  BY AskedMoves, OperatorFrame
<1> QED
  BY <1>3, <1>4, <1>5, <1>6, RequestMoves

LEMMA RunsStep == TypeOK /\ RunsAreSound /\ [Next]_vars => RunsAreSound'
<1> SUFFICES ASSUME TypeOK, RunsAreSound, [Next]_vars, NEW v \in Workers
             PROVE  RunIsSound(v)'
  BY DEF RunsAreSound
<1>1. RunIsSound(v)
  BY DEF RunsAreSound
<1>2. CASE UNCHANGED gor
  BY <1>1, <1>2 DEF RunIsSound
<1>3. CASE Forget
  BY <1>3, AfterForget DEF RunIsSound, NoRun
<1>4. ASSUME NEW w \in Workers, AdmitTask(w)
      PROVE  RunIsSound(v)'
  BY <1>1, <1>4, Admitted DEF RunIsSound
<1>5. ASSUME NEW w \in Workers, ExecutorStep(w)
      PROVE  RunIsSound(v)'
  <2>1. CASE v # w
    <3>1. gor'[v] = gor[v]
      BY <1>5, <2>1, ExecutorMoves
    <3> QED
      BY <1>1, <3>1 DEF RunIsSound
  <2>2. CASE v = w
    <3>1. /\ <<gor[v].pc, gor'[v].pc>> \in Moves
          /\ gor'[v].pc = "none" => gor'[v] = NoRun
          /\ gor'[v].pc = "recheck" => gor'[v].verdict \in Terminal
          /\ gor'[v].pc = "write" => gor'[v].verdict \in {"interrupted", gor[v].verdict}
          /\ gor'[v].pc = "settle" => gor'[v].verdict = gor[v].verdict
      BY <1>5, <2>2, ExecutorMoves
    <3> QED
      BY <1>1, <3>1 DEF RunIsSound, Moves
  <2> QED
    BY <2>1, <2>2
<1> QED
  BY <1>2, <1>3, <1>4, <1>5, WhoTouchesRuns

\* The main goroutine's variables are its own.
LEMMA MainOwns ==
    ASSUME TypeOK, [Next]_vars
    PROVE  MainStep \/ UNCHANGED mainVars
<1>1. ASSUME NEW w \in Workers, ExecutorStep(w) \/ AdmitTask(w)
      PROVE  UNCHANGED mainVars
  BY <1>1, ExecutorMoves, Admitted
<1>2. ASSUME NEW h \in Handlers, OperatorStep(h)
      PROVE  UNCHANGED mainVars
  BY <1>2, OperatorFrame DEF mainVars
<1>3. QueueStep \/ UNCHANGED vars => UNCHANGED mainVars
  BY QueueFrame DEF vars
<1> QED
  BY <1>1, <1>2, <1>3, WhoseStep

\* Its way: what each of its steps does to where it is and what it has to resume.
LEMMA MainMoves ==
    ASSUME MainStep
    PROVE  \/ life = "serving" /\ life' = "list" /\ UNCHANGED <<parked, requeue>> /\ BeginShutdown
           \/ life = "list" /\ life' = "park" /\ UNCHANGED <<parked, requeue>> /\ ListAdmitted
           \/ /\ life = "park" /\ UNCHANGED <<parked, requeue>>
              /\ \/ life' = "park" /\ \E t \in Tasks : ParkAdmitted(t)
                 \/ life' = "parkTargets" /\ ParkRemaining
                 \/ life' = "closing" /\ ParkFails
           \/ life = "parkTargets" /\ life' = "cancelAll" /\ UNCHANGED <<parked, requeue>> /\ ParkTargets
           \/ life = "cancelAll" /\ life' = "closing" /\ UNCHANGED <<parked, requeue>> /\ CancelAll
           \/ life = "closing" /\ life' = "waiting" /\ UNCHANGED <<parked, requeue>> /\ StopScheduler
           \/ life' = "down" /\ parked' = {} /\ requeue' = None /\ Forget
                /\ ((life = "waiting" /\ ProcessExit) \/ "crash" \in Ops)
           \/ /\ life = "down" /\ life' = "resuming" /\ Boot /\ UNCHANGED requeue
              /\ parked' = {t \in Tasks : row[t] = "interrupted"}
           \/ life = "resuming" /\ life' = "resuming"
                /\ \E t \in Tasks : parked' = parked \ {t} /\ RetireParked(t)
           \/ requeue # None /\ requeue' = None /\ UNCHANGED <<life, parked>>
                /\ (RequeueNothing \/ \E t \in Tasks : RequeueParked(t))
           \/ /\ life = "resuming" /\ life' = "serving" /\ parked = {} /\ requeue = None
              /\ UNCHANGED <<parked, requeue>> /\ ClearPausedMarkers
<1>1. ASSUME NEW t \in Tasks, ParkAdmitted(t)
      PROVE  life = "park" /\ life' = "park" /\ UNCHANGED <<parked, requeue>>
  BY <1>1 DEF ParkAdmitted
<1>2. ASSUME NEW t \in Tasks, RetireParked(t)
      PROVE  life = "resuming" /\ life' = "resuming" /\ parked' = parked \ {t}
  BY <1>2 DEF RetireParked
<1>3. ASSUME NEW t \in Tasks, RequeueParked(t)
      PROVE  requeue # None /\ requeue' = None /\ UNCHANGED <<life, parked>>
  BY <1>3 DEF RequeueParked
<1>4. CASE BeginShutdown \/ ListAdmitted \/ ParkTargets
  BY <1>4 DEF BeginShutdown, ListAdmitted, ParkTargets
<1>5. CASE ParkRemaining \/ ParkFails
  BY <1>5 DEF ParkRemaining, ParkFails
<1>6. CASE CancelAll \/ StopScheduler
  BY <1>6 DEF CancelAll, StopScheduler
<1>7. CASE ProcessExit \/ Crash
  BY <1>7 DEF ProcessExit, Crash, Forget
<1>8. CASE Boot
  BY <1>8 DEF Boot
<1>9. CASE RequeueNothing \/ ClearPausedMarkers
  BY <1>9 DEF RequeueNothing, ClearPausedMarkers
<1>10. CASE \E t \in Tasks : ParkAdmitted(t) \/ RetireParked(t) \/ RequeueParked(t)
  BY <1>1, <1>2, <1>3, <1>10
<1> QED
  BY <1>4, <1>5, <1>6, <1>7, <1>8, <1>9, <1>10 DEF MainStep

LEMMA RowsStep ==
    ASSUME TypeOK, RunsAreInformed, RowsAreSound, [Next]_vars
    PROVE  RowsAreSound'
<1>1. \A t \in asked' : row'[t] # "none"
  <2>1. CASE asked' \subseteq asked
    BY <2>1, RowStays DEF RowsAreSound, TypeOK
  <2>2. ASSUME NEW h \in Handlers, Accepted(h)
        PROVE  \A t \in asked' : t \in Tasks /\ row[t] # "none"
    BY <2>2 DEF Accepted, RowsAreSound, TasksOf, Active, TypeOK
  <2> QED
    BY <2>1, <2>2, AskedMoves, AfterForget, RowStays
<1>2. \A t \in parked' : row'[t] \in Settled
  <2>1. parked' \subseteq parked \/ parked' = {t \in Tasks : row[t] = "interrupted"}
    BY MainOwns, MainMoves DEF mainVars
  <2> QED
    BY <2>1, RowStays DEF RowsAreSound, Settled, TypeOK
<1>3. life' # "resuming" => parked' = {} /\ requeue' = None
  BY MainOwns, MainMoves DEF mainVars, RowsAreSound
<1>4. ~Stopping' => \A t \in Tasks : row'[t] = "interrupted" => t \in parked'
  <2> SUFFICES ASSUME ~Stopping', NEW t \in Tasks, row'[t] = "interrupted"
               PROVE  t \in parked'
    OBVIOUS
  <2>1. CASE UNCHANGED mainVars
    <3>1. ~Stopping /\ row[t] = "interrupted"
      BY <2>1, RowStays DEF mainVars, Stopping
    <3> QED
      BY <2>1, <3>1 DEF mainVars, RowsAreSound
  <2>2. CASE MainStep
    <3>1. life' \in {"resuming", "serving"}
      BY DEF Stopping
    <3>2. CASE Boot
      <4>1. row[t] = "interrupted"
        BY <3>2, RowStays DEF Boot
      <4> QED
        BY <3>2, <4>1 DEF Boot
    <3>3. CASE ~Boot
      <4>1. ~Stopping /\ (parked' = parked \/ \E u \in Tasks : parked' = parked \ {u} /\ RetireParked(u))
        BY <2>2, <3>1, <3>3, MainMoves DEF Stopping
      <4>2. row[t] = "interrupted"
        BY <4>1, RowStays DEF Stopping
      <4>3. ASSUME NEW u \in Tasks, RetireParked(u)
            PROVE  u # t
        BY <4>3 DEF RetireParked, TypeOK
      <4> QED
        BY <4>1, <4>2, <4>3 DEF RowsAreSound
    <3> QED
      BY <3>2, <3>3
  <2> QED
    BY <2>1, <2>2, MainOwns
<1> QED
  BY <1>1, <1>2, <1>3, <1>4 DEF RowsAreSound

\* A request cancels contexts and drops entries of tasks it was asked to stop, only.
LEMMA RequestsUnmap ==
    ASSUME TypeOK, RequestsAreSound, NEW h \in Handlers, OperatorStep(h)
    PROVE  \E S \in SUBSET asked' :
             Unmap(S) \/ (S = {} /\ UNCHANGED <<owner, ctxDone>>)
<1>1. CASE Accepted(h)
  <2>1. CASE Unmap(hs'[h].ids) /\ asked' = asked \cup hs'[h].ids
    BY <2>1, Zenon
  <2>2. CASE UNCHANGED <<owner, ctxDone>>
    BY <2>2
  <2> QED
    BY <1>1, <2>1, <2>2 DEF Accepted
<1>2. CASE CancelSelected(h)
  <2>1. hs[h].ids \subseteq asked /\ asked' = asked /\ Unmap(hs[h].ids)
    BY <1>2 DEF CancelSelected, HandlerAt, RequestsAreSound, RequestIsSound, Stopper
  <2> QED
    BY <2>1, Zenon
<1>3. CASE (HandlerGoes(h) \/ Answered(h)) /\ ~CancelSelected(h)
  <2>1. UNCHANGED <<owner, ctxDone>>
    BY <1>3 DEF HandlerGoes, Answered, CancelTaskRow, CancelSelectedRow, PauseGate, PauseRow,
       ResumeGate, ResumeRow, RefreshAfterCancel, DeleteTarget, ReconcileOrphanedTarget,
       PauseTargetRow, ResumeTargetRow, memVars
  <2> QED
    BY <2>1
<1> QED
  BY <1>1, <1>2, <1>3, HandlerMoves

LEMMA RegisteredStep ==
    ASSUME TypeOK, RunsAreInformed, RequestsAreSound, Registered, [Next]_vars
    PROVE  Registered'
<1> SUFFICES ASSUME NEW v \in Workers, gor'[v].pc # "none", gor'[v].task \notin asked'
             PROVE  owner'[gor'[v].task] = v
  BY DEF Registered
<1>1. gor[v].pc # "none" => gor[v].task \in Tasks /\ (gor[v].task \in asked \/ owner[gor[v].task] = v)
  BY DEF Registered, RunsAreInformed
<1>2. CASE Forget
  BY <1>2, AfterForget
<1>3. asked \subseteq asked' \/ Forget
  BY AskedMoves, OperatorFrame
<1>4. ASSUME NEW w \in Workers, AdmitTask(w), ~Forget
      PROVE  owner'[gor'[v].task] = v
  <2>1. CASE v = w
    BY <1>4, <2>1, Admitted DEF TypeOK
  <2>2. CASE v # w
    <3>1. /\ gor'[v] = gor[v] /\ owner' = [owner EXCEPT ![probe] = w] /\ owner[probe] = None
          /\ asked' = asked
      BY <1>4, <2>2, Admitted
    <3>2. owner[gor[v].task] = v /\ gor[v].task \in Tasks
      BY <1>1, <3>1
    <3> QED
      BY <3>1, <3>2, ConstantsAssumption DEF TypeOK
  <2> QED
    BY <2>1, <2>2
<1>5. ASSUME NEW w \in Workers, ExecutorStep(w), ~Forget
      PROVE  owner'[gor'[v].task] = v
  <2>1. gor[v].pc # "none" /\ gor'[v].task = gor[v].task
    <3>1. CASE v # w
      BY <1>5, <3>1, ExecutorMoves
    <3>2. CASE v = w
      BY <1>5, <3>2, ExecutorMoves DEF Moves
    <3> QED
      BY <3>1, <3>2
  <2>2. owner[gor[v].task] = v /\ gor[v].task \in Tasks
    BY <1>1, <1>3, <1>5, <2>1
  <2>3. CASE ~ExitRun(w)
    <3>1. UNCHANGED owner
      BY <1>5, <2>3, ExecutorMoves
    <3> QED
      BY <2>1, <2>2, <3>1
  <2>4. CASE ExitRun(w)
    <3>1. owner' = [owner EXCEPT ![gor[w].task] = None] /\ gor' = [gor EXCEPT ![w] = NoRun]
      BY <2>4 DEF ExitRun
    <3>2. v # w
      BY <3>1 DEF NoRun, TypeOK
    <3>3. gor[w].pc # "none"
      BY <2>4 DEF ExitRun, At
    <3>4. gor[v].task # gor[w].task \/ gor[w].task \in asked
      BY <2>2, <3>2, <3>3 DEF Registered
    <3> QED
      BY <1>3, <1>5, <2>1, <2>2, <3>1, <3>4 DEF TypeOK
  <2> QED
    BY <2>3, <2>4
<1>6. ASSUME NEW h \in Handlers, OperatorStep(h), ~Forget
      PROVE  owner'[gor'[v].task] = v
  <2>1. gor' = gor
    BY <1>6, OperatorFrame
  <2>2. owner[gor[v].task] = v /\ gor[v].task \in Tasks
    BY <1>1, <1>3, <1>6, <2>1
  <2>3. PICK S \in SUBSET asked' : Unmap(S) \/ UNCHANGED owner
    BY <1>6, RequestsUnmap
  <2> QED
    BY <2>1, <2>2, <2>3 DEF Unmap
<1>7. CASE MainStep \/ QueueStep \/ UNCHANGED vars
  <2>1. Forget \/ UNCHANGED <<gor, owner, asked>>
    BY <1>7, MainFrame, QueueFrame DEF vars, memVars
  <2> QED
    BY <1>1, <1>2, <2>1
<1> QED
  BY <1>2, <1>4, <1>5, <1>6, <1>7, WhoseStep

LEMMA SoundIsInductive == (Init => Sound) /\ (Sound /\ [Next]_vars => Sound')
<1>1. Init => RequestsAreSound /\ RowsAreSound /\ RunsAreSound /\ Registered
  BY DEF Init, RequestsAreSound, RequestIsSound, RowsAreSound, RunsAreSound, RunIsSound,
         Registered, NoRequest, NoRun, Stopper
<1>2. Sound /\ [Next]_vars => Sound'
  BY Inductive, RequestsStep, RowsStep, RunsStep, RegisteredStep DEF Sound, IInv
<1> QED
  BY <1>1, <1>2, Inductive DEF Sound

-----------------------------------------------------------------------------
(***************************************************************************)
(* Contexts, and the rows of goroutines that work.                         *)
(***************************************************************************)
LEMMA ContextMoves ==
    ASSUME TypeOK, RequestsAreSound, [Next]_vars
    PROVE  \/ ctxDone' = ctxDone
           \/ \E w \in Workers : ExitRun(w) /\ ctxDone' = ctxDone \ {w}
           \/ UNCHANGED gor /\ \E S \in SUBSET asked' : Unmap(S)
           \/ CancelAll \/ StopScheduler \/ Forget
<1>1. ASSUME NEW w \in Workers, ExecutorStep(w)
      PROVE  ctxDone' = ctxDone \/ (ExitRun(w) /\ ctxDone' = ctxDone \ {w})
  BY <1>1, ExecutorMoves DEF ExitRun
<1>2. ASSUME NEW w \in Workers, AdmitTask(w)
      PROVE  ctxDone' = ctxDone
  BY <1>2, Admitted
<1>3. ASSUME NEW h \in Handlers, OperatorStep(h)
      PROVE  ctxDone' = ctxDone \/ (UNCHANGED gor /\ \E S \in SUBSET asked' : Unmap(S))
  BY <1>3, RequestsUnmap, OperatorFrame
<1>4. ASSUME MainStep PROVE ctxDone' = ctxDone \/ CancelAll \/ StopScheduler \/ Forget
  BY <1>4 DEF MainStep, BeginShutdown, ListAdmitted, ParkRemaining, ParkTargets, ParkFails,
     ProcessExit, Crash, Boot, RequeueNothing, ClearPausedMarkers, ParkAdmitted,
     RetireParked, RequeueParked, memVars
<1>5. QueueStep \/ UNCHANGED vars => ctxDone' = ctxDone
  BY QueueFrame DEF vars, memVars
<1> QED
  BY <1>1, <1>2, <1>3, <1>4, <1>5, WhoseStep

\* A cancelled context belongs to a goroutine that lives.
ContextsAreLive == \A w \in ctxDone : gor[w].pc # "none"
\* The row of a goroutine that works shows it as active, unless somebody else parked,
\* cancelled or deleted it.
Taken == {"interrupted", "cancelled", "deleted"}
Early == {"mark", "loop", "run"}
WorkedRows ==
    \A w \in Workers : gor[w].pc \in Early \cup {"recheck", "write"} =>
        row[gor[w].task] \in Active \cup Taken

LEMMA OwnersLive ==
    ASSUME TypeOK, RunsAreSound, SlotsBelongToLiveRuns, NEW t \in Tasks, owner[t] # None
    PROVE  owner[t] \in Workers /\ gor[owner[t]].task = t /\ gor[owner[t]].pc # "none"
<1>1. owner[t] \in Workers /\ gor[owner[t]].task = t
  BY DEF TypeOK, SlotsBelongToLiveRuns
<1>2. t # None
  BY ConstantsAssumption
<1> QED
  BY <1>1, <1>2 DEF RunsAreSound, RunIsSound, NoRun

LEMMA ContextsStep ==
    ASSUME Sound, ContextsAreLive, [Next]_vars
    PROVE  ContextsAreLive'
<1> SUFFICES ASSUME NEW v \in ctxDone' PROVE gor'[v].pc # "none"
  BY DEF ContextsAreLive
<1> USE DEF Sound, IInv
<1>1. v \in ctxDone => gor[v].pc # "none" /\ v \in Workers
  BY DEF ContextsAreLive, TypeOK
<1>2. ASSUME v \in ctxDone, NEW w \in Workers, ExecutorStep(w) \/ AdmitTask(w)
      PROVE  gor'[v].pc # "none"
  <2>1. CASE AdmitTask(w)
    BY <1>1, <1>2, <2>1, Admitted DEF NoRun
  <2>2. CASE ExecutorStep(w) /\ v # w
    BY <1>1, <1>2, <2>2, ExecutorMoves
  <2>3. CASE ExecutorStep(w) /\ v = w /\ gor'[w].pc = "none"
    BY <2>3, ExecutorMoves DEF ExitRun
  <2> QED
    BY <1>1, <1>2, <2>1, <2>2, <2>3
<1>3. CASE Forget
  BY <1>3 DEF Forget
<1>4. ASSUME NEW S \in SUBSET asked', Unmap(S), UNCHANGED gor
      PROVE  gor'[v].pc # "none"
  <2>1. v \in ctxDone \/ \E t \in S : v = owner[t] /\ v \in Workers
    BY <1>4 DEF Unmap
  <2>2. \A t \in S : t \in Tasks
    BY NextType DEF TypeOK
  <2> QED
    BY <1>1, <1>4, <2>1, <2>2, OwnersLive, ConstantsAssumption
<1>5. CASE CancelAll
  BY <1>1, <1>5 DEF CancelAll, RunsAreSound, RunIsSound, TypeOK
<1>6. CASE StopScheduler
  <2>1. gor' = gor /\ (v \in ctxDone \/ \E t \in Tasks : owner[t] # None /\ v = owner[t])
    BY <1>6 DEF StopScheduler, Running
  <2> QED
    BY <1>1, <2>1, OwnersLive
<1>7. v \in ctxDone => (UNCHANGED gor => gor'[v].pc # "none")
  BY <1>1
<1>8. CASE ctxDone' = ctxDone
  BY <1>2, <1>3, <1>7, <1>8, WhoTouchesRuns
<1>9. ASSUME NEW w \in Workers, ExitRun(w), ctxDone' = ctxDone \ {w}
      PROVE  gor'[v].pc # "none"
  BY <1>1, <1>9 DEF ExitRun, TypeOK
<1> QED
  BY <1>3, <1>4, <1>5, <1>6, <1>8, <1>9, ContextMoves

\* A step of anyone but its goroutine leaves the row of a task active or takes it.
LEMMA OthersTake ==
    ASSUME Sound, [Next]_vars, NEW t \in Tasks, row[t] \in Active \cup Taken,
           ~ \E w \in Workers : ConcludedBy(w, t)
    PROVE  /\ row'[t] \in Active \cup Taken
           /\ row[t] \in Taken => row'[t] \in Taken
           /\ row[t] \in {"cancelled", "deleted"} => row'[t] \in {"cancelled", "deleted"}
<1>1. CASE row'[t] = row[t]
  BY <1>1
<1>2. CASE row'[t] # row[t]
  <2>1. RowWritten(t)
    BY <1>2, WhoWritesRows DEF Sound, IInv
  <2> QED
    BY <2>1 DEF RowWritten, Inserted, StartedBy, CancelledBy, DeletedBy, PausedBy,
       ResumedBy, ParkedNow, SweptAtBoot, Retired, Taken, Active
<1> QED
  BY <1>1, <1>2

\* The goroutine that concludes a row is the only one that works for it.
LEMMA ConcluderIsAlone ==
    ASSUME Sound, NEW v \in Workers, Working(v), NEW w \in Workers, ConcludedBy(w, gor[v].task)
    PROVE  v = w /\ gor[v].pc = "write"
BY DEF ConcludedBy, WriteVerdict, At, Sound, IInv, OneExecutorPerTask, Working, WorkPc

LEMMA WorkedRowsStep ==
    ASSUME Sound, WorkedRows, [Next]_vars
    PROVE  WorkedRows'
<1> SUFFICES ASSUME NEW v \in Workers, gor'[v].pc \in Early \cup {"recheck", "write"}
             PROVE  row'[gor'[v].task] \in Active \cup Taken
  BY DEF WorkedRows
<1> USE DEF Sound, IInv
<1>1. ASSUME gor[v].pc \in Early \cup {"recheck", "write"}, gor'[v].task = gor[v].task
      PROVE  row'[gor'[v].task] \in Active \cup Taken
  <2>1. Working(v) /\ gor[v].task \in Tasks /\ row[gor[v].task] \in Active \cup Taken
    BY <1>1 DEF WorkedRows, Working, WorkPc, Early, RunsAreInformed
  <2>2. ASSUME NEW w \in Workers, ConcludedBy(w, gor[v].task)
        PROVE  FALSE
    <3>1. gor[w].pc = "write" /\ v = w /\ ExecutorStep(w)
      BY <2>1, <2>2, ConcluderIsAlone DEF ConcludedBy, ExecutorStep
    <3>2. gor'[w].pc = "settle"
      BY <3>1, ExecutorMoves DEF Moves
    <3> QED
      BY <3>1, <3>2 DEF Early
  <2> QED
    BY <1>1, <2>1, <2>2, OthersTake
<1>2. CASE UNCHANGED gor
  BY <1>1, <1>2
<1>3. CASE Forget
  BY <1>3, AfterForget DEF Early
<1>4. ASSUME NEW w \in Workers, AdmitTask(w)
      PROVE  row'[gor'[v].task] \in Active \cup Taken
  BY <1>1, <1>4, Admitted DEF Early
<1>5. ASSUME NEW w \in Workers, ExecutorStep(w)
      PROVE  row'[gor'[v].task] \in Active \cup Taken
  <2>1. CASE v # w
    BY <1>1, <1>5, <2>1, ExecutorMoves
  <2>2. CASE v = w /\ gor'[v].pc = "mark"
    <3>1. StartRow(v) /\ gor'[v].task = gor[v].task /\ row[gor[v].task] = "pending"
      BY <1>5, <2>2, ExecutorMoves
    <3>2. gor[v].task \in Tasks
      BY <3>1 DEF StartRow, At, RunsAreInformed
    <3> QED
      BY <3>1, <3>2 DEF StartRow, Active, TypeOK
  <2>3. CASE v = w /\ gor'[v].pc # "mark"
    <3>1. gor'[v].task = gor[v].task /\ <<gor[v].pc, gor'[v].pc>> \in Moves
      BY <1>5, <2>3, ExecutorMoves DEF Early
    <3> QED
      BY <1>1, <2>3, <3>1 DEF Moves, Early
  <2> QED
    BY <2>1, <2>2, <2>3
<1> QED
  BY <1>2, <1>3, <1>4, <1>5, WhoTouchesRuns

-----------------------------------------------------------------------------
(***************************************************************************)
(* A scan that nobody asked to stop is not marked cancelled, as long as no *)
(* statement of the shutdown fails: the row is parked before the context   *)
(* is cancelled.                                                           *)
(***************************************************************************)
Steady == Sound /\ ContextsAreLive /\ WorkedRows

LEMMA SteadyIsInductive == (Init => Steady) /\ (Steady /\ [Next]_vars => Steady')
<1>1. Init => ContextsAreLive /\ WorkedRows
  BY DEF Init, ContextsAreLive, WorkedRows, NoRun, Early
<1> QED
  BY <1>1, SoundIsInductive, ContextsStep, WorkedRowsStep DEF Steady

TasksExist == /\ \A w \in Workers : gor[w].pc # "none" => row[gor[w].task] # "none"
              /\ probe # None => row[probe] # "none"

AllParked == life \in {"parkTargets", "cancelAll", "closing", "waiting"}
CutIsMeant(w) ==
    gor[w].pc # "none" /\ gor[w].task \notin asked =>
      /\ w \in ctxDone \/ AllParked =>
           /\ gor[w].pc = "start" => row[gor[w].task] # "pending"
           /\ gor[w].pc \in Early => row[gor[w].task] \in Taken
      /\ life = "park" /\ gor[w].pc = "start" /\ row[gor[w].task] = "pending"
           => gor[w].task \in toPark
      /\ gor[w].pc = "recheck" /\ gor[w].verdict = "cancelled" => row[gor[w].task] \in Taken
      /\ gor[w].pc = "write" /\ gor[w].verdict = "cancelled"
           => row[gor[w].task] \in {"cancelled", "deleted"}
CutsAreMeant == \A w \in Workers : CutIsMeant(w)

LEMMA TasksExistStep ==
    ASSUME Steady, TasksExist, [Next]_vars
    PROVE  TasksExist'
<1> USE DEF Steady, Sound, IInv
<1>1. \A t \in Tasks : row[t] # "none" => row'[t] # "none"
  BY RowStays
<1>2. ASSUME NEW v \in Workers, gor'[v].pc # "none"
      PROVE  row'[gor'[v].task] # "none"
  <2>1. CASE gor[v].pc # "none" /\ gor'[v].task = gor[v].task
    BY <1>1, <2>1 DEF TasksExist, RunsAreInformed
  <2>2. CASE UNCHANGED gor
    BY <1>2, <2>1, <2>2
  <2>3. CASE Forget
    BY <1>2, <2>3, AfterForget
  <2>4. ASSUME NEW w \in Workers, ExecutorStep(w)
        PROVE  gor[v].pc # "none" /\ gor'[v].task = gor[v].task
    BY <1>2, <2>4, ExecutorMoves DEF Moves
  <2>5. ASSUME NEW w \in Workers, AdmitTask(w)
        PROVE  row'[gor'[v].task] # "none"
    <3>1. CASE v = w
      BY <1>1, <2>5, <3>1, Admitted, ConstantsAssumption DEF TasksExist
    <3>2. CASE v # w
      BY <1>2, <2>1, <2>5, <3>2, Admitted
    <3> QED
      BY <3>1, <3>2
  <2> QED
    BY <2>1, <2>2, <2>3, <2>4, <2>5, WhoTouchesRuns
<1>3. probe' # None => row'[probe'] # "none"
  <2>1. probe' \in {probe, None} \/ \E t \in Tasks : probe' = t /\ row[t] = "pending"
    <3>1. ASSUME NEW w \in Workers, ExecutorStep(w) \/ AdmitTask(w)
          PROVE  probe' \in {probe, None}
      BY <3>1, ExecutorMoves DEF AdmitTask
    <3>2. ASSUME NEW h \in Handlers, OperatorStep(h)
          PROVE  probe' = probe
      BY <3>2, OperatorFrame
    <3>3. CASE MainStep
      BY <3>3, MainFrame DEF Forget
    <3>4. ASSUME NEW t \in Tasks, CreateTask(t) \/ ProbePending(t)
          PROVE  probe' = probe \/ (probe' = t /\ row[t] = "pending")
      BY <3>4 DEF CreateTask, ProbePending, memVars
    <3>5. RefuseTask \/ UNCHANGED vars => probe' \in {probe, None}
      BY DEF RefuseTask, vars, memVars
    <3> QED
      BY <3>1, <3>2, <3>3, <3>4, <3>5, WhoseStep DEF QueueStep
  <2> QED
    BY <1>1, <2>1 DEF TasksExist, TypeOK
<1> QED
  BY <1>2, <1>3 DEF TasksExist

\* Parking goes on as it does: what was not yet parked when the list was made is on it.
LEMMA StillToPark ==
    ASSUME Steady, CutsAreMeant, TasksExist, "park" \notin Faults, [Next]_vars, ~Forget,
           NEW v \in Workers, gor[v].pc # "none", gor'[v] = gor[v], gor[v].task \notin asked'
    PROVE  /\ AllParked' /\ ~AllParked =>
                /\ gor[v].pc = "start" => row[gor[v].task] # "pending"
                /\ gor[v].pc \in Early => row'[gor[v].task] \in Taken
           /\ life' = "park" /\ gor[v].pc = "start" /\ row'[gor[v].task] = "pending"
                => gor[v].task \in toPark'
           /\ v \in ctxDone' => v \in ctxDone \/ AllParked
<1> USE DEF Steady, Sound, IInv
<1> DEFINE t == gor[v].task
<1>1. t \in Tasks /\ t \notin asked /\ row[t] # "none" /\ CutIsMeant(v)
      /\ owner[t] = v
  BY AskedMoves, OperatorFrame DEF RunsAreInformed, TasksExist, CutsAreMeant, Registered
<1> HIDE DEF t
<1>2. row'[t] = "pending" => row[t] = "pending"
  <2>1. row[t] \notin {"none", "pending"} => row'[t] \notin {"none", "pending"}
    BY <1>1, EveryStepForward DEF Forward
  <2> QED
    BY <1>1, <2>1
<1>3. ASSUME ParkRemaining
      PROVE  /\ gor[v].pc = "start" => row[t] # "pending"
             /\ gor[v].pc \in Early => row'[t] \in Taken
  <2>1. life = "park" /\ toPark = {} /\ row'[t] = IF row[t] \in Active THEN "interrupted" ELSE row[t]
    BY <1>1, <1>3 DEF ParkRemaining
  <2>2. gor[v].pc = "start" => row[t] # "pending"
    BY <1>1, <2>1 DEF CutIsMeant, t
  <2>3. gor[v].pc \in Early => row[t] \in Active \cup Taken
    BY DEF WorkedRows, t
  <2> QED
    BY <2>1, <2>2, <2>3 DEF Taken
<1>4. AllParked' /\ ~AllParked => ParkRemaining
  <2>1. ~ParkFails
    BY DEF ParkFails
  <2> QED
    BY <2>1, MainOwns, MainMoves DEF AllParked, mainVars
<1>5. life' = "park" /\ gor[v].pc = "start" /\ row'[t] = "pending" => t \in toPark'
  <2> SUFFICES ASSUME life' = "park", gor[v].pc = "start", row'[t] = "pending"
               PROVE  t \in toPark'
    OBVIOUS
  <2>1. CASE UNCHANGED mainVars
    <3>1. life = "park" /\ toPark' = toPark
      BY <2>1 DEF mainVars
    <3> QED
      BY <1>1, <1>2, <3>1 DEF CutIsMeant, t
  <2>2. CASE ListAdmitted
    BY <1>1, <2>2, ConstantsAssumption DEF ListAdmitted, Running, TypeOK
  <2>3. ASSUME NEW u \in Tasks, ParkAdmitted(u)
        PROVE  t \in toPark'
    <3>1. life = "park" /\ toPark' = toPark \ {u} /\ (row[u] = "pending" => row'[u] = "interrupted")
      BY <2>3 DEF ParkAdmitted, TypeOK
    <3> QED
      BY <1>1, <1>2, <3>1 DEF CutIsMeant, t
  <2>4. CASE RequeueNothing \/ \E u \in Tasks : RequeueParked(u)
    <3>1. life = "park" /\ requeue # None
      BY <2>4 DEF RequeueNothing, RequeueParked
    <3> QED
      BY <3>1 DEF RowsAreSound
  <2> QED
    BY <2>1, <2>2, <2>3, <2>4, MainOwns, MainMoves
<1>6. v \in ctxDone' => v \in ctxDone \/ AllParked
  <2>1. ASSUME NEW S \in SUBSET asked', Unmap(S), v \in ctxDone', v \notin ctxDone
        PROVE  FALSE
    <3>1. PICK u \in S : v = owner[u] /\ u \in Tasks
      BY <2>1, NextType DEF Unmap, TypeOK
    <3>2. gor[v].task = u
      BY <3>1, OwnersLive, ConstantsAssumption DEF Unmap
    <3> QED
      BY <2>1, <3>1, <3>2
  <2>2. CancelAll \/ StopScheduler => AllParked
    BY DEF CancelAll, StopScheduler, AllParked
  <2> QED
    BY <2>1, <2>2, ContextMoves
<1> QED
  BY <1>3, <1>4, <1>5, <1>6 DEF t

LEMMA CutsStep ==
    ASSUME Steady, CutsAreMeant, TasksExist, "park" \notin Faults, [Next]_vars
    PROVE  CutsAreMeant'
<1> SUFFICES ASSUME NEW v \in Workers, gor'[v].pc # "none", gor'[v].task \notin asked'
             PROVE  CutIsMeant(v)'
  BY DEF CutsAreMeant, CutIsMeant
<1> USE DEF Steady, Sound, IInv
<1>0. ~Forget
  BY AfterForget
<1>1. asked \subseteq asked'
  BY <1>0, AskedMoves, OperatorFrame
<1>2. CASE gor'[v] = gor[v]
  <2> DEFINE t == gor[v].task
  <2>1. t \in Tasks /\ t \notin asked /\ row[t] # "none" /\ CutIsMeant(v) /\ gor[v].pc # "none"
    BY <1>1, <1>2 DEF RunsAreInformed, TasksExist, CutsAreMeant
  <2>2. row[t] # "pending" => row'[t] # "pending"
    BY <2>1, EveryStepForward DEF Forward
  <2>3. gor[v].pc \in Early \cup {"recheck", "write"} =>
          /\ row[t] \in Taken => row'[t] \in Taken
          /\ row[t] \in {"cancelled", "deleted"} => row'[t] \in {"cancelled", "deleted"}
    <3> SUFFICES ASSUME gor[v].pc \in Early \cup {"recheck", "write"}
                 PROVE  /\ row[t] \in Taken => row'[t] \in Taken
                        /\ row[t] \in {"cancelled", "deleted"} => row'[t] \in {"cancelled", "deleted"}
      OBVIOUS
    <3>1. Working(v) /\ row[t] \in Active \cup Taken
      BY DEF WorkedRows, Working, WorkPc, Early
    <3>2. ASSUME NEW w \in Workers, ConcludedBy(w, t)
          PROVE  FALSE
      <4>1. gor[w].pc = "write" /\ v = w /\ ExecutorStep(w)
        BY <3>1, <3>2, ConcluderIsAlone DEF ConcludedBy, ExecutorStep
      <4>2. gor'[w].pc = "settle"
        BY <4>1, ExecutorMoves DEF Moves
      <4> QED
        BY <1>2, <4>1, <4>2
    <3> QED
      BY <2>1, <3>1, <3>2, OthersTake
  <2>4. /\ AllParked' /\ ~AllParked =>
             /\ gor[v].pc = "start" => row[t] # "pending"
             /\ gor[v].pc \in Early => row'[t] \in Taken
        /\ life' = "park" /\ gor[v].pc = "start" /\ row'[t] = "pending" => t \in toPark'
        /\ v \in ctxDone' => v \in ctxDone \/ AllParked
    BY <1>0, <1>2, <2>1, StillToPark
  <2>5. v \in ctxDone' \/ AllParked' =>
           /\ gor[v].pc = "start" => row'[t] # "pending"
           /\ gor[v].pc \in Early => row'[t] \in Taken
    <3>1. v \in ctxDone \/ AllParked =>
             /\ gor[v].pc = "start" => row[t] # "pending"
             /\ gor[v].pc \in Early => row[t] \in Taken
      BY <2>1 DEF CutIsMeant
    <3> QED
      BY <2>2, <2>3, <2>4, <3>1
  <2>6. /\ gor[v].pc = "recheck" /\ gor[v].verdict = "cancelled" => row'[t] \in Taken
        /\ gor[v].pc = "write" /\ gor[v].verdict = "cancelled" => row'[t] \in {"cancelled", "deleted"}
    BY <2>1, <2>3 DEF CutIsMeant
  <2> QED
    BY <1>2, <2>4, <2>5, <2>6 DEF CutIsMeant
<1>3. ASSUME NEW w \in Workers, ExecutorStep(w), gor'[v] # gor[v]
      PROVE  CutIsMeant(v)'
  <2>1. v = w
    BY <1>3, ExecutorMoves
  <2> DEFINE t == gor[v].task
  <2>2. /\ <<gor[v].pc, gor'[v].pc>> \in Moves /\ gor'[v].task = t
        /\ gor'[v].pc = "mark" => row[t] = "pending"
        /\ gor'[v].pc = "recheck" => (gor'[v].verdict = "cancelled" <=> v \in ctxDone)
        /\ gor'[v].pc = "write" => gor'[v].verdict =
              IF row[t] = "interrupted" THEN "interrupted" ELSE gor[v].verdict
        /\ ctxDone' = ctxDone /\ life' = life
    BY <1>3, <2>1, ExecutorMoves DEF mainVars
  <2>3. t \in Tasks /\ t \notin asked /\ CutIsMeant(v)
    BY <1>1, <2>2 DEF RunsAreInformed, CutsAreMeant, Moves
  <2>4. gor'[v].pc \in Early \cup {"recheck", "write"} /\ gor'[v].pc # "mark" => row' = row
    BY <1>3, <2>1 DEF ExecutorStep, StartRow, StartRowFails, MarkTargetRunning, EnterPhase,
       LeavePhase, LeaveLoop, RecheckRow, WriteVerdict, WriteVerdictFails, SettleTarget, ExitRun,
       Goto, NoRun, dbVars, Early, TypeOK, Run
  <2>5. CASE gor'[v].pc \in Early
    <3>1. gor'[v].pc = "mark" => ~(v \in ctxDone' \/ AllParked')
      BY <2>2, <2>3 DEF CutIsMeant, AllParked, Moves
    <3>2. gor'[v].pc # "mark" => gor[v].pc \in Early
      BY <2>2, <2>5 DEF Moves, Early
    <3> QED
      BY <2>2, <2>3, <2>4, <2>5, <3>1, <3>2 DEF CutIsMeant, AllParked, Early
  <2>6. CASE gor'[v].pc \in {"recheck", "write"}
    <3>1. row' = row /\ gor[v].pc \in {"loop", "recheck"}
      BY <2>2, <2>4, <2>6 DEF Moves, Early
    <3> QED
      BY <2>2, <2>3, <2>6, <3>1 DEF CutIsMeant, Early, Taken, Moves
  <2>7. CASE gor'[v].pc \in {"settle", "exit"}
    BY <2>7 DEF CutIsMeant, Early
  <2> QED
    BY <2>2, <2>5, <2>6, <2>7 DEF Moves, Early
<1>4. ASSUME NEW w \in Workers, AdmitTask(w), gor'[v] # gor[v]
      PROVE  CutIsMeant(v)'
  <2>1. v = w /\ gor[v] = NoRun /\ gor'[v].pc = "start" /\ ~Stopping /\ ctxDone' = ctxDone
        /\ life' = life
    BY <1>4, Admitted DEF mainVars
  <2>2. v \notin ctxDone' /\ ~AllParked' /\ life' # "park"
    BY <2>1 DEF ContextsAreLive, NoRun, Stopping, AllParked
  <2> QED
    BY <2>1, <2>2 DEF CutIsMeant
<1> QED
  BY <1>0, <1>2, <1>3, <1>4, WhoTouchesRuns

\* CancelledOnlyOnRequest for every operation of the operator, crashes included, if no
\* statement of the shutdown fails (SuspendActiveForShutdown returns before it cancels
\* contexts that Stop then cancels).
THEOREM CancelledMeansAsked ==
    ASSUME "park" \notin Faults
    PROVE  Spec => CancelledOnlyOnRequest
<1> DEFINE Inv == Steady /\ CutsAreMeant /\ TasksExist
<1>1. Init => Inv
  BY SteadyIsInductive DEF Init, CutsAreMeant, CutIsMeant, TasksExist, NoRun
<1>2. Inv /\ [Next]_vars => Inv'
  BY SteadyIsInductive, CutsStep, TasksExistStep
<1>3. Inv /\ [Next]_vars =>
        [\A t \in Tasks : row'[t] = "cancelled" /\ row[t] # "cancelled"
                            => t \in asked \/ life \in {"down", "resuming"}]_vars
  <2> SUFFICES ASSUME Inv, [Next]_vars, NEW t \in Tasks, row'[t] = "cancelled",
                      row[t] # "cancelled"
               PROVE  t \in asked \/ life \in {"down", "resuming"}
    OBVIOUS
  <2> USE DEF Steady, Sound, IInv
  <2>1. RowWritten(t)
    BY WhoWritesRows
  <2>2. ASSUME NEW w \in Workers, ConcludedBy(w, t)
        PROVE  t \in asked
    BY <2>2 DEF ConcludedBy, WriteVerdict, At, CutsAreMeant, CutIsMeant
  <2>3. ASSUME NEW h \in Handlers, CancelledBy(h, t)
        PROVE  t \in asked
    BY <2>3 DEF CancelledBy, CancelTaskRow, CancelSelectedRow, HandlerAt, RequestsAreSound,
       RequestIsSound, Stopper
  <2> QED
    BY <2>1, <2>2, <2>3 DEF RowWritten, Inserted, StartedBy, DeletedBy, PausedBy, ResumedBy,
       ParkedNow, SweptAtBoot, Retired, Boot, RetireParked
<1> QED
  BY <1>1, <1>2, <1>3, PTL DEF Spec, CancelledOnlyOnRequest

-----------------------------------------------------------------------------
(***************************************************************************)
(* Stop waits for cancelled contexts.                                      *)
(***************************************************************************)
StoppedRuns ==
    life = "waiting" =>
        \A w \in Workers : gor[w].pc # "none" => w \in ctxDone \/ gor[w].task \in asked

LEMMA StoppedRunsStep ==
    ASSUME Steady, StoppedRuns, [Next]_vars
    PROVE  StoppedRuns'
<1> SUFFICES ASSUME life' = "waiting", NEW v \in Workers, gor'[v].pc # "none",
                    gor'[v].task \notin asked'
             PROVE  v \in ctxDone'
  BY DEF StoppedRuns
<1> USE DEF Steady, Sound, IInv
<1>0. ~Forget
  BY AfterForget
<1>1. asked \subseteq asked'
  BY <1>0, AskedMoves, OperatorFrame
<1>2. CASE life = "waiting"
  <2>1. gor[v].pc # "none" /\ gor'[v].task = gor[v].task
    <3>1. ASSUME NEW w \in Workers, ExecutorStep(w)
          PROVE  gor[v].pc # "none" /\ gor'[v].task = gor[v].task
      <4>1. CASE v # w
        BY <3>1, <4>1, ExecutorMoves
      <4>2. CASE v = w
        BY <3>1, <4>2, ExecutorMoves DEF Moves
      <4> QED
        BY <4>1, <4>2
    <3>2. ASSUME NEW w \in Workers, AdmitTask(w)
          PROVE  FALSE
      BY <1>2, <3>2, Admitted DEF Stopping
    <3> QED
      BY <1>0, <3>1, <3>2, WhoTouchesRuns
  <2>2. v \in ctxDone
    BY <1>1, <1>2, <2>1 DEF StoppedRuns
  <2>3. ASSUME NEW w \in Workers, ExitRun(w), ctxDone' = ctxDone \ {w}
        PROVE  v # w
    BY <2>3 DEF ExitRun, NoRun, TypeOK
  <2> QED
    BY <1>0, <2>2, <2>3, ContextMoves DEF Unmap, CancelAll, StopScheduler
<1>3. CASE life # "waiting"
  <2>1. StopScheduler
    BY <1>3, MainOwns, MainMoves DEF mainVars
  <2>2. gor' = gor /\ ctxDone' = ctxDone \cup {owner[t] : t \in Running}
    BY <2>1 DEF StopScheduler
  <2>3. gor[v].task \in Tasks /\ owner[gor[v].task] = v
    BY <1>1, <2>2 DEF Registered, RunsAreInformed
  <2> QED
    BY <2>2, <2>3, ConstantsAssumption DEF Running
<1> QED
  BY <1>2, <1>3

\* When Stop waits, whoever still works has a cancelled context, or works for a task
\* somebody asked to stop: a cancel may take the running map's entry of a goroutine that
\* was admitted after it, and Stop then does not find its cancel function.
THEOREM StopWaitsForCancelledOrAsked ==
    Spec => [](life = "waiting" => \A w \in Workers :
                 gor[w] # NoRun => w \in ctxDone \/ gor[w].task \in asked)
<1> DEFINE Inv == Steady /\ StoppedRuns
<1>1. Init => Inv
  BY SteadyIsInductive DEF Init, StoppedRuns
<1>2. Inv /\ [Next]_vars => Inv'
  BY SteadyIsInductive, StoppedRunsStep
<1>3. Inv => (life = "waiting" => \A w \in Workers :
                 gor[w] # NoRun => w \in ctxDone \/ gor[w].task \in asked)
  BY DEF StoppedRuns, Steady, Sound, RunsAreSound, RunIsSound
<1> QED
  BY <1>1, <1>2, <1>3, PTL DEF Spec

LEMMA NobodyAsks ==
    ASSUME TypeOK, "cancelTask" \notin Ops, "cancelTarget" \notin Ops, "delete" \notin Ops,
           asked = {}, [Next]_vars
    PROVE  asked' = {}
<1>1. ASSUME NEW h \in Handlers, Accepted(h)
      PROVE  asked' = asked
  BY <1>1 DEF Accepted
<1> QED
  BY <1>1, AskedMoves, AfterForget

\* StopWaitsForCancelledOnly as long as no operator cancels a scan: the comment at
\* scheduler.go 391-393, whatever else the operator, a crash or a failing statement does.
THEOREM StopFindsEveryContext ==
    ASSUME "cancelTask" \notin Ops, "cancelTarget" \notin Ops, "delete" \notin Ops
    PROVE  Spec => []StopWaitsForCancelledOnly
<1> DEFINE Inv == Steady /\ StoppedRuns /\ asked = {}
<1>1. Init => Inv
  BY SteadyIsInductive DEF Init, StoppedRuns
<1>2. Inv /\ [Next]_vars => Inv'
  BY SteadyIsInductive, StoppedRunsStep, NobodyAsks DEF Steady, Sound, IInv
<1>3. Inv => StopWaitsForCancelledOnly
  BY DEF StopWaitsForCancelledOnly, StoppedRuns, Steady, Sound, RunsAreSound, RunIsSound
<1> QED
  BY <1>1, <1>2, <1>3, PTL DEF Spec

-----------------------------------------------------------------------------
(***************************************************************************)
(* A graceful exit leaves no row active.                                   *)
(***************************************************************************)
\* The goroutine that will still conclude the row of a task.
Concludes(w, t) ==
    /\ gor[w].task = t
    /\ \/ gor[w].pc \in Early
       \/ gor[w].pc \in {"recheck", "write"} /\ gor[w].verdict \in Terminal
ActiveRowsEnd ==
    /\ \A t \in Tasks : row[t] \in Active => \E w \in Workers : Concludes(w, t)
    /\ life = "down" => \A t \in Tasks : row[t] \notin Active

LEMMA BecomesActive ==
    ASSUME TypeOK, RunsAreInformed, [Next]_vars, NEW t \in Tasks, row'[t] \in Active
    PROVE  row[t] \in Active \/ \E w \in Workers : StartedBy(w, t)
<1>1. CASE row'[t] = row[t]
  BY <1>1
<1>2. CASE row'[t] # row[t]
  <2>1. RowWritten(t)
    BY <1>2, WhoWritesRows
  <2>2. ASSUME NEW w \in Workers, ConcludedBy(w, t)
        PROVE  row'[t] \in Terminal
    BY <2>2 DEF ConcludedBy, WriteVerdict, At, RunsAreInformed, TypeOK, Run, Verdict
  <2> QED
    BY <2>1, <2>2 DEF RowWritten, Inserted, CancelledBy, DeletedBy, PausedBy, ResumedBy,
       ParkedNow, SweptAtBoot, Retired, Active, Terminal
<1> QED
  BY <1>1, <1>2

\* A goroutine that will conclude an active row goes on to do so, unless the row is
\* active no more.
LEMMA ConcludesStep ==
    ASSUME Steady, "final" \notin Faults, [Next]_vars, ~Forget, NEW t \in Tasks,
           row[t] \in Active, row'[t] \in Active, NEW v \in Workers, Concludes(v, t)
    PROVE  Concludes(v, t)'
<1> USE DEF Steady, Sound, IInv
<1>1. CASE gor'[v] = gor[v]
  BY <1>1 DEF Concludes
<1>2. ASSUME NEW w \in Workers, ExecutorStep(w), gor'[v] # gor[v]
      PROVE  Concludes(v, t)'
  <2>1. v = w
    BY <1>2, ExecutorMoves
  <2>2. /\ <<gor[v].pc, gor'[v].pc>> \in Moves
        /\ gor'[v].pc # "none" => gor'[v].task = t
        /\ gor'[v].pc = "recheck" => gor'[v].verdict \in Terminal
        /\ gor'[v].pc = "write" => gor'[v].verdict =
              IF row[t] = "interrupted" THEN "interrupted" ELSE gor[v].verdict
        /\ gor'[v].pc = "settle" => WriteVerdict(v) \/ WriteVerdictFails(v)
    BY <1>2, <2>1, ExecutorMoves DEF Concludes
  <2>3. gor'[v].pc # "settle"
    <3>1. ~WriteVerdictFails(v)
      BY DEF WriteVerdictFails
    <3>2. WriteVerdict(v) => row'[t] = gor[v].verdict /\ gor[v].pc = "write"
      BY DEF WriteVerdict, At, Concludes, Active, Terminal, TypeOK, Early
    <3> QED
      BY <2>2, <3>1, <3>2 DEF Concludes, Early, Active, Terminal
  <2> QED
    BY <2>2, <2>3 DEF Concludes, Moves, Early, Active
<1>3. ASSUME NEW w \in Workers, AdmitTask(w)
      PROVE  gor'[v] = gor[v]
  BY <1>3, Admitted DEF Concludes, Early, NoRun
<1> QED
  BY <1>1, <1>2, <1>3, WhoTouchesRuns

LEMMA ActiveRowsEndStep ==
    ASSUME Steady, ActiveRowsEnd, "final" \notin Faults, "crash" \notin Ops, [Next]_vars
    PROVE  ActiveRowsEnd'
<1> USE DEF Steady, Sound, IInv
<1>1. ASSUME NEW t \in Tasks, row'[t] \in Active
      PROVE  \E w \in Workers : Concludes(w, t)'
  <2>1. CASE \E w \in Workers : StartedBy(w, t)
    <3>1. PICK w \in Workers : StartedBy(w, t)
      BY <2>1
    <3>2. gor'[w].pc = "mark" /\ gor'[w].task = t
      BY <3>1 DEF StartedBy, StartRow, At, TypeOK, Run
    <3> QED
      BY <3>2 DEF Concludes, Early
  <2>2. CASE row[t] \in Active
    <3>1. PICK v \in Workers : Concludes(v, t)
      BY <2>2 DEF ActiveRowsEnd
    <3>2. ~ProcessExit /\ ~Crash
      BY <3>1 DEF ProcessExit, Crash, Concludes, Early, NoRun
    <3>3. ~Forget
      <4>1. CASE Forget /\ life = "down"
        BY <2>2, <4>1 DEF ActiveRowsEnd
      <4>2. CASE Forget /\ life # "down"
        BY <3>2, <4>2, AfterForget, MainOwns, MainMoves DEF mainVars
      <4> QED
        BY <4>1, <4>2
    <3> QED
      BY <1>1, <2>2, <3>1, <3>3, ConcludesStep
  <2> QED
    BY <1>1, <2>1, <2>2, BecomesActive
<1>2. ASSUME life' = "down", NEW t \in Tasks
      PROVE  row'[t] \notin Active
  <2>1. CASE life = "down"
    <3>1. \A w \in Workers : ~StartedBy(w, t)
      BY <2>1 DEF StartedBy, StartRow, At, Up
    <3> QED
      BY <2>1, <3>1, BecomesActive DEF ActiveRowsEnd
  <2>2. CASE life # "down"
    <3>1. life = "waiting" /\ ProcessExit /\ Forget
      BY <1>2, <2>2, MainOwns, MainMoves DEF mainVars
    <3>2. (\A w \in Workers : gor[w] = NoRun) /\ row' = row
      BY <3>1, AfterForget DEF ProcessExit
    <3> QED
      BY <3>1, <3>2 DEF ActiveRowsEnd, Concludes, Early, NoRun
  <2> QED
    BY <2>1, <2>2
<1> QED
  BY <1>1, <1>2 DEF ActiveRowsEnd

\* GracefulExitLeavesNoZombie: if the process ends by itself only, and no final update
\* fails, no row is active while it is down, even when the rows could not be parked.
THEOREM NoZombieAfterExit ==
    ASSUME "crash" \notin Ops, "final" \notin Faults
    PROVE  Spec => []GracefulExitLeavesNoZombie
<1> DEFINE Inv == Steady /\ ActiveRowsEnd
<1>1. Init => Inv
  BY SteadyIsInductive DEF Init, ActiveRowsEnd, Active
<1>2. Inv /\ [Next]_vars => Inv'
  BY SteadyIsInductive, ActiveRowsEndStep
<1>3. Inv => GracefulExitLeavesNoZombie
  BY DEF ActiveRowsEnd, GracefulExitLeavesNoZombie
<1> QED
  BY <1>1, <1>2, <1>3, PTL DEF Spec

-----------------------------------------------------------------------------
(***************************************************************************)
(* A cancel is not undone by a shutdown.                                   *)
(***************************************************************************)
\* A task that was asked to stop is settled, or a request has still to settle it.
BeingStopped(t) == \E h \in Handlers : hs[h].pc \in Stopper /\ t \in hs[h].ids
AskedSettle == \A t \in asked : row[t] \in Settled \/ BeingStopped(t)
NonePaused  == \A t \in Tasks : row[t] # "paused"

LEMMA NonePausedStep ==
    ASSUME Sound, NonePaused, "pause" \notin Ops, [Next]_vars
    PROVE  NonePaused'
<1> USE DEF Sound, IInv
<1>1. ASSUME NEW t \in Tasks, row'[t] = "paused", row[t] # "paused"
      PROVE  FALSE
  <2>1. RowWritten(t)
    BY <1>1, WhoWritesRows
  <2>2. ASSUME NEW w \in Workers, ConcludedBy(w, t)
        PROVE  FALSE
    BY <1>1, <2>2 DEF ConcludedBy, WriteVerdict, At, RunsAreInformed, TypeOK, Run, Verdict, Terminal
  <2>3. ASSUME NEW h \in Handlers, PausedBy(h, t)
        PROVE  FALSE
    BY <2>3 DEF PausedBy, PauseRow, HandlerAt, RequestsAreSound, RequestIsSound
  <2> QED
    BY <1>1, <2>1, <2>2, <2>3 DEF RowWritten, Inserted, StartedBy, CancelledBy, DeletedBy,
       ResumedBy, ParkedNow, SweptAtBoot, Retired
<1> QED
  BY <1>1 DEF NonePaused

LEMMA AskedSettleStep ==
    ASSUME Sound, NonePaused, AskedSettle, [Next]_vars
    PROVE  AskedSettle'
<1> USE DEF Sound, IInv
<1> SUFFICES ASSUME NEW t \in Tasks, t \in asked', row'[t] \notin Settled
             PROVE  BeingStopped(t)'
  BY NextType DEF AskedSettle, TypeOK
<1>1. row[t] \notin Settled
  BY RowStays
<1>2. CASE Forget
  <2>1. asked' = asked \ UNION {hs[h].ids : h \in Handlers}
    BY <1>2 DEF Forget
  <2> QED
    BY <1>1, <2>1 DEF AskedSettle, BeingStopped
<1>3. ASSUME NEW h \in Handlers, hs[h].pc \in Stopper, t \in hs[h].ids, ~Forget
      PROVE  BeingStopped(t)'
  <2>1. CASE hs'[h] = hs[h]
    BY <1>3, <2>1 DEF BeingStopped
  <2>2. CASE OperatorStep(h)
    <3>1. HandlerGoes(h)
      BY <1>3, <2>2, HandlerMoves DEF Accepted, Answered, Stopper, RefreshAfterCancel, DeleteTarget,
         ReconcileOrphanedTarget, PauseTargetRow, ResumeTargetRow, HandlerAt
    <3>2. CASE CancelTaskRow(h)
      BY <1>1, <1>3, <3>2 DEF CancelTaskRow, RequestsAreSound, RequestIsSound, NonePaused,
         TypeOK, Status, Active, Settled, Terminal
    <3>3. CASE CancelSelected(h)
      <4>1. hs'[h].pc = "ckUpdate" /\ hs'[h].ids = hs[h].ids
        BY <1>3, <3>3 DEF CancelSelected, HandlerTo, TypeOK, Request
      <4> QED
        BY <1>3, <4>1 DEF BeingStopped, Stopper
    <3>4. ASSUME NEW u \in Tasks, CancelSelectedRow(h, u)
          PROVE  BeingStopped(t)'
      <4>1. u # t
        BY <3>4 DEF CancelSelectedRow, TypeOK, Settled, Terminal
      <4>2. hs'[h].pc = "ckUpdate" /\ t \in hs'[h].ids
        BY <1>3, <3>4, <4>1 DEF CancelSelectedRow, TypeOK, Request
      <4> QED
        BY <4>2 DEF BeingStopped, Stopper
    <3> QED
      BY <1>3, <3>1, <3>2, <3>3, <3>4 DEF HandlerGoes, RefreshAfterCancel, PauseGate, PauseRow,
         ResumeGate, ResumeRow, HandlerAt, Stopper
  <2> QED
    BY <1>3, <2>1, <2>2, RequestMoves
<1>4. ASSUME NEW h \in Handlers, Accepted(h), t \notin asked
      PROVE  BeingStopped(t)'
  <2>1. asked' # asked
    BY <1>4
  <2>2. hs'[h].pc \in Stopper /\ t \in hs'[h].ids
    BY <1>4, <2>1 DEF Accepted, Stopper, NonePaused, Active
  <2> QED
    BY <2>2 DEF BeingStopped
<1> QED
  BY <1>1, <1>2, <1>3, <1>4, AskedMoves DEF AskedSettle, BeingStopped

\* CancelSurvivesPark where no scan is ever paused (CancelTasksForTarget selects running
\* and pending rows only, so a paused scan that was asked to stop may still be parked).
THEOREM CancelIsFinal ==
    ASSUME "pause" \notin Ops
    PROVE  Spec => CancelSurvivesPark
<1> DEFINE Inv == Sound /\ NonePaused /\ AskedSettle
<1>1. Init => Inv
  BY SoundIsInductive DEF Init, NonePaused, AskedSettle
<1>2. Inv /\ [Next]_vars => Inv'
  BY SoundIsInductive, NonePausedStep, AskedSettleStep
<1>3. Inv /\ [Next]_vars =>
        [\A t \in asked : row[t] # "interrupted" /\ row'[t] = "interrupted" =>
           \E h \in Handlers : hs[h].pc \in {"ctUpdate", "ckUnmap", "ckUpdate"} /\ t \in hs[h].ids]_vars
  <2> SUFFICES ASSUME Inv, [Next]_vars, NEW t \in asked, row[t] # "interrupted",
                      row'[t] = "interrupted"
               PROVE  BeingStopped(t)
    BY DEF BeingStopped, Stopper
  <2> USE DEF Sound, IInv
  <2>1. t \in Tasks
    BY DEF TypeOK
  <2>2. RowWritten(t)
    BY <2>1, WhoWritesRows
  <2>3. ASSUME NEW w \in Workers, ConcludedBy(w, t)
        PROVE  FALSE
    BY <2>3 DEF ConcludedBy, WriteVerdict, At, RunsAreInformed, TypeOK, Run, Verdict, Terminal
  <2>4. row[t] \in Active \cup {"pending"}
    BY <2>2, <2>3 DEF RowWritten, Inserted, StartedBy, CancelledBy, DeletedBy, PausedBy,
       ResumedBy, ParkedNow, SweptAtBoot, Retired
  <2> QED
    BY <2>4 DEF AskedSettle, Settled, Active, Terminal
<1> QED
  BY <1>1, <1>2, <1>3, PTL DEF Spec, CancelSurvivesPark

-----------------------------------------------------------------------------
(***************************************************************************)
(* A target shown as running or paused has a scan behind it.               *)
(***************************************************************************)
\* A row, a goroutine that has still to settle the target, or a cancel that has still to
\* refresh it.
Backed(g) ==
    \/ HasRow(g, Active \cup {"pending"})
    \/ \E w \in Workers : Working(w) /\ TargetOf[gor[w].task] = g
    \/ \E h \in Handlers : hs[h].pc \in {"ckUpdate", "refresh"} /\ hs[h].target = g
ShownIsBacked ==
    ~Stopping => \A g \in Targets :
        /\ scan[g] = "running" => Backed(g)
        /\ scan[g] = "paused" => Backed(g) \/ life = "resuming"

\* The steps that recompute the status of a target from its rows.
Refreshes(g) ==
    \/ \E w \in Workers : SettleTarget(w) /\ TargetOf[gor[w].task] = g
    \/ \E h \in Handlers : RefreshAfterCancel(h) /\ hs[h].target = g

LEMMA WhoWritesScan ==
    ASSUME TypeOK, [Next]_vars, NEW g \in Targets
    PROVE  \/ scan'[g] = scan[g]
           \/ Refreshes(g)
           \/ \E w \in Workers : MarkTargetRunning(w) /\ TargetOf[gor[w].task] = g
           \/ \E h \in Handlers : /\ DeleteTarget(h) \/ ReconcileOrphanedTarget(h)
                                  /\ scan'[g] \in {"deleted", "idle"}
           \/ \E h \in Handlers : PauseTargetRow(h) \/ ResumeTargetRow(h)
           \/ ParkTargets \/ Boot \/ ClearPausedMarkers
<1> USE DEF TypeOK, dbVars, SetScan
<1>1. ASSUME NEW w \in Workers, ExecutorStep(w)
      PROVE  \/ scan'[g] = scan[g] \/ Refreshes(g)
             \/ MarkTargetRunning(w) /\ TargetOf[gor[w].task] = g
  <2>1. CASE SettleTarget(w)
    <3>1. \E s \in ScanStatus : SetScan(TargetOf[gor[w].task], s)
      BY <2>1 DEF SettleTarget, RefreshTargetScanStatus, ScanStatus
    <3> QED
      BY <2>1, <3>1 DEF Refreshes
  <2>2. CASE MarkTargetRunning(w)
    BY <2>2 DEF MarkTargetRunning
  <2> QED
    BY <1>1, <2>1, <2>2 DEF ExecutorStep, StartRow, StartRowFails, EnterPhase, LeavePhase,
       LeaveLoop, RecheckRow, WriteVerdict, WriteVerdictFails, ExitRun
<1>2. ASSUME NEW h \in Handlers, OperatorStep(h)
      PROVE  \/ scan'[g] = scan[g] \/ Refreshes(g)
             \/ (DeleteTarget(h) \/ ReconcileOrphanedTarget(h)) /\ scan'[g] \in {"deleted", "idle"}
             \/ PauseTargetRow(h) \/ ResumeTargetRow(h)
  <2>1. CASE RefreshAfterCancel(h)
    <3>1. \E s \in ScanStatus : SetScan(hs[h].target, s)
      BY <2>1 DEF RefreshAfterCancel, RefreshTargetScanStatus, ScanStatus
    <3> QED
      BY <2>1, <3>1 DEF Refreshes
  <2>2. CASE DeleteTarget(h) \/ ReconcileOrphanedTarget(h)
    BY <2>2 DEF DeleteTarget, ReconcileOrphanedTarget
  <2>3. CASE Accepted(h)
    BY <2>3 DEF Accepted
  <2>4. CASE HandlerGoes(h) /\ ~RefreshAfterCancel(h)
    BY <2>4 DEF HandlerGoes, CancelTaskRow, CancelSelected, CancelSelectedRow, PauseGate, PauseRow,
       ResumeGate, ResumeRow
  <2> QED
    BY <1>2, <2>1, <2>2, <2>3, <2>4, HandlerMoves DEF Answered
<1>3. ASSUME NEW w \in Workers, AdmitTask(w)
      PROVE  scan' = scan
  BY <1>3, Admitted
<1>4. MainStep => scan' = scan \/ ParkTargets \/ Boot \/ ClearPausedMarkers
  BY DEF MainStep, BeginShutdown, ListAdmitted, ParkRemaining, ParkFails, CancelAll, StopScheduler,
     ProcessExit, Crash, Forget, RequeueNothing, ParkAdmitted, RetireParked, RequeueParked
<1>5. QueueStep \/ UNCHANGED vars => scan' = scan
  BY QueueFrame DEF vars
<1> QED
  BY <1>1, <1>2, <1>3, <1>4, <1>5, WhoseStep

\* What a refresh shows is so.
LEMMA RefreshShows ==
    ASSUME Sound, ~Stopping, NEW g \in Targets, Refreshes(g)
    PROVE  /\ scan'[g] = "running" => HasRow(g, {"running"})
           /\ scan'[g] = "paused" => HasRow(g, {"paused"}) \/ life = "resuming"
           /\ UNCHANGED row
<1> USE DEF Sound, IInv
<1>1. \E s \in {"idle", "failed"} : RefreshTargetScanStatus(g, s)
  BY DEF Refreshes, SettleTarget, RefreshAfterCancel
<1>2. PICK s \in ScanStatus :
        /\ SetScan(g, s)
        /\ s = "running" => HasRow(g, {"running"})
        /\ s = "paused" => HasRow(g, {"paused", "interrupted"})
  BY <1>1 DEF RefreshTargetScanStatus, ScanStatus
<1>3. scan'[g] \in {"deleted", s}
  BY <1>2 DEF SetScan, TypeOK
<1>4. HasRow(g, {"paused", "interrupted"}) => HasRow(g, {"paused"}) \/ life = "resuming"
  BY DEF HasRow, RowsAreSound, TasksOf
<1>5. UNCHANGED row
  BY DEF Refreshes, SettleTarget, RefreshAfterCancel
<1> QED
  BY <1>2, <1>3, <1>4, <1>5

\* No other step takes away what backs a target that keeps its status.
LEMMA BackedStep ==
    ASSUME Sound, [Next]_vars, ~Stopping, ~Stopping', NEW g \in Targets, Backed(g), ~Refreshes(g),
           scan'[g] # "deleted"
    PROVE  Backed(g)'
<1> USE DEF Sound, IInv
<1>0. ~Forget /\ ~Boot
  BY AfterForget DEF Boot, Stopping
<1>1. ASSUME NEW w \in Workers, Working(w), TargetOf[gor[w].task] = g
      PROVE  Backed(g)'
  <2>1. gor'[w] = gor[w] \/ (Working(w)' /\ gor'[w].task = gor[w].task)
    <3>1. ASSUME NEW v \in Workers, ExecutorStep(v)
          PROVE  gor'[w] = gor[w] \/ (Working(w)' /\ gor'[w].task = gor[w].task)
      <4>1. v = w => ~SettleTarget(w)
        BY <1>1 DEF Refreshes
      <4>2. CASE v = w
        BY <1>1, <3>1, <4>1, <4>2, ExecutorMoves DEF Moves, Working, WorkPc, StartRow, StartRowFails, At
      <4> QED
        BY <3>1, <4>2, ExecutorMoves
    <3>2. ASSUME NEW v \in Workers, AdmitTask(v)
          PROVE  gor'[w] = gor[w]
      BY <1>1, <3>2, Admitted DEF Working, WorkPc, NoRun
    <3> QED
      BY <1>0, <3>1, <3>2, WhoTouchesRuns
  <2> QED
    BY <1>1, <2>1 DEF Backed, Working
<1>2. ASSUME NEW h \in Handlers, hs[h].pc \in {"ckUpdate", "refresh"}, hs[h].target = g
      PROVE  Backed(g)'
  <2>1. hs'[h].pc \in {"ckUpdate", "refresh"} /\ hs'[h].target = g
    <3>1. CASE OperatorStep(h)
      <4>1. ~RefreshAfterCancel(h)
        BY <1>2 DEF Refreshes
      <4>2. HandlerGoes(h)
        BY <1>2, <3>1, <4>1, HandlerMoves DEF Accepted, Answered, DeleteTarget,
           ReconcileOrphanedTarget, PauseTargetRow, ResumeTargetRow, HandlerAt
      <4> QED
        BY <1>2, <4>1, <4>2 DEF HandlerGoes, PauseGate, PauseRow, ResumeGate, ResumeRow, HandlerAt
    <3> QED
      BY <1>0, <1>2, <3>1, RequestMoves
  <2> QED
    BY <2>1 DEF Backed
<1>3. ASSUME NEW t \in Tasks, TargetOf[t] = g, row[t] \in Active \cup {"pending"}
      PROVE  Backed(g)'
  <2>1. CASE row'[t] \in Active \cup {"pending"}
    BY <1>3, <2>1 DEF Backed, HasRow, TasksOf
  <2>2. CASE row'[t] \notin Active \cup {"pending"}
    <3>1. RowWritten(t)
      BY <1>3, <2>2, WhoWritesRows
    <3>2. ASSUME NEW w \in Workers, ConcludedBy(w, t)
          PROVE  Backed(g)'
      <4>1. gor[w].task = t /\ gor[w].pc = "write" /\ Working(w) /\ TargetOf[gor[w].task] = g
        BY <1>3, <3>2 DEF ConcludedBy, WriteVerdict, At, Working, WorkPc
      <4> QED
        BY <1>1, <4>1
    <3>3. ASSUME NEW h \in Handlers, CancelledBy(h, t)
          PROVE  Backed(g)'
      <4>1. hs[h].target = g
        BY <1>3, <3>3 DEF CancelledBy, RequestsAreSound, RequestIsSound
      <4>2. CASE CancelTaskRow(h)
        <5>1. hs'[h].pc = "refresh" /\ hs'[h].target = g
          BY <4>1, <4>2 DEF CancelTaskRow, HandlerTo, TypeOK, Request
        <5> QED
          BY <5>1 DEF Backed
      <4>3. CASE CancelSelectedRow(h, t)
        <5>1. hs[h].pc = "ckUpdate"
          BY <4>3 DEF CancelSelectedRow, HandlerAt
        <5> QED
          BY <1>2, <4>1, <5>1
      <4> QED
        BY <3>3, <4>2, <4>3 DEF CancelledBy
    <3>4. ASSUME NEW h \in Handlers, DeletedBy(h, t)
          PROVE  FALSE
      BY <1>3, <3>4 DEF DeletedBy, DeleteTarget, TypeOK
    <3>5. ~Retired(t)
      BY <1>3 DEF Retired, RetireParked, RowsAreSound, Settled, Terminal, Active
    <3> QED
      BY <1>0, <1>3, <2>2, <3>1, <3>2, <3>3, <3>4, <3>5 DEF RowWritten, Inserted, StartedBy, PausedBy,
         ResumedBy, ParkedNow, SweptAtBoot, Active, Stopping
  <2> QED
    BY <2>1, <2>2
<1> QED
  BY <1>1, <1>2, <1>3 DEF Backed, HasRow, TasksOf

LEMMA ShownIsBackedStep ==
    ASSUME Sound, ShownIsBacked, "pause" \notin Ops, "resume" \notin Ops, Aged = {}, [Next]_vars
    PROVE  ShownIsBacked'
<1> USE DEF Sound, IInv
<1> SUFFICES ASSUME ~Stopping', NEW g \in Targets, scan'[g] \in {"running", "paused"}
             PROVE  Backed(g)' \/ (scan'[g] = "paused" /\ life' = "resuming")
  BY DEF ShownIsBacked
<1>1. CASE Boot
  <2> DEFINE swept == [t \in Tasks |-> IF row[t] \in Active THEN "cancelled" ELSE row[t]]
  <2>1. \E t \in TasksOf(g) : swept[t] \in Active \cup {"pending"}
    BY <1>1 DEF Boot, TypeOK
  <2>2. row' = swept
    BY <1>1 DEF Boot
  <2> QED
    BY <2>1, <2>2 DEF Backed, HasRow
<1>2. CASE ~Boot
  <2>1. ~Stopping /\ (life' = life \/ ClearPausedMarkers)
    BY <1>2, MainOwns, MainMoves DEF mainVars, Stopping
  <2>2. CASE Refreshes(g)
    <3>1. ~ClearPausedMarkers
      BY <2>2 DEF Refreshes, SettleTarget, RefreshAfterCancel, ClearPausedMarkers, mainVars
    <3> QED
      BY <2>1, <2>2, <3>1, RefreshShows DEF Backed, HasRow, Active
  <2>3. ASSUME NEW w \in Workers, MarkTargetRunning(w), TargetOf[gor[w].task] = g
        PROVE  Backed(g)'
    <3>1. gor'[w].pc = "loop" /\ gor'[w].task = gor[w].task
      BY <2>3 DEF MarkTargetRunning, Goto, TypeOK, Run
    <3> QED
      BY <2>3, <3>1 DEF Backed, Working, WorkPc
  <2>4. CASE ClearPausedMarkers
    <3>1. UNCHANGED <<row, gor, hs>> /\ parked = {}
      BY <2>4 DEF ClearPausedMarkers, memVars
    <3>2. CASE scan'[g] = "running"
      <4>1. Backed(g)
        BY <2>1, <2>4, <3>2 DEF ClearPausedMarkers, ShownIsBacked, TypeOK
      <4> QED
        BY <3>1, <4>1 DEF Backed, HasRow, Working
    <3>3. CASE scan'[g] = "paused"
      <4>1. HasRow(g, Active \cup {"pending", "interrupted"})
        BY <2>4, <3>3 DEF ClearPausedMarkers, TypeOK
      <4>2. HasRow(g, Active \cup {"pending"})
        BY <2>1, <3>1, <4>1 DEF HasRow, RowsAreSound, TasksOf
      <4> QED
        BY <3>1, <4>2 DEF Backed, HasRow
    <3> QED
      BY <3>2, <3>3
  <2>5. CASE scan'[g] = scan[g] /\ ~Refreshes(g) /\ ~ClearPausedMarkers
    BY <2>1, <2>5, BackedStep DEF ShownIsBacked
  <2>6. ~ \E h \in Handlers : PauseTargetRow(h) \/ ResumeTargetRow(h)
    BY DEF PauseTargetRow, ResumeTargetRow, HandlerAt, RequestsAreSound, RequestIsSound
  <2>7. ~ParkTargets
    BY <2>1 DEF ParkTargets, Stopping
  <2> QED
    BY <1>2, <2>2, <2>3, <2>4, <2>5, <2>6, <2>7, WhoWritesScan
<1> QED
  BY <1>1, <1>2

\* ShownActiveHasScan where nobody pauses or resumes (PauseTarget's last statement may find
\* the scan over) and no row was pending for over two hours at a restart (Boot cancels it
\* after it has looked at the targets); cancels, deletes, crashes and failing statements
\* included.
THEOREM ShownScansAreReal ==
    ASSUME "pause" \notin Ops, "resume" \notin Ops, Aged = {}
    PROVE  Spec => []ShownActiveHasScan
<1> DEFINE Inv == Sound /\ ShownIsBacked
<1>1. Init => Inv
  BY SoundIsInductive DEF Init, ShownIsBacked
<1>2. Inv /\ [Next]_vars => Inv'
  BY SoundIsInductive, ShownIsBackedStep
<1>3. Inv => ShownActiveHasScan
  <2> SUFFICES ASSUME Inv, life = "serving", HandlersIdle, NEW g \in Targets, scan[g] \in Active
               PROVE  \/ HasRow(g, Active \cup {"pending", "interrupted"})
                      \/ \E w \in Workers : Working(w) /\ TargetOf[gor[w].task] = g
    BY DEF ShownActiveHasScan
  <2>1. Backed(g)
    BY DEF ShownIsBacked, Stopping, Active
  <2> QED
    BY <2>1 DEF Backed, HasRow, HandlersIdle
<1> QED
  BY <1>1, <1>2, <1>3, PTL DEF Spec

-----------------------------------------------------------------------------
(***************************************************************************)
(* Between two requests the pause gate agrees with the row.                *)
(***************************************************************************)
\* While a request to pause or resume is between its two statements the gate is a step
\* ahead of the row; the rows such a request has selected are not pending, so their scan
\* cannot start meanwhile, and the rows a cancel has selected are not paused.
PauseFamily == {"pauseGate", "pauseRow", "resumeGate", "resumeRow"}
SelectedRows(h) ==
    \A t \in hs[h].ids :
        /\ hs[h].pc \in PauseFamily => row[t] \notin {"none", "pending"}
        /\ hs[h].pc \in {"ckUnmap", "ckUpdate"} => row[t] # "paused"
Between(t) == \E h \in Handlers : t \in hs[h].ids /\ hs[h].pc \in {"pauseRow", "resumeRow"}
GateOfRun(w) ==
    LET t == gor[w].task IN
    gor[w].pc \in Early =>
        /\ \A h \in Handlers : t \in hs[h].ids =>
             /\ hs[h].pc \in PauseFamily => row[t] \in Active
             /\ hs[h].pc = "pauseRow" => t \in gate
             /\ hs[h].pc = "resumeRow" => t \notin gate
        /\ ~Between(t) => (t \in gate <=> row[t] = "paused")
GateInv ==
    ~Stopping =>
        /\ \A t \in gate : row[t] \notin {"none", "pending"}
        /\ \A h \in Handlers : SelectedRows(h)
        /\ \A w \in Workers : GateOfRun(w)
DownIsEmpty ==
    life = "down" => /\ gate = {}
                     /\ \A w \in Workers : gor[w].pc = "none"
                     /\ \A h \in Handlers : hs[h].pc = "idle"

LEMMA DownStep == ASSUME Sound, DownIsEmpty, [Next]_vars PROVE DownIsEmpty'
<1> USE DEF Sound, IInv
<1> SUFFICES ASSUME life' = "down"
             PROVE  /\ gate' = {}
                    /\ \A w \in Workers : gor'[w].pc = "none"
                    /\ \A h \in Handlers : hs'[h].pc = "idle"
  BY DEF DownIsEmpty
<1>1. CASE Forget
  BY <1>1, AfterForget
<1>2. CASE ~Forget
  <2>1. life = "down"
    BY <1>2, MainOwns, MainMoves DEF mainVars
  <2>2. ASSUME NEW w \in Workers, ExecutorStep(w) \/ AdmitTask(w)
        PROVE  FALSE
    BY <2>1, <2>2, ExecutorMoves, Admitted DEF DownIsEmpty, Moves, Stopping
  <2>3. ASSUME NEW h \in Handlers, OperatorStep(h)
        PROVE  FALSE
    BY <2>1, <2>3 DEF OperatorStep, CancelTask, CancelTaskRow, CancelTasksForTarget,
       CancelSelected, CancelSelectedRow, RefreshAfterCancel, DeleteTarget, PauseTarget,
       ReconcileOrphanedTarget, PauseGate, PauseRow, PauseTargetRow, ResumeTarget, ResumeGate,
       ResumeRow, ResumeTargetRow, Accept, HandlerAt, Up
  <2>4. UNCHANGED <<gate, gor, hs>>
    BY <1>2, <2>2, <2>3, WhoseStep, MainFrame, QueueFrame DEF vars, memVars
  <2> QED
    BY <2>1, <2>4 DEF DownIsEmpty
<1> QED
  BY <1>1, <1>2

\* What a step that is nobody's request does to a row that is neither new nor concluded.
LEMMA RowUnlessAsked ==
    ASSUME Sound, [Next]_vars, ~Stopping, ~Stopping', NEW t \in Tasks, row'[t] # row[t],
           ~ \E h \in Handlers : OperatorStep(h)
    PROVE  \/ row[t] = "none" /\ row'[t] = "pending"
           \/ row[t] \in Settled /\ row'[t] = "cancelled"
           \/ \E w \in Workers : StartedBy(w, t) \/ ConcludedBy(w, t)
<1> USE DEF Sound, IInv
<1>1. RowWritten(t)
  BY WhoWritesRows
<1>2. ~ \E h \in Handlers : CancelledBy(h, t) \/ DeletedBy(h, t) \/ PausedBy(h, t) \/ ResumedBy(h, t)
  BY DEF CancelledBy, DeletedBy, PausedBy, ResumedBy, OperatorStep
<1>3. Retired(t) => row[t] \in Settled
  BY DEF Retired, RetireParked, RowsAreSound
<1> QED
  BY <1>1, <1>2, <1>3 DEF RowWritten, Inserted, ParkedNow, SweptAtBoot, Boot, Retired, Stopping

LEMMA GateOthersStep ==
    ASSUME Steady, GateInv, [Next]_vars, ~Stopping, ~Stopping',
           ~ \E h \in Handlers : OperatorStep(h)
    PROVE  GateInv'
<1> USE DEF Steady, Sound, IInv
<1>0. ~Forget
  BY AfterForget DEF Stopping
<1>1. hs' = hs
  BY <1>0, RequestMoves, NextType DEF TypeOK
<1>2. gate' = gate \/ \E w \in Workers : ExecutorStep(w) /\ gor'[w].pc = "recheck"
                                          /\ gate' = gate \ {gor[w].task}
  <2>1. ASSUME NEW w \in Workers, ExecutorStep(w)
        PROVE  gate' = gate \/ (gor'[w].pc = "recheck" /\ gate' = gate \ {gor[w].task})
    BY <2>1, ExecutorMoves
  <2>2. MainStep \/ QueueStep \/ UNCHANGED vars \/ (\E w \in Workers : AdmitTask(w)) => gate' = gate
    BY <1>0, MainFrame, QueueFrame, Admitted DEF vars, memVars
  <2> QED
    BY <2>1, <2>2, WhoseStep
<1>3. \A t \in Tasks : row[t] \notin {"none", "pending"} => row'[t] \notin {"none", "pending"}
  BY EveryStepForward DEF Forward
<1>4. ASSUME NEW t \in Tasks, row'[t] # row[t]
      PROVE  row'[t] # "paused"
  <2>1. ASSUME NEW w \in Workers, ConcludedBy(w, t)
        PROVE  row'[t] # "paused"
    BY <2>1 DEF ConcludedBy, WriteVerdict, At, RunsAreInformed, TypeOK, Run, Verdict, Terminal
  <2> QED
    BY <1>4, <2>1, RowUnlessAsked DEF StartedBy
<1>5. \A t \in gate' : row'[t] \notin {"none", "pending"}
  BY <1>2, <1>3 DEF GateInv, TypeOK
<1>6. ASSUME NEW h \in Handlers
      PROVE  SelectedRows(h)'
  <2>1. SelectedRows(h) /\ \A t \in hs[h].ids : t \in Tasks
    BY DEF GateInv, RequestsAreSound, RequestIsSound
  <2> QED
    BY <1>1, <1>3, <1>4, <2>1 DEF SelectedRows
<1>7. ASSUME NEW v \in Workers, gor'[v].pc \in Early
      PROVE  GateOfRun(v)'
  <2> DEFINE t == gor[v].task
  <2>1. CASE gor[v].pc \in Early /\ gor'[v].task = gor[v].task
    <3>1. t \in Tasks /\ Working(v) /\ GateOfRun(v) /\ row[t] \in Active \cup Taken
      BY <1>7, <2>1 DEF RunsAreInformed, Early, Working, WorkPc, GateInv, WorkedRows
    <3>2. row'[t] = row[t] \/ (row[t] \in Settled /\ row'[t] = "cancelled")
      <4>1. ASSUME NEW w \in Workers, ConcludedBy(w, t)
            PROVE  FALSE
        BY <2>1, <3>1, <4>1, ConcluderIsAlone DEF Early
      <4>2. row[t] \notin {"none", "pending"}
        BY <3>1 DEF Active, Taken
      <4> QED
        BY <3>1, <4>1, <4>2, RowUnlessAsked DEF StartedBy
    <3>3. t \in gate' <=> t \in gate
      <4>1. ASSUME NEW w \in Workers, ExecutorStep(w), gor'[w].pc = "recheck"
            PROVE  gor[w].task # t
        <5>1. gor[w].pc = "loop"
          BY <4>1, ExecutorMoves DEF Moves
        <5>2. Working(w) /\ v # w
          BY <1>7, <4>1, <5>1 DEF Working, WorkPc, Early
        <5> QED
          BY <3>1, <5>2 DEF OneExecutorPerTask
      <4> QED
        BY <1>2, <4>1
    <3>4. row[t] \in Settled => row[t] # "paused" /\ row[t] \notin Active
      BY DEF Settled, Terminal, Active
    <3> QED
      BY <1>1, <2>1, <3>1, <3>2, <3>3, <3>4 DEF GateOfRun, Between
  <2>2. ASSUME NEW w \in Workers, ExecutorStep(w), ~(gor[v].pc \in Early /\ gor'[v].task = gor[v].task)
        PROVE  GateOfRun(v)'
    <3>1. v = w
      BY <1>7, <2>2, ExecutorMoves
    <3>2. /\ gor'[v].pc = "mark" /\ gor'[v].task = t /\ row[t] = "pending" /\ StartRow(v)
          /\ gate' = gate
      BY <1>7, <2>2, <3>1, ExecutorMoves DEF Moves, Early
    <3>3. t \in Tasks /\ row'[t] = "running"
      BY <3>2 DEF StartRow, At, RunsAreInformed, TypeOK
    <3>4. t \notin gate /\ \A h \in Handlers : t \in hs[h].ids => hs[h].pc \notin PauseFamily
      BY <3>2 DEF GateInv, SelectedRows
    <3> QED
      BY <1>1, <3>2, <3>3, <3>4 DEF GateOfRun, PauseFamily
  <2>3. ASSUME NEW w \in Workers, AdmitTask(w)
        PROVE  gor[v].pc \in Early /\ gor'[v].task = gor[v].task
    BY <1>7, <2>3, Admitted DEF Early
  <2> QED
    BY <1>0, <1>7, <2>1, <2>2, <2>3, WhoTouchesRuns
<1> QED
  BY <1>5, <1>6, <1>7 DEF GateInv, GateOfRun

LEMMA GateRequestStep ==
    ASSUME Steady, GateInv, [Next]_vars, ~Stopping, NEW h \in Handlers, OperatorStep(h),
           \A k \in Handlers : k = h, "delete" \notin Ops
    PROVE  GateInv'
<1> USE DEF Steady, Sound, IInv
<1>0. gor' = gor /\ hs[h] \in Request
  BY OperatorFrame DEF TypeOK
<1>1. /\ \A t \in gate : t \in Tasks /\ row[t] \notin {"none", "pending"}
      /\ SelectedRows(h) /\ \A t \in hs[h].ids : t \in Tasks
      /\ \A w \in Workers : GateOfRun(w)
      /\ \A w \in Workers : gor[w].pc \in Early => gor[w].task \in Tasks /\ row[gor[w].task] \in Active \cup Taken
  BY DEF GateInv, RequestsAreSound, RequestIsSound, TypeOK, RunsAreInformed, WorkedRows, Early
<1>2. SUFFICES
        /\ \A t \in gate' : row'[t] \notin {"none", "pending"}
        /\ SelectedRows(h)'
        /\ \A w \in Workers : GateOfRun(w)'
  BY DEF GateInv
<1>3. \A t \in Tasks : row[t] \notin {"none", "pending"} => row'[t] \notin {"none", "pending"}
  BY EveryStepForward DEF Forward
<1>4. CASE Accepted(h)
  <2>1. UNCHANGED <<row, gate>> /\ hs[h].pc = "idle"
        /\ hs'[h].pc \in {"ctUpdate", "ckUnmap", "reconcile", "pauseGate", "resumeGate"}
    BY <1>4 DEF Accepted
  <2>2. \A t \in hs'[h].ids : /\ hs'[h].pc \in PauseFamily => row[t] \in Active
                              /\ hs'[h].pc = "ckUnmap" => row[t] # "paused"
    BY <1>4 DEF Accepted, NewestActive, PauseFamily
  <2> QED
    BY <1>0, <1>1, <2>1, <2>2 DEF SelectedRows, GateOfRun, Between, Active
<1>5. CASE CancelTaskRow(h)
  <2>1. /\ hs[h].pc = "ctUpdate" /\ hs'[h].pc = "refresh" /\ gate' = gate
        /\ \A t \in Tasks : row'[t] = row[t] \/ (row[t] \in {"running", "pending"} /\ row'[t] = "cancelled")
    BY <1>0, <1>5 DEF CancelTaskRow, HandlerAt, HandlerTo, memVars, TypeOK, Request
  <2> QED
    BY <1>0, <1>1, <1>3, <2>1 DEF SelectedRows, GateOfRun, Between, PauseFamily
<1>6. CASE CancelSelected(h) \/ RefreshAfterCancel(h)
  <2>1. /\ hs[h].pc \in {"ckUnmap", "refresh"} /\ hs'[h].pc \in {"ckUpdate", "refresh", "delete", "idle"}
        /\ hs'[h].pc = "ckUpdate" => hs[h].pc = "ckUnmap" /\ hs'[h].ids = hs[h].ids
        /\ UNCHANGED <<gate, row>>
    BY <1>0, <1>6 DEF CancelSelected, RefreshAfterCancel, HandlerAt, HandlerTo, Done, NoRequest,
       memVars, dbVars, TypeOK, Request
  <2> QED
    BY <1>0, <1>1, <2>1 DEF SelectedRows, GateOfRun, Between, PauseFamily
<1>7. ASSUME NEW u \in Tasks, CancelSelectedRow(h, u)
      PROVE  /\ \A t \in gate' : row'[t] \notin {"none", "pending"}
             /\ SelectedRows(h)'
             /\ \A w \in Workers : GateOfRun(w)'
  <2>1. /\ hs[h].pc = "ckUpdate" /\ hs'[h].pc \in {"ckUpdate", "refresh"} /\ gate' = gate
        /\ hs'[h].ids \subseteq hs[h].ids /\ row[u] # "paused"
        /\ \A t \in Tasks : row'[t] = row[t] \/ (t = u /\ row'[t] = "cancelled")
    BY <1>0, <1>1, <1>7 DEF CancelSelectedRow, HandlerAt, memVars, TypeOK, Request, SelectedRows
  <2> QED
    BY <1>0, <1>1, <1>3, <2>1 DEF SelectedRows, GateOfRun, Between, PauseFamily
<1>8. CASE ReconcileOrphanedTarget(h) \/ PauseTargetRow(h) \/ ResumeTargetRow(h)
  <2>1. /\ hs[h].pc \in {"reconcile", "pauseTarget", "resumeTarget"} /\ hs'[h].pc = "idle"
        /\ UNCHANGED <<gate, row>>
    BY <1>0, <1>8 DEF ReconcileOrphanedTarget, PauseTargetRow, ResumeTargetRow, HandlerAt, Done,
       NoRequest, memVars, dbVars, TypeOK
  <2> QED
    BY <1>0, <1>1, <2>1 DEF SelectedRows, GateOfRun, Between, PauseFamily
<1>9. ~DeleteTarget(h)
  BY DEF DeleteTarget, HandlerAt, RequestsAreSound, RequestIsSound
<1>10. CASE PauseGate(h)
  <2>1. /\ hs[h].pc = "pauseGate" /\ hs'[h].pc = "pauseRow" /\ hs'[h].ids = hs[h].ids
        /\ gate' = gate \cup hs[h].ids /\ row' = row
    BY <1>0, <1>10 DEF PauseGate, HandlerAt, HandlerTo, dbVars, TypeOK, Request
  <2> QED
    BY <1>0, <1>1, <2>1 DEF SelectedRows, GateOfRun, Between, PauseFamily
<1>11. CASE PauseRow(h)
  <2>1. /\ hs[h].pc = "pauseRow" /\ hs'[h].pc = "pauseTarget" /\ gate' = gate
        /\ \A t \in Tasks : row'[t] = IF t \in hs[h].ids /\ row[t] = "running" THEN "paused" ELSE row[t]
    BY <1>0, <1>11 DEF PauseRow, HandlerAt, HandlerTo, memVars, TypeOK, Request
  <2> QED
    BY <1>0, <1>1, <1>3, <2>1 DEF SelectedRows, GateOfRun, Between, PauseFamily, Active
<1>12. CASE ResumeGate(h)
  <2>1. /\ hs[h].pc = "resumeGate" /\ hs'[h].pc = "resumeRow" /\ hs'[h].ids = hs[h].ids
        /\ gate' = gate \ hs[h].ids /\ row' = row
    BY <1>0, <1>12 DEF ResumeGate, HandlerAt, HandlerTo, dbVars, TypeOK, Request
  <2> QED
    BY <1>0, <1>1, <2>1 DEF SelectedRows, GateOfRun, Between, PauseFamily
<1>13. CASE ResumeRow(h)
  <2>1. /\ hs[h].pc = "resumeRow" /\ hs'[h].pc = "resumeTarget" /\ gate' = gate
        /\ \A t \in Tasks : row'[t] = IF t \in hs[h].ids /\ row[t] = "paused" THEN "running" ELSE row[t]
    BY <1>0, <1>13 DEF ResumeRow, HandlerAt, HandlerTo, memVars, TypeOK, Request
  <2> QED
    BY <1>0, <1>1, <1>3, <2>1 DEF SelectedRows, GateOfRun, Between, PauseFamily, Active
<1> QED
  BY <1>4, <1>5, <1>6, <1>7, <1>8, <1>9, <1>10, <1>11, <1>12, <1>13, HandlerMoves
  DEF HandlerGoes, Answered

LEMMA GateStep ==
    ASSUME Steady, GateInv, DownIsEmpty, [Next]_vars, \A h, k \in Handlers : h = k,
           "delete" \notin Ops
    PROVE  GateInv'
<1> USE DEF Steady, Sound, IInv
<1>1. CASE Stopping'
  BY <1>1 DEF GateInv
<1>2. CASE Stopping /\ ~Stopping'
  <2>1. Boot /\ life = "down"
    BY <1>2, MainOwns, MainMoves DEF mainVars, Stopping
  <2>2. UNCHANGED <<gate, gor, hs>>
    BY <2>1 DEF Boot, memVars
  <2> QED
    BY <2>1, <2>2 DEF GateInv, DownIsEmpty, SelectedRows, GateOfRun, PauseFamily, Early
<1>3. CASE ~Stopping /\ ~Stopping'
  BY <1>3, GateOthersStep, GateRequestStep
<1> QED
  BY <1>1, <1>2, <1>3

\* GateMatchesRow when requests come one at a time and no target is deleted: crashes,
\* shutdowns, cancels and failing statements included.
THEOREM GateAgreesWithRow ==
    ASSUME \A h, k \in Handlers : h = k, "delete" \notin Ops
    PROVE  Spec => []GateMatchesRow
<1> DEFINE Inv == Steady /\ DownIsEmpty /\ GateInv
<1>1. Init => Inv
  BY SteadyIsInductive DEF Init, DownIsEmpty, GateInv, SelectedRows, GateOfRun, PauseFamily,
     Early, NoRun, NoRequest
<1>2. Inv /\ [Next]_vars => Inv'
  BY SteadyIsInductive, DownStep, GateStep DEF Steady
<1>3. Inv => GateMatchesRow
  BY DEF GateInv, GateOfRun, GateMatchesRow, Between, HandlersIdle, Early
<1> QED
  BY <1>1, <1>2, <1>3, PTL DEF Spec

-----------------------------------------------------------------------------
(***************************************************************************)
(* ScanLifecycle implements TaskRow.  A step begins the work of a task,    *)
(* inserts a row, ends work, or moves rows onward; it never does two.      *)
(***************************************************************************)
\* A statement that neither inserts a row nor begins its work moves it onward or not.
LEMMA MovesOnward ==
    ASSUME Sound, [Next]_vars, NEW t \in Tasks, ~Inserted(t), \A w \in Workers : ~StartedBy(w, t)
    PROVE  /\ StageOf(row'[t]) \in Row!Stages
           /\ StageOf(row'[t]) \in Row!Onward[StageOf(row[t])] \cup {StageOf(row[t])}
<1> USE DEF Sound, IInv, StageOf, Row!Stages, Row!Onward, Active, Terminal
<1>0. row[t] \in Status /\ row'[t] \in Status
  BY NextType DEF TypeOK
<1>1. CASE row'[t] = row[t]
  BY <1>0, <1>1 DEF Status
<1>2. ASSUME NEW w \in Workers, ConcludedBy(w, t)
      PROVE  row'[t] \in Terminal /\ row[t] \notin {"none", "pending", "deleted"}
  BY <1>2 DEF ConcludedBy, WriteVerdict, At, RunsAreInformed, TypeOK, Run, Verdict,
     OneExecutorPerTask, Working, WorkPc
<1>3. ASSUME NEW h \in Handlers, CancelledBy(h, t)
      PROVE  row'[t] = "cancelled" /\ row[t] \notin {"none", "deleted"}
  BY <1>3 DEF CancelledBy, RequestsAreSound, RequestIsSound
<1>4. Retired(t) => row'[t] = "cancelled" /\ row[t] \in Settled \ {"deleted"}
  BY DEF Retired, RetireParked, RowsAreSound
<1>5. ASSUME NEW h \in Handlers, DeletedBy(h, t) \/ PausedBy(h, t) \/ ResumedBy(h, t)
      PROVE  \/ row'[t] = "deleted" /\ row[t] # "none"
             \/ row[t] \in Active /\ row'[t] \in Active
  BY <1>5 DEF DeletedBy, PausedBy, ResumedBy
<1>6. ParkedNow(t) \/ SweptAtBoot(t) =>
        row[t] \in Active \cup {"pending"} /\ row'[t] \in {"interrupted", "cancelled"}
  BY DEF ParkedNow, SweptAtBoot
<1>7. CASE row'[t] # row[t]
  <2>1. RowWritten(t)
    BY <1>7, WhoWritesRows
  <2>2. \/ row'[t] \in Terminal /\ row[t] \notin {"none", "deleted"}
        \/ row'[t] = "deleted" /\ row[t] # "none"
        \/ row[t] \in Active /\ row'[t] \in Active
        \/ row[t] \in Active \cup {"pending"} /\ row'[t] = "interrupted"
    BY <2>1, <1>2, <1>3, <1>4, <1>5, <1>6 DEF RowWritten, Settled
  <2> QED
    BY <1>0, <2>2 DEF Status
<1> QED
  BY <1>1, <1>7

\* Who begins work on a task, and who leaves it.
LEMMA WorkMoves ==
    ASSUME Sound, [Next]_vars
    PROVE  \/ WorkedOn' = WorkedOn
           \/ UNCHANGED row /\ \E S \in SUBSET Tasks : WorkedOn' = WorkedOn \ S
           \/ \E w \in Workers : /\ StartRow(w) /\ row[gor[w].task] = "pending"
                                 /\ gor[w].task \in Tasks \ WorkedOn
                                 /\ WorkedOn' = WorkedOn \cup {gor[w].task}
<1> USE DEF Sound, IInv, TypeOK
<1>1. ASSUME NEW w \in Workers, ExecutorStep(w), StartRow(w), row[gor[w].task] = "pending"
      PROVE  /\ gor[w].task \in Tasks \ WorkedOn
             /\ WorkedOn' = WorkedOn \cup {gor[w].task}
  <2>1. gor[w].pc = "start" /\ gor'[w] = [gor[w] EXCEPT !.pc = "mark"]
        /\ \A v \in Workers \ {w} : gor'[v] = gor[v]
    BY <1>1 DEF StartRow, At, Goto
  <2>2. ~Working(w) /\ Working(w)' /\ gor'[w].task = gor[w].task
    BY <2>1 DEF Working, WorkPc, Run
  <2>3. gor[w].task \in Tasks
    BY <2>1 DEF RunsAreInformed
  <2>4. gor[w].task \notin WorkedOn
    BY <1>1 DEF WorkedOn, OneExecutorPerTask
  <2>5. \A v \in Workers \ {w} : Working(v)' = Working(v) /\ gor'[v].task = gor[v].task
    BY <2>1 DEF Working
  <2> QED
    BY <2>2, <2>3, <2>4, <2>5 DEF WorkedOn
<1>2. ASSUME NEW w \in Workers, SettleTarget(w), ExecutorStep(w)
      PROVE  WorkedOn' = WorkedOn \ {gor[w].task} /\ UNCHANGED row /\ gor[w].task \in Tasks
  <2>1. /\ Working(w) /\ ~Working(w)'
        /\ \A v \in Workers \ {w} : gor'[v] = gor[v]
    BY <1>2 DEF SettleTarget, At, Goto, Working, WorkPc, Run
  <2>2. \A v \in Workers \ {w} : Working(v)' = Working(v) /\ gor'[v].task = gor[v].task
    BY <2>1 DEF Working
  <2>3. \A v \in Workers \ {w} : Working(v) => gor[v].task # gor[w].task
    BY <2>1 DEF OneExecutorPerTask
  <2> QED
    BY <1>2, <2>1, <2>2, <2>3 DEF WorkedOn, SettleTarget, RunsAreInformed, Working, WorkPc
<1>3. ASSUME NEW w \in Workers, ExecutorStep(w), ~SettleTarget(w),
             ~(StartRow(w) /\ row[gor[w].task] = "pending")
      PROVE  WorkedOn' = WorkedOn
  <2>1. \A v \in Workers \ {w} : Working(v)' = Working(v) /\ gor'[v].task = gor[v].task
    BY <1>3, ExecutorMoves DEF Working
  <2>2. <<gor[w].pc, gor'[w].pc>> \in Moves \ {<<"start", "mark">>, <<"settle", "exit">>}
        /\ (gor'[w].pc # "none" => gor'[w].task = gor[w].task)
    <3>1. /\ <<gor[w].pc, gor'[w].pc>> \in Moves
          /\ gor'[w].pc # "none" => gor'[w].task = gor[w].task
          /\ gor'[w].pc # "mark"
          /\ gor'[w].pc = "exit" => StartRow(w) \/ StartRowFails(w)
      BY <1>3, ExecutorMoves
    <3>2. gor'[w].pc = "exit" => gor[w].pc = "start"
      BY <3>1 DEF StartRow, StartRowFails, At
    <3> QED
      BY <3>1, <3>2
  <2>3. Working(w)' = Working(w) /\ (Working(w) => gor'[w].task = gor[w].task)
    BY <2>2 DEF Moves, Working, WorkPc
  <2> QED
    BY <2>1, <2>3 DEF WorkedOn
<1>4. ASSUME NEW w \in Workers, AdmitTask(w)
      PROVE  WorkedOn' = WorkedOn
  <2>1. \A v \in Workers : Working(v)' = Working(v) /\ (Working(v) => gor'[v].task = gor[v].task)
    BY <1>4 DEF AdmitTask, Working, WorkPc, NoRun
  <2> QED
    BY <2>1 DEF WorkedOn
<1>5. CASE UNCHANGED gor
  BY <1>5 DEF WorkedOn, Working
<1>6. CASE Forget
  <2>1. WorkedOn' = {} /\ UNCHANGED row /\ WorkedOn \in SUBSET Tasks
    BY <1>6, AfterForget DEF WorkedOn, Working, WorkPc
  <2>2. WorkedOn' = WorkedOn \ WorkedOn
    BY <2>1
  <2> QED
    BY <2>1, <2>2
<1> QED
  BY <1>1, <1>2, <1>3, <1>4, <1>5, <1>6, WhoTouchesRuns

\* Every step is a step of TaskRow, or none.
LEMMA RowSteps == Sound /\ [Next]_vars => [Row!RowNext]_Row!rowVars
<1> SUFFICES ASSUME Sound, [Next]_vars
             PROVE  Row!RowNext
  OBVIOUS
<1> USE DEF Sound, IInv
<1>1. CASE \E u \in Tasks : Inserted(u)
  <2>1. PICK u \in Tasks : Inserted(u)
    BY <1>1
  <2>2. row' = [row EXCEPT ![u] = "pending"] /\ row[u] = "none" /\ UNCHANGED gor
    BY <2>1 DEF Inserted, CreateTask, RequeueParked, memVars
  <2>3. Row!Submit(u)
    BY <2>2 DEF Row!Submit, StageOf, Active, Terminal, TypeOK, WorkedOn, Working
  <2> QED
    BY <2>3 DEF Row!RowNext
<1>2. ASSUME NEW w \in Workers, StartRow(w), row[gor[w].task] = "pending",
             gor[w].task \in Tasks \ WorkedOn, WorkedOn' = WorkedOn \cup {gor[w].task}
      PROVE  Row!RowNext
  <2>1. row' = [row EXCEPT ![gor[w].task] = "running"]
    BY <1>2 DEF StartRow
  <2>2. Row!Begin(gor[w].task)
    BY <1>2, <2>1 DEF Row!Begin, StageOf, Active, Terminal, TypeOK
  <2> QED
    BY <1>2, <2>2 DEF Row!RowNext
<1>3. ASSUME UNCHANGED row, NEW S \in SUBSET Tasks, WorkedOn' = WorkedOn \ S
      PROVE  Row!RowNext
  <2>1. Row!Cease(S)
    BY <1>3 DEF Row!Cease
  <2> QED
    BY <2>1 DEF Row!RowNext
<1>4. ASSUME WorkedOn' = WorkedOn, ~ \E u \in Tasks : Inserted(u)
      PROVE  Row!RowNext
  <2>1. \A t \in Tasks, w \in Workers : ~StartedBy(w, t)
    <3>1. ASSUME NEW t \in Tasks, NEW w \in Workers, StartedBy(w, t)
          PROVE  t \in WorkedOn' /\ t \notin WorkedOn
      <4>1. Working(w)' /\ gor'[w].task = t
        BY <3>1 DEF StartedBy, Working, WorkPc, TypeOK, Run
      <4> QED
        BY <3>1, <4>1 DEF StartedBy, WorkedOn, OneExecutorPerTask
    <3> QED
      BY <1>4, <3>1
  <2>2. \A t \in Tasks : /\ StageOf(row'[t]) \in Row!Stages
                         /\ StageOf(row'[t]) \in Row!Onward[StageOf(row[t])] \cup {StageOf(row[t])}
    BY <1>4, <2>1, MovesOnward
  <2>3. Row!Move
    BY <1>4, <2>2 DEF Row!Move
  <2> QED
    BY <2>3 DEF Row!RowNext
<1> QED
  BY <1>1, <1>2, <1>3, <1>4, WorkMoves

\* The scheduler keeps the promise of TaskRow, with every operation and every failing
\* statement: the work of a task begins once, with its row leaving pending, and no row
\* comes back from where an operator, a shutdown or a restart has moved it.
THEOREM SchedulerKeepsRow == Spec => KeepsRow
<1>1. Init => Row!RowInit
  BY DEF Init, Row!RowInit, StageOf, Active, Terminal, WorkedOn, Working, WorkPc, NoRun
<1>2. Sound /\ [Next]_vars => [Row!RowNext]_Row!rowVars
  BY RowSteps
<1> QED
  BY <1>1, <1>2, SoundIsInductive, PTL DEF Spec, KeepsRow, Row!RowSpec
=============================================================================
