--------------------------- MODULE TaskAdmission ---------------------------
(***************************************************************************)
(* How a pending task gets a slot: createTask, processQueue,               *)
(* drainPendingTasks, tryStartTask and effectiveMaxConcurrent of           *)
(* internal/scheduler/scheduler.go.                                        *)
(*                                                                         *)
(* A new task is a pending row, and an id in a bounded channel if there is *)
(* room.  One goroutine serves the channel and a ticker; every tick it     *)
(* tries the first rows of a ranking by priority and age.  A task that is  *)
(* tried gets a slot when the ceiling, which sinks under memory and CPU    *)
(* pressure, and the limit per target allow.  What a task does with its    *)
(* slot, and cancellation, are the subject of module ScanLifecycle: here   *)
(* its row leaves pending, and some time later the slot is given back.     *)
(***************************************************************************)
EXTENDS Naturals, Sequences, FiniteSets

CONSTANTS
    Tasks,      \* task ids, in creation order
    Targets,    \* scan targets
    TargetOf,   \* tasks.target_id
    Priority,   \* tasks.priority
    None,       \* no task
    QueueCap,   \* capacity of s.queue (100 in the code)
    DrainLimit, \* LIMIT of the drain query (10 in the code)
    Base,       \* resourceTargetCeiling: slots of the machine without pressure
    PerTarget,  \* Limits.MaxScansPerTarget
    Pressures   \* levels of pressure a run considers, within 0..2

ASSUME AdmissionAssumption ==
    /\ Tasks \subseteq Nat /\ IsFiniteSet(Tasks)
    /\ TargetOf \in [Tasks -> Targets]
    /\ Priority \in [Tasks -> Nat]
    /\ None \notin Tasks
    /\ QueueCap \in Nat /\ DrainLimit \in Nat
    /\ Base \in Nat \ {0} /\ PerTarget \in Nat \ {0}
    /\ Pressures \subseteq 0..2 /\ Pressures # {}

VARIABLES
    row,        \* tasks.status: "none", "pending" or "left" (no longer pending)
    queue,      \* s.queue
    running,    \* s.running, with s.taskTargets
    live,       \* tasks whose goroutine was started and has not returned
    batch,      \* rows of the current drain still to be tried
    probe,      \* task whose row tryStartTask found pending
    pressure    \* load of the machine: 0 none, 1 moderate, 2 severe

vars == <<row, queue, running, live, batch, probe, pressure>>

TypeOK ==
    /\ row \in [Tasks -> {"none", "pending", "left"}]
    /\ queue \in Seq(Tasks)
    /\ running \subseteq Tasks
    /\ live \subseteq Tasks
    /\ batch \subseteq Tasks
    /\ probe \in Tasks \cup {None}
    /\ pressure \in Pressures

-----------------------------------------------------------------------------
TasksOf(g) == {t \in Tasks : TargetOf[t] = g}
Pending == {t \in Tasks : row[t] = "pending"}

\* effectiveMaxConcurrent: a half or a third of the slots under pressure, but at
\* least one; none at all for an idle scheduler under severe pressure.
EffectiveMaxConcurrent(level, count) ==
    LET share == CASE level = 0 -> Base [] level = 1 -> Base \div 2 [] OTHER -> Base \div 3
    IN  IF level = 2 /\ count = 0 THEN 0 ELSE IF share < 1 THEN 1 ELSE share

\* A bug: the limit per target is compared with <=.
AdmissibleOneMore(t) ==
    /\ t \notin running
    /\ Cardinality(running) < EffectiveMaxConcurrent(pressure, Cardinality(running))
    /\ Cardinality(running \cap TasksOf(TargetOf[t])) <= PerTarget

Admissible(t) ==
    /\ t \notin running
    /\ Cardinality(running) < EffectiveMaxConcurrent(pressure, Cardinality(running))
    /\ Cardinality(running \cap TasksOf(TargetOf[t])) < PerTarget

\* ORDER BY priority DESC, created_at ASC
Ahead(t, u) == Priority[t] > Priority[u] \/ (Priority[t] = Priority[u] /\ t < u)

\* ... LIMIT DrainLimit
DrainQuery == {t \in Pending : Cardinality({u \in Pending : Ahead(u, t)}) < DrainLimit}

-----------------------------------------------------------------------------
Init ==
    /\ row = [t \in Tasks |-> "none"]
    /\ queue = <<>>
    /\ running = {} /\ live = {}
    /\ batch = {} /\ probe = None
    /\ pressure \in Pressures

\* The enqueue never blocks: an id that does not fit is left to the drain.
CreateTask(t) ==
    /\ row[t] = "none"
    /\ \A u \in Tasks : row[u] = "none" => t <= u
    /\ row' = [row EXCEPT ![t] = "pending"]
    /\ queue' = IF Len(queue) < QueueCap THEN Append(queue, t) ELSE queue
    /\ UNCHANGED <<running, live, batch, probe, pressure>>

\* The select of processQueue takes an id off the channel ...
Select == probe = None /\ batch = {}

TakeQueued ==
    /\ Select
    /\ queue # <<>>
    /\ queue' = Tail(queue)
    /\ probe' = IF row[Head(queue)] = "pending" THEN Head(queue) ELSE None
    /\ UNCHANGED <<row, running, live, batch, pressure>>

\* ... or a tick runs the drain query.
DrainPendingTasks ==
    /\ Select
    /\ Pending # {}
    /\ batch' = DrainQuery
    /\ UNCHANGED <<row, queue, running, live, probe, pressure>>

\* A bug: the drain tries the last row of its batch again and again.
TryLastOfBatch(t) ==
    /\ probe = None
    /\ t \in batch
    /\ \A u \in batch \ {t} : Ahead(u, t)
    /\ probe' = IF row[t] = "pending" THEN t ELSE None
    /\ UNCHANGED <<row, queue, batch, running, live, pressure>>

\* The rows of the drain are tried in order; each is read again first.
TryNextOfBatch(t) ==
    /\ probe = None
    /\ t \in batch
    /\ \A u \in batch \ {t} : Ahead(t, u)
    /\ batch' = batch \ {t}
    /\ probe' = IF row[t] = "pending" THEN t ELSE None
    /\ UNCHANGED <<row, queue, running, live, pressure>>

\* The critical section of tryStartTask.
AdmitTask ==
    /\ probe # None
    /\ Admissible(probe)
    /\ running' = running \cup {probe}
    /\ live' = live \cup {probe}
    /\ probe' = None
    /\ UNCHANGED <<row, queue, batch, pressure>>

RefuseTask ==
    /\ probe # None
    /\ ~Admissible(probe)
    /\ probe' = None
    /\ UNCHANGED <<row, queue, running, live, batch, pressure>>

\* The goroutine of an admitted task: UPDATE ... WHERE status='pending', ...
LeavePending(t) ==
    /\ t \in live
    /\ row[t] = "pending"
    /\ row' = [row EXCEPT ![t] = "left"]
    /\ UNCHANGED <<queue, running, live, batch, probe, pressure>>

\* ... and the deferred release, after the scan or after an update of no row.
ReleaseSlot(t) ==
    /\ t \in live
    /\ row[t] # "pending"
    /\ running' = running \ {t}
    /\ live' = live \ {t}
    /\ UNCHANGED <<row, queue, batch, probe, pressure>>

PressureChanges ==
    /\ pressure' \in Pressures \ {pressure}
    /\ UNCHANGED <<row, queue, running, live, batch, probe>>

ProcessQueue ==
    \/ TakeQueued \/ DrainPendingTasks
    \/ \E t \in Tasks : TryNextOfBatch(t)
    \/ AdmitTask \/ RefuseTask

Next ==
    \/ ProcessQueue
    \/ \E t \in Tasks : CreateTask(t) \/ LeavePending(t) \/ ReleaseSlot(t)
    \/ PressureChanges

Spec == Init /\ [][Next]_vars

\* The queue goroutine runs and an admitted goroutine updates its row.  Nothing
\* obliges a scan to end: it may be paused or take days.
FairSpec ==
    /\ Spec
    /\ WF_vars(ProcessQueue)
    /\ \A t \in Tasks : WF_vars(LeavePending(t))

-----------------------------------------------------------------------------
(***************************************************************************)
(* Properties.                                                             *)
(***************************************************************************)
\* The machine's ceiling and the limit per target hold whatever the order of
\* channel, ticker, finishing scans and changes of pressure; tryStartTask reads
\* the row before it takes the lock, and counts under the lock.
SlotsBounded ==
    /\ Cardinality(running) <= Base
    /\ \A g \in Targets : Cardinality(running \cap TasksOf(g)) <= PerTarget

\* Every slot is held by a goroutine, so it comes back when that returns; every
\* goroutine holds a slot, so Base bounds the scans in memory.
SlotsAreHeld == running = live

\* No pending task is passed over for ever while a slot of the machine and of its
\* target is free: "a task that does not fit remains pending and the two-second
\* database drain picks it up" (createTask, 724-726).
NoFreeSlotUnused ==
    \A t \in Tasks : ~<>[](row[t] = "pending" /\ Admissible(t))

=============================================================================
