-------------------------- MODULE PhaseControlProofs --------------------------
(***************************************************************************)
(* Proofs about PhaseControl, for every list of modules, every grouping of *)
(* them, and every number of resumes and skips.                            *)
(***************************************************************************)
EXTENDS PhaseControl, FiniteSetTheorems, TLAPS

Statuses == {"pending", "running", "interrupted", "failed", "cancelled", "finished"}

Rows == [status : Statuses, plan : SUBSET Listed(Plan0), saved : SUBSET Modules,
         current : Modules \cup {None}, old : BOOLEAN, pinned : BOOLEAN]
Runs == [pc : {"off", "loop", "run", "persist"}, live : BOOLEAN,
         handled : SUBSET Modules, group : SUBSET Modules, inflight : SUBSET Modules,
         okay : SUBSET Modules, erred : BOOLEAN, completed : SUBSET Modules,
         taskErr : BOOLEAN, outcome : {"none", "skipped", "timedOut", "ended"}]
Phases == [no : Nat, ctx : {"live", "deadline", "cancelled"}, registered : BOOLEAN,
           skipReq : BOOLEAN, aimed : BOOLEAN]
Histories == [covered : SUBSET Modules, saved : SUBSET Modules, skipped : SUBSET Modules,
              stalled : SUBSET Modules, wedged : SUBSET (Modules \cup {None}),
              dropped : SUBSET Modules]

\* Types of the variables of a scan.
PhaseTypeOK ==
    /\ up \in BOOLEAN /\ skipper \in Nat /\ used \in [resumes : Nat, skips : Nat]
    /\ row \in Rows /\ run \in Runs /\ phase \in Phases /\ hist \in Histories

\* The locals of executeTask are sets within each other, and there are none
\* while it does not run.
Nested ==
    /\ run.pc = "off" => run = Idle
    /\ ~up => run.pc = "off"
    /\ row.status = "pending" => run.pc = "off" /\ row.saved = {}
    /\ run.pc # "off" => row.status \in {"running", "interrupted", "cancelled"}
    /\ run.inflight \subseteq run.group /\ run.okay \subseteq run.group
    /\ run.group \subseteq run.handled /\ run.handled \subseteq mods
    /\ run.completed \subseteq run.handled
    /\ run.pc # "off" => row.saved \subseteq run.completed
    /\ run.pc # "run" => run.inflight = {}
    /\ row.saved \subseteq hist.saved

\* What was ever recorded and is still listed is recorded in the row.
RecordKept == hist.saved \cap row.plan \subseteq row.saved

\* A skip belongs to the phase it names, and to none once that is over.
SkipAims ==
    /\ skipper <= phase.no
    /\ phase.skipReq \/ run.outcome = "skipped" => phase.aimed
    /\ phase.registered <=> run.pc = "run"
    /\ run.pc = "run" => /\ phase.no # 0
                         /\ skipper = phase.no => phase.skipReq
                         /\ run.live /\ phase.ctx = "cancelled" => phase.skipReq

\* What the list of the row lost was recorded or dropped, and while nothing
\* failed, what the loop put behind it is recorded or was skipped.
NothingLost ==
    /\ Listed(Plan0) \cap Modules \subseteq row.plan \cup hist.saved \cup hist.dropped
    /\ row.status = "finished" => mods \subseteq hist.saved \cup hist.skipped
    /\ run.live /\ ~run.taskErr =>
         /\ run.pc = "loop" => run.handled \subseteq hist.saved \cup hist.skipped
         /\ run.handled \ run.group \subseteq hist.saved \cup hist.skipped
         /\ run.pc = "persist" => run.outcome = "skipped" \/ run.group \subseteq run.completed
    /\ run.pc = "run" /\ ~run.erred /\ (phase.ctx = "live" \/ ~Together) =>
         run.group \ run.inflight \subseteq run.okay

\* Modules that had their turn, and modules that were ever begun.
Turned == hist.covered \cup hist.saved \cup hist.dropped
Begun  == Turned \cup run.handled \cup ({row.current} \ {None})

SameStretch(i, j) ==
    \A k \in i..j : Plan0[k] \in Modules =>
        GroupOf[Plan0[k]] = GroupOf[Plan0[j]] /\ GroupOf[Plan0[j]] > 0

\* The barrier holds for all that was ever begun, not for what runs alone: a
\* resumed list may lack the module that parted two members of a group.
Barriers ==
    /\ \A i, j \in DOMAIN Plan0 :
         i < j /\ Plan0[j] \in Begun /\ Plan0[i] \in Modules =>
             Plan0[i] \in Turned \/ SameStretch(i, j)
    /\ run.live => run.handled \ run.inflight \subseteq Turned

\* One module at a time: the current one is the phase, and its row is old only
\* because it stalled; a skip is recorded.
OneByOne ==
    /\ run.pc = "run" => run.group = {row.current}
    /\ run.pc = "persist" /\ run.outcome = "skipped" => run.group \subseteq run.completed
    /\ hist.skipped \subseteq hist.saved
    /\ ~LongWait => /\ row.old => row.current \in hist.stalled
                    /\ hist.dropped \subseteq hist.stalled

ScanInv == /\ PhaseTypeOK /\ Nested /\ RecordKept /\ SkipAims /\ NothingLost /\ Barriers
           /\ ~Parallel => OneByOne

-----------------------------------------------------------------------------
LEMMA InitScan == PhaseAssumption /\ Init => ScanInv
<1> SUFFICES ASSUME PhaseAssumption, Init PROVE ScanInv
  OBVIOUS
<1>1. PhaseTypeOK
  <2>1. row \in Rows
    BY DEF PhaseAssumption, Init, Rows, Statuses
  <2>2. run \in Runs /\ phase \in Phases /\ hist \in Histories
    BY DEF Init, Runs, Phases, Histories, Idle, NoPhase
  <2> QED
    BY <2>1, <2>2 DEF Init, PhaseTypeOK
<1>2. Nested /\ RecordKept
  BY DEF Init, Nested, RecordKept, Idle, mods
<1>3. SkipAims /\ NothingLost
  BY DEF Init, SkipAims, NothingLost, Idle, NoPhase, mods
<1>4. Barriers
  BY DEF PhaseAssumption, Init, Barriers, Begun, Turned, Idle
<1>5. OneByOne
  BY DEF Init, OneByOne, Idle
<1> QED
  BY <1>1, <1>2, <1>3, <1>4, <1>5 DEF ScanInv

\* A round of the loop begins modules that are listed and had no turn in this task.
LEMMA FromUnhandled ==
    ASSUME NEW m \in Unhandled
    PROVE  PhaseFrom(m) \subseteq Unhandled
BY DEF PhaseFrom, parallelPhaseIndices

LEMMA TypeStep ==
    ASSUME PhaseAssumption, PhaseTypeOK, Next
    PROVE  PhaseTypeOK'
<1> USE DEF PhaseTypeOK
<1>1. CASE StartTask
  <2>1. row' \in Rows
    BY <1>1 DEF StartTask, Rows, Statuses
  <2>2. run' \in Runs
    BY <1>1 DEF StartTask, Runs, Idle
  <2> QED
    BY <1>1, <2>1, <2>2 DEF StartTask
<1>2. CASE BeginPhase
  <2>1. Unhandled \subseteq Modules
    BY DEF Unhandled, mods
  <2>2. PICK m \in Unhandled :
          /\ run' = [run EXCEPT !.pc = "run", !.handled = @ \cup PhaseFrom(m), !.group = PhaseFrom(m),
                               !.inflight = PhaseFrom(m), !.okay = {}, !.erred = FALSE, !.outcome = "none"]
          /\ row' = [row EXCEPT !.current = m, !.old = FALSE]
    BY <1>2 DEF BeginPhase
  <2>3. row' \in Rows
    BY <2>1, <2>2 DEF Rows
  <2>4. PhaseFrom(m) \subseteq Modules
    BY <2>1, FromUnhandled
  <2>5. run' \in Runs
    BY <2>2, <2>4 DEF Runs
  <2>6. phase' \in Phases
    BY <1>2 DEF BeginPhase, Phases
  <2> QED
    BY <1>2, <2>3, <2>5, <2>6 DEF BeginPhase
<1>3. CASE DeadlineFires
  BY <1>3 DEF DeadlineFires, Phases
<1>4. CASE ModuleStalls
  <2>1. hist' \in Histories
    BY <1>4 DEF ModuleStalls, Histories, Runs
  <2>2. row' \in Rows
    BY <1>4 DEF ModuleStalls, Rows
  <2> QED
    BY <1>4, <2>1, <2>2 DEF ModuleStalls
<1>5. ASSUME NEW m \in Modules, NEW err \in BOOLEAN, ModuleReturns(m, err)
      PROVE  PhaseTypeOK'
  <2> DEFINE counts == Together => phase.ctx = "live"
  <2>1. counts \in BOOLEAN
    OBVIOUS
  <2>2. run' \in Runs
    <3> HIDE DEF counts
    <3>1. run' = [run EXCEPT !.inflight = @ \ {m}, !.okay = IF err THEN @ ELSE @ \cup {m},
                             !.erred = @ \/ (err /\ counts)]
      BY <1>5 DEF ModuleReturns, counts
    <3> QED
      BY <2>1, <3>1 DEF Runs
  <2>3. hist' \in Histories
    BY <1>5 DEF ModuleReturns, Histories
  <2> QED
    BY <1>5, <2>2, <2>3 DEF ModuleReturns
<1>6. CASE FinishPhase
  <2>1. run' \in Runs
    <3>1. PICK pc \in {"loop", "persist"}, more \in {run.group, run.okay}, failed \in BOOLEAN,
               outcome \in {"skipped", "timedOut", "ended"} :
            run' = [run EXCEPT !.pc = pc, !.completed = @ \cup more, !.taskErr = @ \/ failed,
                               !.outcome = outcome]
      BY <1>6 DEF FinishPhase
    <3>2. (run.taskErr \/ failed) \in BOOLEAN /\ more \in SUBSET Modules
      BY DEF Runs
    <3> QED
      BY <3>1, <3>2 DEF Runs
  <2>2. phase' \in Phases
    BY <1>6 DEF FinishPhase, Phases
  <2> QED
    BY <1>6, <2>1, <2>2 DEF FinishPhase
<1>7. CASE PersistCompleted
  <2>1. row' \in Rows
    BY <1>7 DEF PersistCompleted, Rows, Runs
  <2>2. run' \in Runs
    BY <1>7 DEF PersistCompleted, Runs
  <2>3. hist' \in Histories
    BY <1>7 DEF PersistCompleted, Histories, Runs
  <2> QED
    BY <1>7, <2>1, <2>2, <2>3 DEF PersistCompleted
<1>8. CASE FinishTask
  <2>1. row' \in Rows
    BY <1>8 DEF FinishTask, Rows, Statuses
  <2>2. run' \in Runs
    BY <1>8 DEF FinishTask, Runs, Idle
  <2> QED
    BY <1>8, <2>1, <2>2 DEF FinishTask
<1>9. CASE SkipRead \/ SkipCancel
  <2>1. phase' \in Phases /\ skipper' \in Nat
    <3>1. CASE SkipRead
      BY <3>1 DEF SkipRead, Phases
    <3>2. CASE SkipCancel
      BY <3>2 DEF SkipCancel, Phases
    <3> QED
      BY <1>9, <3>1, <3>2
  <2>2. used' \in [resumes : Nat, skips : Nat]
    BY <1>9 DEF SkipRead, SkipCancel
  <2> QED
    BY <1>9, <2>1, <2>2 DEF SkipRead, SkipCancel
<1>10. CASE CancelTask \/ ParkRow \/ ParkCancel
  <2>1. row' \in Rows
    <3>1. \/ row' = [row EXCEPT !.status = "cancelled", !.old = FALSE]
          \/ row' = [row EXCEPT !.status = "interrupted", !.old = FALSE]
          \/ row' = row
      BY <1>10 DEF CancelTask, ParkRow, ParkCancel
    <3> QED
      BY <3>1 DEF Rows, Statuses
  <2>2. run' \in Runs
    BY <1>10 DEF CancelTask, ParkRow, ParkCancel, CancelContext, Runs
  <2>3. phase' \in Phases
    BY <1>10 DEF CancelTask, ParkRow, ParkCancel, CancelContext, Phases
  <2>4. hist' \in Histories
    BY <1>10 DEF CancelTask, ParkRow, ParkCancel, CancelContext, Histories, Rows
  <2> QED
    BY <1>10, <2>1, <2>2, <2>3, <2>4 DEF CancelTask, ParkRow, ParkCancel, CancelContext
<1>11. CASE ResumeTask
  <2>1. Remaining \subseteq Listed(Plan0)
    BY DEF Remaining, Rows
  <2>2. row' \in Rows
    BY <1>11, <2>1 DEF ResumeTask, Rows, Statuses
  <2>3. hist' \in Histories
    BY <1>11 DEF ResumeTask, Histories
  <2>4. used' \in [resumes : Nat, skips : Nat]
    BY <1>11 DEF ResumeTask
  <2> QED
    BY <1>11, <2>2, <2>3, <2>4 DEF ResumeTask
<1>12. CASE ProcessEnds
  <2>1. run' \in Runs /\ phase' \in Phases
    BY <1>12 DEF ProcessEnds, Idle, NoPhase, Runs, Phases
  <2> QED
    BY <1>12, <2>1 DEF ProcessEnds
<1>13. CASE TimePasses
  <2>1. row' \in Rows
    BY <1>13 DEF TimePasses, Rows
  <2> QED
    BY <1>13, <2>1 DEF TimePasses
<1>14. CASE Boot
  <2>1. row' \in Rows
    <3>1. \/ row' = [row EXCEPT !.status = "cancelled", !.old = FALSE]
          \/ row' = [row EXCEPT !.status = "cancelled"]
          \/ row' = row
      BY <1>14 DEF Boot
    <3> QED
      BY <3>1 DEF Rows, Statuses
  <2> QED
    BY <1>14, <2>1 DEF Boot
<1> QED
  BY <1>1, <1>2, <1>3, <1>4, <1>5, <1>6, <1>7, <1>8, <1>9, <1>10, <1>11, <1>12, <1>13, <1>14 DEF Next, ExecutorStep

-----------------------------------------------------------------------------
\* A cancel, of the operator or of a shutdown, ends the contexts and leaves the
\* locals of the executor alone.
LEMMA CancelEnds ==
    ASSUME PhaseTypeOK, CancelTask \/ ParkCancel
    PROVE  /\ up /\ run.live
           /\ /\ run'.live = FALSE /\ run'.pc = run.pc /\ run'.handled = run.handled
              /\ run'.group = run.group /\ run'.inflight = run.inflight /\ run'.okay = run.okay
              /\ run'.erred = run.erred /\ run'.completed = run.completed
              /\ run'.taskErr = run.taskErr /\ run'.outcome = run.outcome
           /\ /\ phase'.ctx \in {phase.ctx, "cancelled"} /\ phase'.ctx # "live"
              /\ phase'.no = phase.no /\ phase'.registered = phase.registered
              /\ phase'.skipReq = phase.skipReq /\ phase'.aimed = phase.aimed
           /\ row'.status \in {row.status, "cancelled"}
           /\ /\ row'.plan = row.plan /\ row'.saved = row.saved /\ row'.current = row.current
              /\ row'.old => row.old
              /\ row'.pinned = row.pinned
           /\ row.status = "pending" => row' = row
           /\ UNCHANGED <<up, skipper, used, hist>>
<1> USE DEF PhaseTypeOK
<1>1. /\ up /\ run.live /\ UNCHANGED <<up, skipper, used, hist>>
      /\ CancelContext
      /\ row' = row \/ (row.status = "running" /\ row' = [row EXCEPT !.status = "cancelled", !.old = FALSE])
  BY DEF CancelTask, ParkCancel
<1>2. /\ row'.status \in {row.status, "cancelled"}
      /\ row'.plan = row.plan /\ row'.saved = row.saved /\ row'.current = row.current
      /\ row'.old => row.old
      /\ row'.pinned = row.pinned
      /\ row.status = "pending" => row' = row
  BY <1>1 DEF Rows
<1>3. /\ run'.live = FALSE /\ run'.pc = run.pc /\ run'.handled = run.handled
      /\ run'.group = run.group /\ run'.inflight = run.inflight /\ run'.okay = run.okay
      /\ run'.erred = run.erred /\ run'.completed = run.completed
      /\ run'.taskErr = run.taskErr /\ run'.outcome = run.outcome
  BY <1>1 DEF CancelContext, Runs
<1>4. /\ phase'.ctx \in {phase.ctx, "cancelled"} /\ phase'.ctx # "live"
      /\ phase'.no = phase.no /\ phase'.registered = phase.registered
      /\ phase'.skipReq = phase.skipReq /\ phase'.aimed = phase.aimed
  BY <1>1 DEF CancelContext, Phases
<1> QED
  BY <1>1, <1>2, <1>3, <1>4

LEMMA NestedStep ==
    ASSUME PhaseAssumption, PhaseTypeOK, Nested, Next
    PROVE  Nested'
<1> USE DEF PhaseTypeOK, Nested, mods
<1>1. CASE StartTask
  BY <1>1 DEF StartTask, Idle, Rows, Runs
<1>2. CASE BeginPhase
  BY <1>2, FromUnhandled DEF BeginPhase, Unhandled, Rows, Runs
<1>3. CASE DeadlineFires
  BY <1>3 DEF DeadlineFires
<1>4. CASE ModuleStalls
  BY <1>4 DEF ModuleStalls, Rows, Histories
<1>5. ASSUME NEW m \in Modules, NEW err \in BOOLEAN, ModuleReturns(m, err)
      PROVE  Nested'
  BY <1>5 DEF ModuleReturns, Runs, Histories
<1>6. CASE FinishPhase
  BY <1>6 DEF FinishPhase, Runs
<1>7. CASE PersistCompleted
  BY <1>7 DEF PersistCompleted, Runs, Rows, Histories
<1>8. CASE FinishTask
  BY <1>8 DEF FinishTask, Idle, Rows
<1>9. CASE SkipRead \/ SkipCancel
  <2>1. UNCHANGED <<up, row, run, hist>>
    BY <1>9 DEF SkipRead, SkipCancel
  <2> QED
    BY <2>1
<1>10. CASE CancelTask \/ ParkCancel
  <2>1. run.pc # "off" /\ run'.pc # "off" /\ row.status # "pending"
    <3>1. run.live /\ run'.pc = run.pc /\ Idle.live = FALSE
      BY <1>10, CancelEnds DEF Idle
    <3> QED
      BY <3>1
  <2>2. row'.status \in {"running", "interrupted", "cancelled"}
    BY <1>10, <2>1, CancelEnds
  <2> QED
    BY <1>10, <2>1, <2>2, CancelEnds
<1>11. CASE ParkRow
  BY <1>11 DEF ParkRow, Rows, Histories, Idle
<1>12. CASE ResumeTask
  BY <1>12 DEF ResumeTask, Remaining, Histories, Idle
<1>13. CASE ProcessEnds \/ TimePasses
  <2>1. CASE ProcessEnds
    BY <2>1 DEF ProcessEnds, Idle
  <2>2. CASE TimePasses
    BY <2>2 DEF TimePasses, Rows
  <2> QED
    BY <1>13, <2>1, <2>2
<1>14. CASE Boot
  BY <1>14 DEF Boot, Rows, Idle
<1> QED
  BY <1>1, <1>2, <1>3, <1>4, <1>5, <1>6, <1>7, <1>8, <1>9, <1>10, <1>11, <1>12, <1>13, <1>14
     DEF Next, ExecutorStep

LEMMA RecordKeptStep ==
    ASSUME PhaseAssumption, PhaseTypeOK, Nested, RecordKept, Next
    PROVE  RecordKept'
<1> USE DEF PhaseTypeOK, RecordKept
<1>1. CASE StartTask \/ BeginPhase \/ FinishTask
  BY <1>1 DEF StartTask, BeginPhase, FinishTask, Rows
<1>2. CASE DeadlineFires \/ FinishPhase \/ SkipRead \/ SkipCancel \/ ParkCancel \/ ProcessEnds
  BY <1>2 DEF DeadlineFires, FinishPhase, SkipRead, SkipCancel, ParkCancel, ProcessEnds
<1>3. CASE ModuleStalls \/ ParkRow
  BY <1>3 DEF ModuleStalls, ParkRow, Rows, Histories
<1>4. ASSUME NEW m \in Modules, NEW err \in BOOLEAN, ModuleReturns(m, err)
      PROVE  RecordKept'
  BY <1>4 DEF ModuleReturns, Histories
<1>5. CASE PersistCompleted
  BY <1>5 DEF PersistCompleted, Nested, Runs, Rows, Histories
<1>6. CASE CancelTask \/ TimePasses \/ Boot
  BY <1>6 DEF CancelTask, TimePasses, Boot, Rows
<1>7. CASE ResumeTask
  BY <1>7 DEF ResumeTask, Remaining, Histories
<1> QED
  BY <1>1, <1>2, <1>3, <1>4, <1>5, <1>6, <1>7 DEF Next, ExecutorStep

LEMMA SkipAimsStep ==
    ASSUME PhaseAssumption, PhaseTypeOK, Nested, SkipAims, Next
    PROVE  SkipAims'
<1> USE DEF PhaseTypeOK, SkipAims
<1>1. CASE StartTask
  BY <1>1 DEF StartTask, Idle, Nested
<1>2. CASE BeginPhase
  BY <1>2 DEF BeginPhase, Runs, Phases
<1>3. CASE DeadlineFires \/ ModuleStalls
  BY <1>3 DEF DeadlineFires, ModuleStalls, Phases
<1>4. ASSUME NEW m \in Modules, NEW err \in BOOLEAN, ModuleReturns(m, err)
      PROVE  SkipAims'
  BY <1>4 DEF ModuleReturns, Runs
<1>5. CASE FinishPhase
  BY <1>5 DEF FinishPhase, Runs, Phases
<1>6. CASE PersistCompleted \/ FinishTask
  BY <1>6 DEF PersistCompleted, FinishTask, Runs, Idle
<1>7. CASE SkipRead
  BY <1>7 DEF SkipRead, Phases
<1>8. CASE SkipCancel
  BY <1>8 DEF SkipCancel, Phases
<1>9. CASE CancelTask \/ ParkCancel
  BY <1>9, CancelEnds
<1>10. CASE ProcessEnds
  BY <1>10 DEF ProcessEnds, NoPhase, Idle, Phases
<1>11. CASE ResumeTask \/ ParkRow \/ TimePasses \/ Boot
  BY <1>11 DEF ResumeTask, ParkRow, TimePasses, Boot
<1> QED
  BY <1>1, <1>2, <1>3, <1>4, <1>5, <1>6, <1>7, <1>8, <1>9, <1>10, <1>11 DEF Next, ExecutorStep

LEMMA NothingLostStep ==
    ASSUME PhaseAssumption, PhaseTypeOK, Nested, SkipAims, NothingLost, Next
    PROVE  NothingLost'
<1> USE DEF PhaseTypeOK, NothingLost, mods
<1>1. CASE StartTask
  BY <1>1 DEF StartTask, Idle, Rows
<1>2. CASE BeginPhase
  BY <1>2 DEF BeginPhase, Nested, Runs, Rows
<1>3. CASE DeadlineFires \/ ModuleStalls
  BY <1>3 DEF DeadlineFires, ModuleStalls, Phases, Rows, Histories, Together
<1>4. ASSUME NEW m \in Modules, NEW err \in BOOLEAN, ModuleReturns(m, err)
      PROVE  NothingLost'
  BY <1>4 DEF ModuleReturns, Runs, Histories, Together
<1>5. CASE FinishPhase
  BY <1>5 DEF FinishPhase, SkipAims, Nested, Runs, Phases, Together
<1>6. CASE PersistCompleted
  BY <1>6 DEF PersistCompleted, Runs, Rows, Histories
<1>7. CASE FinishTask
  BY <1>7 DEF FinishTask, Unhandled, Nested, Idle, Rows
<1>8. CASE SkipRead
  BY <1>8 DEF SkipRead, Phases, Together
<1>9. CASE SkipCancel
  BY <1>9 DEF SkipCancel, Phases, Together
<1>10. CASE CancelTask \/ ParkCancel
  BY <1>10, CancelEnds DEF Together
<1>11. CASE ParkRow
  BY <1>11 DEF ParkRow, Rows, Histories, Together
<1>12. CASE ResumeTask
  BY <1>12 DEF ResumeTask, Remaining, Nested, Rows, Histories, Together, Idle
<1>13. CASE ProcessEnds
  BY <1>13 DEF ProcessEnds, Idle
<1>14. CASE TimePasses \/ Boot
  BY <1>14 DEF TimePasses, Boot, Rows, Together
<1> QED
  BY <1>1, <1>2, <1>3, <1>4, <1>5, <1>6, <1>7, <1>8, <1>9, <1>10, <1>11, <1>12, <1>13, <1>14
     DEF Next, ExecutorStep

LEMMA OneByOneStep ==
    ASSUME PhaseAssumption, PhaseTypeOK, Nested, ~Parallel, OneByOne, Next
    PROVE  OneByOne'
<1> USE DEF PhaseTypeOK, OneByOne
<1>1. CASE StartTask
  BY <1>1 DEF StartTask, Idle, Rows
<1>2. CASE BeginPhase
  BY <1>2 DEF BeginPhase, PhaseFrom, Runs, Rows
<1>3. CASE DeadlineFires \/ SkipRead \/ SkipCancel
  BY <1>3 DEF DeadlineFires, SkipRead, SkipCancel
<1>4. CASE ModuleStalls
  BY <1>4 DEF ModuleStalls, Nested, Rows, Histories
<1>5. ASSUME NEW m \in Modules, NEW err \in BOOLEAN, ModuleReturns(m, err)
      PROVE  OneByOne'
  BY <1>5 DEF ModuleReturns, Runs, Histories
<1>6. CASE FinishPhase
  <2>1. ~Together
    <3>1. run.group = {row.current}
      BY <1>6 DEF FinishPhase
    <3>2. Cardinality(run.group) = 1
      BY <3>1, FS_Singleton
    <3> QED
      BY <3>2 DEF Together
  <2> QED
    BY <1>6, <2>1 DEF FinishPhase, Runs
<1>7. CASE PersistCompleted
  BY <1>7 DEF PersistCompleted, Runs, Rows, Histories
<1>8. CASE FinishTask
  BY <1>8 DEF FinishTask, Idle, Rows
<1>9. CASE CancelTask \/ ParkCancel
  BY <1>9, CancelEnds
<1>10. CASE ParkRow
  BY <1>10 DEF ParkRow, Rows, Histories
<1>11. CASE ResumeTask
  BY <1>11 DEF ResumeTask, Looks, Rows, Histories, Nested, Idle
<1>12. CASE ProcessEnds
  BY <1>12 DEF ProcessEnds, Idle
<1>13. CASE TimePasses \/ Boot
  BY <1>13 DEF TimePasses, Boot, Rows
<1> QED
  BY <1>1, <1>2, <1>3, <1>4, <1>5, <1>6, <1>7, <1>8, <1>9, <1>10, <1>11, <1>12, <1>13
     DEF Next, ExecutorStep

-----------------------------------------------------------------------------
\* The order of the entries is that of their places.
LEMMA BeforeIs ==
    ASSUME PhaseAssumption, NEW p \in DOMAIN Plan0, NEW q \in DOMAIN Plan0
    PROVE  Before(Plan0[p], Plan0[q]) <=> p < q
BY DEF PhaseAssumption, Before

LEMMA PlacesBetween ==
    ASSUME PhaseAssumption, NEW i \in DOMAIN Plan0, NEW j \in DOMAIN Plan0, NEW k \in i..j
    PROVE  i \in Nat /\ j \in Nat /\ k \in Nat /\ k \in DOMAIN Plan0
BY DEF PhaseAssumption

\* A round of the loop passes over no module that had no turn, but for members of
\* the group it begins.
LEMMA BeginKeepsBarriers ==
    ASSUME PhaseAssumption, PhaseTypeOK, Nested, NothingLost, Barriers,
           run.pc = "loop", run.live,
           NEW m \in Unhandled, \A n \in Unhandled \ {m} : Before(m, n),
           NEW i \in DOMAIN Plan0, NEW j \in DOMAIN Plan0, i < j,
           Plan0[i] \in Modules, Plan0[i] \notin Turned, Plan0[j] \in PhaseFrom(m)
    PROVE  SameStretch(i, j)
<1>1. PICK f \in DOMAIN Plan0 : Plan0[f] = m
  BY DEF Unhandled, mods, PhaseTypeOK, Rows, Listed
<1>2. Plan0[i] \in Unhandled /\ Plan0[i] \in mods
  <2>1. Plan0[i] \in row.plan
    BY DEF NothingLost, Turned, Listed
  <2>2. run.handled \subseteq Turned
    BY DEF Nested, Barriers
  <2> QED
    BY <2>1, <2>2 DEF Unhandled, mods
<1>3. f <= i
  BY <1>1, <1>2, BeforeIs, PlacesBetween DEF PhaseAssumption
<1>4. Plan0[j] # m
  BY <1>1, <1>3 DEF PhaseAssumption
<1>5. /\ GroupOf[m] > 0
      /\ \A n \in mods : ~Before(n, m) /\ ~Before(Plan0[j], n) => GroupOf[n] = GroupOf[m]
  BY <1>4 DEF PhaseFrom, parallelPhaseIndices
<1>6. ASSUME NEW k \in i..j, Plan0[k] \in mods
      PROVE  GroupOf[Plan0[k]] = GroupOf[m]
  <2>1. k \in DOMAIN Plan0 /\ f <= k /\ k <= j /\ f \in Nat /\ k \in Nat /\ j \in Nat
    BY <1>3, PlacesBetween DEF PhaseAssumption
  <2>2. ~Before(Plan0[k], m) /\ ~Before(Plan0[j], Plan0[k])
    BY <1>1, <2>1, BeforeIs
  <2> QED
    BY <1>5, <1>6, <2>2
<1>7. ASSUME NEW k \in i..j, Plan0[k] \in Modules, Plan0[k] \notin mods
      PROVE  GroupOf[Plan0[k]] = GroupOf[m]
  <2>1. k \in DOMAIN Plan0 /\ i < k
    BY <1>2, <1>7, PlacesBetween DEF PhaseAssumption
  <2>2. Plan0[k] \in Begun
    BY <1>7, <2>1 DEF NothingLost, mods, Listed, Turned, Begun
  <2>3. SameStretch(i, k)
    BY <2>1, <2>2 DEF Barriers
  <2>4. GroupOf[Plan0[i]] = GroupOf[Plan0[k]]
    BY <2>1, <2>3, PlacesBetween DEF SameStretch
  <2>5. GroupOf[Plan0[i]] = GroupOf[m]
    BY <1>2, <1>6, PlacesBetween
  <2> QED
    BY <2>4, <2>5
<1>8. j \in i..j /\ Plan0[j] \in Modules
  <2>1. Plan0[j] \in Modules
    BY FromUnhandled DEF Unhandled, mods
  <2> QED
    BY <2>1, PlacesBetween DEF PhaseAssumption
<1> QED
  BY <1>5, <1>6, <1>7, <1>8 DEF SameStretch

\* A step that begins nothing and takes no turn back keeps the barrier.
LEMMA BarriersKept ==
    ASSUME Barriers, Begun' \subseteq Begun \cup Turned', Turned \subseteq Turned',
           Turned' \subseteq Begun,
           run'.live => run'.handled \ run'.inflight \subseteq Turned'
    PROVE  Barriers'
BY DEF Barriers, SameStretch

LEMMA BarriersStep ==
    ASSUME PhaseAssumption, PhaseTypeOK, Nested, NothingLost, Barriers, Next
    PROVE  Barriers'
<1> USE DEF PhaseTypeOK
<1>1. CASE BeginPhase
  <2>1. PICK m \in Unhandled :
          /\ \A n \in Unhandled \ {m} : Before(m, n)
          /\ run' = [run EXCEPT !.pc = "run", !.handled = @ \cup PhaseFrom(m), !.group = PhaseFrom(m),
                               !.inflight = PhaseFrom(m), !.okay = {}, !.erred = FALSE, !.outcome = "none"]
          /\ row' = [row EXCEPT !.current = m, !.old = FALSE]
    BY <1>1 DEF BeginPhase
  <2>2. m \in PhaseFrom(m)
    <3>1. PICK f \in DOMAIN Plan0 : Plan0[f] = m
      BY DEF Unhandled, mods, Rows, Listed
    <3>2. ASSUME NEW n \in mods, ~Before(n, m), ~Before(m, n)
          PROVE  n = m
      <4>1. PICK g \in DOMAIN Plan0 : Plan0[g] = n
        BY DEF mods, Rows, Listed
      <4>2. ~(g < f) /\ ~(f < g)
        BY <3>1, <3>2, <4>1, BeforeIs
      <4> QED
        BY <3>1, <4>1, <4>2, PlacesBetween DEF PhaseAssumption
    <3>3. ~Before(m, m)
      BY <3>1, BeforeIs DEF PhaseAssumption
    <3> QED
      BY <3>2, <3>3 DEF PhaseFrom, parallelPhaseIndices
  <2>3. /\ Turned' = Turned /\ Begun' \subseteq Begun \cup PhaseFrom(m)
        /\ run.pc = "loop" /\ run.live /\ run'.handled \ run'.inflight \subseteq Turned'
    <3>1. /\ run.pc = "loop" /\ run.live /\ hist' = hist
      BY <1>1 DEF BeginPhase
    <3>2. /\ run'.handled = run.handled \cup PhaseFrom(m) /\ run'.inflight = PhaseFrom(m)
          /\ row'.current = m
      BY <2>1 DEF Runs, Rows
    <3>3. run.handled \subseteq Turned
      BY <3>1 DEF Barriers, Nested
    <3>4. Turned' = Turned
      BY <3>1 DEF Turned
    <3> QED
      BY <2>2, <3>1, <3>2, <3>3, <3>4 DEF Begun
  <2>4. ASSUME NEW i \in DOMAIN Plan0, NEW j \in DOMAIN Plan0, i < j,
               Plan0[j] \in Begun', Plan0[i] \in Modules
        PROVE  Plan0[i] \in Turned' \/ SameStretch(i, j)
    <3>1. CASE Plan0[j] \in Begun
      BY <2>3, <2>4, <3>1 DEF Barriers
    <3>2. CASE Plan0[j] \in PhaseFrom(m)
      BY <2>1, <2>3, <2>4, <3>2, BeginKeepsBarriers
    <3> QED
      BY <2>3, <2>4, <3>1, <3>2
  <2> QED
    BY <2>3, <2>4 DEF Barriers, SameStretch
<1>2. CASE StartTask
  BY <1>2, BarriersKept DEF StartTask, Begun, Turned, Idle, Rows
<1>3. CASE DeadlineFires \/ SkipRead \/ SkipCancel
  BY <1>3, BarriersKept DEF DeadlineFires, SkipRead, SkipCancel, Begun, Turned, Barriers
<1>4. CASE ModuleStalls
  BY <1>4, BarriersKept DEF ModuleStalls, Begun, Turned, Barriers, Rows, Histories
<1>5. ASSUME NEW m \in Modules, NEW err \in BOOLEAN, ModuleReturns(m, err)
      PROVE  Barriers'
  BY <1>5, BarriersKept DEF ModuleReturns, Begun, Turned, Barriers, Nested, Runs, Histories
<1>6. CASE FinishPhase
  BY <1>6, BarriersKept DEF FinishPhase, Begun, Turned, Barriers, Runs
<1>7. CASE PersistCompleted
  BY <1>7, BarriersKept DEF PersistCompleted, Begun, Turned, Barriers, Nested, Runs, Rows, Histories
<1>8. CASE FinishTask
  BY <1>8, BarriersKept DEF FinishTask, Begun, Turned, Idle, Rows
<1>9. CASE CancelTask \/ ParkCancel
  BY <1>9, BarriersKept, CancelEnds DEF Begun, Turned
<1>10. CASE ParkRow
  BY <1>10, BarriersKept DEF ParkRow, Begun, Turned, Barriers, Rows, Histories
<1>11. CASE ResumeTask
  BY <1>11, BarriersKept DEF ResumeTask, Looks, Begun, Turned, Barriers, Nested, Rows, Histories, Idle
<1>12. CASE ProcessEnds
  <2>1. run'.handled = {} /\ ~run'.live /\ row' = row /\ hist' = hist
    BY <1>12 DEF ProcessEnds, Idle
  <2> QED
    BY <2>1, BarriersKept DEF Begun, Turned
<1>13. CASE TimePasses \/ Boot
  <2>1. /\ row'.current = row.current /\ UNCHANGED <<run, hist>>
    BY <1>13 DEF TimePasses, Boot, Rows
  <2> QED
    BY <2>1, BarriersKept DEF Begun, Turned, Barriers
<1> QED
  BY <1>1, <1>2, <1>3, <1>4, <1>5, <1>6, <1>7, <1>8, <1>9, <1>10, <1>11, <1>12, <1>13
     DEF Next, ExecutorStep

-----------------------------------------------------------------------------
LEMMA ScanStep == PhaseAssumption /\ ScanInv /\ [Next]_vars => ScanInv'
<1> SUFFICES ASSUME PhaseAssumption, ScanInv, [Next]_vars PROVE ScanInv'
  OBVIOUS
<1>1. CASE Next
  BY <1>1, TypeStep, NestedStep, RecordKeptStep, SkipAimsStep, NothingLostStep, BarriersStep, OneByOneStep
     DEF ScanInv
<1>2. CASE UNCHANGED vars
  <2>1. PhaseTypeOK' /\ Nested' /\ RecordKept' /\ SkipAims'
    BY <1>2 DEF vars, ScanInv, PhaseTypeOK, Nested, RecordKept, SkipAims, Idle, mods, Rows, Runs,
                Phases, Histories, Statuses
  <2>2. NothingLost' /\ (~Parallel => OneByOne')
    BY <1>2 DEF vars, ScanInv, NothingLost, OneByOne, mods, Together
  <2>3. Barriers'
    BY <1>2 DEF vars, ScanInv, Barriers, Begun, Turned, SameStretch
  <2> QED
    BY <2>1, <2>2, <2>3 DEF ScanInv
<1> QED
  BY <1>1, <1>2

LEMMA AlwaysScan == Spec => []ScanInv
<1>1. Init => ScanInv
  BY PhaseAssumption, InitScan
<1>2. ScanInv /\ [Next]_vars => ScanInv'
  BY PhaseAssumption, ScanStep
<1> QED
  BY <1>1, <1>2, PTL DEF Spec

\* The variables keep their types.
THEOREM PhaseTypeCorrect == Spec => []PhaseTypeOK
<1>1. ScanInv => PhaseTypeOK
  BY DEF ScanInv
<1> QED
  BY <1>1, AlwaysScan, PTL

\* A skip aborts only the phase that was current when it was accepted, however
\* late its cancel function is called.
THEOREM SkipIsAimed == Spec => []SkipHitsOnlyItsPhase
<1>1. ScanInv => SkipHitsOnlyItsPhase
  BY DEF ScanInv, SkipAims, SkipHitsOnlyItsPhase
<1> QED
  BY <1>1, AlwaysScan, PTL

\* A scan that ends as finished lost no module on the way through its resumes.
THEOREM FinishedIsWhole == Spec => []FinishedCoversPlan
<1>1. ScanInv => FinishedCoversPlan
  <2> SUFFICES ASSUME ScanInv, row.status = "finished", NEW m \in Listed(Plan0) \ Tokens
               PROVE  m \in hist.saved \cup hist.dropped \cup hist.skipped
    BY DEF FinishedCoversPlan
  <2>1. m \in Modules
    BY PhaseAssumption DEF PhaseAssumption, Listed
  <2> QED
    BY <2>1 DEF ScanInv, NothingLost, mods
<1> QED
  BY <1>1, AlwaysScan, PTL

\* While a module runs, every module listed before it had its turn, but for
\* members of the same uninterrupted group.
THEOREM BarriersAlwaysHold == Spec => []BarriersHold
<1>1. ScanInv => BarriersHold
  <2> SUFFICES ASSUME ScanInv, NEW i \in DOMAIN Plan0, NEW j \in DOMAIN Plan0, i < j,
                      Plan0[j] \in run.inflight, Plan0[i] \in Modules
               PROVE  Plan0[i] \in Turned \/ SameStretch(i, j)
    BY DEF BarriersHold, Turned, SameStretch
  <2>1. Plan0[j] \in Begun
    BY DEF ScanInv, Nested, Begun
  <2> QED
    BY <2>1 DEF ScanInv, Barriers
<1> QED
  BY <1>1, AlwaysScan, PTL

\* What a step starts is listed and not among what the row has as recorded.
LEMMA StartsUnrecorded ==
    ASSUME ScanInv, [Next]_vars, NEW m, Starts(m)
    PROVE  m \in row.plan /\ m \notin row.saved
<1> USE DEF ScanInv, PhaseTypeOK, Starts
<1>1. CASE BeginPhase
  <2>1. PICK n \in Unhandled : run'.inflight = PhaseFrom(n)
    BY <1>1 DEF BeginPhase, Runs
  <2>2. m \in Unhandled
    BY <2>1, FromUnhandled
  <2>3. row.saved \subseteq run.handled
    BY <1>1 DEF BeginPhase, Nested
  <2> QED
    BY <2>2, <2>3 DEF Unhandled, mods
<1>2. CASE StartTask \/ FinishTask \/ ProcessEnds
  <2>1. run'.inflight = {}
    <3>1. CASE StartTask
      BY <3>1 DEF StartTask, Idle
    <3>2. CASE FinishTask \/ ProcessEnds
      BY <3>2 DEF FinishTask, ProcessEnds, Idle
    <3> QED
      BY <1>2, <3>1, <3>2
  <2> QED
    BY <2>1
<1>3. CASE DeadlineFires \/ ModuleStalls \/ FinishPhase \/ PersistCompleted
  BY <1>3 DEF DeadlineFires, ModuleStalls, FinishPhase, PersistCompleted, Runs
<1>4. ASSUME NEW n \in Modules, NEW err \in BOOLEAN, ModuleReturns(n, err)
      PROVE  FALSE
  BY <1>4 DEF ModuleReturns, Runs
<1>5. CASE CancelTask \/ ParkCancel
  BY <1>5, CancelEnds
<1>6. CASE SkipRead \/ SkipCancel \/ ResumeTask \/ ParkRow \/ TimePasses \/ Boot
  BY <1>6 DEF SkipRead, SkipCancel, ResumeTask, ParkRow, TimePasses, Boot
<1>7. CASE UNCHANGED vars
  BY <1>7 DEF vars
<1> QED
  BY <1>1, <1>2, <1>3, <1>4, <1>5, <1>6, <1>7 DEF Next, ExecutorStep

\* A module once recorded is never started again, through any number of failures,
\* crashes and resumes.
THEOREM RecordedNeverRuns == Spec => NothingSavedRunsAgain
<1>1. ScanInv /\ [Next]_vars => [\A m \in hist.saved : ~Starts(m)]_vars
  BY StartsUnrecorded DEF ScanInv, RecordKept
<1> QED
  BY <1>1, AlwaysScan, PTL DEF Spec, NothingSavedRunsAgain

\* Where modules run one at a time, a module that the operator skipped is never
\* started again.
THEOREM SkippedNeverRuns == ASSUME ~Parallel PROVE Spec => SkippedStaysSkipped
<1>1. ScanInv /\ [Next]_vars => [\A m \in hist.skipped : ~Starts(m)]_vars
  BY StartsUnrecorded DEF ScanInv, RecordKept, OneByOne
<1> QED
  BY <1>1, AlwaysScan, PTL DEF Spec, SkippedStaysSkipped

\* Where modules run one at a time and no wait is longer than a watchdog, only a
\* module that outlived its watchdog is dropped by a resume.
THEOREM DropsAreStalled == ASSUME ~Parallel, ~LongWait PROVE Spec => []DropsOnlyStalled
<1>1. ScanInv => DropsOnlyStalled
  BY DEF ScanInv, OneByOne, DropsOnlyStalled
<1> QED
  BY <1>1, AlwaysScan, PTL
===============================================================================
