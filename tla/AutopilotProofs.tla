--------------------------- MODULE AutopilotProofs ---------------------------
(***************************************************************************)
(* Proofs about the loops that work on targets without being asked again:  *)
(* AgentRuntime, Monitoring and TaskAdmission, for every number of         *)
(* operators, hunters, threads, passes, tasks, targets, restarts and       *)
(* changes, and every ceiling, limit, channel capacity and drain limit.    *)
(***************************************************************************)
EXTENDS AgentRuntime, Monitoring, TaskAdmission, FiniteSetTheorems, TLAPS


-----------------------------------------------------------------------------
(***************************************************************************)
(* AgentRuntime: one run per target.                                       *)
(***************************************************************************)
\* Where a starter has the slot of the target.
HasSlot == {"env", "resolve", "begin", "loop", "finish", "release"}

\* The slot belongs to whoever is past acquireSlot and before release: that is more
\* than OneRunPerTarget says, and what keeps it.
SlotIsHeld == \A p \in Starters : at[p] \in HasSlot => slot.holder = p

\* A loop of the hunter begins a run only when it has none under way, and outside
\* its call of start that run has begun or is over.
HunterCallsOnce ==
    \A h \in Hunters :
        /\ watch[h] = "picked" => at[h] = "idle"
        /\ watch[h] # "starting" => at[h] \in {"idle", "loop", "finish", "release"}

AgentInv == AgentTypeOK /\ SlotIsHeld /\ HunterCallsOnce /\ RunningRowHasWorker

\* The steps of start and of a run, for one starter.
StarterNext(p) ==
    \/ Acquire(p) \/ Preempt(p) \/ Refuse(p) \/ SetEnv(p) \/ Resolve(p) \/ Begin(p)
    \/ StartFails(p) \/ LoopEnds(p) \/ FinishRun(p) \/ Release(p)

\* The steps of one loop of the hunter.
LoopNext(h) ==
    \/ StartHunter(h) \/ HunterLeaves(h) \/ HunterPicks(h) \/ HunterStarts(h)
    \/ HunterSeesEnd(h) \/ HunterDeadline(h) \/ HunterCloses(h)

\* The initial states have the invariant.
LEMMA InitInv == AgentInit => AgentInv
BY AgentAssumption
   DEF AgentInit, AgentInv, AgentTypeOK, SlotIsHeld, HunterCallsOnce, RunningRowHasWorker,
       Free, Idle, Starters, AllThreads, HasSlot, Working

\* Types are kept by start and by a run.
LEMMA StarterTypes ==
    ASSUME AgentTypeOK, NEW p \in Starters, StarterNext(p)
    PROVE  AgentTypeOK'
<1> USE AgentAssumption DEF AgentTypeOK, Starters, AllThreads, Over, Free, Busy, rows, hunterVars
<1>1. CASE Acquire(p)    BY <1>1 DEF Acquire
<1>2. CASE Preempt(p)    BY <1>2 DEF Preempt
<1>3. CASE Refuse(p)     BY <1>3 DEF Refuse
<1>4. CASE SetEnv(p)     BY <1>4 DEF SetEnv
<1>5. CASE Resolve(p)    BY <1>5 DEF Resolve
<1>6. CASE Begin(p)      BY <1>6 DEF Begin
<1>7. CASE StartFails(p) BY <1>7 DEF StartFails
<1>8. CASE LoopEnds(p)   BY <1>8 DEF LoopEnds
<1>9. CASE FinishRun(p)  BY <1>9 DEF FinishRun
<1>10. CASE Release(p)   BY <1>10 DEF Release
<1> QED
  BY <1>1, <1>2, <1>3, <1>4, <1>5, <1>6, <1>7, <1>8, <1>9, <1>10 DEF StarterNext

\* Only one starter is past acquireSlot, so none loses the slot by the release of
\* another; only its own goroutine ends a run that is shown as running.
LEMMA StarterKeeps ==
    ASSUME AgentInv, NEW p \in Starters, StarterNext(p)
    PROVE  SlotIsHeld' /\ HunterCallsOnce' /\ RunningRowHasWorker'
<1> USE AgentAssumption
    DEF AgentInv, AgentTypeOK, SlotIsHeld, HunterCallsOnce, RunningRowHasWorker, HasSlot,
        Working, Starters, AllThreads, Over, Free, Busy, rows, hunterVars
<1>1. CASE Acquire(p)    BY <1>1 DEF Acquire
<1>2. CASE Preempt(p)    BY <1>2 DEF Preempt
<1>3. CASE Refuse(p)     BY <1>3 DEF Refuse
<1>4. CASE SetEnv(p)     BY <1>4 DEF SetEnv
<1>5. CASE Resolve(p)    BY <1>5 DEF Resolve
<1>6. CASE Begin(p)      BY <1>6 DEF Begin
<1>7. CASE StartFails(p) BY <1>7 DEF StartFails
<1>8. CASE LoopEnds(p)   BY <1>8 DEF LoopEnds
<1>9. CASE FinishRun(p)  BY <1>9 DEF FinishRun
<1>10. CASE Release(p)   BY <1>10 DEF Release
<1> QED
  BY <1>1, <1>2, <1>3, <1>4, <1>5, <1>6, <1>7, <1>8, <1>9, <1>10 DEF StarterNext

\* The loop of the hunter cancels and starts, but touches neither slot nor rows.
LEMMA LoopKeeps ==
    ASSUME AgentInv, NEW h \in Hunters, LoopNext(h)
    PROVE  AgentInv'
<1> USE AgentAssumption
    DEF AgentInv, AgentTypeOK, SlotIsHeld, HunterCallsOnce, RunningRowHasWorker, HasSlot,
        Working, Starters, AllThreads, Busy, rows
<1>1. CASE StartHunter(h)    BY <1>1 DEF StartHunter
<1>2. CASE HunterLeaves(h)   BY <1>2 DEF HunterLeaves
<1>3. CASE HunterPicks(h)    BY <1>3 DEF HunterPicks
<1>4. CASE HunterStarts(h)   BY <1>4 DEF HunterStarts
<1>5. CASE HunterSeesEnd(h)  BY <1>5 DEF HunterSeesEnd
<1>6. CASE HunterDeadline(h) BY <1>6 DEF HunterDeadline
<1>7. CASE HunterCloses(h)   BY <1>7 DEF HunterCloses
<1> QED
  BY <1>1, <1>2, <1>3, <1>4, <1>5, <1>6, <1>7 DEF LoopNext

\* Readers of threads and cancels take rows back to rest, never to running, and a
\* new process starts with none.
LEMMA OthersKeep ==
    ASSUME AgentInv,
           \/ StopHunter \/ CancelLive \/ LoadThreadLive \/ Reclaim \/ AgentRestart
           \/ \E t \in Threads : CancelStale(t) \/ LoadThread(t)
           \/ \E o \in Operators, t \in Threads : Ask(o, t)
           \/ UNCHANGED agentVars
    PROVE  AgentInv'
<1> USE AgentAssumption
    DEF AgentInv, AgentTypeOK, SlotIsHeld, HunterCallsOnce, RunningRowHasWorker, HasSlot,
        Working, Starters, AllThreads, Busy, rows, hunterVars, Free, Idle, Over
<1>1. CASE StopHunter       BY <1>1 DEF StopHunter
<1>2. CASE CancelLive       BY <1>2 DEF CancelLive
<1>3. CASE LoadThreadLive   BY <1>3 DEF LoadThreadLive, LiveFor
<1>4. CASE Reclaim          BY <1>4 DEF Reclaim
<1>5. CASE AgentRestart     BY <1>5 DEF AgentRestart, ReclaimOrphans
<1>6. ASSUME NEW t \in Threads, CancelStale(t) \/ LoadThread(t)
      PROVE  AgentInv'
  BY <1>6 DEF CancelStale, LoadThread
<1>7. ASSUME NEW o \in Operators, NEW t \in Threads, Ask(o, t)
      PROVE  AgentInv'
  BY <1>7 DEF Ask
<1>8. CASE UNCHANGED agentVars BY <1>8 DEF agentVars
<1> QED
  BY <1>1, <1>2, <1>3, <1>4, <1>5, <1>6, <1>7, <1>8

\* Every step keeps the invariant.
LEMMA StepInv == AgentInv /\ [AgentNext]_agentVars => AgentInv'
<1> SUFFICES ASSUME AgentInv, [AgentNext]_agentVars
             PROVE  AgentInv'
  OBVIOUS
<1>1. ASSUME NEW p \in Starters, StarterNext(p)
      PROVE  AgentInv'
  BY <1>1, StarterTypes, StarterKeeps DEF AgentInv
<1>2. ASSUME NEW h \in Hunters, LoopNext(h)
      PROVE  AgentInv'
  BY <1>2, LoopKeeps
<1> QED
  BY <1>1, <1>2, OthersKeep DEF AgentNext, StarterNext, LoopNext

\* The variables keep their types (start, acquireSlot, release, hunterTick, Cancel,
\* LoadThread and the reclaims).
THEOREM AgentTypeCorrect == AgentSpec => []AgentTypeOK
<1>1. AgentInv => AgentTypeOK
  BY DEF AgentInv
<1> QED
  BY <1>1, InitInv, StepInv, PTL DEF AgentSpec

\* At most one run works on a target, whoever preempts, cancels, stops or restarts
\* (acquireSlot waits for the hunter's release instead of taking the slot).
THEOREM OneRun == AgentSpec => []OneRunPerTarget
<1>1. AgentInv => OneRunPerTarget
  BY DEF AgentInv, SlotIsHeld, OneRunPerTarget, HasSlot, Working
<1> QED
  BY <1>1, InitInv, StepInv, PTL DEF AgentSpec

\* A run that the database shows as running has its goroutine (FinishRun,
\* ReclaimOrphans, ReclaimThread).
THEOREM RunningHasWorker == AgentSpec => []RunningRowHasWorker
<1>1. AgentInv => RunningRowHasWorker
  BY DEF AgentInv
<1> QED
  BY <1>1, InitInv, StepInv, PTL DEF AgentSpec

-----------------------------------------------------------------------------
(***************************************************************************)
(* Monitoring: no change of a watched target slips through.                *)
(***************************************************************************)
PassRows == [status : {"none", "pending", "running", "paused", "interrupted", "finished"},
             pc : {"gone", "modules", "in module", "stamp", "escalate"},
             mods : SUBSET Names, behind : SUBSET Names, at : Names \union {"none"},
             done : SUBSET Names, failed : BOOLEAN, watch : BOOLEAN, known : Nat,
             changed : BOOLEAN, had : Nat, owes : BOOLEAN]

\* Types of the variables of the watch.
MonTypeOK ==
    /\ site \in Nat /\ page \in Nat /\ alive \in Nat /\ hosts \in Nat /\ counted \in Nat
    /\ due \in BOOLEAN /\ young \in BOOLEAN /\ followed \in BOOLEAN
    /\ mishaps \in Nat /\ restarts \in Nat
    /\ pass \in [Passes -> PassRows]

\* A pass under way that owes a change and has not recorded it.
InDebt(w) == w.owes /\ ~w.changed /\ w.pc # "gone"

\* Where a row and its executor stand goes together, and a watch in debt has its
\* monitor still before it.
Fine(w) ==
    /\ w \in PassRows
    /\ w.watch => w.mods = Names
    /\ w.status = "pending" => w.pc = "gone" /\ w.behind = {}
    /\ w.status = "finished" => w.pc \in {"stamp", "escalate"}
    /\ w.pc = "in module" => w.at \in Names
    /\ InDebt(w) => /\ w.watch /\ w.pc \in {"modules", "in module"}
                    /\ w.behind \subseteq {"subdomain_enum"}
                    /\ w.pc = "in module" => w.at \in {"subdomain_enum", "monitor"}

\* The change that a pass in debt owes is there still.
DebtStands == \A p \in Passes : InDebt(pass[p]) => page < site

MonInv == /\ MonTypeOK /\ page <= site
          /\ \A p \in Passes : Fine(pass[p])
          /\ DebtStands

--------------------------------------------------------------------------------
LEMMA NoPassIs == Fine(NoPass) /\ ~InDebt(NoPass)
<1>1. NoPass \in PassRows
  BY DEF NoPass, PassRows, Names
<1> QED
  BY <1>1 DEF NoPass, Fine, InDebt

LEMMA InitMon == MonInit => MonInv
<1> SUFFICES ASSUME MonInit PROVE MonInv
  OBVIOUS
<1>1. MonTypeOK
  BY NoPassIs DEF MonInit, MonTypeOK, Fine
<1>2. page <= site /\ \A p \in Passes : pass[p] = NoPass
  BY DEF MonInit
<1> QED
  BY <1>1, <1>2, NoPassIs DEF MonInv, DebtStands

\* Nothing but the enumeration stands before the monitor in a watch.
LEMMA MonitorIsSecond ==
    ASSUME NEW m, Earlier(m, "monitor")
    PROVE  m = "subdomain_enum"
BY DEF Earlier, WatchModules

\* A step keeps the invariant when the rows stay fine, and those in debt stay so only
\* with a page that differs.
LEMMA MonKept ==
    ASSUME MonInv, page' \in Nat, site' \in Nat, page' <= site',
           alive' \in Nat, hosts' \in Nat, counted' \in Nat,
           due' \in BOOLEAN, young' \in BOOLEAN, followed' \in BOOLEAN,
           mishaps' \in Nat, restarts' \in Nat,
           NEW f \in [Passes -> PassRows], pass' = f,
           \A p \in Passes : Fine(f[p]) /\ (InDebt(f[p]) => page' < site')
    PROVE  MonInv'
<1>1. MonTypeOK'
  BY DEF MonTypeOK
<1>2. \A p \in Passes : Fine(pass'[p]) /\ (InDebt(pass'[p]) => page' < site')
  OBVIOUS
<1> QED
  BY <1>1, <1>2 DEF MonInv, DebtStands

\* A step on the row of one pass, which leaves the page and the world alone.
LEMMA RowKept ==
    ASSUME MonInv, NEW p \in Passes, NEW w, pass' = [pass EXCEPT ![p] = w], Fine(w),
           InDebt(w) => page < site,
           UNCHANGED <<site, page, alive>>, hosts' \in Nat, counted' \in Nat,
           due' \in BOOLEAN, young' \in BOOLEAN, followed' \in BOOLEAN,
           mishaps' \in Nat, restarts' \in Nat
    PROVE  MonInv'
<1> DEFINE f == [pass EXCEPT ![p] = w]
<1>1. /\ f \in [Passes -> PassRows] /\ f[p] = w /\ \A q \in Passes \ {p} : f[q] = pass[q]
  BY DEF MonInv, MonTypeOK, Fine
<1>2. \A q \in Passes : Fine(f[q]) /\ (InDebt(f[q]) => page < site)
  BY <1>1 DEF MonInv, DebtStands
<1>3. /\ page' = page /\ site' = site /\ alive' = alive
      /\ page \in Nat /\ site \in Nat /\ alive \in Nat /\ page <= site
  BY DEF MonInv, MonTypeOK
<1> HIDE DEF f
<1>4. pass' = f
  BY DEF f
<1> QED
  BY <1>1, <1>2, <1>3, <1>4, MonKept

\* Steps of the world leave the rows alone.
LEMMA WorldStep ==
    ASSUME MonInv, SiteChanges \/ HostAppears \/ BecomesDue \/ GrowsOld
    PROVE  MonInv'
<1>1. /\ pass' = pass /\ page' = page /\ hosts' = hosts /\ counted' = counted
      /\ site' \in {site, site + 1} /\ alive' \in {alive, alive + 1}
      /\ due' \in {due, TRUE} /\ young' \in {young, FALSE} /\ followed' = followed
      /\ mishaps' = mishaps /\ restarts' = restarts
  BY DEF SiteChanges, HostAppears, BecomesDue, GrowsOld, world, tables, bounds
<1>2. page' \in Nat /\ site' \in Nat /\ page' <= site' /\ (page < site => page' < site')
  BY <1>1 DEF MonInv, MonTypeOK
<1>3. /\ alive' \in Nat /\ hosts' \in Nat /\ counted' \in Nat
      /\ mishaps' \in Nat /\ restarts' \in Nat
  BY <1>1 DEF MonInv, MonTypeOK
<1>4. due' \in BOOLEAN /\ young' \in BOOLEAN /\ followed' \in BOOLEAN
  BY <1>1 DEF MonInv, MonTypeOK
<1>5. /\ pass \in [Passes -> PassRows]
      /\ \A p \in Passes : Fine(pass[p]) /\ (InDebt(pass[p]) => page' < site')
  BY <1>2 DEF MonInv, MonTypeOK, DebtStands
<1> QED
  BY <1>1, <1>2, <1>3, <1>4, <1>5, MonKept

\* A row whose debt is forgiven stays fine and owes nothing.
LEMMA ForgivenIsFine ==
    ASSUME NEW w, Fine(w), NEW x, x = [w EXCEPT !.owes = FALSE]
    PROVE  Fine(x) /\ ~InDebt(x)
<1>1. x \in PassRows /\ x.owes = FALSE
  BY DEF Fine, PassRows
<1>2. /\ x.status = w.status /\ x.pc = w.pc /\ x.mods = w.mods /\ x.behind = w.behind
      /\ x.at = w.at /\ x.watch = w.watch
  BY DEF Fine, PassRows
<1> QED
  BY <1>1, <1>2 DEF Fine, InDebt

LEMMA ExcusedAre ==
    ASSUME MonInv, NEW p
    PROVE  /\ Excused(p) \in [Passes -> PassRows]
           /\ \A q \in Passes : Fine(Excused(p)[q]) /\ (q # p => ~InDebt(Excused(p)[q]))
           /\ p \in Passes => Excused(p)[p] = pass[p]
<1>1. \A q \in Passes : Fine(pass[q])
  BY DEF MonInv
<1>2. \A q \in Passes \ {p} : /\ Excused(p)[q] = [pass[q] EXCEPT !.owes = FALSE]
                              /\ Fine(Excused(p)[q]) /\ ~InDebt(Excused(p)[q])
  BY <1>1, ForgivenIsFine DEF Excused
<1>3. p \in Passes => Excused(p)[p] = pass[p]
  BY DEF Excused
<1>4. \A q \in Passes : Fine(Excused(p)[q])
  BY <1>1, <1>2, <1>3
<1>5. Excused(p) = [q \in Passes |-> Excused(p)[q]]
  BY DEF Excused
<1> QED
  BY <1>2, <1>3, <1>4, <1>5 DEF Fine

LEMMA OtherScanStep == MonInv /\ OtherScan => MonInv'
<1> SUFFICES ASSUME MonInv, OtherScan PROVE MonInv'
  OBVIOUS
<1>1. /\ page' = site /\ site' = site /\ alive' = alive /\ pass' = Excused(0)
      /\ hosts' \in hosts..alive /\ counted' = hosts' /\ mishaps' = mishaps + 1
      /\ due' = due /\ young' = young /\ followed' = followed /\ restarts' = restarts
  BY DEF OtherScan, world
<1>2. 0 \notin Passes
  BY MonitoringAssumption DEF MonitoringAssumption
<1>3. \A q \in Passes : Fine(Excused(0)[q]) /\ ~InDebt(Excused(0)[q])
  BY <1>2, ExcusedAre
<1>4. /\ page' \in Nat /\ site' \in Nat /\ page' <= site' /\ alive' \in Nat
      /\ hosts' \in Nat /\ counted' \in Nat /\ mishaps' \in Nat /\ restarts' \in Nat
  BY <1>1 DEF MonInv, MonTypeOK
<1>5. due' \in BOOLEAN /\ young' \in BOOLEAN /\ followed' \in BOOLEAN
  BY <1>1 DEF MonInv, MonTypeOK
<1>6. Excused(0) \in [Passes -> PassRows]
  BY ExcusedAre
<1> QED
  BY <1>1, <1>3, <1>4, <1>5, <1>6, MonKept

--------------------------------------------------------------------------------
(* The steps of a pass. *)

LEMMA RunDueStep == MonInv /\ RunDueMonitors => MonInv'
<1> SUFFICES ASSUME MonInv, RunDueMonitors PROVE MonInv'
  OBVIOUS
<1> DEFINE w == [NoPass EXCEPT !.status = "pending", !.watch = TRUE, !.mods = Names]
<1>1. PICK p \in Passes : pass' = [pass EXCEPT ![p] = w]
  BY DEF RunDueMonitors
<1>2. Fine(w) /\ ~InDebt(w)
  <2>1. w \in PassRows
    BY DEF NoPass, PassRows, Names
  <2>2. w.status = "pending" /\ w.pc = "gone" /\ w.mods = Names /\ w.behind = {} /\ w.owes = FALSE
    BY DEF NoPass
  <2> HIDE DEF w
  <2> QED
    BY <2>1, <2>2 DEF Fine, InDebt
<1>3. /\ UNCHANGED <<site, page, alive>> /\ hosts' = hosts /\ counted' = counted
      /\ due' = due /\ young' = TRUE /\ followed' = followed
      /\ mishaps' = mishaps /\ restarts' = restarts
  BY DEF RunDueMonitors, world, tables, bounds
<1> HIDE DEF w
<1> QED
  BY <1>1, <1>2, <1>3, RowKept DEF MonInv, MonTypeOK

LEMMA PassStarts ==
    ASSUME MonInv, NEW p \in Passes, Start(p)
    PROVE  MonInv'
<1> DEFINE w == [pass[p] EXCEPT !.status = "running", !.pc = "modules",
                   !.known = IF pass[p].watch THEN counted ELSE 0,
                   !.had = IF pass[p].watch THEN hosts ELSE 0,
                   !.owes = pass[p].watch /\ page # site]
<1>1. pass' = [pass EXCEPT ![p] = w]
  BY DEF Start, MonInv, MonTypeOK
<1>2. w \in PassRows
  <2>1. pass[p] \in PassRows /\ (pass[p].watch /\ page # site) \in BOOLEAN
    BY DEF MonInv, MonTypeOK
  <2>2. (IF pass[p].watch THEN counted ELSE 0) \in Nat /\ (IF pass[p].watch THEN hosts ELSE 0) \in Nat
    BY DEF MonInv, MonTypeOK
  <2> QED
    BY <2>1, <2>2 DEF PassRows
<1>3. /\ w.status = "running" /\ w.pc = "modules" /\ w.behind = pass[p].behind
      /\ w.watch = pass[p].watch /\ w.mods = pass[p].mods
      /\ w.owes <=> pass[p].watch /\ page # site
  BY DEF MonInv, MonTypeOK, PassRows
<1> HIDE DEF w
<1>4. pass[p].behind = {} /\ (pass[p].watch => pass[p].mods = Names)
  BY DEF Start, MonInv, Fine
<1>5. Fine(w) /\ (InDebt(w) => page # site)
  BY <1>2, <1>3, <1>4 DEF Fine, InDebt
<1>6. page # site => page < site
  BY DEF MonInv, MonTypeOK
<1>7. /\ UNCHANGED <<site, page, alive>> /\ hosts' = hosts /\ counted' = counted
      /\ due' = due /\ young' = young /\ followed' = followed
      /\ mishaps' = mishaps /\ restarts' = restarts
  BY DEF Start, world, tables, bounds
<1> QED
  BY <1>1, <1>5, <1>6, <1>7, RowKept DEF MonInv, MonTypeOK

LEMMA ModuleStartsStep ==
    ASSUME MonInv, NEW p \in Passes, ModuleStarts(p)
    PROVE  MonInv'
<1>1. PICK m \in StillAhead(p) :
        /\ \A n \in StillAhead(p) \ {m} : Earlier(m, n)
        /\ pass' = [pass EXCEPT ![p].pc = "in module", ![p].at = m,
                      ![p].known = IF pass[p].watch /\ hosts > @ THEN hosts ELSE @]
  BY DEF ModuleStarts
<1> DEFINE known == IF pass[p].watch /\ hosts > pass[p].known THEN hosts ELSE pass[p].known
           w == [pass[p] EXCEPT !.pc = "in module", !.at = m, !.known = known]
<1>2. pass' = [pass EXCEPT ![p] = w]
  BY <1>1 DEF MonInv, MonTypeOK
<1>3. m \in Names /\ pass[p] \in PassRows /\ known \in Nat
  BY DEF StillAhead, MonInv, MonTypeOK, PassRows
<1> HIDE DEF known
<1>4. /\ w \in PassRows
      /\ w.pc = "in module" /\ w.at = m /\ w.behind = pass[p].behind /\ w.watch = pass[p].watch
      /\ w.mods = pass[p].mods /\ w.owes = pass[p].owes /\ w.changed = pass[p].changed
      /\ w.status = pass[p].status
  BY <1>3 DEF PassRows
<1> HIDE DEF w
<1>5. pass[p].pc = "modules" /\ Fine(pass[p])
  BY DEF ModuleStarts, MonInv
<1>6. InDebt(w) => InDebt(pass[p])
  BY <1>4, <1>5 DEF InDebt
<1>7. InDebt(pass[p]) => m \in {"subdomain_enum", "monitor"}
  <2> SUFFICES ASSUME InDebt(pass[p]), m # "monitor" PROVE m = "subdomain_enum"
    OBVIOUS
  <2>1. "monitor" \in StillAhead(p)
    BY <1>5 DEF Fine, StillAhead, Names
  <2> QED
    BY <1>1, <2>1, MonitorIsSecond
<1>8. pass[p].status \notin {"pending", "finished"}
  BY <1>5 DEF Fine
<1>9. Fine(w)
  BY <1>3, <1>4, <1>5, <1>6, <1>7, <1>8 DEF Fine
<1>10. InDebt(w) => page < site
  BY <1>6 DEF MonInv, DebtStands
<1>11. /\ UNCHANGED <<site, page, alive>> /\ hosts' = hosts /\ counted' = counted
      /\ due' = due /\ young' = young /\ followed' = followed
      /\ mishaps' = mishaps /\ restarts' = restarts
  BY DEF ModuleStarts, world, tables, bounds
<1> QED
  BY <1>2, <1>9, <1>10, <1>11, RowKept DEF MonInv, MonTypeOK

\* A pass puts its module behind it: if that was the monitor, its debt is paid or
\* forgiven.
LEMMA BehindIsFine ==
    ASSUME NEW v, Fine(v), v.pc = "in module", NEW w,
           w \in PassRows, w.pc = "modules", w.behind = v.behind \union {v.at},
           w.watch = v.watch, w.mods = v.mods, w.status = v.status,
           InDebt(w) => InDebt(v) /\ v.at # "monitor"
    PROVE  Fine(w)
<1>1. v.status \notin {"pending", "finished"}
  BY DEF Fine
<1> QED
  BY <1>1 DEF Fine, InDebt

Passed(p, f) == [f EXCEPT ![p].pc = "modules", ![p].behind = @ \union {Module(p)}]
Recorded(p, g) == [g EXCEPT ![p].done = @ \union {Module(p)}]

\* The rows after a module of p: f is what the module left of them.
LEMMA AfterIsFine ==
    ASSUME MonInv, NEW p \in Passes, pass[p].pc = "in module",
           NEW f \in [Passes -> PassRows], \A q \in Passes \ {p} : Fine(f[q]),
           f[p].pc = "in module", f[p].behind = pass[p].behind,
           f[p].watch = pass[p].watch, f[p].mods = pass[p].mods, f[p].status = pass[p].status,
           InDebt(f[p]) => InDebt(pass[p]) /\ Module(p) # "monitor",
           pass' = Passed(p, f)
    PROVE  /\ pass' \in [Passes -> PassRows]
           /\ \A q \in Passes : Fine(pass'[q]) /\ (InDebt(pass'[q]) => InDebt(f[q]))
<1> DEFINE w == [f[p] EXCEPT !.pc = "modules", !.behind = @ \union {Module(p)}]
<1>1. Fine(pass[p]) /\ Module(p) \in Names
  BY DEF MonInv, Fine, Module
<1>2. f[p] \in PassRows
  OBVIOUS
<1>3. w \in PassRows
  BY <1>1, <1>2 DEF PassRows
<1>4. /\ w.pc = "modules" /\ w.behind = pass[p].behind \union {Module(p)}
      /\ w.watch = pass[p].watch /\ w.mods = pass[p].mods /\ w.status = pass[p].status
      /\ w.owes = f[p].owes /\ w.changed = f[p].changed
  BY <1>2 DEF PassRows
<1>5. pass' = [f EXCEPT ![p] = w]
  BY DEF Passed
<1> HIDE DEF w
<1>6. InDebt(w) => InDebt(f[p])
  BY <1>4 DEF InDebt
<1>7. Fine(w)
  BY <1>1, <1>3, <1>4, <1>6, BehindIsFine DEF Module
<1> QED
  BY <1>3, <1>5, <1>6, <1>7

\* The same for a module that came to an end and is recorded.
LEMMA RecordedIs ==
    ASSUME NEW p \in Passes, NEW g \in [Passes -> PassRows], Module(p) \in Names
    PROVE  /\ Recorded(p, g) \in [Passes -> PassRows]
           /\ \A q \in Passes \ {p} : Recorded(p, g)[q] = g[q]
           /\ Recorded(p, g)[p] \in PassRows
           /\ Recorded(p, g)[p].pc = g[p].pc /\ Recorded(p, g)[p].behind = g[p].behind
           /\ Recorded(p, g)[p].watch = g[p].watch /\ Recorded(p, g)[p].mods = g[p].mods
           /\ Recorded(p, g)[p].status = g[p].status /\ Recorded(p, g)[p].owes = g[p].owes
           /\ Recorded(p, g)[p].changed = g[p].changed
<1> DEFINE w == [g[p] EXCEPT !.done = @ \union {Module(p)}]
<1>1. g[p] \in PassRows
  OBVIOUS
<1>2. /\ w \in PassRows
      /\ w.pc = g[p].pc /\ w.behind = g[p].behind /\ w.watch = g[p].watch
      /\ w.mods = g[p].mods /\ w.status = g[p].status
      /\ w.owes = g[p].owes /\ w.changed = g[p].changed
  BY <1>1 DEF PassRows
<1>3. Recorded(p, g) = [g EXCEPT ![p] = w]
  BY DEF Recorded
<1> HIDE DEF w
<1>4. Recorded(p, g)[p] = w /\ Recorded(p, g) \in [Passes -> PassRows]
      /\ \A q \in Passes \ {p} : Recorded(p, g)[q] = g[q]
  BY <1>2, <1>3
<1> QED
  BY <1>2, <1>4

LEMMA CompletedIsFine ==
    ASSUME MonInv, NEW p \in Passes, pass[p].pc = "in module",
           NEW g \in [Passes -> PassRows], \A q \in Passes \ {p} : Fine(g[q]),
           g[p].pc = "in module", g[p].behind = pass[p].behind,
           g[p].watch = pass[p].watch, g[p].mods = pass[p].mods, g[p].status = pass[p].status,
           InDebt(g[p]) => InDebt(pass[p]) /\ Module(p) # "monitor",
           pass' = Passed(p, Recorded(p, g))
    PROVE  /\ pass' \in [Passes -> PassRows]
           /\ \A q \in Passes : Fine(pass'[q]) /\ (InDebt(pass'[q]) => InDebt(g[q]))
<1>1. Module(p) \in Names
  BY DEF MonInv, Fine, Module
<1>3. /\ Recorded(p, g) \in [Passes -> PassRows]
      /\ \A q \in Passes \ {p} : Recorded(p, g)[q] = g[q]
      /\ Recorded(p, g)[p].pc = g[p].pc /\ Recorded(p, g)[p].behind = g[p].behind
      /\ Recorded(p, g)[p].watch = g[p].watch /\ Recorded(p, g)[p].mods = g[p].mods
      /\ Recorded(p, g)[p].status = g[p].status /\ Recorded(p, g)[p].owes = g[p].owes
      /\ Recorded(p, g)[p].changed = g[p].changed
  BY <1>1, RecordedIs
<1>4. InDebt(Recorded(p, g)[p]) <=> InDebt(g[p])
  BY <1>3 DEF InDebt
<1>5. \A q \in Passes : InDebt(Recorded(p, g)[q]) => InDebt(g[q])
  BY <1>3, <1>4
<1>6. \A q \in Passes \ {p} : Fine(Recorded(p, g)[q])
  BY <1>3
<1>7. /\ pass' \in [Passes -> PassRows]
      /\ \A q \in Passes : Fine(pass'[q]) /\ (InDebt(pass'[q]) => InDebt(Recorded(p, g)[q]))
  BY <1>3, <1>4, <1>6, AfterIsFine
<1> QED
  BY <1>5, <1>7

LEMMA MonTypes ==
    ASSUME MonInv
    PROVE  /\ site \in Nat /\ page \in Nat /\ alive \in Nat /\ hosts \in Nat /\ counted \in Nat
           /\ due \in BOOLEAN /\ young \in BOOLEAN /\ followed \in BOOLEAN
           /\ mishaps \in Nat /\ restarts \in Nat
           /\ page <= site /\ pass \in [Passes -> PassRows]
           /\ \A p \in Passes : Fine(pass[p]) /\ (InDebt(pass[p]) => page < site)
BY DEF MonInv, MonTypeOK, DebtStands

LEMMA OwnModuleEnds ==
    ASSUME MonInv, NEW p \in Passes, pass[p].pc = "in module", Module(p) # "monitor",
           pass' = Passed(p, Recorded(p, pass))
    PROVE  /\ pass' \in [Passes -> PassRows]
           /\ \A q \in Passes : Fine(pass'[q]) /\ (InDebt(pass'[q]) => InDebt(pass[q]))
<1>1. pass \in [Passes -> PassRows] /\ \A q \in Passes \ {p} : Fine(pass[q])
  BY MonTypes
<1> QED
  BY <1>1, CompletedIsFine

\* The end of a module that is not the monitor, and leaves the page alone.
LEMMA OtherModuleEnds ==
    ASSUME MonInv, NEW p \in Passes, EnumEnds(p) \/ OthersEnd(p)
    PROVE  MonInv'
<1>1. /\ pass[p].pc = "in module" /\ pass' = Passed(p, Recorded(p, pass))
      /\ page' = page /\ site' = site /\ alive' = alive
      /\ hosts' \in {alive, hosts} /\ counted' = hosts'
      /\ Module(p) \in {"subdomain_enum", "others"}
      /\ mishaps' = mishaps /\ restarts' = restarts
  BY DEF EnumEnds, OthersEnd, world, bounds, Completed, AfterModule, Passed, Recorded
<1>2. due' = due /\ young' = young /\ followed' = followed
  BY DEF EnumEnds, OthersEnd
<1>3. pass \in [Passes -> PassRows] /\ \A q \in Passes : Fine(pass[q])
  BY MonTypes
<1>4. Module(p) # "monitor"
  BY <1>1
<1>5. /\ pass' \in [Passes -> PassRows]
      /\ \A q \in Passes : Fine(pass'[q]) /\ (InDebt(pass'[q]) => InDebt(pass[q]))
  BY <1>1, <1>4, OwnModuleEnds
<1>6. \A q \in Passes : InDebt(pass'[q]) => page < site
  BY <1>5, MonTypes
<1>7. /\ hosts' \in Nat /\ counted' \in Nat /\ page' \in Nat /\ site' \in Nat /\ alive' \in Nat
      /\ mishaps' \in Nat /\ restarts' \in Nat /\ page' <= site'
      /\ (page < site => page' < site')
  BY <1>1, MonTypes
<1>8. due' \in BOOLEAN /\ young' \in BOOLEAN /\ followed' \in BOOLEAN
  BY <1>2, MonTypes
<1> QED
  BY <1>5, <1>6, <1>7, <1>8, MonKept

\* The probe tells nobody; it pardons the other passes, and its own has no debt left
\* that it might hide: its monitor is behind it.
LEMMA ProbeStep ==
    ASSUME MonInv, NEW p \in Passes, ProbeEnds(p)
    PROVE  MonInv'
<1>1. /\ pass[p].pc = "in module" /\ Module(p) = "http_probe"
      /\ pass' = Passed(p, Recorded(p, Excused(p)))
      /\ site' = site /\ alive' = alive /\ hosts' = hosts /\ page' = site /\ counted' = hosts
      /\ mishaps' = mishaps /\ restarts' = restarts
  BY DEF ProbeEnds, world, bounds, Completed, AfterModule, Passed, Recorded
<1>2. due' = due /\ young' = young /\ followed' = followed
  BY DEF ProbeEnds
<1>3. /\ Excused(p) \in [Passes -> PassRows] /\ Excused(p)[p] = pass[p]
      /\ \A q \in Passes \ {p} : Fine(Excused(p)[q]) /\ ~InDebt(Excused(p)[q])
  BY ExcusedAre
<1>4. ~InDebt(pass[p])
  BY <1>1, MonTypes DEF Fine, Module
<1>5. /\ pass' \in [Passes -> PassRows]
      /\ \A q \in Passes : Fine(pass'[q]) /\ (InDebt(pass'[q]) => InDebt(Excused(p)[q]))
  <2>1. /\ \A q \in Passes \ {p} : Fine(Excused(p)[q])
        /\ InDebt(Excused(p)[p]) => InDebt(pass[p]) /\ Module(p) # "monitor"
    BY <1>3, <1>4
  <2>2. /\ Excused(p)[p].pc = "in module" /\ Excused(p)[p].behind = pass[p].behind
        /\ Excused(p)[p].watch = pass[p].watch /\ Excused(p)[p].mods = pass[p].mods
        /\ Excused(p)[p].status = pass[p].status
    BY <1>1, <1>3
  <2> QED
    BY <1>1, <1>3, <2>1, <2>2, CompletedIsFine, Zenon
<1>6. \A q \in Passes : ~InDebt(pass'[q])
  BY <1>3, <1>4, <1>5
<1>7. /\ hosts' \in Nat /\ counted' \in Nat /\ page' \in Nat /\ site' \in Nat /\ alive' \in Nat
      /\ mishaps' \in Nat /\ restarts' \in Nat
  BY <1>1, MonTypes
<1>9. page' <= site'
  <2>1. page' = site' /\ site' \in Nat
    BY <1>1, MonTypes
  <2> QED
    BY <2>1
<1>8. due' \in BOOLEAN /\ young' \in BOOLEAN /\ followed' \in BOOLEAN
  BY <1>2, MonTypes
<1> QED
  BY <1>5, <1>6, <1>7, <1>8, <1>9, MonKept

\* The monitor tells every watch that runs what differs: after it nobody is in debt.
Told == [q \in Passes |->
           [pass[q] EXCEPT !.changed = @ \/ (pass[q].watch /\ Started(q) /\ page # site)]]
LEMMA ToldAre ==
    ASSUME MonInv
    PROVE  /\ Told \in [Passes -> PassRows]
           /\ \A q \in Passes :
                 /\ Fine(Told[q]) /\ ~InDebt(Told[q])
                 /\ Told[q].pc = pass[q].pc /\ Told[q].behind = pass[q].behind
                 /\ Told[q].watch = pass[q].watch /\ Told[q].mods = pass[q].mods
                 /\ Told[q].status = pass[q].status
<1>1. SUFFICES ASSUME NEW q \in Passes
               PROVE  /\ Told[q] \in PassRows /\ Fine(Told[q]) /\ ~InDebt(Told[q])
                      /\ Told[q].pc = pass[q].pc /\ Told[q].behind = pass[q].behind
                      /\ Told[q].watch = pass[q].watch /\ Told[q].mods = pass[q].mods
                      /\ Told[q].status = pass[q].status
  <2>1. Told = [q \in Passes |-> Told[q]]
    BY DEF Told
  <2> QED
    BY <1>1, <2>1
<1> DEFINE v == pass[q]
           differs == v.watch /\ v.pc # "gone" /\ page # site
           x == [v EXCEPT !.changed = @ \/ differs]
<1>2. Told[q] = x
  BY DEF Told, Started
<1>3. Fine(v) /\ v \in PassRows /\ (InDebt(v) => page # site)
  <2>1. Fine(v) /\ v \in PassRows /\ (InDebt(v) => page < site)
    BY MonTypes
  <2>2. page < site => page # site
    BY MonTypes
  <2> QED
    BY <2>1, <2>2
<1>4. (v.changed \/ differs) \in BOOLEAN
  OBVIOUS
<1>5. /\ x \in PassRows
      /\ x.pc = v.pc /\ x.behind = v.behind /\ x.watch = v.watch /\ x.mods = v.mods
      /\ x.status = v.status /\ x.owes = v.owes /\ x.at = v.at
  BY <1>3, <1>4 DEF PassRows
<1>6. x.changed = (v.changed \/ differs)
  BY <1>3 DEF PassRows
<1>7. ~InDebt(x)
  <2>1. InDebt(x) => InDebt(v)
    BY <1>3, <1>5, <1>6 DEF InDebt
  <2>2. InDebt(v) => differs
    BY <1>3 DEF InDebt, Fine
  <2> QED
    BY <1>6, <2>1, <2>2 DEF InDebt
<1> HIDE DEF x
<1>8. Fine(x)
  BY <1>3, <1>5, <1>7 DEF Fine
<1> QED
  BY <1>2, <1>5, <1>7, <1>8

LEMMA MonitorStep ==
    ASSUME MonInv, NEW p \in Passes, MonitorEnds(p)
    PROVE  MonInv'
<1>1. /\ pass[p].pc = "in module"
      /\ pass' = Passed(p, Recorded(p, Told))
      /\ site' = site /\ alive' = alive /\ hosts' = hosts /\ page' = site /\ counted' = hosts
      /\ mishaps' = mishaps /\ restarts' = restarts
  BY DEF MonitorEnds, world, bounds, Completed, AfterModule, Passed, Recorded, Told
<1>2. due' = due /\ young' = young /\ followed' = followed
  BY DEF MonitorEnds
<1>3. /\ Told \in [Passes -> PassRows]
      /\ \A q \in Passes : Fine(Told[q]) /\ ~InDebt(Told[q])
      /\ Told[p].pc = "in module" /\ Told[p].behind = pass[p].behind
      /\ Told[p].watch = pass[p].watch /\ Told[p].mods = pass[p].mods
      /\ Told[p].status = pass[p].status
  BY <1>1, ToldAre
<1>4. /\ pass' \in [Passes -> PassRows]
      /\ \A q \in Passes : Fine(pass'[q]) /\ (InDebt(pass'[q]) => InDebt(Told[q]))
  BY <1>1, <1>3, CompletedIsFine
<1>5. \A q \in Passes : ~InDebt(pass'[q])
  BY <1>3, <1>4
<1>6. /\ hosts' \in Nat /\ counted' \in Nat /\ page' \in Nat /\ site' \in Nat /\ alive' \in Nat
      /\ mishaps' \in Nat /\ restarts' \in Nat
  BY <1>1, MonTypes
<1>7. page' <= site'
  <2>1. page' = site' /\ site' \in Nat
    BY <1>1, MonTypes
  <2> QED
    BY <2>1
<1>8. due' \in BOOLEAN /\ young' \in BOOLEAN /\ followed' \in BOOLEAN
  BY <1>2, MonTypes
<1> QED
  BY <1>4, <1>5, <1>6, <1>7, <1>8, MonKept

\* A module that fails; a monitor that did not reach the page owes nothing.
LEMMA FailStep ==
    ASSUME MonInv, NEW p \in Passes, ModuleFails(p)
    PROVE  MonInv'
<1> DEFINE v == pass[p]
           owes == v.owes /\ Module(p) # "monitor"
           x == [v EXCEPT !.owes = owes]
           y == [x EXCEPT !.failed = TRUE]
           g == [pass EXCEPT ![p] = x]
           h == [pass EXCEPT ![p] = y]
<1>1. /\ v.pc = "in module" /\ Fine(v) /\ v \in PassRows
      /\ pass \in [Passes -> PassRows] /\ \A q \in Passes : Fine(pass[q])
  BY MonTypes DEF ModuleFails
<1>2. owes \in BOOLEAN
  BY <1>1 DEF PassRows
<1>3. /\ x \in PassRows /\ x.pc = v.pc /\ x.behind = v.behind /\ x.watch = v.watch
      /\ x.mods = v.mods /\ x.status = v.status /\ x.changed = v.changed
      /\ (x.owes <=> owes)
  BY <1>1, <1>2 DEF PassRows
<1> HIDE DEF x
<1>4. /\ y \in PassRows /\ y.pc = v.pc /\ y.behind = v.behind /\ y.watch = v.watch
      /\ y.mods = v.mods /\ y.status = v.status /\ y.changed = v.changed
      /\ y.owes = x.owes
  BY <1>3 DEF PassRows
<1>5. (InDebt(x) => InDebt(v) /\ Module(p) # "monitor") /\ (InDebt(y) => InDebt(x))
  BY <1>3, <1>4 DEF InDebt
<1>6. pass' = Passed(p, h) \/ pass' = Passed(p, Recorded(p, g))
  <2>1. [pass EXCEPT ![p].owes = @ /\ Module(p) # "monitor"] = g
    BY <1>1 DEF x
  <2>2. [g EXCEPT ![p].failed = TRUE] = h
    BY <1>1, <1>3
  <2> HIDE DEF g, h
  <2> QED
    BY <2>1, <2>2 DEF ModuleFails, Completed, AfterModule, Passed, Recorded
<1>7. /\ g \in [Passes -> PassRows] /\ g[p] = x /\ \A q \in Passes \ {p} : g[q] = pass[q]
      /\ h \in [Passes -> PassRows] /\ h[p] = y /\ \A q \in Passes \ {p} : h[q] = pass[q]
  BY <1>1, <1>3, <1>4
<1> HIDE DEF owes, y, g, h
<1>8. ASSUME pass' = Passed(p, h)
      PROVE  /\ pass' \in [Passes -> PassRows]
             /\ \A q \in Passes : Fine(pass'[q]) /\ (InDebt(pass'[q]) => InDebt(h[q]))
  <2>1. /\ \A q \in Passes \ {p} : Fine(h[q])
        /\ h[p].pc = "in module" /\ h[p].behind = pass[p].behind
        /\ h[p].watch = pass[p].watch /\ h[p].mods = pass[p].mods
        /\ h[p].status = pass[p].status
        /\ InDebt(h[p]) => InDebt(pass[p]) /\ Module(p) # "monitor"
    BY <1>1, <1>4, <1>5, <1>7
  <2> QED
    BY <1>1, <1>7, <1>8, <2>1, AfterIsFine
<1>9. ASSUME pass' = Passed(p, Recorded(p, g))
      PROVE  /\ pass' \in [Passes -> PassRows]
             /\ \A q \in Passes : Fine(pass'[q]) /\ (InDebt(pass'[q]) => InDebt(g[q]))
  <2>1. /\ \A q \in Passes \ {p} : Fine(g[q])
        /\ g[p].pc = "in module" /\ g[p].behind = pass[p].behind
        /\ g[p].watch = pass[p].watch /\ g[p].mods = pass[p].mods
        /\ g[p].status = pass[p].status
        /\ InDebt(g[p]) => InDebt(pass[p]) /\ Module(p) # "monitor"
    BY <1>1, <1>3, <1>5, <1>7
  <2> QED
    BY <1>1, <1>7, <1>9, <2>1, CompletedIsFine
<1>10. \A q \in Passes : (InDebt(h[q]) => InDebt(pass[q])) /\ (InDebt(g[q]) => InDebt(pass[q]))
  BY <1>5, <1>7
<1>11. /\ pass' \in [Passes -> PassRows]
       /\ \A q \in Passes : Fine(pass'[q]) /\ (InDebt(pass'[q]) => page < site)
  BY <1>6, <1>8, <1>9, <1>10, MonTypes
<1>12. /\ page' = page /\ site' = site /\ alive' = alive /\ hosts' = hosts /\ counted' = hosts
       /\ mishaps' = mishaps + 1 /\ restarts' = restarts
  BY DEF ModuleFails, world
<1>13. due' = due /\ young' = young /\ followed' = followed
  BY DEF ModuleFails
<1>14. /\ hosts' \in Nat /\ counted' \in Nat /\ page' \in Nat /\ site' \in Nat /\ alive' \in Nat
       /\ mishaps' \in Nat /\ restarts' \in Nat /\ page' <= site'
       /\ (page < site => page' < site')
  BY <1>12, MonTypes
<1>15. due' \in BOOLEAN /\ young' \in BOOLEAN /\ followed' \in BOOLEAN
  BY <1>13, MonTypes
<1> QED
  BY <1>11, <1>14, <1>15, MonKept

--------------------------------------------------------------------------------
(* The end of a pass, and restarts. *)

\* A step that keeps every row, gives it up for none, or moves it past its modules.
LEMMA RowOnlyStep ==
    ASSUME MonInv, NEW p \in Passes, Cancel(p) \/ Finish(p) \/ StampLastRun(p) \/ Escalate(p)
    PROVE  MonInv'
<1>1. Fine(pass[p]) /\ pass[p] \in PassRows /\ pass \in [Passes -> PassRows]
  BY MonTypes
<1>2. PICK w : pass' = [pass EXCEPT ![p] = w] /\ Fine(w) /\ ~InDebt(w)
  <2>1. CASE pass' = [pass EXCEPT ![p] = NoPass]
    BY <2>1, NoPassIs
  <2>2. CASE Finish(p) /\ pass[p].watch /\ ~pass[p].failed
    <3> DEFINE w == [pass[p] EXCEPT !.status = "finished", !.pc = "stamp"]
    <3>1. pass' = [pass EXCEPT ![p] = w]
      BY <1>1, <2>2 DEF Finish
    <3>2. /\ w \in PassRows /\ w.status = "finished" /\ w.pc = "stamp"
          /\ w.watch = pass[p].watch /\ w.mods = pass[p].mods /\ w.behind = pass[p].behind
          /\ w.owes = pass[p].owes /\ w.changed = pass[p].changed
      BY <1>1 DEF PassRows
    <3>3. ~InDebt(pass[p])
      <4>1. pass[p].mods = Names /\ pass[p].behind \notin SUBSET {"subdomain_enum"}
        BY <1>1, <2>2 DEF Finish, Fine, StillAhead, Names
      <4> QED
        BY <1>1, <4>1 DEF Fine
    <3> HIDE DEF w
    <3>4. ~InDebt(w)
      BY <2>2, <3>2, <3>3 DEF InDebt, Finish
    <3> QED
      BY <1>1, <3>1, <3>2, <3>4 DEF Fine
  <2>3. CASE StampLastRun(p)
    <3> DEFINE w == [pass[p] EXCEPT !.pc = "escalate"]
    <3>1. pass' = [pass EXCEPT ![p] = w]
      BY <1>1, <2>3 DEF StampLastRun
    <3>2. /\ w \in PassRows /\ w.status = pass[p].status /\ w.pc = "escalate"
          /\ w.watch = pass[p].watch /\ w.mods = pass[p].mods /\ w.behind = pass[p].behind
          /\ w.owes = pass[p].owes /\ w.changed = pass[p].changed
      BY <1>1 DEF PassRows
    <3>3. ~InDebt(pass[p]) /\ pass[p].status # "pending"
      BY <1>1, <2>3 DEF StampLastRun, Fine
    <3> HIDE DEF w
    <3>4. ~InDebt(w)
      BY <2>3, <3>2, <3>3 DEF InDebt, StampLastRun
    <3> QED
      BY <1>1, <3>1, <3>2, <3>3, <3>4 DEF Fine
  <2>4. Finish(p) => \/ pass' = [pass EXCEPT ![p] = NoPass]
                     \/ pass[p].watch /\ ~pass[p].failed
    BY <1>1 DEF Finish
  <2>5. Cancel(p) \/ Escalate(p) => pass' = [pass EXCEPT ![p] = NoPass]
    BY DEF Cancel, Escalate
  <2> QED
    BY <2>1, <2>2, <2>3, <2>4, <2>5
<1>3. /\ page' = page /\ site' = site /\ alive' = alive /\ hosts' = hosts /\ counted' = counted
      /\ mishaps' \in {mishaps, mishaps + 1} /\ restarts' = restarts
  BY DEF Cancel, Finish, StampLastRun, Escalate, world, tables, bounds
<1>4. /\ due' \in {due, FALSE} /\ young' = young
      /\ followed' = followed \/ followed' \in BOOLEAN
  BY DEF Cancel, Finish, StampLastRun, Escalate
<1>5. hosts' \in Nat /\ counted' \in Nat /\ mishaps' \in Nat /\ restarts' \in Nat
  BY <1>3, MonTypes
<1>6. due' \in BOOLEAN /\ young' \in BOOLEAN /\ followed' \in BOOLEAN
  BY <1>4, MonTypes
<1> QED
  BY <1>2, <1>3, <1>5, <1>6, RowKept

\* A pause and its end change nothing but what the row says.
LEMMA PauseStep ==
    ASSUME MonInv, NEW p \in Passes, PausePass(p) \/ UnpausePass(p)
    PROVE  MonInv'
<1>1. Fine(pass[p]) /\ pass[p] \in PassRows /\ (InDebt(pass[p]) => page < site)
  BY MonTypes DEF MonInv, DebtStands
<1>2. PICK status \in {"running", "paused"} : pass' = [pass EXCEPT ![p].status = status]
  BY DEF PausePass, UnpausePass
<1> DEFINE w == [pass[p] EXCEPT !.status = status]
<1>3. pass' = [pass EXCEPT ![p] = w]
  BY <1>2
<1>4. /\ w \in PassRows /\ w.status = status /\ w.pc = pass[p].pc /\ w.at = pass[p].at
      /\ w.watch = pass[p].watch /\ w.mods = pass[p].mods /\ w.behind = pass[p].behind
      /\ w.owes = pass[p].owes /\ w.changed = pass[p].changed
  BY <1>1 DEF PassRows
<1> HIDE DEF w
<1>5. Fine(w) /\ (InDebt(w) => page < site)
  BY <1>1, <1>4 DEF Fine, InDebt
<1>6. /\ UNCHANGED <<site, page, alive, hosts, counted, due, young, followed, restarts>>
      /\ mishaps' \in {mishaps, mishaps + 1}
  BY DEF PausePass, UnpausePass, world, tables, bounds
<1>7. /\ hosts' \in Nat /\ counted' \in Nat /\ mishaps' \in Nat /\ restarts' \in Nat
      /\ due' \in BOOLEAN /\ young' \in BOOLEAN /\ followed' \in BOOLEAN
  BY <1>6, MonTypes
<1> QED
  BY <1>3, <1>5, <1>6, <1>7, RowKept

\* A row that a stop parks is at rest: nobody executes it.
LEMMA ParkedIsFine ==
    ASSUME NEW v, Fine(v), v.status \in {"running", "paused"},
           NEW w, w = [v EXCEPT !.status = "interrupted", !.pc = "gone"]
    PROVE  Fine(w) /\ ~InDebt(w)
<1>1. /\ w \in PassRows /\ w.status = "interrupted" /\ w.pc = "gone"
      /\ w.watch = v.watch /\ w.mods = v.mods
  BY DEF Fine, PassRows
<1> QED
  BY <1>1 DEF Fine, InDebt

LEMMA RestartStep == MonInv /\ Restart => MonInv'
<1> SUFFICES ASSUME MonInv, Restart PROVE MonInv'
  OBVIOUS
<1>1. PICK graceful \in BOOLEAN, stale \in BOOLEAN :
        pass' = [p \in Passes |->
                CASE pass[p].status \in {"running", "paused"} /\ graceful ->
                        [pass[p] EXCEPT !.status = "interrupted", !.pc = "gone"]
                  [] pass[p].status = "pending" /\ ~stale -> pass[p]
                  [] OTHER -> NoPass]
  BY DEF Restart
<1>2. ASSUME NEW p \in Passes PROVE Fine(pass'[p]) /\ ~InDebt(pass'[p])
  <2>1. Fine(pass[p])
    BY MonTypes
  <2>2. CASE pass[p].status \in {"running", "paused"} /\ graceful
    <3>1. pass'[p] = [pass[p] EXCEPT !.status = "interrupted", !.pc = "gone"]
      BY <1>1, <2>2
    <3> QED
      BY <2>1, <2>2, <3>1, ParkedIsFine
  <2>3. CASE pass[p].status = "pending" /\ ~stale
    <3>1. pass'[p] = pass[p]
      BY <1>1, <2>3
    <3> QED
      BY <2>1, <2>3, <3>1 DEF Fine, InDebt
  <2>4. CASE /\ ~(pass[p].status \in {"running", "paused"} /\ graceful)
             /\ ~(pass[p].status = "pending" /\ ~stale)
    <3>1. pass'[p] = NoPass
      BY <1>1, <2>4
    <3> QED
      BY <3>1, NoPassIs
  <2> QED
    BY <2>2, <2>3, <2>4
<1>3. pass' \in [Passes -> PassRows]
  BY <1>1, <1>2 DEF Fine
<1>4. /\ page' = page /\ site' = site /\ alive' = alive /\ hosts' = hosts /\ counted' = counted
      /\ mishaps' = mishaps /\ restarts' = restarts + 1
  BY DEF Restart, world, tables
<1>5. due' = due /\ young' = young /\ followed' = followed
  BY DEF Restart
<1>6. /\ hosts' \in Nat /\ counted' \in Nat /\ page' \in Nat /\ site' \in Nat /\ alive' \in Nat
      /\ mishaps' \in Nat /\ restarts' \in Nat /\ page' <= site'
  BY <1>4, MonTypes
<1>7. due' \in BOOLEAN /\ young' \in BOOLEAN /\ followed' \in BOOLEAN
  BY <1>5, MonTypes
<1> QED
  BY <1>2, <1>3, <1>6, <1>7, MonKept

LEMMA ResumeStep ==
    ASSUME MonInv, NEW p \in Passes, Resume(p)
    PROVE  MonInv'
<1>1. PICK wedged \in BOOLEAN : Resumed(p, wedged)
  BY DEF Resume
<1> DEFINE left == Rest(p) \ (IF wedged THEN {Module(p)} ELSE {})
           w == [NoPass EXCEPT !.status = "pending", !.mods = left]
           retired == [pass EXCEPT ![p] = NoPass]
<1>2. pass \in [Passes -> PassRows] /\ \A q \in Passes : Fine(pass[q])
  BY MonTypes
<1>3. left \in SUBSET Names
  BY <1>2 DEF Rest, PassRows
<1>4. /\ retired \in [Passes -> PassRows]
      /\ \A q \in Passes : Fine(retired[q]) /\ (InDebt(retired[q]) => InDebt(pass[q]))
  BY <1>2, NoPassIs DEF Fine
<1>5. Fine(w) /\ ~InDebt(w)
  <2>1. w \in PassRows
    BY <1>3, NoPassIs DEF NoPass, PassRows
  <2>2. w.status = "pending" /\ w.pc = "gone" /\ w.watch = FALSE /\ w.behind = {} /\ w.owes = FALSE
    BY DEF NoPass
  <2> HIDE DEF w
  <2> QED
    BY <2>1, <2>2 DEF Fine, InDebt
<1>6. \/ pass' = retired
      \/ \E q \in Passes : pass' = [retired EXCEPT ![q] = w]
  BY <1>1 DEF Resumed
<1> HIDE DEF left, w, retired
<1>7. /\ pass' \in [Passes -> PassRows]
      /\ \A q \in Passes : Fine(pass'[q]) /\ (InDebt(pass'[q]) => InDebt(pass[q]))
  <2>1. CASE pass' = retired
    BY <1>4, <2>1
  <2>2. ASSUME NEW r \in Passes, pass' = [retired EXCEPT ![r] = w]
        PROVE  <1>7
    <3>1. w \in PassRows
      BY <1>5 DEF Fine
    <3>2. /\ pass' \in [Passes -> PassRows] /\ pass'[r] = w
          /\ \A q \in Passes \ {r} : pass'[q] = retired[q]
      BY <1>4, <2>2, <3>1
    <3> QED
      BY <1>4, <1>5, <3>2
  <2> QED
    BY <1>6, <2>1, <2>2
<1>8. /\ page' = page /\ site' = site /\ alive' = alive /\ hosts' = hosts /\ counted' = counted
      /\ mishaps' = mishaps /\ restarts' = restarts
  BY DEF Resume, world, tables, bounds
<1>9. due' = due /\ young' = young /\ followed' = followed
  BY DEF Resume
<1>10. /\ hosts' \in Nat /\ counted' \in Nat /\ page' \in Nat /\ site' \in Nat /\ alive' \in Nat
       /\ mishaps' \in Nat /\ restarts' \in Nat /\ page' <= site'
  BY <1>8, MonTypes
<1>11. due' \in BOOLEAN /\ young' \in BOOLEAN /\ followed' \in BOOLEAN
  BY <1>9, MonTypes
<1>12. \A q \in Passes : InDebt(pass'[q]) => page' < site'
  BY <1>7, <1>8, MonTypes
<1> QED
  BY <1>7, <1>10, <1>11, <1>12, MonKept

--------------------------------------------------------------------------------
LEMMA StepMon == MonInv /\ [MonNext]_monVars => MonInv'
<1> SUFFICES ASSUME MonInv, [MonNext]_monVars PROVE MonInv'
  OBVIOUS
<1>1. CASE SiteChanges \/ HostAppears \/ BecomesDue \/ GrowsOld
  BY <1>1, WorldStep
<1>2. CASE OtherScan \/ RunDueMonitors \/ Restart
  BY <1>2, OtherScanStep, RunDueStep, RestartStep
<1>3. ASSUME NEW p \in Passes,
             PassStep(p) \/ ModuleFails(p) \/ PausePass(p) \/ UnpausePass(p) \/ Cancel(p)
      PROVE  MonInv'
  <2>1. CASE PassStep(p) \/ ModuleFails(p) \/ Cancel(p)
    BY <2>1, PassStarts, ModuleStartsStep, OtherModuleEnds, MonitorStep, ProbeStep, FailStep,
       RowOnlyStep, ResumeStep DEF PassStep
  <2> QED
    BY <1>3, <2>1, PauseStep
<1>4. CASE UNCHANGED monVars
  BY <1>4 DEF monVars, MonInv, MonTypeOK, DebtStands
<1> QED
  BY <1>1, <1>2, <1>3, <1>4 DEF MonNext

LEMMA AlwaysMon == MonSpec => []MonInv
BY InitMon, StepMon, PTL DEF MonSpec

\* Types of the variables of the watch and its passes.
THEOREM MonTypeCorrect == MonSpec => []MonTypeOK
<1>1. MonInv => MonTypeOK
  BY DEF MonInv
<1> QED
  BY <1>1, AlwaysMon, PTL

\* A watch that finishes has recorded the change that was there when it began, for any
\* number of passes, news, mishaps and restarts: between the start of a watch and its
\* monitor stands only the enumeration, which leaves the rows of the page alone, so
\* while the pass owes the change the row still differs from the page.
THEOREM ChangesNoticed == MonSpec => []ChangesAreNoticed
<1>1. MonInv => ChangesAreNoticed
  <2> SUFFICES ASSUME MonInv, NEW p \in Passes, pass[p].status = "finished", pass[p].owes
               PROVE  pass[p].changed
    BY DEF ChangesAreNoticed
  <2>1. Fine(pass[p])
    BY MonTypes
  <2> QED
    BY <2>1 DEF Fine, InDebt
<1> QED
  BY <1>1, AlwaysMon, PTL

-----------------------------------------------------------------------------
(***************************************************************************)
(* TaskAdmission: slots never exceed the ceiling.                          *)
(***************************************************************************)
\* Whatever the pressure, effectiveMaxConcurrent stays within the machine's
\* ceiling: the half, the third and the floor of one slot included.
LEMMA CeilingWithinBase ==
    ASSUME NEW level \in 0..2, NEW count \in Nat
    PROVE  /\ EffectiveMaxConcurrent(level, count) \in Nat
           /\ EffectiveMaxConcurrent(level, count) <= Base
<1>1. Base \in Nat /\ Base >= 1
  BY AdmissionAssumption
<1>2. /\ Base \div 2 \in Nat /\ Base \div 2 <= Base
      /\ Base \div 3 \in Nat /\ Base \div 3 <= Base
  BY <1>1
<1>3. CASE level = 0
  BY <1>1, <1>3 DEF EffectiveMaxConcurrent
<1>4. CASE level = 1
  BY <1>1, <1>2, <1>4 DEF EffectiveMaxConcurrent
<1>5. CASE level = 2
  BY <1>1, <1>2, <1>5 DEF EffectiveMaxConcurrent
<1> QED
  BY <1>3, <1>4, <1>5

\* The variables keep their types along every behaviour of the admission loop
\* (createTask, processQueue, tryStartTask and the admitted goroutines).
THEOREM AdmissionTypeCorrect == Spec => []TypeOK
<1>1. Init => TypeOK
  BY AdmissionAssumption DEF Init, TypeOK
<1>2. TypeOK /\ [Next]_vars => TypeOK'
  <2> SUFFICES ASSUME TypeOK, [Next]_vars
               PROVE  TypeOK'
    OBVIOUS
  <2> USE AdmissionAssumption DEF TypeOK
  <2>1. ASSUME NEW t \in Tasks, CreateTask(t)
        PROVE  TypeOK'
    BY <2>1 DEF CreateTask
  <2>2. CASE TakeQueued
    <3>1. queue # <<>> /\ queue \in Seq(Tasks)
      BY <2>2 DEF TakeQueued
    <3>2. Head(queue) \in Tasks /\ Tail(queue) \in Seq(Tasks)
      BY <3>1
    <3> QED
      BY <2>2, <3>2 DEF TakeQueued
  <2>3. CASE DrainPendingTasks
    BY <2>3 DEF DrainPendingTasks, DrainQuery, Pending
  <2>4. ASSUME NEW t \in Tasks, TryNextOfBatch(t)
        PROVE  TypeOK'
    BY <2>4 DEF TryNextOfBatch
  <2>5. CASE AdmitTask
    BY <2>5 DEF AdmitTask
  <2>6. CASE RefuseTask
    BY <2>6 DEF RefuseTask
  <2>7. ASSUME NEW t \in Tasks, LeavePending(t) \/ ReleaseSlot(t)
        PROVE  TypeOK'
    BY <2>7 DEF LeavePending, ReleaseSlot
  <2>8. CASE PressureChanges
    BY <2>8 DEF PressureChanges
  <2>9. CASE UNCHANGED vars
    BY <2>9 DEF vars
  <2> QED
    BY <2>1, <2>2, <2>3, <2>4, <2>5, <2>6, <2>7, <2>8, <2>9 DEF Next, ProcessQueue
<1> QED
  BY <1>1, <1>2, PTL DEF Spec

-----------------------------------------------------------------------------
\* Sets of tasks are finite, so their cardinalities are numbers.
LEMMA SetsOfTasks ==
    ASSUME NEW S, S \subseteq Tasks
    PROVE  IsFiniteSet(S) /\ Cardinality(S) \in Nat
BY AdmissionAssumption, FS_Subset, FS_CardinalityType

\* An admission keeps both limits: the count is below the ceiling of the moment,
\* which is within Base, and only the target of the admitted task gains a scan.
LEMMA AdmissionKeepsLimits ==
    ASSUME TypeOK, SlotsBounded, AdmitTask
    PROVE  SlotsBounded'
<1> USE AdmissionAssumption DEF TypeOK
<1>1. /\ probe \in Tasks /\ probe \notin running
      /\ running' = running \cup {probe}
      /\ Cardinality(running) < EffectiveMaxConcurrent(pressure, Cardinality(running))
      /\ Cardinality(running \cap TasksOf(TargetOf[probe])) < PerTarget
  BY DEF AdmitTask, Admissible
<1>2. Cardinality(running') = Cardinality(running) + 1
  BY <1>1, SetsOfTasks, FS_AddElement
<1>3. Cardinality(running') <= Base
  <2>1. pressure \in 0..2 /\ Cardinality(running) \in Nat
    BY SetsOfTasks
  <2>2. /\ EffectiveMaxConcurrent(pressure, Cardinality(running)) \in Nat
        /\ EffectiveMaxConcurrent(pressure, Cardinality(running)) <= Base
    BY <2>1, CeilingWithinBase
  <2> QED
    BY <1>1, <1>2, <2>1, <2>2
<1>4. ASSUME NEW g \in Targets
      PROVE  Cardinality(running' \cap TasksOf(g)) <= PerTarget
  <2>1. Cardinality(running \cap TasksOf(g)) <= PerTarget
    BY DEF SlotsBounded
  <2>2. CASE TargetOf[probe] = g
    <3>1. running' \cap TasksOf(g) = (running \cap TasksOf(g)) \cup {probe}
      BY <1>1, <2>2 DEF TasksOf
    <3>2. /\ IsFiniteSet(running \cap TasksOf(g))
          /\ Cardinality(running \cap TasksOf(g)) \in Nat
          /\ probe \notin running \cap TasksOf(g)
      BY <1>1, SetsOfTasks
    <3>3. Cardinality(running' \cap TasksOf(g)) = Cardinality(running \cap TasksOf(g)) + 1
      BY <3>1, <3>2, FS_AddElement
    <3> QED
      BY <1>1, <2>2, <3>2, <3>3
  <2>3. CASE TargetOf[probe] # g
    <3>1. running' \cap TasksOf(g) = running \cap TasksOf(g)
      BY <1>1, <2>3 DEF TasksOf
    <3> QED
      BY <2>1, <3>1
  <2> QED
    BY <2>2, <2>3
<1> QED
  BY <1>3, <1>4 DEF SlotsBounded, TasksOf

\* Removing tasks from running cannot break a limit.
LEMMA ReleaseKeepsLimits ==
    ASSUME TypeOK, SlotsBounded, running' \subseteq running
    PROVE  SlotsBounded'
<1> USE AdmissionAssumption DEF TypeOK
<1>1. ASSUME NEW S, NEW T, S \subseteq T, T \subseteq Tasks, NEW n \in Nat, Cardinality(T) <= n
      PROVE  Cardinality(S) <= n
  <2>1. IsFiniteSet(T) /\ Cardinality(T) \in Nat /\ Cardinality(S) \in Nat
    BY <1>1, SetsOfTasks
  <2>2. Cardinality(S) <= Cardinality(T)
    BY <1>1, <2>1, FS_Subset
  <2> QED
    BY <1>1, <2>1, <2>2
<1>2. Cardinality(running') <= Base
  BY <1>1 DEF SlotsBounded
<1>3. ASSUME NEW g \in Targets
      PROVE  Cardinality(running' \cap TasksOf(g)) <= PerTarget
  <2>1. /\ running' \cap TasksOf(g) \subseteq running \cap TasksOf(g)
        /\ running \cap TasksOf(g) \subseteq Tasks
        /\ Cardinality(running \cap TasksOf(g)) <= PerTarget
    BY DEF SlotsBounded
  <2> QED
    BY <1>1, <2>1
<1> QED
  BY <1>2, <1>3 DEF SlotsBounded, TasksOf

\* The ceiling of the machine and the limit per target are never exceeded, and
\* every slot is held by exactly one live goroutine (tryStartTask).
THEOREM AdmissionSafe == Spec => [](SlotsBounded /\ SlotsAreHeld)
<1> DEFINE IInv == SlotsBounded /\ SlotsAreHeld
<1>1. Init => IInv
  <2> SUFFICES ASSUME Init
               PROVE  IInv
    OBVIOUS
  <2>1. \A g \in Targets : running \cap TasksOf(g) = {}
    BY DEF Init
  <2>2. Cardinality({}) = 0
    BY FS_EmptySet
  <2> QED
    BY <2>1, <2>2, AdmissionAssumption DEF Init, SlotsBounded, SlotsAreHeld
<1>2. TypeOK /\ IInv /\ [Next]_vars => IInv'
  <2> SUFFICES ASSUME TypeOK, IInv, [Next]_vars
               PROVE  IInv'
    OBVIOUS
  <2>1. CASE AdmitTask
    <3>1. SlotsBounded'
      BY <2>1, AdmissionKeepsLimits
    <3>2. SlotsAreHeld'
      BY <2>1 DEF AdmitTask, SlotsAreHeld
    <3> QED
      BY <3>1, <3>2
  <2>2. ASSUME NEW t \in Tasks, ReleaseSlot(t)
        PROVE  IInv'
    <3>1. SlotsBounded'
      BY <2>2, ReleaseKeepsLimits DEF ReleaseSlot
    <3>2. SlotsAreHeld'
      BY <2>2 DEF ReleaseSlot, SlotsAreHeld
    <3> QED
      BY <3>1, <3>2
  <2>3. CASE UNCHANGED <<running, live>>
    BY <2>3, ReleaseKeepsLimits DEF SlotsAreHeld
  <2> QED
    BY <2>1, <2>2, <2>3
    DEF Next, ProcessQueue, vars, CreateTask, TakeQueued, DrainPendingTasks,
        TryNextOfBatch, RefuseTask, LeavePending, PressureChanges
<1>3. Spec => []IInv
  BY <1>1, <1>2, AdmissionTypeCorrect, PTL DEF Spec
<1> QED
  BY <1>3
==============================================================================
