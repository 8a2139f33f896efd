--------------------------- MODULE BountySyncProofs ---------------------------
(***************************************************************************)
(* Proofs about BountySync, for any sets of programs, assets, projects and *)
(* requests, and any bounds.  The inductive invariant says where a lock of *)
(* detailLocks is and, on a platform that gives no dates, that what is     *)
(* looked at under it is young.                                            *)
(***************************************************************************)
EXTENDS BountySync, TLAPS

\* Where a goroutine is: in the critical section of ensureDetails, in a
\* reconciliation, with a program at all.
Guarded     == {"again", "fetch", "save", "replace", "targets"}
Reconciling == {"get", "read", "have", "apply", "tell"}
Holding     == Guarded \cup Reconciling \cup {"lock"}
Placed      == Holding \cup {"look", "view", "create"}

SoundWork(k) ==
    /\ k.pc \in Placed => k.p \in Programs
    /\ k.pc \in Reconciling => k.targets # {}
    /\ k.job = "sync" /\ k.outer = {} /\ k.pc \in {"look", "lock", "again", "fetch"}
         => k.failed < GiveUpAfter
WorkIsSound == \A w \in Workers : SoundWork(work[w])

\* What is reconciled, and what has events, is linked.
Bound == {t \in Projects : link[t] \in Programs}
ReachesBound ==
    /\ \A w \in Workers : work[w].targets \cup work[w].outer \subseteq Bound
    /\ \A t \in Projects : events[t] # {} => t \in Bound

\* A lock belongs to the goroutine in the critical section, or to one that reconciles
\* the projects of its program.
LocksAreHeld ==
    /\ \A w \in Workers : work[w].pc \in Guarded => lock[work[w].p] = w
    /\ \A p \in Programs : \A w \in Workers :
         lock[p] = w => work[w].p = p /\ work[w].pc \in Holding

\* On a platform that gives no dates, details are young from their storing until the
\* lock is given back, so that nobody needs the lock again.
HeldIsFresh ==
    /\ \A p \in Programs : ~prog[p].newer
    /\ \A p \in Programs : \A w \in Workers :
         lock[p] = w => /\ work[w].pc # "lock"
                        /\ work[w].pc \in Reconciling \cup {"targets"} => prog[p].age = "fresh"

BountyInv == /\ BountyTypeOK /\ WorkIsSound /\ ReachesBound /\ LocksAreHeld
             /\ ~Dated => HeldIsFresh

LEMMA Picked == \A S : S # {} => Pick(S) \in S
BY DEF Pick

LEMMA IdleIsWork == Idle \in Works /\ SoundWork(Idle)
<1>1. Idle \in Works
  BY BountyAssumption DEF Idle, Works, Steps, NoTerms, Terms, NotImported, Imported, Editions
<1>2. SoundWork(Idle)
  BY DEF Idle, SoundWork, Placed, Holding, Guarded, Reconciling
<1> QED
  BY <1>1, <1>2

--------------------------------------------------------------------------------
(* What a step of one goroutine leaves of the others. *)
Alike(k, j) == /\ k.pc = j.pc /\ k.p = j.p /\ k.job = j.job /\ k.failed = j.failed
               /\ k.targets = j.targets /\ k.outer = j.outer
Moved(w) ==
    /\ work' \in [Workers -> Works]
    /\ \A v \in Workers \ {w} : Alike(work'[v], work[v])
    /\ SoundWork(work'[w])
    /\ work'[w].targets \cup work'[w].outer \subseteq Bound

LEMMA AlikeIsSound == \A k, j : Alike(k, j) /\ SoundWork(j) => SoundWork(k)
BY DEF Alike, SoundWork

LEMMA BecomesMoves ==
    ASSUME BountyTypeOK, NEW w \in Workers, NEW r \in Works, Becomes(w, r), SoundWork(r),
           r.targets \cup r.outer \subseteq Bound
    PROVE  Moved(w) /\ work'[w] = r
<1>1. work \in [Workers -> Works]
  BY DEF BountyTypeOK
<1>2. work' \in [Workers -> Works] /\ work'[w] = r /\ \A v \in Workers \ {w} : work'[v] = work[v]
  BY <1>1 DEF Becomes
<1> QED
  BY <1>2 DEF Moved, Alike

LEMMA MovedKeeps ==
    ASSUME BountyInv, NEW w \in Workers, Moved(w),
           \A t \in Bound : link'[t] \in Programs
    PROVE  /\ WorkIsSound'
           /\ \A v \in Workers : work'[v].targets \cup work'[v].outer \subseteq Bound'
<1>1. ASSUME NEW v \in Workers PROVE SoundWork(work'[v])
  BY <1>1, AlikeIsSound DEF Moved, BountyInv, WorkIsSound
<1>2. Bound \subseteq Bound'
  BY DEF Bound
<1>3. ASSUME NEW v \in Workers PROVE work'[v].targets \cup work'[v].outer \subseteq Bound
  BY DEF Moved, Alike, BountyInv, ReachesBound
<1> QED
  BY <1>1, <1>2, <1>3 DEF WorkIsSound

\* The lock stays with whom it is with ...
LEMMA LockStays ==
    ASSUME BountyInv, NEW w \in Workers, Moved(w), lock' = lock,
           \/ /\ work'[w].p = work[w].p /\ work'[w].pc \in Holding
              /\ work'[w].pc \in Guarded => work[w].pc \in Guarded
           \/ work'[w].pc \notin Guarded /\ \A p \in Programs : lock[p] # w
    PROVE  LocksAreHeld'
<1>1. ASSUME NEW v \in Workers, work'[v].pc \in Guarded PROVE lock'[work'[v].p] = v
  BY <1>1 DEF Moved, Alike, BountyInv, LocksAreHeld
<1>2. ASSUME NEW p \in Programs, NEW v \in Workers, lock'[p] = v
      PROVE  work'[v].p = p /\ work'[v].pc \in Holding
  BY <1>2 DEF Moved, Alike, BountyInv, LocksAreHeld
<1> QED
  BY <1>1, <1>2 DEF LocksAreHeld

\* ... or its holder gives it back.
LEMMA LockReturns ==
    ASSUME BountyInv, NEW w \in Workers, Moved(w), Unlock(w), work[w].p \in Programs,
           lock[work[w].p] = w, work'[w].pc \notin Guarded
    PROVE  /\ lock' \in [Programs -> Workers \cup {Nobody}]
           /\ LocksAreHeld'
           /\ \A p \in Programs : lock'[p] # w /\ lock'[p] \in {lock[p], Nobody}
<1>1. /\ lock \in [Programs -> Workers \cup {Nobody}] /\ Nobody \notin Workers
  BY BountyAssumption DEF BountyInv, BountyTypeOK
<1>2. /\ lock' \in [Programs -> Workers \cup {Nobody}]
      /\ lock'[work[w].p] = Nobody
      /\ \A p \in Programs : p # work[w].p => lock'[p] = lock[p]
  BY <1>1 DEF Unlock
<1>3. \A p \in Programs : lock'[p] # w /\ lock'[p] \in {lock[p], Nobody}
  BY <1>1, <1>2 DEF BountyInv, LocksAreHeld
<1>4. ASSUME NEW v \in Workers, work'[v].pc \in Guarded PROVE lock'[work'[v].p] = v
  <2>1. v # w /\ work[v].pc \in Guarded /\ work'[v].p = work[v].p
    BY <1>4 DEF Moved, Alike
  <2>2. lock[work[v].p] = v /\ work[v].p \in Programs
    BY <2>1 DEF BountyInv, LocksAreHeld, WorkIsSound, SoundWork, Placed, Holding
  <2> QED
    BY <1>2, <2>1, <2>2
<1>5. ASSUME NEW p \in Programs, NEW v \in Workers, lock'[p] = v
      PROVE  work'[v].p = p /\ work'[v].pc \in Holding
  <2>1. v # w /\ lock[p] = v
    BY <1>1, <1>3, <1>5
  <2> QED
    BY <2>1 DEF Moved, Alike, BountyInv, LocksAreHeld
<1> QED
  BY <1>2, <1>3, <1>4, <1>5 DEF LocksAreHeld

\* Details of programs locked by others stay as young as they are.
LEMMA FreshStays ==
    ASSUME BountyInv, NEW w \in Workers, Moved(w), ~Dated,
           \A p \in Programs : lock'[p] \in {lock[p], Nobody, w},
           \A p \in Programs : ~prog'[p].newer,
           \A p \in Programs : lock[p] \in Workers \ {w} => prog'[p].age = prog[p].age,
           \A p \in Programs : lock'[p] = w =>
               /\ work'[w].pc # "lock"
               /\ work'[w].pc \in Reconciling \cup {"targets"} => prog'[p].age = "fresh"
    PROVE  HeldIsFresh'
<1>1. ASSUME NEW p \in Programs, NEW v \in Workers, lock'[p] = v, v # w
      PROVE  /\ work'[v].pc # "lock"
             /\ work'[v].pc \in Reconciling \cup {"targets"} => prog'[p].age = "fresh"
  <2>1. lock[p] = v
    BY <1>1, BountyAssumption
  <2>2. work'[v].pc = work[v].pc
    BY <1>1 DEF Moved, Alike
  <2> QED
    BY <1>1, <2>1, <2>2 DEF BountyInv, HeldIsFresh
<1> QED
  BY <1>1 DEF HeldIsFresh
--------------------------------------------------------------------------------
(* The records that the steps make. *)
LEMMA NothingRead == NoTerms \in [Assets -> Terms] /\ Idle.have \in [Assets -> Imported]
BY BountyAssumption DEF Idle, NoTerms, Terms, NotImported, Imported, Editions

LEMMA ReturnedIs ==
    ASSUME BountyInv, NEW w \in Workers, work[w].pc \in Placed
    PROVE  LET r == Returned(w) IN
           /\ r \in Works /\ SoundWork(r)
           /\ r.pc \in {"read", "linked", "view"}
           /\ r.targets \cup r.outer \subseteq Bound
           /\ r.failed = work[w].failed
<1> DEFINE r == Returned(w)
           b == [work[w] EXCEPT !.got = NoTerms, !.ages = {}, !.status = "none",
                                !.targets = {}, !.cat = NoTerms, !.have = Idle.have]
<1>1. work[w] \in Works /\ SoundWork(work[w]) /\ work[w].outer \subseteq Bound
  BY DEF BountyInv, BountyTypeOK, WorkIsSound, ReachesBound
<1>2. /\ b \in Works /\ b.targets = {} /\ b.p = work[w].p /\ b.outer = work[w].outer
      /\ b.job = work[w].job /\ b.failed = work[w].failed
  BY <1>1, NothingRead DEF Works
<1> HIDE DEF b
<1>3. CASE b.outer # {}
  <2>1. r = [b EXCEPT !.targets = b.outer, !.outer = {}, !.pc = "read"]
    BY <1>3 DEF Returned, b
  <2>2. /\ r \in Works /\ r.pc = "read" /\ r.targets = b.outer /\ r.outer = {} /\ r.p = b.p
        /\ r.failed = b.failed
    BY <1>2, <2>1 DEF Works, Steps
  <2>3. SoundWork(r)
    BY <1>1, <1>2, <1>3, <2>2 DEF SoundWork, Reconciling
  <2> QED
    BY <1>1, <1>2, <2>2, <2>3
<1>4. CASE b.outer = {} /\ b.job = "sync"
  <2>1. r = [b EXCEPT !.p = NoProgram, !.pc = "linked"]
    BY <1>4 DEF Returned, b
  <2>2. /\ r \in Works /\ r.pc = "linked" /\ r.targets = {} /\ r.outer = {}
        /\ r.failed = b.failed
    BY <1>2, <1>4, <2>1 DEF Works, Steps
  <2>3. SoundWork(r)
    BY <2>2 DEF SoundWork, Reconciling, Placed, Holding, Guarded
  <2> QED
    BY <1>2, <2>2, <2>3
<1>5. CASE b.outer = {} /\ b.job # "sync"
  <2>1. r = [b EXCEPT !.pc = "view"]
    BY <1>5 DEF Returned, b
  <2>2. /\ r \in Works /\ r.pc = "view" /\ r.targets = {} /\ r.outer = {} /\ r.p = b.p
        /\ r.failed = b.failed
    BY <1>2, <1>5, <2>1 DEF Works, Steps
  <2>3. SoundWork(r)
    BY <1>1, <1>2, <2>2 DEF SoundWork, Reconciling
  <2> QED
    BY <1>2, <2>2, <2>3
<1> QED
  BY <1>3, <1>4, <1>5

\* A step to another place that changes nothing else.
LEMMA GoesMoves ==
    ASSUME BountyInv, NEW w \in Workers, NEW s \in Steps, Goes(w, s),
           SoundWork([work[w] EXCEPT !.pc = s])
    PROVE  Moved(w) /\ work'[w] = [work[w] EXCEPT !.pc = s]
<1> DEFINE r == [work[w] EXCEPT !.pc = s]
<1>1. /\ work \in [Workers -> Works] /\ work[w] \in Works
      /\ work[w].targets \cup work[w].outer \subseteq Bound
  BY DEF BountyInv, BountyTypeOK, ReachesBound
<1>2. r \in Works /\ r.targets = work[w].targets /\ r.outer = work[w].outer
  BY <1>1 DEF Works
<1>3. Becomes(w, r)
  BY <1>1 DEF Goes, Becomes
<1> QED
  BY <1>1, <1>2, <1>3, BecomesMoves DEF BountyInv

\* A goroutine holds the lock of no program when it is not where one is held.
LEMMA FreeHanded ==
    ASSUME BountyInv, NEW w \in Workers, work[w].pc \notin Holding
    PROVE  \A p \in Programs : lock[p] # w
BY DEF BountyInv, LocksAreHeld

\* What a step of a goroutine may do to the projects: they stay linked, and events are
\* about linked ones.
ProjectsKept ==
    /\ link' \in [Projects -> Programs \cup {NoProgram}] /\ Bound \subseteq Bound'
    /\ asset' \in [Projects -> [Assets -> Imported]]
    /\ events' \in [Projects -> SUBSET (Assets \X Kinds)]
    /\ \A t \in Projects : events'[t] # {} => t \in Bound

LEMMA ProjectsStay == ASSUME BountyInv, UNCHANGED projects PROVE ProjectsKept
BY DEF projects, ProjectsKept, BountyInv, BountyTypeOK, ReachesBound, Bound

LEMMA ReachKept ==
    ASSUME BountyInv, NEW w \in Workers, Moved(w), ProjectsKept
    PROVE  WorkIsSound' /\ ReachesBound'
<1>1. Bound \subseteq Bound' /\ \A t \in Bound : link'[t] \in Programs
  BY DEF Bound, ProjectsKept
<1>2. WorkIsSound' /\ \A v \in Workers : work'[v].targets \cup work'[v].outer \subseteq Bound'
  BY <1>1, MovedKeeps
<1> QED
  BY <1>1, <1>2 DEF ReachesBound, ProjectsKept

\* A step of w that is its own: it keeps the locks it has ...
LEMMA OwnStep ==
    ASSUME BountyInv, NEW w \in Workers, Moved(w), ProjectsKept,
           UNCHANGED <<platform, catalogue, breaks, due>>, lock' = lock,
           \/ /\ work'[w].p = work[w].p /\ work'[w].pc \in Holding
              /\ work'[w].pc = "lock" => Dated
              /\ work'[w].pc \in Guarded => work[w].pc \in Guarded
              /\ work'[w].pc \in Reconciling \cup {"targets"}
                   => work[w].pc \in Reconciling \cup {"targets"}
           \/ work'[w].pc \notin Guarded /\ \A p \in Programs : lock[p] # w
    PROVE  BountyInv'
<1> USE DEF platform, catalogue
<1>1. BountyTypeOK'
  BY DEF BountyInv, BountyTypeOK, Moved, ProjectsKept
<1>2. WorkIsSound' /\ ReachesBound'
  BY ReachKept
<1>3. LocksAreHeld'
  BY LockStays
<1>4. ASSUME ~Dated PROVE HeldIsFresh'
  <2>1. HeldIsFresh
    BY <1>4 DEF BountyInv
  <2>2. \A p \in Programs : lock'[p] = w =>
               /\ work'[w].pc # "lock"
               /\ work'[w].pc \in Reconciling \cup {"targets"} => prog'[p].age = "fresh"
    BY <1>4, <2>1 DEF HeldIsFresh
  <2>3. \A p \in Programs : ~prog'[p].newer
    BY <2>1 DEF HeldIsFresh
  <2> QED
    BY <1>4, <2>2, <2>3, FreshStays
<1> QED
  BY <1>1, <1>2, <1>3, <1>4 DEF BountyInv

\* ... or gives the lock back.
LEMMA UnlockStep ==
    ASSUME BountyInv, NEW w \in Workers, Moved(w), Unlock(w), ProjectsKept,
           UNCHANGED <<platform, catalogue, breaks, due>>,
           work[w].p \in Programs, lock[work[w].p] = w, work'[w].pc \notin Guarded
    PROVE  BountyInv'
<1> USE DEF platform, catalogue
<1>1. /\ lock' \in [Programs -> Workers \cup {Nobody}] /\ LocksAreHeld'
      /\ \A p \in Programs : lock'[p] # w /\ lock'[p] \in {lock[p], Nobody}
  BY LockReturns
<1>2. BountyTypeOK'
  BY <1>1 DEF BountyInv, BountyTypeOK, Moved, ProjectsKept
<1>3. WorkIsSound' /\ ReachesBound'
  BY ReachKept
<1>4. ASSUME ~Dated PROVE HeldIsFresh'
  <2>1. HeldIsFresh
    BY <1>4 DEF BountyInv
  <2>2. \A p \in Programs : ~prog'[p].newer
    BY <2>1 DEF HeldIsFresh
  <2> QED
    BY <1>1, <1>4, <2>2, FreshStays
<1> QED
  BY <1>1, <1>2, <1>3, <1>4 DEF BountyInv

\* A step of w that has no lock and leaves the ages of details alone.
LEMMA FreeStep ==
    ASSUME BountyInv, NEW w \in Workers, Moved(w), ProjectsKept,
           UNCHANGED <<platform, breaks, lock>>, due' \in BOOLEAN,
           prog' \in [Programs -> Details], rows' \in [Programs -> [Assets -> Terms]],
           \A p \in Programs : /\ prog'[p].age = prog[p].age
                               /\ ~Dated => prog'[p].newer = prog[p].newer,
           work'[w].pc \notin Guarded, \A p \in Programs : lock[p] # w
    PROVE  BountyInv'
<1> USE DEF platform
<1>1. BountyTypeOK'
  BY DEF BountyInv, BountyTypeOK, Moved, ProjectsKept
<1>2. WorkIsSound' /\ ReachesBound'
  BY ReachKept
<1>3. LocksAreHeld'
  BY LockStays
<1>4. ASSUME ~Dated PROVE HeldIsFresh'
  <2>1. \A p \in Programs : ~prog'[p].newer
    BY <1>4 DEF BountyInv, HeldIsFresh
  <2> QED
    BY <1>4, <2>1, FreshStays
<1> QED
  BY <1>1, <1>2, <1>3, <1>4 DEF BountyInv

\* A step of w that stores details of the program it has locked.
LEMMA StoreStep ==
    ASSUME BountyInv, NEW w \in Workers, Moved(w), work[w].pc \in Guarded,
           work'[w].pc \in Guarded, work'[w].p = work[w].p,
           NEW s \in {"none", "live", "unavailable"}, Detailed(w, s),
           rows' \in [Programs -> [Assets -> Terms]],
           UNCHANGED <<listed, offer, changes, projects, breaks, lock, due>>
    PROVE  BountyInv'
<1>1. work[w].p \in Programs /\ lock[work[w].p] = w
  BY DEF BountyInv, LocksAreHeld, WorkIsSound, SoundWork, Placed, Holding
<1>2. prog \in [Programs -> Details] /\ dirty \in [Programs -> BOOLEAN]
  BY DEF BountyInv, BountyTypeOK
<1>3. /\ prog' \in [Programs -> Details] /\ dirty' \in [Programs -> BOOLEAN]
      /\ prog'[work[w].p].age = "fresh" /\ ~prog'[work[w].p].newer
      /\ \A p \in Programs : p # work[w].p => prog'[p] = prog[p]
  BY <1>1, <1>2 DEF Detailed, Details, Ages
<1>4. BountyTypeOK'
  BY <1>3 DEF BountyInv, BountyTypeOK, Moved, projects
<1>5. WorkIsSound' /\ ReachesBound'
  BY ReachKept, ProjectsStay
<1>6. LocksAreHeld'
  BY LockStays DEF Holding
<1>7. ASSUME ~Dated PROVE HeldIsFresh'
  <2>1. HeldIsFresh
    BY <1>7 DEF BountyInv
  <2>2. \A p \in Programs : ~prog'[p].newer
    BY <1>3, <2>1 DEF HeldIsFresh
  <2>3. \A p \in Programs : lock[p] \in Workers \ {w} => prog'[p].age = prog[p].age
    BY <1>1, <1>3
  <2>4. \A p \in Programs : lock'[p] = w => p = work[w].p /\ work'[w].pc # "lock"
    BY DEF BountyInv, LocksAreHeld, Guarded
  <2> QED
    BY <1>3, <1>7, <2>2, <2>3, <2>4, FreshStays
<1> QED
  BY <1>4, <1>5, <1>6, <1>7 DEF BountyInv

LEMMA OutdatesMoves ==
    ASSUME BountyInv, NEW w \in Workers, NEW p, NEW r \in Works, SoundWork(r),
           r.targets \cup r.outer \subseteq Bound,
           work' = Outdates(p, [work EXCEPT ![w] = r])
    PROVE  Moved(w) /\ work'[w].pc = r.pc /\ work'[w].p = r.p
<1> DEFINE k == [work EXCEPT ![w] = r]
           O(j) == [j EXCEPT !.news = @ \ {p}]
<1>1. work \in [Workers -> Works]
  BY DEF BountyInv, BountyTypeOK
<1>2. /\ k \in [Workers -> Works] /\ k[w] = r /\ \A v \in Workers \ {w} : k[v] = work[v]
  BY <1>1
<1>3. \A j \in Works : O(j) \in Works /\ Alike(O(j), j)
  BY DEF Works, Alike
<1>4. work' = [v \in Workers |-> O(k[v])]
  BY DEF Outdates
<1> HIDE DEF k, O
<1>5. work' \in [Workers -> Works] /\ \A v \in Workers : Alike(work'[v], k[v])
  BY <1>2, <1>3, <1>4
<1>6. SoundWork(work'[w])
  BY <1>2, <1>5, AlikeIsSound
<1>7. \A v \in Workers \ {w} : Alike(work'[v], work[v])
  BY <1>2, <1>5
<1> QED
  BY <1>2, <1>5, <1>6, <1>7 DEF Moved, Alike

--------------------------------------------------------------------------------
(* One lemma per action of a goroutine. *)
LEMMA WorkIs ==
    ASSUME BountyInv, NEW w \in Workers
    PROVE  /\ work[w] \in Works /\ SoundWork(work[w])
           /\ work[w].targets \cup work[w].outer \subseteq Bound
           /\ work \in [Workers -> Works]
BY DEF BountyInv, BountyTypeOK, WorkIsSound, ReachesBound

LEMMA SyncWorks == Sync \in Workers /\ \A r \in Readers : r \in Workers
BY DEF Workers

LEMMA LockRecord ==
    ASSUME NEW k \in Works, NEW x \in {"none", "live", "unavailable"}
    PROVE  LET r == [k EXCEPT !.pc = "lock", !.status = x] IN
           /\ r \in Works /\ r.pc = "lock" /\ r.p = k.p /\ r.targets = k.targets
           /\ r.outer = k.outer /\ r.job = k.job /\ r.failed = k.failed
BY DEF Works, Steps

LEMMA SaveRecord ==
    ASSUME NEW k \in Works, NEW o \in [Assets -> Terms]
    PROVE  LET r == [k EXCEPT !.got = o, !.pc = "save"] IN
           /\ r \in Works /\ r.pc = "save" /\ r.p = k.p /\ r.targets = k.targets
           /\ r.outer = k.outer
BY DEF Works, Steps

LEMMA LookKeeps == ASSUME BountyInv, NEW w \in Workers, Look(w) PROVE BountyInv'
<1> DEFINE r == [work[w] EXCEPT !.pc = "lock", !.status = prog[work[w].p].status]
<1>1. work[w].pc = "look" /\ work[w].pc \in Placed /\ work[w].p \in Programs
  BY WorkIs DEF Look, At, Placed, SoundWork
<1>2. \A p \in Programs : lock[p] # w
  BY <1>1, FreeHanded DEF Holding, Guarded, Reconciling
<1>3. CASE Fresh(work[w].p, work[w].ages)
  <2>1. Becomes(w, Returned(w))
    BY <1>3 DEF Look, Becomes
  <2>2. Moved(w) /\ work'[w] = Returned(w)
    BY <1>1, <2>1, ReturnedIs, BecomesMoves DEF BountyInv
  <2> QED
    BY <1>1, <1>2, <2>2, ReturnedIs, OwnStep, ProjectsStay DEF Look, Guarded
<1>4. CASE ~Fresh(work[w].p, work[w].ages)
  <2>1. Becomes(w, r)
    BY <1>4 DEF Look, Becomes
  <2>2. prog[work[w].p].status \in {"none", "live", "unavailable"}
    BY <1>1 DEF BountyInv, BountyTypeOK, Details
  <2>3. /\ r \in Works /\ r.pc = "lock" /\ r.p = work[w].p /\ r.targets = work[w].targets
        /\ r.outer = work[w].outer /\ r.job = work[w].job /\ r.failed = work[w].failed
    BY <2>2, WorkIs, LockRecord
  <2> HIDE DEF r
  <2>4. SoundWork(r)
    BY <1>1, <2>3, WorkIs DEF SoundWork, Reconciling
  <2>5. Moved(w) /\ work'[w] = r
    BY <2>1, <2>3, <2>4, WorkIs, BecomesMoves DEF BountyInv
  <2> QED
    BY <1>2, <2>3, <2>5, OwnStep, ProjectsStay DEF Look, Guarded
<1> QED
  BY <1>3, <1>4

LEMMA LockKeeps == ASSUME BountyInv, NEW w \in Workers, Lock(w) PROVE BountyInv'
<1> USE DEF platform, catalogue, projects
<1>1. work[w].pc = "lock" /\ work[w].p \in Programs /\ lock[work[w].p] = Nobody
  BY WorkIs DEF Lock, At, Placed, Holding, SoundWork
<1>2. SoundWork([work[w] EXCEPT !.pc = "again"])
  BY <1>1, WorkIs DEF SoundWork, Reconciling, Works
<1>3. Moved(w) /\ work'[w] = [work[w] EXCEPT !.pc = "again"]
  BY <1>2, GoesMoves DEF Lock, Steps
<1>4. work'[w].pc = "again" /\ work'[w].p = work[w].p
  BY <1>3, WorkIs DEF Works
<1>5. /\ lock \in [Programs -> Workers \cup {Nobody}] /\ Nobody \notin Workers
  BY BountyAssumption DEF BountyInv, BountyTypeOK
<1>6. /\ lock' \in [Programs -> Workers \cup {Nobody}] /\ lock'[work[w].p] = w
      /\ \A p \in Programs : p # work[w].p => lock'[p] = lock[p]
  BY <1>1, <1>5 DEF Lock
<1>7. BountyTypeOK'
  BY <1>3, <1>6 DEF Lock, BountyInv, BountyTypeOK, Moved
<1>8. WorkIsSound' /\ ReachesBound'
  <2>1. \A t \in Bound : link'[t] \in Programs
    BY DEF Bound, Lock
  <2>2. WorkIsSound' /\ \A v \in Workers : work'[v].targets \cup work'[v].outer \subseteq Bound'
    BY <1>3, <2>1, MovedKeeps
  <2> QED
    BY <2>2 DEF ReachesBound, BountyInv, Bound, Lock
<1>9. LocksAreHeld'
  <2>1. \A p \in Programs : p # work[w].p => lock[p] # w
    BY DEF BountyInv, LocksAreHeld
  <2>2. ASSUME NEW v \in Workers, work'[v].pc \in Guarded PROVE lock'[work'[v].p] = v
    <3>1. CASE v = w
      BY <1>4, <1>6, <3>1
    <3>2. CASE v # w
      <4>1. work[v].pc \in Guarded /\ work'[v].p = work[v].p
        BY <1>3, <2>2, <3>2 DEF Moved, Alike
      <4>2. lock[work[v].p] = v /\ work[v].p \in Programs
        BY <4>1 DEF BountyInv, LocksAreHeld, WorkIsSound, SoundWork, Placed, Holding
      <4>3. work[v].p # work[w].p
        BY <1>1, <1>5, <4>2
      <4> QED
        BY <1>6, <4>1, <4>2, <4>3
    <3> QED
      BY <3>1, <3>2
  <2>3. ASSUME NEW p \in Programs, NEW v \in Workers, lock'[p] = v
        PROVE  work'[v].p = p /\ work'[v].pc \in Holding
    <3>1. CASE v = w
      BY <1>4, <1>6, <2>1, <2>3, <3>1 DEF Holding, Guarded
    <3>2. CASE v # w
      <4>1. lock[p] = v
        BY <1>6, <2>3, <3>2
      <4> QED
        BY <1>3, <3>2, <4>1 DEF Moved, Alike, BountyInv, LocksAreHeld
    <3> QED
      BY <3>1, <3>2
  <2> QED
    BY <2>2, <2>3 DEF LocksAreHeld
<1>10. ASSUME ~Dated PROVE HeldIsFresh'
  <2>1. HeldIsFresh
    BY <1>10 DEF BountyInv
  <2>2. \A p \in Programs : ~prog'[p].newer /\ prog'[p].age = prog[p].age
    BY <2>1 DEF HeldIsFresh, Lock
  <2>3. \A p \in Programs : lock'[p] \in {lock[p], Nobody, w}
    BY <1>6
  <2> QED
    BY <1>3, <1>4, <1>10, <2>2, <2>3, FreshStays DEF Reconciling
<1> QED
  BY <1>7, <1>8, <1>9, <1>10 DEF BountyInv

\* w holds the lock of its program.
LEMMA GuardedHolds ==
    ASSUME BountyInv, NEW w \in Workers, work[w].pc \in Guarded
    PROVE  work[w].p \in Programs /\ lock[work[w].p] = w /\ work[w].pc \in Placed
BY WorkIs DEF BountyInv, LocksAreHeld, SoundWork, Placed, Holding

LEMMA LookAgainKeeps == ASSUME BountyInv, NEW w \in Workers, LookAgain(w) PROVE BountyInv'
<1>1. work[w].pc = "again" /\ work[w].p \in Programs /\ lock[work[w].p] = w /\ work[w].pc \in Placed
  BY GuardedHolds DEF LookAgain, At, Guarded
<1>2. CASE Fresh(work[w].p, work[w].ages)
  <2>1. Moved(w) /\ work'[w] = Returned(w)
    BY <1>1, <1>2, ReturnedIs, BecomesMoves DEF BountyInv, LookAgain
  <2> QED
    BY <1>1, <1>2, <2>1, ReturnedIs, UnlockStep, ProjectsStay DEF LookAgain, Guarded
<1>3. CASE ~Fresh(work[w].p, work[w].ages)
  <2>1. SoundWork([work[w] EXCEPT !.pc = "fetch"])
    BY <1>1, WorkIs DEF SoundWork, Reconciling, Works
  <2>2. Moved(w) /\ work'[w] = [work[w] EXCEPT !.pc = "fetch"]
    BY <1>3, <2>1, GoesMoves DEF LookAgain, Steps
  <2>3. work'[w].p = work[w].p /\ work'[w].pc = "fetch"
    BY <2>2, WorkIs DEF Works
  <2> QED
    BY <1>1, <1>3, <2>2, <2>3, OwnStep, ProjectsStay DEF LookAgain, Guarded, Holding, Reconciling
<1> QED
  BY <1>2, <1>3

LEMMA FetchScopeKeeps == ASSUME BountyInv, NEW w \in Workers, FetchScope(w) PROVE BountyInv'
<1> DEFINE r == [work[w] EXCEPT !.got = offer[work[w].p], !.pc = "save"]
<1>1. work[w].pc = "fetch" /\ work[w].p \in Programs
  BY GuardedHolds DEF FetchScope, At, Guarded
<1>2. offer[work[w].p] \in [Assets -> Terms]
  BY <1>1 DEF BountyInv, BountyTypeOK
<1>3. /\ r \in Works /\ r.pc = "save" /\ r.p = work[w].p /\ r.targets = work[w].targets
      /\ r.outer = work[w].outer
  BY <1>2, WorkIs, SaveRecord
<1>4. Becomes(w, r)
  BY WorkIs DEF FetchScope, Becomes
<1> HIDE DEF r
<1>5. SoundWork(r)
  BY <1>1, <1>3 DEF SoundWork, Reconciling
<1>6. Moved(w) /\ work'[w] = r
  BY <1>3, <1>4, <1>5, WorkIs, BecomesMoves DEF BountyInv
<1> QED
  BY <1>1, <1>3, <1>6, OwnStep, ProjectsStay DEF FetchScope, Guarded, Holding, Reconciling

LEMMA FetchScopeFailsKeeps == ASSUME BountyInv, NEW w \in Workers, FetchScopeFails(w) PROVE BountyInv'
<1> DEFINE q == Returned(w)
           n == IF work[w].job = "sync" /\ work[w].outer = {} THEN work[w].failed + 1 ELSE work[w].failed
           r == [q EXCEPT !.failed = n]
<1>1. work[w].pc = "fetch" /\ work[w].p \in Programs /\ lock[work[w].p] = w /\ work[w].pc \in Placed
  BY GuardedHolds DEF FetchScopeFails, At, Guarded
<1>2. /\ q \in Works /\ SoundWork(q) /\ q.pc \in {"read", "linked", "view"}
      /\ q.targets \cup q.outer \subseteq Bound /\ q.failed = work[w].failed
  BY <1>1, ReturnedIs
<1>3. r = Failed(w)
  BY <1>2 DEF Failed
<1>4. n \in 0..GiveUpAfter
  <2>1. work[w].failed \in 0..GiveUpAfter /\ GiveUpAfter \in Nat
    BY WorkIs, BountyAssumption DEF Works
  <2>2. work[w].job = "sync" /\ work[w].outer = {} => work[w].failed < GiveUpAfter
    BY <1>1, WorkIs DEF SoundWork
  <2> QED
    BY <2>1, <2>2
<1> HIDE DEF q, n
<1>5. r \in Works /\ r.pc = q.pc /\ r.p = q.p /\ r.targets = q.targets /\ r.outer = q.outer
  BY <1>2, <1>4 DEF Works
<1> HIDE DEF r
<1>6. SoundWork(r)
  BY <1>2, <1>5 DEF SoundWork
<1>7. Moved(w) /\ work'[w] = r
  BY <1>2, <1>3, <1>5, <1>6, BecomesMoves DEF BountyInv, FetchScopeFails
<1> QED
  BY <1>1, <1>2, <1>5, <1>7, UnlockStep, ProjectsStay DEF FetchScopeFails, Guarded

LEMMA GoRecord ==
    ASSUME NEW k \in Works, NEW s \in Steps
    PROVE  LET r == [k EXCEPT !.pc = s] IN
           /\ r \in Works /\ r.pc = s /\ r.p = k.p /\ r.targets = k.targets
           /\ r.outer = k.outer /\ r.job = k.job /\ r.failed = k.failed
BY DEF Works

LEMMA SaveKeeps == ASSUME BountyInv, NEW w \in Workers, Save(w) PROVE BountyInv'
<1> DEFINE r == [work[w] EXCEPT !.pc = "replace"]
<1>1. work[w].pc = "save" /\ work[w].pc \in Guarded /\ work[w].p \in Programs
  BY GuardedHolds DEF Save, At, Guarded
<1>2. /\ r \in Works /\ r.pc = "replace" /\ r.p = work[w].p /\ r.targets = work[w].targets
      /\ r.outer = work[w].outer
  <2>1. work[w] \in Works /\ "replace" \in Steps
    BY WorkIs DEF Steps
  <2> QED
    BY <2>1, GoRecord
<1>3. work' = Outdates(work[w].p, [work EXCEPT ![w] = r])
  BY WorkIs DEF Save
<1> HIDE DEF r
<1>4. SoundWork(r)
  BY <1>1, <1>2 DEF SoundWork, Reconciling
<1>5. Moved(w) /\ work'[w].pc = "replace" /\ work'[w].p = work[w].p
  BY <1>2, <1>3, <1>4, WorkIs, OutdatesMoves
<1>6. work[w].status \in {"none", "live", "unavailable"}
  BY WorkIs DEF Works
<1>7. PICK s \in {work[w].status, "live"} : Detailed(w, s)
  BY DEF Save
<1>8. s \in {"none", "live", "unavailable"} /\ rows' \in [Programs -> [Assets -> Terms]]
  BY <1>6 DEF Save, BountyInv, BountyTypeOK
<1>9. UNCHANGED <<listed, offer, changes, projects, breaks, lock, due>> /\ "replace" \in Guarded
  BY DEF Save, Guarded
<1> QED
  BY <1>1, <1>5, <1>7, <1>8, <1>9, StoreStep

LEMMA ReplaceRecord ==
    ASSUME NEW k \in Works
    PROVE  LET r == [k EXCEPT !.got = NoTerms, !.pc = "targets"] IN
           /\ r \in Works /\ r.pc = "targets" /\ r.p = k.p /\ r.targets = k.targets
           /\ r.outer = k.outer
BY NothingRead DEF Works, Steps

LEMMA ReplaceKeeps == ASSUME BountyInv, NEW w \in Workers, Replace(w) PROVE BountyInv'
<1> DEFINE r == [work[w] EXCEPT !.got = NoTerms, !.pc = "targets"]
<1>1. work[w].pc = "replace" /\ work[w].pc \in Guarded /\ work[w].p \in Programs
  BY GuardedHolds DEF Replace, At, Guarded
<1>2. /\ r \in Works /\ r.pc = "targets" /\ r.p = work[w].p /\ r.targets = work[w].targets
      /\ r.outer = work[w].outer
  BY WorkIs, ReplaceRecord
<1>3. work' = Outdates(work[w].p, [work EXCEPT ![w] = r])
  BY WorkIs DEF Replace
<1> HIDE DEF r
<1>4. SoundWork(r)
  BY <1>1, <1>2 DEF SoundWork, Reconciling
<1>5. Moved(w) /\ work'[w].pc = "targets" /\ work'[w].p = work[w].p
  BY <1>2, <1>3, <1>4, WorkIs, OutdatesMoves
<1>6. prog[work[w].p].status \in {"none", "live", "unavailable"}
  BY <1>1 DEF BountyInv, BountyTypeOK, Details
<1>7. rows' \in [Programs -> [Assets -> Terms]]
  <2>1. rows \in [Programs -> [Assets -> Terms]] /\ work[w].got \in [Assets -> Terms]
    BY WorkIs DEF BountyInv, BountyTypeOK, Works
  <2> QED
    BY <2>1 DEF Replace
<1>8. /\ UNCHANGED <<listed, offer, changes, projects, breaks, lock, due>> /\ "targets" \in Guarded
      /\ Detailed(w, prog[work[w].p].status)
  BY DEF Replace, Guarded
<1> QED
  BY <1>1, <1>5, <1>6, <1>7, <1>8, StoreStep

LEMMA TargetsRecord ==
    ASSUME NEW k \in Works, NEW S \in SUBSET Projects
    PROVE  LET r == [k EXCEPT !.targets = S, !.pc = "get"] IN
           /\ r \in Works /\ r.pc = "get" /\ r.p = k.p /\ r.targets = S /\ r.outer = k.outer
BY DEF Works, Steps

LEMMA SelectTargetsKeeps == ASSUME BountyInv, NEW w \in Workers, SelectTargets(w) PROVE BountyInv'
<1> DEFINE L == Linked(work[w].p)
           r == [work[w] EXCEPT !.targets = L, !.pc = "get"]
<1>1. /\ work[w].pc = "targets" /\ work[w].p \in Programs /\ lock[work[w].p] = w
      /\ work[w].pc \in Placed
  BY GuardedHolds DEF SelectTargets, At, Guarded
<1>2. L \subseteq Bound /\ L \in SUBSET Projects
  BY <1>1 DEF Linked, Bound
<1>3. CASE L = {}
  <2>1. Moved(w) /\ work'[w] = Returned(w)
    BY <1>1, <1>3, ReturnedIs, BecomesMoves DEF BountyInv, SelectTargets
  <2>2. Unlock(w)
    BY <1>3 DEF SelectTargets
  <2> QED
    BY <1>1, <2>1, <2>2, ReturnedIs, UnlockStep, ProjectsStay DEF SelectTargets, Guarded
<1>4. CASE L # {}
  <2>1. Becomes(w, r) /\ lock' = lock
    BY <1>4 DEF SelectTargets
  <2>2. /\ r \in Works /\ r.pc = "get" /\ r.p = work[w].p /\ r.targets = L
        /\ r.outer = work[w].outer
    BY <1>2, WorkIs, TargetsRecord
  <2> HIDE DEF r
  <2>3. SoundWork(r)
    BY <1>1, <1>4, <2>2 DEF SoundWork
  <2>4. Moved(w) /\ work'[w] = r
    BY <1>2, <2>1, <2>2, <2>3, WorkIs, BecomesMoves DEF BountyInv
  <2> QED
    BY <1>1, <2>1, <2>2, <2>4, OwnStep, ProjectsStay DEF SelectTargets, Guarded, Holding, Reconciling
<1> QED
  BY <1>3, <1>4

LEMMA AskRecord ==
    ASSUME NEW k \in Works, NEW x \in {"none", "live", "unavailable"}
    PROVE  LET r == [k EXCEPT !.pc = "lock", !.ages = ReaderAge, !.status = x, !.outer = k.targets] IN
           /\ r \in Works /\ r.pc = "lock" /\ r.p = k.p /\ r.targets = k.targets
           /\ r.outer = k.targets
BY DEF Works, Steps, ReaderAge, Ages

\* Under the lock of a program without a date, its details are young enough to be shown.
LEMMA GetKeeps == ASSUME BountyInv, NEW w \in Workers, Get(w) PROVE BountyInv'
<1> DEFINE k == work[w]
           s == [k EXCEPT !.pc = "read"]
           r == [k EXCEPT !.pc = "lock", !.ages = ReaderAge, !.status = prog[k.p].status,
                          !.outer = k.targets]
<1>1. work[w].pc = "get" /\ work[w].p \in Programs /\ work[w].targets # {}
  BY WorkIs DEF Get, At, Placed, Holding, SoundWork, Reconciling
<1>2. CASE Fresh(k.p, ReaderAge)
  <2>1. Becomes(w, s)
    BY <1>2 DEF Get
  <2>2. /\ s \in Works /\ s.pc = "read" /\ s.p = work[w].p /\ s.targets = work[w].targets
        /\ s.outer = work[w].outer
    <3>1. work[w] \in Works /\ "read" \in Steps
      BY WorkIs DEF Steps
    <3> QED
      BY <3>1, GoRecord
  <2> HIDE DEF s
  <2>3. SoundWork(s)
    BY <1>1, <2>2 DEF SoundWork
  <2>4. Moved(w) /\ work'[w] = s
    BY <2>1, <2>2, <2>3, WorkIs, BecomesMoves DEF BountyInv
  <2> QED
    BY <1>1, <2>2, <2>4, OwnStep, ProjectsStay DEF Get, Guarded, Holding, Reconciling
<1>3. CASE ~Fresh(k.p, ReaderAge)
  <2>1. Becomes(w, r)
    BY <1>3 DEF Get
  <2>2. prog[k.p].status \in {"none", "live", "unavailable"}
    BY <1>1 DEF BountyInv, BountyTypeOK, Details
  <2>3. /\ r \in Works /\ r.pc = "lock" /\ r.p = work[w].p /\ r.targets = work[w].targets
        /\ r.outer = work[w].targets
    <3>1. work[w] \in Works
      BY WorkIs
    <3> QED
      BY <2>2, <3>1, AskRecord
  <2> HIDE DEF r
  <2>4. SoundWork(r)
    BY <1>1, <2>3 DEF SoundWork, Reconciling
  <2>5. Moved(w) /\ work'[w] = r
    BY <2>1, <2>3, <2>4, WorkIs, BecomesMoves DEF BountyInv
  <2>6. Dated \/ \A p \in Programs : lock[p] # w
    <3> SUFFICES ASSUME ~Dated, NEW p \in Programs, lock[p] = w PROVE FALSE
      OBVIOUS
    <3>1. p = k.p
      BY DEF BountyInv, LocksAreHeld
    <3>2. prog[p].age = "fresh" /\ ~prog[p].newer
      BY <1>1 DEF BountyInv, HeldIsFresh, Reconciling
    <3> QED
      BY <1>3, <3>1, <3>2 DEF Fresh, ReaderAge
  <2> QED
    BY <1>1, <2>3, <2>5, <2>6, OwnStep, ProjectsStay DEF Get, Guarded, Holding, Reconciling
<1> QED
  BY <1>2, <1>3

LEMMA ReadRecord ==
    ASSUME NEW k \in Works, NEW c \in [Assets -> Terms]
    PROVE  LET r == [k EXCEPT !.cat = c, !.pc = "have"] IN
           /\ r \in Works /\ r.pc = "have" /\ r.p = k.p /\ r.targets = k.targets
           /\ r.outer = k.outer
BY DEF Works, Steps

LEMMA HaveRecord ==
    ASSUME NEW k \in Works, NEW h \in [Assets -> Imported]
    PROVE  LET r == [k EXCEPT !.have = h, !.pc = "apply"] IN
           /\ r \in Works /\ r.pc = "apply" /\ r.p = k.p /\ r.targets = k.targets
           /\ r.outer = k.outer
BY DEF Works, Steps

LEMMA ReadKeeps == ASSUME BountyInv, NEW w \in Workers, Read(w) PROVE BountyInv'
<1> DEFINE r == [work[w] EXCEPT !.cat = rows[work[w].p], !.pc = "have"]
<1>1. work[w].pc = "read" /\ work[w].p \in Programs /\ work[w].targets # {}
  BY WorkIs DEF Read, At, Placed, Holding, SoundWork, Reconciling
<1>2. rows[work[w].p] \in [Assets -> Terms]
  BY <1>1 DEF BountyInv, BountyTypeOK
<1>3. /\ r \in Works /\ r.pc = "have" /\ r.p = work[w].p /\ r.targets = work[w].targets
      /\ r.outer = work[w].outer
  <2>1. work[w] \in Works
    BY WorkIs
  <2> QED
    BY <1>2, <2>1, ReadRecord
<1>4. Becomes(w, r)
  BY WorkIs DEF Read, Becomes
<1> HIDE DEF r
<1>5. SoundWork(r)
  BY <1>1, <1>3 DEF SoundWork
<1>6. Moved(w) /\ work'[w] = r
  BY <1>3, <1>4, <1>5, WorkIs, BecomesMoves DEF BountyInv
<1> QED
  BY <1>1, <1>3, <1>6, OwnStep, ProjectsStay DEF Read, Guarded, Holding, Reconciling

LEMMA HaveKeeps == ASSUME BountyInv, NEW w \in Workers, Have(w) PROVE BountyInv'
<1> DEFINE t == Pick(work[w].targets)
           r == [work[w] EXCEPT !.have = asset[t], !.pc = "apply"]
<1>1. work[w].pc = "have" /\ work[w].p \in Programs /\ work[w].targets # {}
  BY WorkIs DEF Have, At, Placed, Holding, SoundWork, Reconciling
<1>2. t \in Projects
  BY <1>1, Picked, WorkIs DEF Works
<1>3. asset[t] \in [Assets -> Imported]
  BY <1>2 DEF BountyInv, BountyTypeOK
<1>4. /\ r \in Works /\ r.pc = "apply" /\ r.p = work[w].p /\ r.targets = work[w].targets
      /\ r.outer = work[w].outer
  <2>1. work[w] \in Works
    BY WorkIs
  <2> QED
    BY <1>3, <2>1, HaveRecord
<1>5. Becomes(w, r)
  BY WorkIs DEF Have, Becomes
<1> HIDE DEF r
<1>6. SoundWork(r)
  BY <1>1, <1>4 DEF SoundWork
<1>7. Moved(w) /\ work'[w] = r
  BY <1>4, <1>5, <1>6, WorkIs, BecomesMoves DEF BountyInv
<1> QED
  BY <1>1, <1>4, <1>7, OwnStep, ProjectsStay DEF Have, Guarded, Holding, Reconciling

LEMMA NextRecord ==
    ASSUME NEW k \in Works, NEW S \in SUBSET Projects
    PROVE  LET b == [k EXCEPT !.targets = S, !.cat = NoTerms, !.have = Idle.have] IN
           /\ b \in Works /\ b.p = k.p /\ b.targets = S /\ b.outer = k.outer
BY NothingRead DEF Works, Steps

LEMMA AfterRecords ==
    ASSUME NEW b \in Works
    PROVE  LET r == [b EXCEPT !.p = NoProgram, !.pc = "missed"] IN
           /\ r \in Works /\ r.pc = "missed" /\ r.targets = b.targets /\ r.outer = b.outer
BY DEF Works, Steps

\* The end of a project's reconciliation.
LEMMA LeaveKeeps ==
    ASSUME BountyInv, NEW w \in Workers, work[w].pc \in Reconciling, Leave(w), ProjectsKept,
           UNCHANGED <<platform, catalogue, breaks, due>>
    PROVE  BountyInv'
<1> DEFINE S == work[w].targets \ {Pick(work[w].targets)}
           b == [work[w] EXCEPT !.targets = S, !.cat = NoTerms, !.have = Idle.have]
           next == [b EXCEPT !.pc = "get"]
           done == [b EXCEPT !.p = NoProgram, !.pc = "missed"]
<1>1. /\ work[w] \in Works /\ SoundWork(work[w]) /\ work[w].p \in Programs
      /\ work[w].pc \in Placed /\ Pick(work[w].targets) \in work[w].targets
  BY WorkIs, Picked DEF SoundWork, Placed, Holding
<1>2. S \subseteq Bound /\ S \in SUBSET Projects
  BY WorkIs DEF Bound
<1>3. Reconciled(w) = IF S # {} THEN next ELSE IF lock[work[w].p] = w THEN Returned(w) ELSE done
  <2>1. b = [work[w] EXCEPT !.targets = @ \ {Pick(@)}, !.cat = NoTerms, !.have = Idle.have]
    BY <1>1 DEF Works
  <2>2. b.targets = S
    BY <1>1, <1>2, NextRecord
  <2> QED
    BY <2>1, <2>2 DEF Reconciled
<1>4. /\ b \in Works /\ b.p = work[w].p /\ b.targets = S /\ b.outer = work[w].outer
  BY <1>1, <1>2, NextRecord
<1> HIDE DEF b
<1>5. CASE S # {}
  <2>1. Becomes(w, next) /\ lock' = lock
    BY <1>1, <1>3, <1>5 DEF Leave
  <2>2. /\ next \in Works /\ next.pc = "get" /\ next.p = work[w].p /\ next.targets = S
        /\ next.outer = work[w].outer
    BY <1>4, GoRecord DEF Steps
  <2> HIDE DEF next
  <2>3. SoundWork(next)
    BY <1>1, <1>5, <2>2 DEF SoundWork
  <2>4. Moved(w) /\ work'[w] = next
    BY <1>2, <2>1, <2>2, <2>3, WorkIs, BecomesMoves DEF BountyInv
  <2> QED
    BY <2>1, <2>2, <2>4, OwnStep DEF Guarded, Holding, Reconciling
<1>6. CASE S = {} /\ lock[work[w].p] = w
  <2>1. Becomes(w, Returned(w)) /\ Unlock(w)
    BY <1>1, <1>3, <1>6 DEF Leave
  <2>2. Moved(w) /\ work'[w] = Returned(w)
    BY <1>1, <2>1, ReturnedIs, BecomesMoves DEF BountyInv
  <2> QED
    BY <1>1, <1>6, <2>1, <2>2, ReturnedIs, UnlockStep DEF Guarded
<1>7. CASE S = {} /\ lock[work[w].p] # w
  <2>1. Becomes(w, done) /\ lock' = lock
    BY <1>1, <1>3, <1>7 DEF Leave
  <2>2. /\ done \in Works /\ done.pc = "missed" /\ done.targets = {} /\ done.outer = work[w].outer
    BY <1>4, <1>7, AfterRecords
  <2> HIDE DEF done
  <2>3. SoundWork(done)
    BY <2>2 DEF SoundWork, Placed, Holding, Guarded, Reconciling
  <2>4. Moved(w) /\ work'[w] = done
    BY <2>1, <2>2, <2>3, WorkIs, BecomesMoves DEF BountyInv
  <2>5. \A p \in Programs : lock[p] # w
    BY <1>7 DEF BountyInv, LocksAreHeld
  <2> QED
    BY <2>1, <2>2, <2>4, <2>5, OwnStep DEF Guarded
<1> QED
  BY <1>5, <1>6, <1>7

LEMMA ApplyKeeps == ASSUME BountyInv, NEW w \in Workers, Apply(w) PROVE BountyInv'
<1> DEFINE k == work[w]
           t == Pick(k.targets)
           new == (Added(k) \X {"added"}) \cup (Modified(k) \X {"modified"})
           s == [k EXCEPT !.pc = "tell"]
<1>1. /\ k.pc = "apply" /\ k.p \in Programs /\ k.targets # {} /\ k.pc \in Reconciling
      /\ k \in Works /\ SoundWork(k) /\ k.targets \cup k.outer \subseteq Bound
  BY WorkIs DEF Apply, At, Placed, Holding, SoundWork, Reconciling
<1>2. t \in Bound /\ t \in Projects
  BY <1>1, Picked DEF Bound
<1>3. new \subseteq Assets \X Kinds
  BY DEF Added, Modified, Live, Kinds
<1> HIDE DEF new
<1>4. /\ asset \in [Projects -> [Assets -> Imported]]
      /\ events \in [Projects -> SUBSET (Assets \X Kinds)]
      /\ link \in [Projects -> Programs \cup {NoProgram}]
      /\ \A x \in Projects : events[x] # {} => x \in Bound
  BY DEF BountyInv, BountyTypeOK, ReachesBound
<1>5. events' = [events EXCEPT ![t] = @ \cup new]
  <2>1. events' = [events EXCEPT ![t] =
                      @ \cup (Added(k) \X {"added"}) \cup (Modified(k) \X {"modified"})]
    BY DEF Apply
  <2> QED
    BY <1>2, <1>4, <2>1 DEF new
<1>6. /\ events' \in [Projects -> SUBSET (Assets \X Kinds)]
      /\ \A x \in Projects : events'[x] # {} => x \in Bound
  BY <1>2, <1>3, <1>4, <1>5
<1>7. asset' \in [Projects -> [Assets -> Imported]]
  <2> DEFINE next == [a \in Assets |->
                          IF a \in Removed(k) /\ asset[t][a].status # "none"
                          THEN [asset[t][a] EXCEPT !.status = "suspended"] ELSE asset[t][a]]
  <2>1. \A i \in Imported : [i EXCEPT !.status = "suspended"] \in Imported
    BY DEF Imported
  <2>2. next \in [Assets -> Imported]
    BY <1>2, <1>4, <2>1
  <2>3. asset' = [asset EXCEPT ![t] = next]
    BY <1>2, <1>4 DEF Apply
  <2> HIDE DEF next
  <2> QED
    BY <1>4, <2>2, <2>3
<1>8. ProjectsKept
  BY <1>4, <1>6, <1>7 DEF ProjectsKept, Apply, Bound
<1>9. CASE Removed(k) = {}
  BY <1>1, <1>8, <1>9, LeaveKeeps DEF Apply
<1>10. CASE Removed(k) # {}
  <2>1. Goes(w, "tell") /\ lock' = lock
    BY <1>10 DEF Apply
  <2>2. /\ s \in Works /\ s.pc = "tell" /\ s.p = k.p /\ s.targets = k.targets
    BY <1>1, GoRecord DEF Steps
  <2>3. SoundWork(s)
    BY <1>1, <2>2 DEF SoundWork
  <2>4. Moved(w) /\ work'[w] = s
    BY <2>1, <2>3, GoesMoves DEF Steps
  <2> QED
    BY <1>1, <1>8, <2>1, <2>2, <2>4, OwnStep DEF Apply, Guarded, Holding, Reconciling
<1> QED
  BY <1>9, <1>10

LEMMA TellKeeps == ASSUME BountyInv, NEW w \in Workers, Tell(w) PROVE BountyInv'
<1> DEFINE k == work[w]
           t == Pick(k.targets)
           new == Removed(k) \X {"removed"}
<1>1. k.targets # {} /\ k.pc \in Reconciling /\ k.targets \subseteq Bound
  BY WorkIs DEF Tell, At, SoundWork, Reconciling
<1>2. t \in Bound /\ t \in Projects
  BY <1>1, Picked DEF Bound
<1>3. new \subseteq Assets \X Kinds
  BY DEF Removed, Kinds
<1>4. /\ asset \in [Projects -> [Assets -> Imported]]
      /\ events \in [Projects -> SUBSET (Assets \X Kinds)]
      /\ link \in [Projects -> Programs \cup {NoProgram}]
      /\ \A x \in Projects : events[x] # {} => x \in Bound
  BY DEF BountyInv, BountyTypeOK, ReachesBound
<1>5. events' = [events EXCEPT ![t] = @ \cup new]
  BY DEF Tell
<1> HIDE DEF new
<1>6. /\ events' \in [Projects -> SUBSET (Assets \X Kinds)]
      /\ \A x \in Projects : events'[x] # {} => x \in Bound
  BY <1>2, <1>3, <1>4, <1>5
<1>7. ProjectsKept
  BY <1>4, <1>6 DEF ProjectsKept, Tell, Bound
<1> QED
  BY <1>1, <1>7, LeaveKeeps DEF Tell

--------------------------------------------------------------------------------
(* The pass, which holds no lock outside ensureDetails, and the requests. *)
AtLarge == {"idle", "list", "upsert", "missed", "linked", "view", "create"}

LEMMA AtLargeIsSound ==
    /\ \A k \in Works : k.pc \in AtLarge \ {"view", "create"} => SoundWork(k)
    /\ AtLarge \cap (Guarded \cup Holding) = {}
BY DEF AtLarge, SoundWork, Placed, Holding, Guarded, Reconciling

\* A step of w from where it holds no lock, to a record r that needs none.
LEMMA LargeStep ==
    ASSUME BountyInv, NEW w \in Workers, work[w].pc \in AtLarge,
           NEW r \in Works, Becomes(w, r), SoundWork(r), r.pc \notin Guarded,
           r.targets \cup r.outer \subseteq Bound,
           UNCHANGED <<platform, breaks, lock>>, ProjectsKept, due' \in BOOLEAN,
           prog' \in [Programs -> Details], rows' \in [Programs -> [Assets -> Terms]],
           \A p \in Programs : /\ prog'[p].age = prog[p].age
                               /\ ~Dated => prog'[p].newer = prog[p].newer
    PROVE  BountyInv'
<1>1. Moved(w) /\ work'[w] = r
  BY BecomesMoves DEF BountyInv
<1>2. \A p \in Programs : lock[p] # w
  BY FreeHanded, AtLargeIsSound
<1> QED
  BY <1>1, <1>2, FreeStep

LEMMA CatalogueStays ==
    ASSUME BountyInv, UNCHANGED catalogue
    PROVE  /\ prog' \in [Programs -> Details] /\ rows' \in [Programs -> [Assets -> Terms]]
           /\ \A p \in Programs : prog'[p].age = prog[p].age /\ prog'[p].newer = prog[p].newer
BY DEF catalogue, BountyInv, BountyTypeOK

LEMMA BeginRecord ==
    LET r == [Idle EXCEPT !.pc = "list", !.job = "sync"] IN
    r \in Works /\ r.pc = "list" /\ r.targets = {} /\ r.outer = {}
<1>1. Idle \in Works /\ Idle.targets = {} /\ Idle.outer = {}
  BY IdleIsWork DEF Idle
<1> HIDE DEF Idle
<1> QED
  BY <1>1 DEF Works, Steps

LEMMA BeginPassKeeps == ASSUME BountyInv, NEW force \in BOOLEAN, BeginPass(force) PROVE BountyInv'
<1> DEFINE r == [Idle EXCEPT !.pc = "list", !.job = "sync"]
<1>1. work[Sync].pc \in AtLarge /\ Becomes(Sync, r) /\ due' \in BOOLEAN
  BY DEF BeginPass, At, AtLarge, BountyInv, BountyTypeOK
<1>2. r \in Works /\ r.pc = "list" /\ r.targets = {} /\ r.outer = {}
  BY BeginRecord
<1> HIDE DEF r
<1>3. SoundWork(r) /\ r.pc \notin Guarded
  BY <1>2, AtLargeIsSound DEF AtLarge
<1> QED
  BY <1>1, <1>2, <1>3, SyncWorks, CatalogueStays, ProjectsStay, LargeStep DEF BeginPass

LEMMA EndPassKeeps ==
    ASSUME BountyInv, EndPass, work[Sync].pc \in AtLarge PROVE BountyInv'
<1>1. /\ Becomes(Sync, Idle) /\ due' \in BOOLEAN /\ Idle \in Works /\ SoundWork(Idle)
      /\ Idle.pc \notin Guarded /\ Idle.targets \cup Idle.outer \subseteq Bound
  BY IdleIsWork DEF EndPass, Idle, Guarded
<1> QED
  BY <1>1, SyncWorks, CatalogueStays, ProjectsStay, LargeStep DEF EndPass

LEMMA ListKeeps == ASSUME BountyInv, List PROVE BountyInv'
<1> DEFINE S == {p \in Programs : listed[p]}
           N == {p \in S : dirty[p]}
           r == [work[Sync] EXCEPT !.pc = "upsert", !.seen = S, !.todo = S, !.news = N]
<1>1. work[Sync].pc \in AtLarge /\ due' \in BOOLEAN
  BY DEF List, At, AtLarge, BountyInv, BountyTypeOK
<1>2. Becomes(Sync, r)
  BY SyncWorks, WorkIs DEF List, Becomes
<1>3. S \in SUBSET Programs /\ N \in SUBSET Programs /\ work[Sync] \in Works
  BY SyncWorks, WorkIs
<1> HIDE DEF S, N
<1>4. r \in Works /\ r.pc = "upsert" /\ r.targets = work[Sync].targets /\ r.outer = work[Sync].outer
  BY <1>3 DEF Works, Steps
<1> HIDE DEF r
<1>5. SoundWork(r) /\ r.pc \notin Guarded /\ r.targets \cup r.outer \subseteq Bound
  BY <1>4, AtLargeIsSound, SyncWorks, WorkIs DEF AtLarge
<1> QED
  BY <1>1, <1>2, <1>4, <1>5, SyncWorks, CatalogueStays, ProjectsStay, LargeStep DEF List

LEMMA UpsertRecord ==
    ASSUME NEW k \in Works, NEW p
    PROVE  LET r == [k EXCEPT !.todo = @ \ {p}, !.news = @ \ {p}] IN
           r \in Works /\ r.pc = k.pc /\ r.targets = k.targets /\ r.outer = k.outer
BY DEF Works

LEMMA Chosen ==
    ASSUME NEW c \in BOOLEAN, NEW S, NEW x, NEW z \in BOOLEAN,
           NEW y, y = IF c THEN x \in S ELSE z
    PROVE  y \in BOOLEAN /\ (~c => y = z)
<1>1. CASE c /\ x \in S
  BY <1>1
<1>2. CASE c /\ x \notin S
  BY <1>2
<1>3. CASE ~c
  BY <1>3
<1> QED
  BY <1>1, <1>2, <1>3

LEMMA UpsertDetails ==
    ASSUME NEW d \in Details, NEW newer \in BOOLEAN
    PROVE  LET e == [d EXCEPT !.status = "live", !.newer = newer] IN
           e \in Details /\ e.age = d.age /\ e.newer = newer
BY DEF Details

LEMMA UpsertKeeps == ASSUME BountyInv, Upsert PROVE BountyInv'
<1>1. PICK p \in work[Sync].todo :
         /\ prog' = [prog EXCEPT ![p].status = "live",
                                 ![p].newer = IF Dated THEN p \in work[Sync].news ELSE @]
         /\ work' = [work EXCEPT ![Sync].todo = @ \ {p}, ![Sync].news = @ \ {p}]
  BY DEF Upsert
<1> DEFINE r == [work[Sync] EXCEPT !.todo = @ \ {p}, !.news = @ \ {p}]
           d == [prog[p] EXCEPT !.status = "live", !.newer = IF Dated THEN p \in work[Sync].news ELSE @]
<1>2. work[Sync].pc = "upsert" /\ due' \in BOOLEAN /\ work[Sync] \in Works
  BY SyncWorks, WorkIs DEF Upsert, At, BountyInv, BountyTypeOK
<1>3. p \in Programs
  BY <1>2 DEF Works
<1>4. Becomes(Sync, r)
  BY <1>1, <1>2, SyncWorks, WorkIs DEF Becomes
<1>5. r \in Works /\ r.pc = "upsert" /\ r.targets = work[Sync].targets /\ r.outer = work[Sync].outer
  BY <1>2, UpsertRecord
<1> HIDE DEF r
<1>6. SoundWork(r) /\ r.pc \notin Guarded /\ r.targets \cup r.outer \subseteq Bound
  BY <1>5, AtLargeIsSound, SyncWorks, WorkIs DEF AtLarge
<1>7. prog \in [Programs -> Details] /\ rows' \in [Programs -> [Assets -> Terms]]
  BY DEF BountyInv, BountyTypeOK, Upsert
<1>8. d \in Details /\ d.age = prog[p].age /\ (~Dated => d.newer = prog[p].newer)
  <2> DEFINE y == IF Dated THEN p \in work[Sync].news ELSE prog[p].newer
  <2>1. prog[p] \in Details
    BY <1>3, <1>7
  <2>2. y \in BOOLEAN /\ (~Dated => y = prog[p].newer)
    <3>1. prog[p].newer \in BOOLEAN
      BY <2>1 DEF Details
    <3> QED
      BY <3>1, BountyAssumption, Chosen
  <2>3. d = [prog[p] EXCEPT !.status = "live", !.newer = y]
    OBVIOUS
  <2> HIDE DEF d, y
  <2> QED
    BY <2>1, <2>2, <2>3, UpsertDetails
<1>9. prog' = [prog EXCEPT ![p] = d]
  BY <1>1, <1>3, <1>7
<1> HIDE DEF d
<1>10. /\ prog' \in [Programs -> Details]
       /\ \A x \in Programs : /\ prog'[x].age = prog[x].age
                              /\ ~Dated => prog'[x].newer = prog[x].newer
  BY <1>7, <1>8, <1>9
<1>11. UNCHANGED <<platform, breaks, lock>> /\ ProjectsKept
  BY ProjectsStay DEF Upsert
<1>12. work[Sync].pc \in AtLarge
  BY <1>2 DEF AtLarge
<1> QED
  BY <1>2, <1>4, <1>5, <1>6, <1>7, <1>10, <1>11, <1>12, SyncWorks, LargeStep

LEMMA MissingRecord ==
    ASSUME NEW k \in Works, NEW S \in SUBSET Programs
    PROVE  LET r == [k EXCEPT !.pc = "missed", !.todo = S, !.seen = {}] IN
           r \in Works /\ r.pc = "missed" /\ r.targets = k.targets /\ r.outer = k.outer
BY DEF Works, Steps

LEMMA MarkMissingKeeps == ASSUME BountyInv, MarkMissing PROVE BountyInv'
<1> DEFINE gone == {p \in Programs : prog[p].status = "live" /\ p \notin work[Sync].seen}
           r == [work[Sync] EXCEPT !.pc = "missed", !.todo = gone, !.seen = {}]
           D(d) == [d EXCEPT !.status = "unavailable"]
           T(m) == [m EXCEPT !.live = FALSE]
<1>1. work[Sync].pc \in AtLarge /\ due' \in BOOLEAN /\ work[Sync] \in Works
  BY SyncWorks, WorkIs DEF MarkMissing, At, AtLarge, BountyInv, BountyTypeOK
<1>2. Becomes(Sync, r)
  BY SyncWorks, WorkIs DEF MarkMissing, Becomes
<1>3. r \in Works /\ r.pc = "missed" /\ r.targets = work[Sync].targets /\ r.outer = work[Sync].outer
  BY <1>1, MissingRecord
<1>4. prog \in [Programs -> Details] /\ rows \in [Programs -> [Assets -> Terms]]
  BY DEF BountyInv, BountyTypeOK
<1>5. prog' = [p \in Programs |-> IF p \in gone THEN D(prog[p]) ELSE prog[p]]
  BY DEF MarkMissing
<1>6. rows' = [p \in Programs |-> IF p \in gone THEN [a \in Assets |-> T(rows[p][a])] ELSE rows[p]]
  BY DEF MarkMissing
<1>7. /\ \A d \in Details : D(d) \in Details /\ D(d).age = d.age /\ D(d).newer = d.newer
      /\ \A m \in Terms : T(m) \in Terms
  BY DEF Details, Terms
<1> HIDE DEF r, gone, D, T
<1>8. SoundWork(r) /\ r.pc \notin Guarded /\ r.targets \cup r.outer \subseteq Bound
  BY <1>3, AtLargeIsSound, SyncWorks, WorkIs DEF AtLarge
<1>9. /\ prog' \in [Programs -> Details]
      /\ \A p \in Programs : prog'[p].age = prog[p].age /\ prog'[p].newer = prog[p].newer
  BY <1>4, <1>5, <1>7
<1>10. rows' \in [Programs -> [Assets -> Terms]]
  BY <1>4, <1>6, <1>7
<1>11. UNCHANGED <<platform, breaks, lock>> /\ ProjectsKept
  BY ProjectsStay DEF MarkMissing
<1> QED
  BY <1>1, <1>2, <1>3, <1>8, <1>9, <1>10, <1>11, SyncWorks, LargeStep

\* The projects of a program that is no longer listed.
LEMMA ReconcileMissingKeeps == ASSUME BountyInv, ReconcileMissing PROVE BountyInv'
<1>1. PICK p \in work[Sync].todo :
        Becomes(Sync, [work[Sync] EXCEPT !.todo = @ \ {p},
                               !.p = IF Linked(p) = {} THEN NoProgram ELSE p,
                               !.targets = Linked(p),
                               !.pc = IF Linked(p) = {} THEN "missed" ELSE "get"])
  BY DEF ReconcileMissing
<1> DEFINE q == IF Linked(p) = {} THEN NoProgram ELSE p
           s == IF Linked(p) = {} THEN "missed" ELSE "get"
           T == Linked(p)
           r == [work[Sync] EXCEPT !.todo = @ \ {p}, !.p = q, !.targets = T, !.pc = s]
<1>2. work[Sync].pc \in AtLarge /\ due' \in BOOLEAN /\ work[Sync] \in Works
  BY SyncWorks, WorkIs DEF ReconcileMissing, At, AtLarge, BountyInv, BountyTypeOK
<1>3. p \in Programs
  BY <1>2 DEF Works
<1>4. Becomes(Sync, r)
  BY <1>1
<1>5. /\ q \in Programs \cup {NoProgram} /\ T \in SUBSET Projects /\ s \in {"missed", "get"}
      /\ T \subseteq Bound /\ (s = "get" => q \in Programs /\ T # {})
  BY <1>3 DEF Linked, Bound
<1> HIDE DEF q, s, T
<1>6. r \in Works /\ r.pc = s /\ r.p = q /\ r.targets = T /\ r.outer = work[Sync].outer
  BY <1>2, <1>5 DEF Works, Steps
<1> HIDE DEF r
<1>7. SoundWork(r)
  BY <1>5, <1>6 DEF SoundWork, Placed, Holding, Guarded, Reconciling
<1>8. r.pc \notin Guarded /\ r.targets \cup r.outer \subseteq Bound
  BY <1>5, <1>6, SyncWorks, WorkIs DEF Guarded
<1> QED
  BY <1>2, <1>4, <1>6, <1>7, <1>8, SyncWorks, CatalogueStays, ProjectsStay, LargeStep
     DEF ReconcileMissing

LEMMA SelectLinkedKeeps == ASSUME BountyInv, SelectLinked PROVE BountyInv'
<1> DEFINE S == {p \in Programs : Linked(p) # {}}
           r == [work[Sync] EXCEPT !.pc = "linked", !.todo = S]
<1>1. work[Sync].pc \in AtLarge /\ due' \in BOOLEAN /\ work[Sync] \in Works
  BY SyncWorks, WorkIs DEF SelectLinked, At, AtLarge, BountyInv, BountyTypeOK
<1>2. Becomes(Sync, r)
  BY SyncWorks, WorkIs DEF SelectLinked, Becomes
<1>3. S \in SUBSET Programs
  OBVIOUS
<1> HIDE DEF S
<1>4. r \in Works /\ r.pc = "linked" /\ r.targets = work[Sync].targets /\ r.outer = work[Sync].outer
  BY <1>1, <1>3 DEF Works, Steps
<1> HIDE DEF r
<1>5. SoundWork(r) /\ r.pc \notin Guarded /\ r.targets \cup r.outer \subseteq Bound
  BY <1>4, AtLargeIsSound, SyncWorks, WorkIs DEF AtLarge
<1> QED
  BY <1>1, <1>2, <1>4, <1>5, SyncWorks, CatalogueStays, ProjectsStay, LargeStep DEF SelectLinked

\* A refresh begins only while fewer have failed than end it, so its failure counts.
LEMMA LookRecord ==
    ASSUME NEW k \in Works, NEW p \in Programs
    PROVE  LET r == [k EXCEPT !.todo = @ \ {p}, !.p = p, !.ages = LinkedAge, !.pc = "look"] IN
           /\ r \in Works /\ r.pc = "look" /\ r.p = p /\ r.targets = k.targets
           /\ r.outer = k.outer /\ r.failed = k.failed
BY DEF Works, Steps, LinkedAge, Ages

LEMMA RefreshLinkedKeeps == ASSUME BountyInv, RefreshLinked PROVE BountyInv'
<1> DEFINE p == Pick(work[Sync].todo)
           r == [work[Sync] EXCEPT !.todo = @ \ {p}, !.p = p, !.ages = LinkedAge, !.pc = "look"]
<1>1. work[Sync].pc \in AtLarge /\ due' \in BOOLEAN /\ work[Sync] \in Works
  BY SyncWorks, WorkIs DEF RefreshLinked, At, AtLarge, BountyInv, BountyTypeOK
<1>2. Becomes(Sync, r)
  BY DEF RefreshLinked
<1>3. p \in Programs /\ work[Sync].failed < GiveUpAfter
  BY <1>1, Picked DEF RefreshLinked, Works
<1> HIDE DEF p
<1>4. /\ r \in Works /\ r.pc = "look" /\ r.p = p /\ r.targets = work[Sync].targets
      /\ r.outer = work[Sync].outer /\ r.failed = work[Sync].failed
  BY <1>1, <1>3, LookRecord
<1> HIDE DEF r
<1>5. SoundWork(r)
  BY <1>3, <1>4 DEF SoundWork, Reconciling
<1>6. r.pc \notin Guarded /\ r.targets \cup r.outer \subseteq Bound
  BY <1>4, SyncWorks, WorkIs DEF Guarded
<1> QED
  BY <1>1, <1>2, <1>4, <1>5, <1>6, SyncWorks, CatalogueStays, ProjectsStay, LargeStep
     DEF RefreshLinked

LEMMA PassStepKeeps == ASSUME BountyInv, PassStep \/ ListFails PROVE BountyInv'
<1>1. CASE PassEnds \/ ListFails
  BY <1>1, EndPassKeeps DEF PassEnds, ListFails, At, AtLarge
<1>2. CASE ~PassEnds /\ ~ListFails
  BY <1>2, ListKeeps, UpsertKeeps, MarkMissingKeeps, ReconcileMissingKeeps, SelectLinkedKeeps,
     RefreshLinkedKeeps DEF PassStep
<1> QED
  BY <1>1, <1>2

LEMMA OpenRecord ==
    ASSUME NEW p \in Programs
    PROVE  LET r == [Idle EXCEPT !.pc = "look", !.job = "open", !.p = p, !.ages = ReaderAge] IN
           r \in Works /\ r.pc = "look" /\ r.p = p /\ r.targets = {} /\ r.outer = {} /\ r.job = "open"
<1>1. Idle \in Works /\ Idle.targets = {} /\ Idle.outer = {}
  BY IdleIsWork DEF Idle
<1> HIDE DEF Idle
<1> QED
  BY <1>1 DEF Works, Steps, ReaderAge, Ages

LEMMA OpenKeeps ==
    ASSUME BountyInv, NEW w \in Readers, NEW p \in Programs, Open(w, p) PROVE BountyInv'
<1> DEFINE r == [Idle EXCEPT !.pc = "look", !.job = "open", !.p = p, !.ages = ReaderAge]
<1>1. work[w].pc \in AtLarge /\ Becomes(w, r) /\ due' \in BOOLEAN
  BY DEF Open, At, AtLarge, BountyInv, BountyTypeOK
<1>2. r \in Works /\ r.pc = "look" /\ r.p = p /\ r.targets = {} /\ r.outer = {} /\ r.job = "open"
  BY OpenRecord
<1> HIDE DEF r
<1>3. SoundWork(r) /\ r.pc \notin Guarded
  BY <1>2 DEF SoundWork, Reconciling, Guarded
<1> QED
  BY <1>1, <1>2, <1>3, SyncWorks, CatalogueStays, ProjectsStay, LargeStep DEF Open

LEMMA ViewRecord ==
    ASSUME NEW k \in Works, NEW c \in [Assets -> Terms]
    PROVE  LET r == [k EXCEPT !.cat = c, !.pc = "create"] IN
           r \in Works /\ r.pc = "create" /\ r.p = k.p /\ r.targets = k.targets /\ r.outer = k.outer
BY DEF Works, Steps

LEMMA ViewKeeps == ASSUME BountyInv, NEW w \in Readers, View(w) PROVE BountyInv'
<1> DEFINE c == rows[work[w].p]
           r == [work[w] EXCEPT !.cat = c, !.pc = "create"]
<1>1. /\ w \in Workers /\ work[w] \in Works /\ SoundWork(work[w]) /\ work[w].pc = "view"
      /\ work[w].targets \cup work[w].outer \subseteq Bound
  BY SyncWorks, WorkIs DEF View, At
<1>2. work[w].pc \in AtLarge /\ due' \in BOOLEAN /\ work[w].p \in Programs
  BY <1>1 DEF View, AtLarge, BountyInv, BountyTypeOK, SoundWork, Placed
<1>3. Becomes(w, r)
  BY <1>1, WorkIs DEF View, Becomes
<1>4. c \in [Assets -> Terms]
  BY <1>2 DEF BountyInv, BountyTypeOK
<1> HIDE DEF c
<1>5. r \in Works /\ r.pc = "create" /\ r.p = work[w].p /\ r.targets = work[w].targets /\ r.outer = work[w].outer
  BY <1>1, <1>4, ViewRecord
<1> HIDE DEF r
<1>6. SoundWork(r) /\ r.pc \notin Guarded /\ r.targets \cup r.outer \subseteq Bound
  BY <1>1, <1>2, <1>5 DEF SoundWork, Reconciling, Guarded
<1> QED
  BY <1>1, <1>2, <1>3, <1>5, <1>6, CatalogueStays, ProjectsStay, LargeStep DEF View

LEMMA LeavesKeeps == ASSUME BountyInv, NEW w \in Readers, Leaves(w) PROVE BountyInv'
<1>1. /\ Becomes(w, Idle) /\ due' \in BOOLEAN /\ Idle \in Works /\ SoundWork(Idle) /\ w \in Workers
      /\ Idle.pc \notin Guarded /\ Idle.targets \cup Idle.outer \subseteq Bound
      /\ work[w].pc \in AtLarge
  BY IdleIsWork, SyncWorks DEF Leaves, Idle, Guarded, At, AtLarge, BountyInv, BountyTypeOK
<1> QED
  BY <1>1, CatalogueStays, ProjectsStay, LargeStep DEF Leaves

\* A project is linked to the program that its request was opened for.
LEMMA CreateKeeps == ASSUME BountyInv, NEW w \in Readers, Create(w) PROVE BountyInv'
<1>1. PICK t \in Linked(NoProgram), chosen \in SUBSET Live(work[w].cat) :
         /\ link' = [link EXCEPT ![t] = work[w].p]
         /\ asset' = [asset EXCEPT ![t] = [a \in Assets |-> IF a \in chosen
                        THEN [status |-> "approved", edition |-> work[w].cat[a].edition]
                        ELSE NotImported]]
  BY DEF Create
<1> DEFINE new == [a \in Assets |-> IF a \in chosen
                     THEN [status |-> "approved", edition |-> work[w].cat[a].edition]
                     ELSE NotImported]
<1>2. /\ w \in Workers /\ work[w] \in Works /\ SoundWork(work[w]) /\ work[w].pc = "create"
      /\ work[w].pc \in AtLarge /\ work[w].p \in Programs
  BY SyncWorks, WorkIs DEF Create, At, AtLarge, SoundWork, Placed
<1>3. /\ link \in [Projects -> Programs \cup {NoProgram}] /\ asset \in [Projects -> [Assets -> Imported]]
      /\ events' \in [Projects -> SUBSET (Assets \X Kinds)]
      /\ \A x \in Projects : events'[x] # {} => x \in Bound
      /\ due' \in BOOLEAN /\ t \in Projects
  BY DEF BountyInv, BountyTypeOK, ReachesBound, Create, Linked
<1>4. new \in [Assets -> Imported]
  <2>1. \A a \in Assets : work[w].cat[a].edition \in Editions
    BY <1>2 DEF Works, Terms
  <2>2. \A e \in Editions : [status |-> "approved", edition |-> e] \in Imported
    BY DEF Imported
  <2>3. NotImported \in Imported
    BY BountyAssumption DEF NotImported, Imported, Editions
  <2> QED
    BY <2>1, <2>2, <2>3
<1> HIDE DEF new
<1>5. asset' = [asset EXCEPT ![t] = new]
  BY <1>1 DEF new
<1>6. /\ link' \in [Projects -> Programs \cup {NoProgram}] /\ asset' \in [Projects -> [Assets -> Imported]]
      /\ Bound \subseteq Bound'
  BY <1>1, <1>2, <1>3, <1>4, <1>5 DEF Bound
<1>7. ProjectsKept
  BY <1>3, <1>6 DEF ProjectsKept
<1>8. /\ Becomes(w, Idle) /\ Idle \in Works /\ SoundWork(Idle)
      /\ Idle.pc \notin Guarded /\ Idle.targets \cup Idle.outer \subseteq Bound
  BY IdleIsWork DEF Create, Idle, Guarded
<1> QED
  BY <1>2, <1>3, <1>7, <1>8, CatalogueStays, LargeStep DEF Create

--------------------------------------------------------------------------------
(* The steps that no goroutine takes. *)

\* The goroutines and the locks are as they were, and so is what they look at.
LEMMA WorkStays ==
    ASSUME BountyInv, UNCHANGED <<work, lock, link>>, BountyTypeOK',
           \A t \in Projects : events'[t] # {} => events[t] # {},
           ~Dated => \A p \in Programs : /\ prog'[p].newer = prog[p].newer
                                         /\ lock[p] # Nobody => prog'[p].age = prog[p].age
    PROVE  BountyInv'
<1>1. WorkIsSound' /\ ReachesBound' /\ LocksAreHeld'
  BY DEF BountyInv, WorkIsSound, ReachesBound, LocksAreHeld, Bound
<1>2. ASSUME ~Dated PROVE HeldIsFresh'
  <2>1. HeldIsFresh /\ Nobody \notin Workers
    BY <1>2, BountyAssumption DEF BountyInv
  <2>2. \A p \in Programs : ~prog'[p].newer
    BY <1>2, <2>1 DEF HeldIsFresh
  <2>3. ASSUME NEW p \in Programs, NEW v \in Workers, lock'[p] = v
        PROVE  /\ work'[v].pc # "lock"
               /\ work'[v].pc \in Reconciling \cup {"targets"} => prog'[p].age = "fresh"
    BY <1>2, <2>1, <2>3 DEF HeldIsFresh
  <2> QED
    BY <2>2, <2>3 DEF HeldIsFresh
<1> QED
  BY <1>1, <1>2 DEF BountyInv

LEMMA PlatformKeeps == ASSUME BountyInv, PlatformStep PROVE BountyInv'
<1> USE DEF catalogue, projects, Others
<1>1. PICK p \in Programs : Relist(p) \/ \E a \in Assets : Toggle(p, a) \/ Revise(p, a)
  BY DEF PlatformStep
<1>2. /\ listed \in [Programs -> BOOLEAN] /\ offer \in [Programs -> [Assets -> Terms]]
      /\ dirty \in [Programs -> BOOLEAN] /\ changes \in 0..MaxChanges
      /\ MaxChanges \in Nat /\ Dated \in BOOLEAN
  BY BountyAssumption DEF BountyInv, BountyTypeOK
<1>3. Changed(p) /\ Others
  BY <1>1 DEF Relist, Toggle, Revise
<1>4. changes' \in 0..MaxChanges /\ changes + 1 \in Editions
  BY <1>2, <1>3 DEF Changed, Editions
<1>5. dirty' \in [Programs -> BOOLEAN]
  BY <1>2, <1>3 DEF Changed
<1>6. listed' \in [Programs -> BOOLEAN] /\ offer' \in [Programs -> [Assets -> Terms]]
  <2>1. CASE Relist(p)
    BY <1>2, <2>1 DEF Relist
  <2>2. ASSUME NEW a \in Assets, Toggle(p, a)
        PROVE  listed' \in [Programs -> BOOLEAN] /\ offer' \in [Programs -> [Assets -> Terms]]
    <3> DEFINE T(m) == [m EXCEPT !.live = ~@]
    <3>1. \A m \in Terms : T(m) \in Terms
      BY DEF Terms
    <3>2. offer' = [offer EXCEPT ![p][a] = T(offer[p][a])]
      BY <1>2, <2>2 DEF Toggle
    <3> HIDE DEF T
    <3> QED
      BY <1>2, <2>2, <3>1, <3>2 DEF Toggle
  <2>3. ASSUME NEW a \in Assets, Revise(p, a)
        PROVE  listed' \in [Programs -> BOOLEAN] /\ offer' \in [Programs -> [Assets -> Terms]]
    <3> DEFINE m == [live |-> TRUE, edition |-> changes + 1]
    <3>1. m \in Terms
      BY <1>4 DEF Terms
    <3>2. offer' = [offer EXCEPT ![p][a] = m] /\ listed' = listed
      BY <2>3 DEF Revise
    <3> HIDE DEF m
    <3> QED
      BY <1>2, <3>1, <3>2
  <2> QED
    BY <1>1, <2>1, <2>2, <2>3
<1>7. BountyTypeOK'
  BY <1>3, <1>4, <1>5, <1>6 DEF BountyInv, BountyTypeOK
<1> QED
  BY <1>3, <1>7, WorkStays

LEMMA HoursKeep == ASSUME BountyInv, HoursPass PROVE BountyInv'
<1> USE DEF platform, projects
<1>1. PICK old \in [Programs -> Ages] :
         /\ \A p \in Programs : old[p] \in Older(p)
         /\ prog' = [p \in Programs |-> [prog[p] EXCEPT !.age = old[p]]]
  BY DEF HoursPass
<1> DEFINE A(d, x) == [d EXCEPT !.age = x]
<1>2. \A d \in Details, x \in Ages : A(d, x) \in Details /\ A(d, x).age = x /\ A(d, x).newer = d.newer
  BY DEF Details
<1>3. prog \in [Programs -> Details]
  BY DEF BountyInv, BountyTypeOK
<1>4. prog' = [p \in Programs |-> A(prog[p], old[p])]
  BY <1>1
<1>5. \A p \in Programs : old[p] \in Ages /\ prog[p] \in Details
  BY <1>1, <1>3
<1>6. \A p \in Programs : lock[p] # Nobody => old[p] = prog[p].age
  BY <1>1 DEF Older
<1> HIDE DEF A
<1>7. \A p \in Programs : prog'[p] \in Details /\ prog'[p].age = old[p] /\ prog'[p].newer = prog[p].newer
  BY <1>2, <1>4, <1>5
<1>8. prog' \in [Programs -> Details]
  BY <1>4, <1>7
<1>9. \A p \in Programs : /\ prog'[p].newer = prog[p].newer
                          /\ lock[p] # Nobody => prog'[p].age = prog[p].age
  BY <1>6, <1>7
<1>10. BountyTypeOK'
  BY <1>8 DEF HoursPass, BountyInv, BountyTypeOK
<1> QED
  BY <1>9, <1>10, WorkStays DEF HoursPass

LEMMA OperatorKeeps == ASSUME BountyInv, OperatorStep PROVE BountyInv'
<1> USE DEF platform, catalogue
<1>1. PICK t \in Projects, a \in Assets, kind \in Kinds : Approve(t, a, kind) \/ Reject(t, a, kind)
  BY DEF OperatorStep
<1>2. /\ asset \in [Projects -> [Assets -> Imported]] /\ events \in [Projects -> SUBSET (Assets \X Kinds)]
      /\ rows \in [Programs -> [Assets -> Terms]]
  BY DEF BountyInv, BountyTypeOK
<1>3. events' = [events EXCEPT ![t] = @ \ {<<a, kind>>}] /\ events[t] # {}
  BY <1>1 DEF Approve, Reject
<1>4. /\ events' \in [Projects -> SUBSET (Assets \X Kinds)]
      /\ \A x \in Projects : events'[x] # {} => events[x] # {}
  BY <1>2, <1>3
<1>5. link[t] \in Programs
  BY <1>3 DEF BountyInv, ReachesBound, Bound
<1>6. asset' \in [Projects -> [Assets -> Imported]]
  <2>1. CASE Reject(t, a, kind)
    BY <1>2, <2>1 DEF Reject
  <2>2. CASE Approve(t, a, kind)
    <3> DEFINE S(i) == [i EXCEPT !.status = "suspended"]
               n == [status |-> "approved", edition |-> rows[link[t]][a].edition]
               m == IF kind # "removed" THEN n
                    ELSE IF asset[t][a].status = "none" THEN asset[t][a] ELSE S(asset[t][a])
    <3>1. \A i \in Imported : S(i) \in Imported
      BY DEF Imported
    <3>2. n \in Imported
      BY <1>2, <1>5 DEF Imported, Terms
    <3>3. asset' = [asset EXCEPT ![t][a] = m]
      BY <1>2, <2>2 DEF Approve
    <3>4. m \in Imported
      <4> HIDE DEF S, n
      <4> QED
        BY <1>2, <3>1, <3>2
    <3> HIDE DEF m
    <3> QED
      BY <1>2, <3>3, <3>4
  <2> QED
    BY <1>1, <2>1, <2>2
<1>7. UNCHANGED <<platform, catalogue, link, breaks, lock, work, due>>
  BY <1>1 DEF Approve, Reject
<1>8. BountyTypeOK'
  BY <1>4, <1>6, <1>7 DEF BountyInv, BountyTypeOK
<1> QED
  BY <1>4, <1>7, <1>8, WorkStays

LEMMA AbortsKeeps == ASSUME BountyInv, NEW w \in Workers, Aborts(w) PROVE BountyInv'
<1> USE DEF platform, catalogue, projects
<1>1. Moved(w) /\ work'[w] = Idle
  BY IdleIsWork, BecomesMoves DEF Aborts, BountyInv, Idle
<1>2. lock \in [Programs -> Workers \cup {Nobody}] /\ Nobody \notin Workers
  BY BountyAssumption DEF BountyInv, BountyTypeOK
<1>3. /\ lock' \in [Programs -> Workers \cup {Nobody}]
      /\ \A p \in Programs : lock'[p] # w /\ (lock[p] # w => lock'[p] = lock[p])
                             /\ lock'[p] \in {lock[p], Nobody}
  BY <1>2 DEF Aborts
<1>4. breaks' \in 0..MaxBreaks /\ due' \in BOOLEAN
  BY BountyAssumption DEF Aborts, Break, BountyInv, BountyTypeOK
<1>5. BountyTypeOK'
  BY <1>1, <1>3, <1>4 DEF Aborts, BountyInv, BountyTypeOK, Moved
<1>6. WorkIsSound' /\ ReachesBound'
  BY <1>1, ReachKept, ProjectsStay DEF Aborts
<1>7. LocksAreHeld'
  <2>1. ASSUME NEW v \in Workers, work'[v].pc \in Guarded PROVE lock'[work'[v].p] = v
    <3>1. v # w
      BY <1>1, <2>1 DEF Idle, Guarded
    <3>2. work[v].pc \in Guarded /\ work'[v].p = work[v].p
      BY <1>1, <2>1, <3>1 DEF Moved, Alike
    <3>3. lock[work[v].p] = v /\ work[v].p \in Programs
      BY <3>2 DEF BountyInv, LocksAreHeld, WorkIsSound, SoundWork, Placed, Holding
    <3> QED
      BY <1>3, <3>1, <3>2, <3>3
  <2>2. ASSUME NEW p \in Programs, NEW v \in Workers, lock'[p] = v
        PROVE  work'[v].p = p /\ work'[v].pc \in Holding
    <3>1. v # w /\ lock[p] = v
      BY <1>2, <1>3, <2>2
    <3> QED
      BY <1>1, <3>1 DEF Moved, Alike, BountyInv, LocksAreHeld
  <2> QED
    BY <2>1, <2>2 DEF LocksAreHeld
<1>8. ASSUME ~Dated PROVE HeldIsFresh'
  <2>1. \A p \in Programs : ~prog'[p].newer
    BY <1>8 DEF Aborts, BountyInv, HeldIsFresh
  <2>2. prog' = prog
    BY DEF Aborts
  <2> QED
    BY <1>1, <1>3, <1>8, <2>1, <2>2, FreshStays
<1> QED
  BY <1>5, <1>6, <1>7, <1>8 DEF BountyInv

\* Nobody is at work: the rest of the invariant says nothing then.
LEMMA AtRest ==
    ASSUME BountyTypeOK, work = [w \in Workers |-> Idle], lock = [p \in Programs |-> Nobody],
           \A t \in Projects : events[t] # {} => t \in Bound,
           ~Dated => \A p \in Programs : ~prog[p].newer
    PROVE  BountyInv
<1>1. WorkIsSound
  BY IdleIsWork DEF WorkIsSound
<1>2. ReachesBound
  BY DEF ReachesBound, Idle
<1>3. LocksAreHeld /\ (~Dated => HeldIsFresh)
  BY BountyAssumption DEF LocksAreHeld, HeldIsFresh, Idle, Guarded
<1> QED
  BY <1>1, <1>2, <1>3 DEF BountyInv

LEMMA BountyRestartKeeps == ASSUME BountyInv, BountyRestart PROVE BountyInv'
<1> USE DEF platform, catalogue, projects
<1>1. breaks' \in 0..MaxBreaks
  BY BountyAssumption DEF BountyRestart, Break, BountyInv, BountyTypeOK
<1>2. BountyTypeOK'
  BY <1>1, IdleIsWork DEF BountyRestart, BountyInv, BountyTypeOK
<1>3. /\ \A t \in Projects : events'[t] # {} => t \in Bound'
      /\ ~Dated => \A p \in Programs : ~prog'[p].newer
  BY DEF BountyRestart, BountyInv, ReachesBound, HeldIsFresh, Bound
<1>4. work' = [w \in Workers |-> Idle] /\ lock' = [p \in Programs |-> Nobody]
  BY DEF BountyRestart
<1>5. WorkIsSound'
  BY <1>4, IdleIsWork DEF WorkIsSound
<1>6. ReachesBound'
  BY <1>3, <1>4 DEF ReachesBound, Idle
<1>7. LocksAreHeld' /\ (~Dated => HeldIsFresh')
  BY <1>3, <1>4, BountyAssumption DEF LocksAreHeld, HeldIsFresh, Idle, Guarded
<1> QED
  BY <1>2, <1>5, <1>6, <1>7 DEF BountyInv

LEMMA BountyBegins == BountyInit => BountyInv
<1> SUFFICES ASSUME BountyInit PROVE BountyInv
  OBVIOUS
<1> DEFINE terms == [a \in Assets |-> [live |-> TRUE, edition |-> 0]]
<1>1. PICK known \in BOOLEAN, imported \in SUBSET Assets :
      /\ listed = [p \in Programs |-> TRUE]
      /\ offer = [p \in Programs |-> terms]
      /\ dirty = [p \in Programs |-> FALSE] /\ changes = 0 /\ breaks = 0
      /\ prog = [p \in Programs |-> IF known
                   THEN [status |-> "live", age |-> "fresh", newer |-> FALSE]
                   ELSE [status |-> "none", age |-> "never", newer |-> FALSE]]
      /\ rows = [p \in Programs |-> IF known THEN terms ELSE NoTerms]
      /\ link \in [Projects -> IF known THEN Programs ELSE {NoProgram}]
      /\ asset = [t \in Projects |-> [a \in Assets |-> IF known /\ a \in imported
                    THEN [status |-> "approved", edition |-> 0] ELSE NotImported]]
      /\ events = [t \in Projects |-> {}]
      /\ lock = [p \in Programs |-> Nobody]
      /\ work = [w \in Workers |-> Idle]
      /\ due = TRUE
  BY DEF BountyInit
<1>2. terms \in [Assets -> Terms] /\ NoTerms \in [Assets -> Terms]
  BY BountyAssumption, NothingRead DEF Terms, Editions
<1> HIDE DEF terms
<1>3. /\ listed \in [Programs -> BOOLEAN] /\ dirty \in [Programs -> BOOLEAN]
      /\ changes \in 0..MaxChanges /\ breaks \in 0..MaxBreaks /\ due \in BOOLEAN
  BY <1>1, BountyAssumption
<1>4. offer \in [Programs -> [Assets -> Terms]] /\ rows \in [Programs -> [Assets -> Terms]]
  BY <1>1, <1>2
<1>5. prog \in [Programs -> Details] /\ \A p \in Programs : ~prog[p].newer
  BY <1>1 DEF Details, Ages
<1>6. link \in [Projects -> Programs \cup {NoProgram}]
  BY <1>1
<1>7. asset \in [Projects -> [Assets -> Imported]]
  <2>1. /\ [status |-> "approved", edition |-> 0] \in Imported /\ NotImported \in Imported
    BY BountyAssumption DEF NotImported, Imported, Editions
  <2> QED
    BY <1>1, <2>1
<1>8. /\ events \in [Projects -> SUBSET (Assets \X Kinds)]
      /\ \A t \in Projects : events[t] # {} => t \in Bound
  BY <1>1
<1>9. work = [w \in Workers |-> Idle] /\ lock = [p \in Programs |-> Nobody]
  BY <1>1
<1>10. work \in [Workers -> Works] /\ lock \in [Programs -> Workers \cup {Nobody}]
  BY <1>9, IdleIsWork
<1>11. BountyTypeOK
  BY <1>3, <1>4, <1>5, <1>6, <1>7, <1>8, <1>10 DEF BountyTypeOK
<1> QED
  BY <1>5, <1>8, <1>9, <1>11, AtRest

LEMMA BountyInvIsInductive == BountyInv /\ [BountyNext]_bountyVars => BountyInv'
<1> SUFFICES ASSUME BountyInv, [BountyNext]_bountyVars PROVE BountyInv'
  OBVIOUS
<1>1. CASE UNCHANGED bountyVars
  BY <1>1, WorkStays DEF bountyVars, platform, catalogue, projects, BountyInv, BountyTypeOK
<1>2. CASE PlatformStep \/ HoursPass \/ OperatorStep \/ BountyRestart \/ ListFails \/ PassStep
  BY <1>2, PlatformKeeps, HoursKeep, OperatorKeeps, BountyRestartKeeps, PassStepKeeps
<1>3. CASE \E force \in BOOLEAN : BeginPass(force)
  BY <1>3, BeginPassKeeps
<1>4. CASE \E r \in Readers, p \in Programs : Open(r, p)
  BY <1>4, OpenKeeps
<1>5. CASE \E r \in Readers : CreateStep(r)
  BY <1>5, ViewKeeps, LeavesKeeps, CreateKeeps DEF CreateStep
<1>6. CASE \E w \in Workers : EnsureStep(w) \/ Lock(w) \/ FetchScope(w) \/ FetchScopeFails(w)
  BY <1>6, LookKeeps, LookAgainKeeps, SaveKeeps, ReplaceKeeps, SelectTargetsKeeps, LockKeeps,
     FetchScopeKeeps, FetchScopeFailsKeeps DEF EnsureStep
<1>7. CASE \E w \in Workers : ReconcileStep(w) \/ Aborts(w)
  BY <1>7, GetKeeps, ReadKeeps, HaveKeeps, ApplyKeeps, TellKeeps, AbortsKeeps DEF ReconcileStep
<1> QED
  BY <1>1, <1>2, <1>3, <1>4, <1>5, <1>6, <1>7 DEF BountyNext

LEMMA BountyIsSound == BountySpec => []BountyInv
BY BountyBegins, BountyInvIsInductive, PTL DEF BountySpec

\* The pass, the readers and the reconciliations keep the types of what they share, for
\* any number of programs, assets, projects and requests.
THEOREM BountyTypeCorrect == BountySpec => []BountyTypeOK
<1>1. BountyInv => BountyTypeOK
  BY DEF BountyInv
<1> QED
  BY <1>1, BountyIsSound, PTL

\* The scope of a program is fetched and stored by one goroutine at a time, whatever is
\* aborted and wherever a reconciliation enters ensureDetails again (detailLocks).
THEOREM OneRefreshes == BountySpec => []OneRefresher
<1>1. BountyInv => OneRefresher
  <2> SUFFICES ASSUME BountyInv, NEW v \in Workers, NEW w \in Workers,
                      {work[v].pc, work[w].pc} \subseteq Guarded, work[v].p = work[w].p
               PROVE  v = w
    BY DEF OneRefresher, Guarded
  <2>1. lock[work[v].p] = v /\ lock[work[w].p] = w
    BY DEF BountyInv, LocksAreHeld
  <2> QED
    BY <2>1
<1> QED
  BY <1>1, BountyIsSound, PTL

\* On a platform whose listing gives no dates nobody waits for a lock while it holds one, so
\* that a reconciliation cannot wait for itself.  Where it gives dates this fails: a date
\* read by the listing makes details old again that were just stored (providers.go 481).
THEOREM NobodyWaitsForItself == ASSUME ~Dated PROVE BountySpec => []NobodyHoldsAndWaits
<1>1. BountyInv => NobodyHoldsAndWaits
  BY DEF BountyInv, HeldIsFresh, NobodyHoldsAndWaits, At
<1> QED
  BY <1>1, BountyIsSound, PTL
================================================================================
