------------------------------ MODULE BountySync ------------------------------
(* The cached catalogue of bounty programs and the projects linked to them     *)
(* (internal/bounty/service.go, catalog.go, providers.go): a pass of SyncAll   *)
(* over one platform, the lazily fetched scope of a program behind its lock,   *)
(* the reconciliation of linked projects and the resolution of scope events.   *)
(* A step is a statement, a transaction, an answer of the platform or a lock;  *)
(* the writes of a reconciliation are two steps, its suspensions and additions *)
(* and then the events of the suspensions.                                     *)
(*                                                                             *)
(* Abstractions: one platform (a pass takes them in turn and they share        *)
(* nothing), of whose programs Programs are some, as Assets are of the assets  *)
(* of each: a listing may hold none of them, a project may import none of them.*)
(* A listing that holds nothing at all fails like one that cannot be read      *)
(* (markMissingPrograms).  Of a program its status, the age of its details and *)
(* whether the platform's date is later than them; of an asset whether it is   *)
(* active, in scope and eligible (live), and the edition of its terms          *)
(* (raw_hash).  Left out: assets edited by hand, notifications, the filters and*)
(* the index of the catalogue, which calls ensureDetails like a reader does.   *)
EXTENDS Naturals

CONSTANTS Programs, Assets, Projects,
          Readers,    \* requests that open a program, perhaps to create a project
          Sync,       \* the pass of SyncAll: TryLock admits one (300-304)
          NoProgram, Nobody,
          Dated,      \* the platform's listing tells when a program changed
          GiveUpAfter,   \* failed programs that end a refresh (3 in the code)
          MaxChanges, MaxBreaks   \* bounds of the model

Workers == Readers \cup {Sync}
Kinds == {"added", "modified", "removed"}
Editions == 0..MaxChanges

ASSUME BountyAssumption ==
    /\ Sync \notin Readers /\ Nobody \notin Workers /\ NoProgram \notin Programs
    /\ Dated \in BOOLEAN /\ MaxChanges \in Nat /\ MaxBreaks \in Nat
    /\ GiveUpAfter \in Nat \ {0}

VARIABLES
    listed, offer,   \* the platform: what it lists, and the scope it publishes
    dirty,           \* its date of a program is later than the cached details
    changes, breaks,
    prog,            \* bounty_programs
    rows,            \* bounty_program_assets
    link,            \* project_programs, by project
    asset,           \* the project's assets that come from the catalogue
    events,          \* pending bounty_scope_events; one of a kind (createScopeEvent)
    lock,            \* detailLocks: who holds the lock of a program
    work,            \* the goroutines
    due              \* next_sync_at has passed
platform == <<listed, offer, dirty, changes>>
catalogue == <<prog, rows>>
projects == <<link, asset, events>>
bountyVars == <<platform, catalogue, projects, breaks, lock, work, due>>

Terms == [live : BOOLEAN, edition : Editions]
Imported == [status : {"none", "approved", "suspended"}, edition : Editions]
NoTerms == [a \in Assets |-> [live |-> FALSE, edition |-> 0]]
NotImported == [status |-> "none", edition |-> 0]

\* Details are younger than 6 hours, than 24 hours, older, or were never fetched.
Ages == {"fresh", "hours", "stale", "never"}
LinkedAge == {"fresh"}            \* fresh enough for a pass (linkedRefreshAge)
ReaderAge == {"fresh", "hours"}   \* fresh enough to be shown (detailRefreshAge)
Fresh(p, ages) == prog[p].age \in ages /\ ~prog[p].newer

Linked(p) == {t \in Projects : link[t] = p}
Live(cat) == {a \in Assets : cat[a].live}
Pick(S) == CHOOSE x \in S : TRUE

Steps == {"idle", "list", "upsert", "missing", "missed", "select", "linked",
          "look", "lock", "again", "fetch", "save", "replace", "targets",
          "get", "read", "have", "apply", "tell", "view", "create"}
Idle == [pc |-> "idle", job |-> "none", p |-> NoProgram, seen |-> {}, news |-> {}, todo |-> {},
         failed |-> 0, ages |-> {},
         status |-> "none", got |-> NoTerms, targets |-> {}, outer |-> {},
         cat |-> NoTerms, have |-> [a \in Assets |-> NotImported]]

Details == [status : {"none", "live", "unavailable"}, age : Ages, newer : BOOLEAN]
Works ==
    [pc : Steps, job : {"none", "sync", "open"}, p : Programs \cup {NoProgram},
     seen : SUBSET Programs, news : SUBSET Programs, todo : SUBSET Programs,
     failed : 0..GiveUpAfter, ages : SUBSET Ages,
     status : {"none", "live", "unavailable"}, got : [Assets -> Terms],
     targets : SUBSET Projects, outer : SUBSET Projects,
     cat : [Assets -> Terms], have : [Assets -> Imported]]
BountyTypeOK ==
    /\ listed \in [Programs -> BOOLEAN] /\ offer \in [Programs -> [Assets -> Terms]]
    /\ dirty \in [Programs -> BOOLEAN] /\ changes \in 0..MaxChanges /\ breaks \in 0..MaxBreaks
    /\ prog \in [Programs -> Details]
    /\ rows \in [Programs -> [Assets -> Terms]]
    /\ link \in [Projects -> Programs \cup {NoProgram}]
    /\ asset \in [Projects -> [Assets -> Imported]]
    /\ events \in [Projects -> SUBSET (Assets \X Kinds)]
    /\ lock \in [Programs -> Workers \cup {Nobody}]
    /\ work \in [Workers -> Works]
    /\ due \in BOOLEAN

At(w, step) == work[w].pc = step
Goes(w, step) == work' = [work EXCEPT ![w].pc = step]
Becomes(w, r) == work' = [work EXCEPT ![w] = r]

--------------------------------------------------------------------------------
(* The platform.                                                                *)

Changed(p) ==
    /\ changes < MaxChanges /\ changes' = changes + 1
    /\ dirty' = [dirty EXCEPT ![p] = Dated]
Others == UNCHANGED <<catalogue, projects, breaks, lock, work, due>>

Revise(p, a) ==
    /\ Changed(p)
    /\ offer' = [offer EXCEPT ![p][a] = [live |-> TRUE, edition |-> changes + 1]]
    /\ UNCHANGED listed /\ Others
\* An asset leaves the scope, or returns to it, with the terms it had.
Toggle(p, a) ==
    /\ Changed(p)
    /\ offer' = [offer EXCEPT ![p][a].live = ~@]
    /\ UNCHANGED listed /\ Others
Relist(p) ==
    /\ Changed(p)
    /\ listed' = [listed EXCEPT ![p] = ~@]
    /\ UNCHANGED offer /\ Others

\* Hours pass: details age, and the next pass becomes due.  A request lives for
\* minutes, so the details that one is fetching or reconciling do not age under it.
Older(p) ==
    IF lock[p] # Nobody THEN {prog[p].age}
    ELSE CASE prog[p].age = "fresh" -> {"hours"}
           [] prog[p].age = "hours" -> {"hours", "stale"}
           [] OTHER                 -> {prog[p].age}
HoursPass ==
    /\ due' = TRUE
    /\ \E old \in [Programs -> Ages] :
         /\ \A p \in Programs : old[p] \in Older(p)
         /\ prog' = [p \in Programs |-> [prog[p] EXCEPT !.age = old[p]]]
    /\ UNCHANGED <<platform, rows, projects, breaks, lock, work>>

--------------------------------------------------------------------------------
(* A pass: listing, missing programs, linked details (SyncAll).                  *)

BeginPass(force) ==
    /\ At(Sync, "idle") /\ (force \/ due)
    /\ Becomes(Sync, [Idle EXCEPT !.pc = "list", !.job = "sync"])
    /\ UNCHANGED <<platform, catalogue, projects, breaks, lock, due>>

EndPass ==
    /\ due' = FALSE /\ Becomes(Sync, Idle)
    /\ UNCHANGED <<platform, catalogue, projects, breaks, lock>>

ListFails == At(Sync, "list") /\ EndPass
List ==
    /\ At(Sync, "list")
    /\ LET found == {p \in Programs : listed[p]}
       IN  work' = [work EXCEPT ![Sync] = [@ EXCEPT
             !.pc = "upsert", !.seen = found, !.todo = found,
             !.news = {p \in found : dirty[p]}]]
    /\ UNCHANGED <<platform, catalogue, projects, breaks, lock, due>>

\* upsertProgram with an entry of the listing: no details, so their age stays.
Upsert ==
    /\ At(Sync, "upsert")
    /\ \E p \in work[Sync].todo :
         /\ prog' = [prog EXCEPT ![p].status = "live",
                                 ![p].newer = IF Dated THEN p \in work[Sync].news ELSE @]
         /\ work' = [work EXCEPT ![Sync].todo = @ \ {p}, ![Sync].news = @ \ {p}]
    /\ UNCHANGED <<platform, rows, projects, breaks, lock, due>>

\* The rows of programs that are no longer listed, in one transaction.
MarkMissing ==
    /\ At(Sync, "upsert") /\ work[Sync].todo = {}
    /\ LET gone == {p \in Programs : prog[p].status = "live" /\ p \notin work[Sync].seen}
       IN  /\ prog' = [p \in Programs |-> IF p \in gone
                         THEN [prog[p] EXCEPT !.status = "unavailable"] ELSE prog[p]]
           /\ rows' = [p \in Programs |-> IF p \in gone
                         THEN [a \in Assets |-> [rows[p][a] EXCEPT !.live = FALSE]]
                         ELSE rows[p]]
           /\ work' = [work EXCEPT ![Sync].pc = "missed", ![Sync].todo = gone,
                                   ![Sync].seen = {}]
    /\ UNCHANGED <<platform, projects, breaks, lock, due>>

\* The projects of each of them are reconciled, outside the program's lock.
ReconcileMissing ==
    /\ At(Sync, "missed")
    /\ \E p \in work[Sync].todo :
         Becomes(Sync, [work[Sync] EXCEPT
                          !.todo = @ \ {p},
                          !.p = IF Linked(p) = {} THEN NoProgram ELSE p,
                          !.targets = Linked(p),
                          !.pc = IF Linked(p) = {} THEN "missed" ELSE "get"])
    /\ UNCHANGED <<platform, catalogue, projects, breaks, lock, due>>

\* refreshLinkedProviderDetails: every linked program, whatever its status, in the
\* order of the query, until too many have failed.
SelectLinked ==
    /\ At(Sync, "missed") /\ work[Sync].todo = {}
    /\ work' = [work EXCEPT ![Sync].pc = "linked",
                            ![Sync].todo = {p \in Programs : Linked(p) # {}}]
    /\ UNCHANGED <<platform, catalogue, projects, breaks, lock, due>>
RefreshLinked ==
    /\ At(Sync, "linked") /\ work[Sync].todo # {} /\ work[Sync].failed < GiveUpAfter
    /\ LET p == Pick(work[Sync].todo)
       IN  Becomes(Sync, [work[Sync] EXCEPT !.todo = @ \ {p}, !.p = p,
                                            !.ages = LinkedAge, !.pc = "look"])
    /\ UNCHANGED <<platform, catalogue, projects, breaks, lock, due>>
PassEnds ==
    /\ At(Sync, "linked") /\ (work[Sync].todo = {} \/ work[Sync].failed = GiveUpAfter)
    /\ EndPass

--------------------------------------------------------------------------------
(* A reader opens a program, or begins a project from it (GetProgram).           *)

Open(r, p) ==
    /\ At(r, "idle") /\ prog[p].status # "none"
    /\ Becomes(r, [Idle EXCEPT !.pc = "look", !.job = "open", !.p = p, !.ages = ReaderAge])
    /\ UNCHANGED <<platform, catalogue, projects, breaks, lock, due>>

--------------------------------------------------------------------------------
(* ensureDetails: the scope of a program, fetched by one goroutine at a time.    *)

\* Where w goes on when ensureDetails returns, also with an error: a reader and a
\* reconciliation make do with the details there are (GetProgram, 160-167).
Returned(w) ==
    LET k == [work[w] EXCEPT !.got = NoTerms, !.ages = {}, !.status = "none",
                             !.targets = {}, !.cat = NoTerms, !.have = Idle.have]
    IN IF k.outer # {} THEN [k EXCEPT !.targets = k.outer, !.outer = {}, !.pc = "read"]
       ELSE IF k.job = "sync" THEN [k EXCEPT !.p = NoProgram, !.pc = "linked"]
       ELSE [k EXCEPT !.pc = "view"]
Unlock(w) == lock' = [lock EXCEPT ![work[w].p] = Nobody]

\* A first look without the lock; what it read of the row is written back later.
Look(w) ==
    /\ At(w, "look")
    /\ LET p == work[w].p
       IN  work' = [work EXCEPT ![w] = IF Fresh(p, @.ages) THEN Returned(w)
                      ELSE [@ EXCEPT !.pc = "lock", !.status = prog[p].status]]
    /\ UNCHANGED <<platform, catalogue, projects, breaks, lock, due>>

\* lock.Lock(): sync.Mutex is not reentrant and heeds no context.
Lock(w) ==
    /\ At(w, "lock") /\ lock[work[w].p] = Nobody
    /\ lock' = [lock EXCEPT ![work[w].p] = w]
    /\ Goes(w, "again")
    /\ UNCHANGED <<platform, catalogue, projects, breaks, due>>

LookAgain(w) ==
    /\ At(w, "again")
    /\ IF Fresh(work[w].p, work[w].ages)
       THEN Becomes(w, Returned(w)) /\ Unlock(w)
       ELSE Goes(w, "fetch") /\ UNCHANGED lock
    /\ UNCHANGED <<platform, catalogue, projects, breaks, due>>

\* The platform may answer for a program that it no longer lists.
FetchScope(w) ==
    /\ At(w, "fetch")
    /\ work' = [work EXCEPT ![w].got = offer[work[w].p], ![w].pc = "save"]
    /\ UNCHANGED <<platform, catalogue, projects, breaks, lock, due>>
\* An error counts where a pass refreshes; a reconciliation ignores it.
Failed(w) == [Returned(w) EXCEPT !.failed =
                IF work[w].job = "sync" /\ work[w].outer = {} THEN @ + 1 ELSE @]
\* A bug: the lock is kept when the platform answers with an error.
FetchScopeFailsLocked(w) ==
    /\ At(w, "fetch")
    /\ Becomes(w, Failed(w))
    /\ UNCHANGED <<platform, catalogue, projects, breaks, lock, due>>
FetchScopeFails(w) ==
    /\ At(w, "fetch")
    /\ Becomes(w, Failed(w)) /\ Unlock(w)
    /\ UNCHANGED <<platform, catalogue, projects, breaks, due>>

\* The details are dated now, later than any date the platform gave before.
Detailed(w, status) ==
    LET p == work[w].p
    IN  /\ prog' = [prog EXCEPT ![p] = [status |-> status, age |-> "fresh", newer |-> FALSE]]
        /\ dirty' = [dirty EXCEPT ![p] = FALSE]
Outdates(p, k) == [v \in Workers |-> [k[v] EXCEPT !.news = @ \ {p}]]

\* upsertProgram writes back the row of the first look; the status is that row's
\* or, on most platforms, the one the document gives.
Save(w) ==
    /\ At(w, "save")
    /\ \E status \in {work[w].status, "live"} : Detailed(w, status)
    /\ work' = Outdates(work[w].p, [work EXCEPT ![w].pc = "replace"])
    /\ UNCHANGED <<listed, offer, changes, rows, projects, breaks, lock, due>>

\* A bug: the old rows are not deactivated first, so an asset that was live stays so.
ReplaceKeepingOld(w) ==
    /\ At(w, "replace")
    /\ Detailed(w, prog[work[w].p].status)
    /\ rows' = [rows EXCEPT ![work[w].p] = [a \in Assets |->
                  IF work[w].got[a].live THEN work[w].got[a] ELSE @[a]]]
    /\ work' = Outdates(work[w].p, [work EXCEPT ![w].got = NoTerms, ![w].pc = "targets"])
    /\ UNCHANGED <<listed, offer, changes, projects, breaks, lock, due>>

\* replaceAssets, up to its commit: what was not fetched is no longer active.
Replace(w) ==
    /\ At(w, "replace")
    /\ Detailed(w, prog[work[w].p].status)
    /\ rows' = [rows EXCEPT ![work[w].p] = work[w].got]
    /\ work' = Outdates(work[w].p, [work EXCEPT ![w].got = NoTerms, ![w].pc = "targets"])
    /\ UNCHANGED <<listed, offer, changes, projects, breaks, lock, due>>

SelectTargets(w) ==
    /\ At(w, "targets")
    /\ LET linked == Linked(work[w].p)
       IN  IF linked = {} THEN Becomes(w, Returned(w)) /\ Unlock(w)
           ELSE /\ Becomes(w, [work[w] EXCEPT !.targets = linked, !.pc = "get"])
                /\ UNCHANGED lock
    /\ UNCHANGED <<platform, catalogue, projects, breaks, due>>

--------------------------------------------------------------------------------
(* reconcileLinkedProjects and reconcileProject.                                 *)

\* It asks for the program like a reader would, which may mean to fetch it, also
\* while w holds the program's lock.
Get(w) ==
    /\ At(w, "get")
    /\ LET k == work[w]
       IN  Becomes(w, IF Fresh(k.p, ReaderAge) THEN [k EXCEPT !.pc = "read"]
                      ELSE [k EXCEPT !.pc = "lock", !.ages = ReaderAge,
                                     !.status = prog[k.p].status, !.outer = k.targets])
    /\ UNCHANGED <<platform, catalogue, projects, breaks, lock, due>>

\* The catalogue's assets, then the project's.
Read(w) ==
    /\ At(w, "read")
    /\ work' = [work EXCEPT ![w].cat = rows[work[w].p], ![w].pc = "have"]
    /\ UNCHANGED <<platform, catalogue, projects, breaks, lock, due>>
Have(w) ==
    /\ At(w, "have")
    /\ work' = [work EXCEPT ![w].have = asset[Pick(work[w].targets)], ![w].pc = "apply"]
    /\ UNCHANGED <<platform, catalogue, projects, breaks, lock, due>>

Added(k) == {a \in Live(k.cat) : k.have[a].status = "none"}
Modified(k) == {a \in Live(k.cat) :
                  k.have[a].status # "none" /\ k.have[a].edition # k.cat[a].edition}
Removed(k) == {a \in Assets \ Live(k.cat) : k.have[a].status = "approved"}

\* Where w goes on after a project: the next one, the way out of ensureDetails, or
\* the next missing program.
Reconciled(w) ==
    LET k == [work[w] EXCEPT !.targets = @ \ {Pick(@)}, !.cat = NoTerms, !.have = Idle.have]
    IN IF k.targets # {} THEN [k EXCEPT !.pc = "get"]
       ELSE IF lock[work[w].p] = w THEN Returned(w)
       ELSE [k EXCEPT !.p = NoProgram, !.pc = "missed"]
Leave(w) ==
    /\ Becomes(w, Reconciled(w))
    /\ IF work[w].targets = {Pick(work[w].targets)} /\ lock[work[w].p] = w
       THEN Unlock(w) ELSE UNCHANGED lock

\* Events of what is new, and the suspensions; then the events of those.
Apply(w) ==
    /\ At(w, "apply")
    /\ LET k == work[w]  t == Pick(k.targets)
       IN  /\ asset' = [asset EXCEPT ![t] = [a \in Assets |->
                          IF a \in Removed(k) /\ @[a].status # "none"
                          THEN [@[a] EXCEPT !.status = "suspended"] ELSE @[a]]]
           /\ events' = [events EXCEPT ![t] =
                          @ \cup (Added(k) \X {"added"}) \cup (Modified(k) \X {"modified"})]
           /\ IF Removed(k) = {} THEN Leave(w) ELSE Goes(w, "tell") /\ UNCHANGED lock
    /\ UNCHANGED <<platform, catalogue, link, breaks, due>>
Tell(w) ==
    /\ At(w, "tell")
    /\ LET k == work[w]
       IN  events' = [events EXCEPT ![Pick(k.targets)] = @ \cup (Removed(k) \X {"removed"})]
    /\ Leave(w)
    /\ UNCHANGED <<platform, catalogue, link, asset, breaks, due>>

--------------------------------------------------------------------------------
(* Projects and their operators.                                                 *)

\* The request reads the assets.  It may be over then; and CreateProject refuses a
\* choice with none in scope, or with one that no longer is ...
View(r) ==
    /\ At(r, "view")
    /\ work' = [work EXCEPT ![r].cat = rows[work[r].p], ![r].pc = "create"]
    /\ UNCHANGED <<platform, catalogue, projects, breaks, lock, due>>
Leaves(r) ==
    /\ At(r, "create") /\ Becomes(r, Idle)
    /\ UNCHANGED <<platform, catalogue, projects, breaks, lock, due>>
\* ... and any other is inserted with project and link, in a transaction that does
\* not look again.
Create(r) ==
    /\ At(r, "create")
    /\ \E t \in Linked(NoProgram), chosen \in SUBSET Live(work[r].cat) :
         /\ link' = [link EXCEPT ![t] = work[r].p]
         /\ asset' = [asset EXCEPT ![t] = [a \in Assets |-> IF a \in chosen
                        THEN [status |-> "approved", edition |-> work[r].cat[a].edition]
                        ELSE NotImported]]
    /\ Becomes(r, Idle)
    /\ UNCHANGED <<platform, catalogue, events, breaks, lock, due>>

\* ResolveScopeEvent: one transaction; an approval takes the terms of today.
Approve(t, a, kind) ==
    /\ <<a, kind>> \in events[t]
    /\ kind # "removed" => rows[link[t]][a].live
    /\ asset' = [asset EXCEPT ![t][a] =
         IF kind # "removed" THEN [status |-> "approved", edition |-> rows[link[t]][a].edition]
         ELSE IF @.status = "none" THEN @ ELSE [@ EXCEPT !.status = "suspended"]]
    /\ events' = [events EXCEPT ![t] = @ \ {<<a, kind>>}]
    /\ UNCHANGED <<platform, catalogue, link, breaks, lock, work, due>>
Reject(t, a, kind) ==
    /\ <<a, kind>> \in events[t]
    /\ events' = [events EXCEPT ![t] = @ \ {<<a, kind>>}]
    /\ UNCHANGED <<platform, catalogue, link, asset, breaks, lock, work, due>>

--------------------------------------------------------------------------------
(* Faults.                                                                       *)

Break == breaks < MaxBreaks /\ breaks' = breaks + 1

\* The context of w ends (a shutdown, a timeout, a reader who leaves), a later page of
\* the listing cannot be read, or the database refuses a statement: w unwinds and a
\* pass is marked as failed.
Aborts(w) ==
    /\ Break /\ ~At(w, "idle") /\ ~At(w, "lock")
    /\ Becomes(w, Idle)
    /\ lock' = [p \in Programs |-> IF lock[p] = w THEN Nobody ELSE lock[p]]
    /\ due' = (due /\ w # Sync)
    /\ UNCHANGED <<platform, catalogue, projects>>

BountyRestart ==
    /\ Break
    /\ work' = [w \in Workers |-> Idle] /\ lock' = [p \in Programs |-> Nobody]
    /\ UNCHANGED <<platform, catalogue, projects, due>>

--------------------------------------------------------------------------------
\* An empty catalogue, or a known one: projects linked to its programs, that imported
\* some of the scope.
BountyInit ==
    \E known \in BOOLEAN, imported \in SUBSET Assets :
      LET terms == [a \in Assets |-> [live |-> TRUE, edition |-> 0]]
      IN
      /\ listed = [p \in Programs |-> TRUE]
      /\ offer = [p \in Programs |-> terms]
      /\ dirty = [p \in Programs |-> FALSE] /\ changes = 0 /\ breaks = 0
      /\ prog = [p \in Programs |-> IF known
                   THEN [status |-> "live", age |-> "fresh", newer |-> FALSE]
                   ELSE [status |-> "none", age |-> "never", newer |-> FALSE]]
      /\ rows = [p \in Programs |-> IF known THEN terms ELSE NoTerms]
      /\ link \in [Projects -> IF known THEN Programs ELSE {NoProgram}]
      /\ asset = [t \in Projects |-> [a \in Assets |-> IF known /\ a \in imported
                    THEN [status |-> "approved", edition |-> 0] ELSE NotImported]]
      /\ events = [t \in Projects |-> {}]
      /\ lock = [p \in Programs |-> Nobody]
      /\ work = [w \in Workers |-> Idle]
      /\ due = TRUE

PassStep ==
    \/ List \/ Upsert \/ MarkMissing \/ ReconcileMissing
    \/ SelectLinked \/ RefreshLinked \/ PassEnds
EnsureStep(w) ==
    \/ Look(w) \/ LookAgain(w) \/ Save(w) \/ Replace(w) \/ SelectTargets(w)
ReconcileStep(w) == Get(w) \/ Read(w) \/ Have(w) \/ Apply(w) \/ Tell(w)
CreateStep(r) == View(r) \/ Leaves(r) \/ Create(r)
PlatformStep ==
    \E p \in Programs :
       \/ Relist(p)
       \/ \E a \in Assets : Toggle(p, a) \/ Revise(p, a)
OperatorStep ==
    \E t \in Projects, a \in Assets, kind \in Kinds : Approve(t, a, kind) \/ Reject(t, a, kind)

BountyNext ==
    \/ PlatformStep \/ HoursPass \/ OperatorStep \/ BountyRestart
    \/ \E force \in BOOLEAN : BeginPass(force)
    \/ ListFails \/ PassStep
    \/ \E r \in Readers, p \in Programs : Open(r, p)
    \/ \E r \in Readers : CreateStep(r)
    \/ \E w \in Workers : \/ EnsureStep(w) \/ Lock(w) \/ FetchScope(w) \/ FetchScopeFails(w)
                          \/ ReconcileStep(w) \/ Aborts(w)

\* Goroutines run, sync.Mutex starves nobody, the ticker of bountyCatalogScheduler
\* runs, and the platform answers from time to time for what it lists.
BountyFairness ==
    /\ WF_bountyVars(HoursPass) /\ WF_bountyVars(BeginPass(FALSE))
    /\ WF_bountyVars(PassStep) /\ SF_bountyVars(List)
    /\ \A r \in Readers : WF_bountyVars(CreateStep(r))
    /\ \A w \in Workers :
         /\ WF_bountyVars(EnsureStep(w)) /\ WF_bountyVars(ReconcileStep(w))
         /\ WF_bountyVars(FetchScope(w) \/ FetchScopeFails(w)) /\ SF_bountyVars(Lock(w))
         /\ \A p \in Programs : SF_bountyVars(FetchScope(w) /\ work[w].p = p /\ listed[p])

BountySpec == BountyInit /\ [][BountyNext]_bountyVars /\ BountyFairness

--------------------------------------------------------------------------------
\* The scope of a program is fetched and stored by one goroutine at a time, though a
\* reconciliation enters ensureDetails a second time (detailLocks, ensureDetails).
OneRefresher ==
    \A v, w \in Workers :
        /\ {work[v].pc, work[w].pc} \subseteq {"again", "fetch", "save", "replace", "targets"}
        /\ work[v].p = work[w].p
        => v = w

\* Who waits for a program's lock holds none: what keeps a reconciliation from waiting
\* for itself is that the details it asks for under the lock are always young
\* (reconcileProject calls GetProgram, sync.Mutex is not reentrant).
NobodyHoldsAndWaits ==
    \A w \in Workers : At(w, "lock") => \A p \in Programs : lock[p] # w

\* An asset that left the scope of a listed program for good is in the end no
\* longer approved in any project, in spite of failed fetches, of a pass that was cut
\* short and of a request that stored another scope meanwhile: a reconciliation compares
\* states, and details are fetched again (reconcileProject, refreshLinkedProviderDetails).
\* It supposes that the pass does not lock itself out (CacheRefreshes) and reaches the
\* program at all (LinkedAreRefreshed): a platform without dates, and fewer linked
\* programs that left it than a refresh bears failures.
RemovalsReachProjects ==
    \A t \in Projects, p \in Programs, a \in Assets :
        <>[](link[t] = p /\ listed[p] /\ ~offer[p][a].live)
          => <>[](asset[t][a].status # "approved")

\* An asset that stays in the scope of a linked program is imported, or an event
\* asks the operator about it again and again; under the same conditions, and for an
\* asset that has not been suspended before (ReturnsReachOperators).
AdditionsReachOperators ==
    \A t \in Projects, p \in Programs, a \in Assets :
        <>[](link[t] = p /\ listed[p] /\ offer[p][a].live)
          => []<>(asset[t][a].status # "none" \/ <<a, "added">> \in events[t])

\* "programs already linked to monitored projects, which are refreshed every six hours
\* for scope changes" (providers.go 453-454): the details of a linked and listed
\* program are young again and again.
LinkedAreRefreshed ==
    \A p \in Programs :
        <>[](Linked(p) # {} /\ listed[p]) => []<>(prog[p].age = "fresh")

\* "The cache refreshes every six hours" (README.md 170): a due pass ends.
CacheRefreshes == due ~> ~due

\* A program that disappears "is marked unavailable, its cached assets become
\* inactive, and linked projects suspend those assets" (providers.go 131-133):
\* once nobody is at work, no project keeps an approved asset of such a program.
MissingIsSuspended ==
    (\A w \in Workers : At(w, "idle")) =>
      \A t \in Projects, p \in Programs, a \in Assets :
         link[t] = p /\ prog[p].status = "unavailable" => asset[t][a].status # "approved"

\* An asset that was suspended and is in scope again is shown to the operator.
ReturnsReachOperators ==
    \A t \in Projects, p \in Programs, a \in Assets :
        <>[](link[t] = p /\ listed[p] /\ offer[p][a].live)
          => []<>(asset[t][a].status # "suspended" \/ events[t] # {})
================================================================================
