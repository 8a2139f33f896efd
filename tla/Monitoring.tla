------------------------------ MODULE Monitoring ------------------------------
(* The periodic watch of one target: runDueMonitors creates a light pass when   *)
(* the interval is over, executeTask runs its modules and stamps the time, the  *)
(* monitor module compares the pages with the rows that the previous probe left *)
(* and escalateIfChanged follows up on what is new.  Other scans of the target  *)
(* refresh the same rows, and a restart parks the pass or kills it.              *)
EXTENDS Naturals
CONSTANTS
    Passes,      \* bound: task rows alive at a time, numbered
    MaxNews,     \* bound: changes of the page and new hosts, taken together
    MaxMishaps,  \* bound: modules that fail or are passed over, passes cancelled or paused
                 \* and other scans of the target, taken together
    MaxRestarts  \* bound: restarts of the process
ASSUME MonitoringAssumption ==
    /\ Passes \subseteq Nat \ {0} /\ Passes # {}
    /\ {MaxNews, MaxMishaps, MaxRestarts} \subseteq Nat

VARIABLES
    site,     \* status and title of the page: a number that each change raises
    page,     \* the same as http_services has it
    alive,    \* hosts that exist
    hosts,    \* rows of subdomains
    counted,  \* targets.subdomain_count
    due,      \* monitor_last_run is empty or older than the interval
    young,    \* a watch task was created less than 30 minutes ago
    pass,     \* the task rows that are not over, and what executes them
    followed, \* history: the last pass that came to its end was followed up
    mishaps, restarts
monVars == <<site, page, alive, hosts, counted, due, young, pass, followed, mishaps, restarts>>
world == <<site, alive>>
tables == <<page, hosts, counted>>
bounds == <<mishaps, restarts>>

\* A bug: the order of AllModules, in which the monitor comes after the probe.
WatchModulesCanonical == <<"subdomain_enum", "http_probe", "others", "monitor">>
\* monitorModules; takeover, cors and backup discovery touch none of this: "others".
WatchModules == <<"subdomain_enum", "monitor", "http_probe", "others">>
Names == {"subdomain_enum", "monitor", "http_probe", "others"}
\* Lists keep this order: a pass's mods are a set, behind those its loop has passed.
Earlier(m, n) == \E i, j \in DOMAIN WatchModules :
                    i < j /\ WatchModules[i] = m /\ WatchModules[j] = n

\* at: current_module.  watch: the type of the row is monitor_watch; what follows it
\* is used by watches alone.  known is knownSubdomains, changed whether
\* monitoring_changes has rows since the start.  History: had, the hosts at the start;
\* owes, a change waited at the start and nothing excused the pass from recording it
\* (another scan probed the page, the monitor did not reach it).
NoPass == [status |-> "none", pc |-> "gone", mods |-> {}, behind |-> {}, at |-> "none",
           done |-> {}, failed |-> FALSE, watch |-> FALSE, known |-> 0, changed |-> FALSE,
           had |-> 0, owes |-> FALSE]
Active == {"pending", "running", "paused", "interrupted"}
Unused(p) == pass[p] = NoPass
FirstUnused(p) == Unused(p) /\ \A q \in Passes : Unused(q) => p <= q

MonInit ==
    /\ site = 0 /\ page = 0 /\ alive = 0 /\ hosts = 0 /\ counted = 0
    /\ due \in BOOLEAN /\ young = FALSE /\ pass = [p \in Passes |-> NoPass]
    /\ followed = FALSE /\ mishaps = 0 /\ restarts = 0

--------------------------------------------------------------------------------
(* The world, and the clock. *)
SiteChanges == /\ site + alive < MaxNews /\ site' = site + 1
               /\ UNCHANGED <<tables, alive, due, young, pass, followed, bounds>>
HostAppears == /\ site + alive < MaxNews /\ alive' = alive + 1
               /\ UNCHANGED <<tables, site, due, young, pass, followed, bounds>>
BecomesDue == /\ ~due /\ due' = TRUE
              /\ UNCHANGED <<world, tables, young, pass, followed, bounds>>
GrowsOld == /\ young /\ young' = FALSE
            /\ UNCHANGED <<world, tables, due, pass, followed, bounds>>

Started(q) == pass[q].pc # "gone"
\* The probe of anyone but p excuses the passes under way.
Excused(p) == [q \in Passes |-> IF q # p THEN [pass[q] EXCEPT !.owes = FALSE] ELSE pass[q]]
\* Another scan of the target, the operator's or one that a watch enqueued, probes
\* the page and may find hosts.
OtherScan ==
    /\ mishaps < MaxMishaps /\ mishaps' = mishaps + 1
    /\ page' = site /\ hosts' \in hosts..alive /\ counted' = hosts'
    /\ pass' = Excused(0)
    /\ UNCHANGED <<world, due, young, followed, restarts>>

--------------------------------------------------------------------------------
(* A pass. *)

\* runDueMonitors.
RunDueMonitors ==
    /\ due /\ ~young /\ \A p \in Passes : ~(pass[p].watch /\ pass[p].status \in Active)
    /\ \E p \in Passes : FirstUnused(p) /\
          pass' = [pass EXCEPT ![p] = [NoPass EXCEPT !.status = "pending", !.watch = TRUE,
                                                     !.mods = Names]]
    /\ young' = TRUE
    /\ UNCHANGED <<world, tables, due, followed, bounds>>

\* executeTask up to the first module.
Start(p) ==
    /\ pass[p].status = "pending" /\ pass[p].pc = "gone"
    /\ pass' = [pass EXCEPT ![p].status = "running", ![p].pc = "modules", 
                  ![p].known = IF pass[p].watch THEN counted ELSE 0,
                  ![p].had = IF pass[p].watch THEN hosts ELSE 0,
                  ![p].owes = pass[p].watch /\ page # site]
    /\ UNCHANGED <<world, tables, due, young, followed, bounds>>

Module(p) == pass[p].at
StillAhead(p) == pass[p].mods \ pass[p].behind
\* waitIfPaused; then the subdomain count is read again (currentSubdomainCount).
ModuleStarts(p) ==
    /\ pass[p].pc = "modules" /\ pass[p].status # "paused"
    /\ \E m \in StillAhead(p) :
          /\ \A n \in StillAhead(p) \ {m} : Earlier(m, n)
          /\ pass' = [pass EXCEPT ![p].pc = "in module", ![p].at = m,
                        ![p].known = IF pass[p].watch /\ hosts > @ THEN hosts ELSE @]
    /\ UNCHANGED <<world, tables, due, young, followed, bounds>>

\* The loop goes on; updateTargetStats writes the count.
AfterModule(p, q) == pass' = [q EXCEPT ![p].pc = "modules", ![p].behind = @ \union {Module(p)}]
Completed(p, q) == AfterModule(p, [q EXCEPT ![p].done = @ \union {Module(p)}])
EnumEnds(p) ==
    /\ pass[p].pc = "in module" /\ Module(p) = "subdomain_enum"
    /\ hosts' = alive /\ counted' = hosts' /\ Completed(p, pass)
    /\ UNCHANGED <<world, page, due, young, followed, bounds>>
\* MonitorScanner.Run: what differs is recorded, the row follows the page.
MonitorEnds(p) ==
    /\ pass[p].pc = "in module" /\ Module(p) = "monitor"
    /\ page' = site /\ counted' = hosts
    /\ Completed(p, [q \in Passes |->
          [pass[q] EXCEPT !.changed = @ \/ (pass[q].watch /\ Started(q) /\ page # site)]])
    /\ UNCHANGED <<world, hosts, due, young, followed, bounds>>
\* storeHTTPService: the row follows the page and nobody is told.
ProbeEnds(p) ==
    /\ pass[p].pc = "in module" /\ Module(p) = "http_probe"
    /\ page' = site /\ counted' = hosts /\ Completed(p, Excused(p))
    /\ UNCHANGED <<world, hosts, due, young, followed, bounds>>
OthersEnd(p) ==
    /\ pass[p].pc = "in module" /\ Module(p) = "others"
    /\ counted' = hosts /\ Completed(p, pass)
    /\ UNCHANGED <<world, page, hosts, due, young, followed, bounds>>
\* A module fails, or does nothing: the watchdog or the operator cut it, or the page
\* did not answer and the monitor passed it over.
ModuleFails(p) ==
    /\ pass[p].pc = "in module" /\ mishaps < MaxMishaps /\ mishaps' = mishaps + 1
    /\ counted' = hosts
    /\ LET q == [pass EXCEPT ![p].owes = @ /\ Module(p) # "monitor"] IN
       AfterModule(p, [q EXCEPT ![p].failed = TRUE]) \/ Completed(p, q)
    /\ UNCHANGED <<world, page, hosts, due, young, followed, restarts>>
\* PauseTarget and ResumeTarget: a module under way goes on, none is started meanwhile.
PausePass(p) ==
    /\ pass[p].status = "running" /\ mishaps < MaxMishaps /\ mishaps' = mishaps + 1
    /\ pass' = [pass EXCEPT ![p].status = "paused"]
    /\ UNCHANGED <<world, tables, due, young, followed, restarts>>
UnpausePass(p) ==
    /\ pass[p].status = "paused" /\ pass' = [pass EXCEPT ![p].status = "running"]
    /\ UNCHANGED <<world, tables, due, young, followed, bounds>>
\* CancelTask: the row is terminal, by its own UPDATE or, if paused, by the executor's.
Cancel(p) ==
    /\ pass[p].status \in {"pending", "running", "paused"} /\ mishaps < MaxMishaps /\ mishaps' = mishaps + 1
    /\ pass' = [pass EXCEPT ![p] = NoPass]
    /\ UNCHANGED <<world, tables, due, young, followed, restarts>>

\* The final UPDATE of the row, then two more steps for a watch: monitor_last_run and
\* the follow-up.  A row that is over is forgotten.
Finish(p) ==
    /\ pass[p].pc = "modules" /\ StillAhead(p) = {}
    /\ pass' = [pass EXCEPT ![p] = IF @.watch /\ ~@.failed
                                   THEN [@ EXCEPT !.status = "finished", !.pc = "stamp"]
                                   ELSE NoPass]
    /\ UNCHANGED <<world, tables, due, young, followed, bounds>>
StampLastRun(p) ==
    /\ pass[p].pc = "stamp" /\ due' = FALSE
    /\ pass' = [pass EXCEPT ![p].pc = "escalate"]
    /\ UNCHANGED <<world, tables, young, followed, bounds>>
\* escalateIfChanged: the cached count against the last one read by the pass.
Escalate(p) ==
    /\ pass[p].pc = "escalate"
    /\ followed' = (counted > pass[p].known \/ pass[p].changed)
    /\ pass' = [pass EXCEPT ![p] = NoPass]
    /\ UNCHANGED <<world, tables, due, young, bounds>>

--------------------------------------------------------------------------------
(* Restarts. *)

\* A graceful stop parks what runs and waits for those that are past their final
\* UPDATE; after a crash the next start cancels what the row still shows as running.
\* Rows that are pending stay, unless they are more than two hours old.
Restart ==
    /\ restarts < MaxRestarts /\ restarts' = restarts + 1
    /\ \E graceful, stale \in BOOLEAN :
          /\ graceful => \A p \in Passes : pass[p].pc \notin {"stamp", "escalate"}
          /\ pass' = [p \in Passes |->
                CASE pass[p].status \in {"running", "paused"} /\ graceful ->
                        [pass[p] EXCEPT !.status = "interrupted", !.pc = "gone"]
                  [] pass[p].status = "pending" /\ ~stale -> pass[p]
                  [] OTHER -> NoPass]
    /\ UNCHANGED <<world, tables, due, young, followed, mishaps>>

Rest(p) == pass[p].mods \ pass[p].done
\* ResumeInterrupted and ResumeTask: the row is retired and a scan without a type of
\* its own takes over the modules that are left; current_module is left out when it
\* had been so for longer than its watchdog.
Resumed(p, wedged) ==
    LET left == Rest(p) \ (IF wedged THEN {Module(p)} ELSE {})
        retired == [pass EXCEPT ![p] = NoPass] IN
    IF left = {} THEN pass' = retired
    ELSE \E q \in Passes : FirstUnused(q) /\
            pass' = [retired EXCEPT ![q] = [NoPass EXCEPT !.status = "pending", !.mods = left]]
\* A bug: the row stays as it is beside its successor.
ResumeKeepingRow(p) ==
    /\ pass[p].status = "interrupted"
    /\ \E q \in Passes : FirstUnused(q) /\ Rest(p) # {} /\
          pass' = [pass EXCEPT ![q] = [NoPass EXCEPT !.status = "pending", !.mods = Rest(p)]]
    /\ UNCHANGED <<world, tables, due, young, followed, bounds>>
Resume(p) ==
    /\ pass[p].status = "interrupted"
    /\ \E wedged \in BOOLEAN : Resumed(p, wedged)
    /\ UNCHANGED <<world, tables, due, young, followed, bounds>>

PassStep(p) ==
    \/ Start(p) \/ ModuleStarts(p) \/ EnumEnds(p) \/ MonitorEnds(p) \/ ProbeEnds(p)
    \/ OthersEnd(p) \/ Finish(p) \/ StampLastRun(p) \/ Escalate(p) \/ Resume(p)
MonNext ==
    \/ SiteChanges \/ HostAppears \/ BecomesDue \/ GrowsOld \/ OtherScan \/ RunDueMonitors
    \/ \E p \in Passes : PassStep(p) \/ ModuleFails(p) \/ PausePass(p) \/ UnpausePass(p) \/ Cancel(p)
    \/ Restart
MonSpec == MonInit /\ [][MonNext]_monVars

--------------------------------------------------------------------------------
\* A watch that finishes has recorded the change that was there when it began, if its
\* monitor reached the page: nothing of the same pass refreshes the rows first.  Left
\* out are passes during which another scan probed the page (runDueMonitors' order,
\* executeTask's, createTask's exemption from planning, MonitorScanner.Run).
ChangesAreNoticed ==
    \A p \in Passes :
        pass[p].status = "finished" /\ pass[p].owes => pass[p].changed

\* Once it is due, the target is watched to the end in spite of failed passes,
\* cancellations, pauses and restarts: no row left behind keeps runDueMonitors away, and
\* each finished pass moves monitor_last_run.  Only a watch that the operator leaves
\* paused for good keeps the next one away, as the query says.
WatchGoesOn ==
    due ~> \/ ~due
           \/ [](\E p \in Passes : pass[p].watch /\ pass[p].status = "paused")

\* A pass that ends and found hosts which were not there when it began is followed up.
NewSubdomainsEscalate ==
    [][\A p \in Passes :
          pass[p].pc = "escalate" /\ pass'[p] = NoPass /\ UNCHANGED restarts
             /\ counted > pass[p].had
          => followed']_monVars
===============================================================================
