------------------------------ MODULE MCServices ------------------------------
(* Instances of WebsocketHub, HostThrottle, ReleaseChecker and BountySync for    *)
(* TLC.  They share no state; a behaviour runs the one `part` names.  The         *)
(* catalogue runs with an abort or restart, or with a request beside the pass.   *)
EXTENDS WebsocketHub, HostThrottle, ReleaseChecker, BountySync
VARIABLE part

MCInit == /\ part \in {"hub", "throttle", "release", "faults", "requests"}
          /\ HubInit /\ ThrottleInit /\ ReleaseInit /\ BountyInit
          /\ part \notin {"faults", "requests"} => \A p \in Programs : prog[p].status = "none"
InHub(A) == part = "hub" /\ A /\ UNCHANGED <<part, thrVars, relVars, bountyVars>>
InThrottle(A) == part = "throttle" /\ A /\ UNCHANGED <<part, hubVars, relVars, bountyVars>>
InRelease(A) == part = "release" /\ A /\ UNCHANGED <<part, hubVars, thrVars, bountyVars>>
InBounty(A) == /\ part \in {"faults", "requests"} /\ A
               /\ UNCHANGED <<part, hubVars, thrVars, relVars>>
               /\ part = "requests" => breaks' = 0
               /\ part = "faults" => \A r \in Readers : work'[r].pc = "idle"
MCNext == \/ InHub(HubNext) \/ InThrottle(ThrottleNext) \/ InRelease(ReleaseNext)
          \/ InBounty(BountyNext)
MCVars == <<part, hubVars, thrVars, relVars, bountyVars>>

\* The goroutines of a client run, scanners go on sending and time passes; of the
\* catalogue what BountyFairness says.
MCFairness ==
    /\ \A c \in Clients : /\ WF_MCVars(InHub(StartPumps(c))) /\ WF_MCVars(InHub(ReaderStep(c)))
                          /\ WF_MCVars(InHub(WriterStep(c)))
    /\ WF_MCVars(InThrottle(Pass))
    /\ \A c \in Callers : /\ WF_MCVars(InThrottle(Request(c)))
                          /\ WF_MCVars(InThrottle(CallerStep(c)))
    /\ WF_MCVars(InBounty(HoursPass)) /\ WF_MCVars(InBounty(BeginPass(FALSE)))
    /\ WF_MCVars(InBounty(PassStep)) /\ SF_MCVars(InBounty(List))
    /\ \A r \in Readers : WF_MCVars(InBounty(CreateStep(r)))
    /\ \A w \in Workers :
         /\ WF_MCVars(InBounty(EnsureStep(w))) /\ WF_MCVars(InBounty(ReconcileStep(w)))
         /\ WF_MCVars(InBounty(FetchScope(w) \/ FetchScopeFails(w)))
         /\ SF_MCVars(InBounty(Lock(w)))
         /\ \A p \in Programs :
              SF_MCVars(InBounty(FetchScope(w) /\ work[w].p = p /\ listed[p]))
MCSpec == MCInit /\ [][MCNext]_MCVars /\ MCFairness
================================================================================
