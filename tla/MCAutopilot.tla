----------------------------- MODULE MCAutopilot ------------------------------
(* Instances of AgentRuntime, Monitoring and TaskAdmission for TLC: the loops    *)
(* that work on targets without being asked again.  They share no state; a       *)
(* behaviour runs the one `part` names.  In the admission, tasks of a busy        *)
(* target stand ahead of one task of another, and the second is urgent.          *)
EXTENDS AgentRuntime, Monitoring, TaskAdmission
CONSTANTS gBusy, gOther
VARIABLE part

LastIsOther == [t \in Tasks |-> IF \A u \in Tasks : u <= t THEN gOther ELSE gBusy]
SecondUrgent == [t \in Tasks |-> IF t = 2 THEN 8 ELSE 5]
AllEqual == [t \in Tasks |-> 5]

MCInit == /\ part \in {"agent", "monitor", "admission"} /\ AgentInit /\ MonInit /\ Init
          /\ part # "monitor" => ~due
          /\ part # "admission" => pressure = 0
InAgent(A) == part = "agent" /\ A /\ UNCHANGED <<part, monVars, vars>>
InMonitor(A) == part = "monitor" /\ A /\ UNCHANGED <<part, agentVars, vars>>
InAdmission(A) == part = "admission" /\ A /\ UNCHANGED <<part, agentVars, monVars>>
MCNext == InAgent(AgentNext) \/ InMonitor(MonNext) \/ InAdmission(Next)
MCVars == <<part, agentVars, monVars, vars>>

\* A starter, a run and its hunter go on; the ticker of the watches runs, time passes
\* and the scheduler works its passes off; the queue goroutine runs and an admitted
\* goroutine updates its row.
MCFairness ==
    /\ \A p \in Starters : WF_MCVars(InAgent(StartStep(p))) /\ WF_MCVars(InAgent(Preempt(p)))
    /\ \A h \in Hunters : WF_MCVars(InAgent(HunterStep(h)))
    /\ WF_MCVars(InMonitor(RunDueMonitors)) /\ WF_MCVars(InMonitor(GrowsOld))
    /\ \A p \in Passes : WF_MCVars(InMonitor(PassStep(p)))
    /\ WF_MCVars(InAdmission(ProcessQueue))
    /\ \A t \in Tasks : WF_MCVars(InAdmission(LeavePending(t)))
MCSpec == MCInit /\ [][MCNext]_MCVars /\ MCFairness
===============================================================================
