---------------------------- MODULE MCScanContents ----------------------------
(* Instances of ModulePlanner and FindingLifecycle for TLC: what a scan is asked *)
(* to do and what its findings become.  The two share no state; a behaviour runs *)
(* the one `part` names.                                                         *)
EXTENDS ModulePlanner, FindingLifecycle, TLC
VARIABLE part

MCInit == part \in {"plan", "findings"} /\ PlannerInit /\ LifeInit
MCNext == \/ part = "plan" /\ PlannerNext /\ UNCHANGED <<part, lifeVars>>
          \/ part = "findings" /\ LifeNext /\ UNCHANGED <<part, request>>
MCSpec == MCInit /\ [][MCNext]_<<part, request, lifeVars>>
Sym == Permutations(Candidates) \union Permutations(Recorders)
===============================================================================
