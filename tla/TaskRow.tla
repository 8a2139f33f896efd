-------------------------------- MODULE TaskRow --------------------------------
(***************************************************************************)
(* What the scheduler promises about a task, as far as a client can tell:  *)
(* the stage its row shows, and whether somebody works on it.  Work begins *)
(* once, with the row leaving pending, and no row ever comes back, however *)
(* pauses, cancels, shutdowns, crashes and restarts meet.  ScanLifecycle   *)
(* implements it.                                                          *)
(***************************************************************************)
CONSTANTS Tasks

VARIABLES
    stage,     \* of the row: running and paused are one, as are all ends of a scan
    working    \* tasks whose scan is being carried out

rowVars == <<stage, working>>

Stages == {"none", "pending", "active", "interrupted", "over", "deleted"}

\* Where a row may go from each stage, but for the beginning of its work.
Onward == [none |-> {}, pending |-> {"interrupted", "over", "deleted"},
           active |-> {"interrupted", "over", "deleted"}, interrupted |-> {"over", "deleted"},
           over |-> {"deleted"}, deleted |-> {}]

RowInit ==
    stage = [t \in Tasks |-> "none"] /\ working = {}

Submit(t) ==
    /\ stage[t] = "none"
    /\ stage' = [stage EXCEPT ![t] = "pending"]
    /\ UNCHANGED working

Begin(t) ==
    /\ stage[t] = "pending" /\ t \notin working
    /\ stage' = [stage EXCEPT ![t] = "active"]
    /\ working' = working \cup {t}

\* A statement moves a row, or a sweep many.
Move ==
    /\ stage' \in [Tasks -> Stages]
    /\ \A t \in Tasks : stage'[t] \in Onward[stage[t]] \cup {stage[t]}
    /\ UNCHANGED working

\* The work on some tasks is over; a process that dies leaves it all.
Cease(S) ==
    /\ working' = working \ S
    /\ UNCHANGED stage

RowNext ==
    \/ \E t \in Tasks : Submit(t) \/ Begin(t)
    \/ \E S \in SUBSET Tasks : Cease(S)
    \/ Move

RowSpec == RowInit /\ [][RowNext]_rowVars
================================================================================
