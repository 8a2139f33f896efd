\* Pause, resume and one graceful restart; busy database at the start of a task.
SPECIFICATION FairSpec
CONSTANTS
  g1 = g1
  Tasks = {1, 2}
  Targets = {g1}
  TargetOf <- OneTarget
  Workers = {w1, w2}
  Handlers = {h1}
  None = None
  Ceiling = 2
  PerTarget = 1
  Phases = 1
  MaxBoots = 1
  Ops = {"pause", "resume", "shutdown"}
  Aged = {1}
  Faults = {"start"}
INVARIANTS StopWaitsForCancelledOnly GracefulExitLeavesNoZombie GateMatchesRow
PROPERTIES CancelledOnlyOnRequest StopReturns
CHECK_DEADLOCK FALSE
