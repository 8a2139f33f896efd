\* Cancels, a shutdown or a crash, and the recovery; no task is older than two hours.
SPECIFICATION Spec
CONSTANTS
  g1 = g1
  Tasks = {1, 2}
  Targets = {g1}
  TargetOf <- OneTarget
  Workers = {w1, w2}
  Handlers = {h1}
  None = None
  Ceiling = 2
  PerTarget = 1
  Phases = 1
  MaxBoots = 1
  Ops = {"cancelTask", "shutdown", "crash"}
  Aged = {}
  Faults = {"park"}
INVARIANTS ShownActiveHasScan
PROPERTIES CancelSurvivesPark
SYMMETRY AnyWorker
CHECK_DEADLOCK FALSE
