\* Every request of the operator against the executors; the last update of a task may fail.
SPECIFICATION Spec
CONSTANTS
  g1 = g1
  Tasks = {1, 2}
  Targets = {g1}
  TargetOf <- OneTarget
  Workers = {w1, w2}
  Handlers = {h1}
  None = None
  Ceiling = 2
  PerTarget = 1
  Phases = 1
  MaxBoots = 0
  Ops = {"cancelTask", "cancelTarget", "delete", "pause", "resume"}
  Aged = {}
  Faults = {"final"}
INVARIANTS OneExecutorPerTask SlotsBelongToLiveRuns
PROPERTIES KeepsRow
SYMMETRY AnyWorker
CHECK_DEADLOCK FALSE
