\* Two operators, a hunter and a crash; a watched target, one piece of news, one mishap, one restart;
\* four tasks, one of them urgent, a full channel, changing pressure, as many rows per drain as there are tasks.
SPECIFICATION MCSpec
CONSTANTS
  Operators = {o1, o2}
  Hunters = {h1}
  Threads = {t1}
  HunterThread = th
  Nobody = Nobody
  MaxCycles = 2
  MaxCrashes = 1
  Passes = {1, 2}
  MaxNews = 1
  MaxMishaps = 1
  MaxRestarts = 1
  gBusy = gBusy
  gOther = gOther
  Tasks = {1, 2, 3, 4}
  Targets = {gBusy, gOther}
  TargetOf <- LastIsOther
  Priority <- SecondUrgent
  None = None
  QueueCap = 2
  DrainLimit = 4
  Base = 3
  PerTarget = 1
  Pressures = {0, 1, 2}
INVARIANTS OneRunPerTarget RunningRowHasWorker ChangesAreNoticed SlotsBounded
PROPERTIES SlotsComeBack WatchGoesOn NoFreeSlotUnused
CHECK_DEADLOCK FALSE
