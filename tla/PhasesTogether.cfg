\* A parallel group, a stage, and a late member of the group.
SPECIFICATION Spec
CONSTANTS
  ssrf = ssrf
  lfi = lfi
  csti = csti
  cmdi = cmdi
  speed = speed
  Modules = {ssrf, lfi, csti, cmdi}
  Tokens = {speed}
  Plan0 <- Slow
  GroupOf <- Injection
  Parallel = TRUE
  LongWait = TRUE
  Pinned = FALSE
  None = None
  MaxResumes = 1
  MaxSkips = 1
INVARIANTS BarriersHold SkipHitsOnlyItsPhase
CHECK_DEADLOCK FALSE
