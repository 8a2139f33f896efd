\* One module at a time, a resume; modules that need not return before their context ends.
SPECIFICATION FairSpec
CONSTANTS
  ssrf = ssrf
  lfi = lfi
  csti = csti
  cmdi = cmdi
  speed = speed
  Modules = {ssrf, lfi, csti, cmdi}
  Tokens = {speed}
  Plan0 <- Two
  GroupOf <- Injection
  Parallel = FALSE
  LongWait = FALSE
  Pinned = FALSE
  None = None
  MaxResumes = 2
  MaxSkips = 1
INVARIANTS FinishedCoversPlan DropsOnlyStalled
PROPERTIES NothingSavedRunsAgain SkippedStaysSkipped ScanEnds
CHECK_DEADLOCK FALSE
