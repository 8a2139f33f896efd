\* Two programs, of which one leaves the listing, and a refresh that a single failure ends; no asset of interest, no requests, no faults.
SPECIFICATION BountySpec
CONSTANTS
  Programs = {p1, p2}
  Assets = {}
  Projects = {t1, t2}
  Readers = {}
  Sync = sync
  NoProgram = NoProgram
  Nobody = Nobody
  Dated = FALSE
  GiveUpAfter = 1
  MaxChanges = 1
  MaxBreaks = 0
PROPERTIES LinkedAreRefreshed
CHECK_DEADLOCK FALSE
