\* Requests of up to two words; two candidates at one place, two recorders, three observations, one other event.
SPECIFICATION MCSpec
CONSTANTS
  MaxSelected = 2
  Candidates = {x, y}
  Recorders = {r1, r2}
  NoCand = NoCand
  MaxRecords = 3
  MaxOthers = 1
SYMMETRY Sym
INVARIANTS PlanFeedsDetectors TrailIsOneStory FindingsAreProven
PROPERTIES ConfirmedIsSticky RejectionSparesOthers
CHECK_DEADLOCK FALSE
