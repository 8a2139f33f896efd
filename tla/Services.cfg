\* Two browsers and channels of two; two senders on one slot whose budget outlasts the delay; two page requests;
\* a program, a project, one change of the platform, and a request beside the pass or one abort or restart.
SPECIFICATION MCSpec
CONSTANTS
  Clients = {c1, c2}
  QueueCap = 2
  SendCap = 1
  MaxBroadcasts = 2
  MaxPings = 1
  Callers = {s1, s2}
  Slots = 1
  Bump = 2
  Ceiling = 4
  Budget = 12
  Service = 1
  MaxFaults = 1
  MaxCancels = 1
  Requests = {r1, r2}
  MaxReleases = 1
  MaxTurns = 1
  MaxAges = 3
  NoFetch = NoFetch
  Programs = {p1}
  Assets = {a1}
  Projects = {t1}
  Readers = {r3}
  Sync = sync
  NoProgram = NoProgram
  Nobody = Nobody
  Dated = FALSE
  GiveUpAfter = 3
  MaxChanges = 1
  MaxBreaks = 1
INVARIANTS NoGap
PROPERTIES HealthyHostRecovers ShownFollowsGitHub RemovalsReachProjects AdditionsReachOperators
CHECK_DEADLOCK FALSE
