\* A bot replaced by another in one or two settings requests, one crash; one chat, one finding, two mishaps.
SPECIFICATION MCSpec
CONSTANTS
  tOld = tOld
  tNew = tNew
  Bots = {tOld, tNew}
  NoToken = NoToken
  Keep = Keep
  FirstBot = tOld
  UpdatesOf <- OldIdsAbove
  Admins = {a1}
  Requests <- SomeRequests
  MaxConfigures = 2
  MaxCrashes = 1
  Chats = {c1}
  Findings = {f1}
  Wanted = {"phase"}
  BatchLimit = 2
  MaxAttempts = 2
  MaxMishaps = 2
INVARIANTS OncePerCursor CrashLosesOne
PROPERTIES CommandsAreExecuted NoFindingSlips OwedIsSettled KeepsLedger
CHECK_DEADLOCK FALSE
