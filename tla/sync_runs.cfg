SPECIFICATION FairSpec
CONSTANTS
  Runner = {r1, r2}
  NoRunner = NoRunner
  StaleAfter = 0
  HourTicks = 1
  MaxInterval = 1
  MaxExponent = 2
  CapHours = 2
  MaxRequests = 1
INVARIANTS OneClaim
PROPERTIES ImplementsClaim OutcomesCountOnce CrashedRunsClose ScheduleGoesOn
CHECK_DEADLOCK FALSE
