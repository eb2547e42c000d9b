SPECIFICATION FairSpec
CONSTANTS
  Schedules = {s1}
  Runs = {r1, r2}
  Ticks = {t1, t2}
  Editors = {e1}
  None = None
  Cadences = {1, 2}
  NextRun <- Periodic
  MaxTime = 2
  MaxCrashes = 1
INVARIANTS SlotRunsOnce CadenceKept
PROPERTIES DueIsClaimed
CHECK_DEADLOCK FALSE
