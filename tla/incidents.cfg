SPECIFICATION FairSpec
CONSTANTS
  Run = {r1, r2}
  Manual = {r2}
  NoRun = NoRun
  JStatus <- JStatuses
  VStatus <- VStatuses
  OpenStatus = "Open"
  ClosedStatus = "Closed"
  Unset = ""
  MapIn <- In
  MapOut <- Out
  Moves <- Workflow
  MaxEvents = 2
INVARIANTS OneIncidentPerIssue OneRunReconciles
PROPERTIES EditsKept NoEcho Converges
CHECK_DEADLOCK FALSE
