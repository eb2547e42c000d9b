SPECIFICATION FairSpec
CONSTANTS
  Approvals = {a1, a2}
  Runs = {run1}
  Calls = {c1, c2, c3}
  LastStep = 3
  Gates = {1, 2}
  MaxCrashes = 1
  None = None
PROPERTY ApprovalSettles
CHECK_DEADLOCK FALSE
