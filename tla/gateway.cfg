SPECIFICATION Spec
CONSTANTS
  Approvals = {a1, a2, a3}
  Runs = {run1, run2}
  Calls = {c1, c2, c3}
  LastStep = 3
  Gates = {2, 3}
  MaxCrashes = 1
  None = None
SYMMETRY GatewaySymmetry
INVARIANTS StrandedByCrashOnly ParkedAtItsGate WriteWasApproved OneDecisionOneWrite
PROPERTY ImplementsPermits
CHECK_DEADLOCK FALSE
