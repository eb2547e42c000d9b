SPECIFICATION Spec
CONSTANTS
  Approvals = {a1, a2}
  Runs = {run1}
  Calls = {c1, c2, c3}
  LastStep = 2
  Gates = {1, 2}
  MaxCrashes = 0
  None = None
INVARIANT GateGuardsItsStep
CHECK_DEADLOCK FALSE
