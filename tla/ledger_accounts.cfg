SPECIFICATION Spec
CONSTANTS
  u1 = u1
  Change = {c1, c2}
  Pruner = {p1}
  Nobody = Nobody
  User = {u1}
  System = System
  Author <- Authors
  Leaving = {u1}
  Shortest = 1
  Periods = {1, 2}
  BatchSize = 1
  MaxBatches = 2
  PageSize = 2
  MaxEntries = 4
  MaxClock = 2
SYMMETRY Symmetry
INVARIANT NeverCompromised
CHECK_DEADLOCK FALSE
