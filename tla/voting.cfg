CONSTANTS
  ann = ann
  bob = bob
  None = None
  Requests = {r1, r2}
  Users = {ann, bob}
  Admins = {bob}
  Workflows = {w1}
  Templates <- PairTemplates
  Entities = {use1}
  Sweepers = {}
  MaxSteps = 2
  MaxSends = 3
  MaxCrashes = 0
SPECIFICATION Spec
CHECK_DEADLOCK FALSE
SYMMETRY RequestSymmetry
INVARIANTS TypeOK StepLadder SomeoneCanDecide VerdictMatchesVotes OverrideWasMeant
PROPERTIES VotesAreFinal ImplementsStages
