CONSTANTS
  ann = ann
  bob = bob
  None = None
  Requests = {r1}
  Users = {ann, bob}
  Admins = {bob}
  Workflows = {w1}
  Templates <- SlaTemplates
  Entities = {use1}
  Sweepers = {s1, s2}
  MaxSteps = 2
  MaxSends = 2
  MaxCrashes = 1
SPECIFICATION FairSpec
CHECK_DEADLOCK FALSE
INVARIANTS EscalatesOnce ClockFollowsStep
PROPERTIES OverdueEscalates
