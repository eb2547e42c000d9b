CONSTANTS
  ann = ann
  None = None
  Requests = {r1, r2}
  Users = {ann}
  Admins = {}
  Workflows = {w1, w2}
  Templates <- AutoTemplate
  Entities = {use1}
  UseCases = {use1}
  Files = {}
  AiActions = {}
  Frameworks = {f1}
  Risks = {0, 1}
  Editors = {d1, d2}
  Linkers = {a1}
  Sweepers = {}
  MaxSteps = 1
  MaxSends = 2
  MaxCrashes = 0
SPECIFICATION ApprovalSpec
CHECK_DEADLOCK FALSE
SYMMETRY CaseSymmetry
INVARIANTS InReviewHasRequest VerdictReachesEntity
PROPERTIES QueueNeedsVerdict
