CONSTANTS
  ann = ann
  None = None
  Requests = {r1, r2}
  Users = {ann}
  Admins = {}
  Workflows = {w1, w2}
  Templates <- OtherTemplates
  Entities = {file1, ai}
  UseCases = {}
  Files = {file1}
  AiActions = {ai}
  Frameworks = {f1}
  Risks = {0}
  Editors = {}
  Linkers = {}
  Sweepers = {}
  MaxSteps = 1
  MaxSends = 3
  MaxCrashes = 0
SPECIFICATION ApprovalSpec
CHECK_DEADLOCK FALSE
INVARIANTS VerdictReachesEntity
