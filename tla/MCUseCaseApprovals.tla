------------------------- MODULE MCUseCaseApprovals -------------------------
(***************************************************************************)
(* Instances of UseCaseApprovals for TLC.  How votes decide a step is the  *)
(* business of MCApprovalRequests: here one vote decides.                  *)
(***************************************************************************)
EXTENDS UseCaseApprovals, TLC

CONSTANT ann

\* One step with one approver; use cases up to `rank` are approved at once.
Simple(kind, rank) ==
  [size |-> 1, approvers |-> (1 :> {ann}), all |-> (1 :> TRUE),
   sla |-> (1 :> FALSE), kind |-> kind, maxRank |-> rank]

CaseTemplates  == {Simple("use_case", 0), Simple("use_case", 1)}
AutoTemplate   == {Simple("use_case", 1)}
OtherTemplates == {Simple("file", 0), Simple("ai_action", 0)}

\* Sound: no formula names a workflow, a request or an edit, and the properties
\* are safety.
CaseSymmetry ==
  Permutations(Workflows) \cup Permutations(Requests) \cup Permutations(Editors)
=============================================================================
