------------------------- MODULE MCApprovalRequests -------------------------
(***************************************************************************)
(* Instances of ApprovalRequests for TLC.                                  *)
(***************************************************************************)
EXTENDS ApprovalRequests, TLC

CONSTANTS ann, bob

\* A two-step template: ann and bob, then `second`.
TwoSteps(all, second, sla) ==
  [size |-> 2, approvers |-> (1 :> {ann, bob} @@ 2 :> second),
   all |-> (1 :> all @@ 2 :> FALSE), sla |-> (1 :> sla @@ 2 :> sla),
   kind |-> "use_case", maxRank |-> 0]

\* One step, decided by bob.  A request with two steps finds here, after an
\* edit, that one vote decides its first step and everyone its second.
OneStep ==
  [size |-> 1, approvers |-> (1 :> {bob} @@ 2 :> {}),
   all |-> (1 :> FALSE @@ 2 :> FALSE), sla |-> (1 :> FALSE @@ 2 :> FALSE),
   kind |-> "use_case", maxRank |-> 0]

PairTemplates   == {TwoSteps(TRUE, {bob}, FALSE), OneStep}
SlaTemplates    == {TwoSteps(FALSE, {bob}, TRUE)}

\* Sound: no formula names a request, and the properties are safety.
RequestSymmetry == Permutations(Requests)
=============================================================================
