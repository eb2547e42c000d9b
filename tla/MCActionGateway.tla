--------------------------- MODULE MCActionGateway ---------------------------
(***************************************************************************)
(* Instances of ActionGateway for TLC.                                     *)
(***************************************************************************)
EXTENDS ActionGateway, TLC

\* Sound: no formula names an approval or a run, and the properties are safety.
GatewaySymmetry ==
  Permutations(Approvals) \cup Permutations(Runs) \cup Permutations(Calls)
=============================================================================
