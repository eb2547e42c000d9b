---------------------------- MODULE MCAuditLedger ----------------------------
(* An instance of AuditLedger for TLC: the changes are one user's, the rows  *)
(* of the retention job are nobody's, so the changes are symmetric.          *)
EXTENDS AuditLedger, TLC

CONSTANTS u1

Authors == [c \in Change |-> u1]

Symmetry == Permutations(Change)
=============================================================================
