----------------------------- MODULE MCSyncRuns -----------------------------
(* An instance of SyncRuns for TLC: a run is stale once a tick passes        *)
(* without a heartbeat, a tick is an hour, and two failures reach the cap.   *)
(* No symmetry: the run checks liveness.                                     *)
EXTENDS SyncRuns
=============================================================================
