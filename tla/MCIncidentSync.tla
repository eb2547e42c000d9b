--------------------------- MODULE MCIncidentSync ---------------------------
(* An instance of IncidentSync for TLC: a Jira workflow of three statuses,   *)
(* one of them not mapped, and an incident workflow of three, one of which   *)
(* leaves Jira alone; "done" comes in as Closed and "Mitigated" goes out as  *)
(* "done", so the mappings are not each other's inverse.                     *)
EXTENDS IncidentSync

JStatuses == {"todo", "done", "odd"}
VStatuses == {"Open", "Mitigated", "Closed"}

In == [todo |-> "Open", done |-> "Closed", odd |-> ""]
Out == [Open |-> "todo", Mitigated |-> "done", Closed |-> ""]

\* Nothing leads from "odd" to "done".
Workflow == {<<"todo", "done">>, <<"done", "todo">>, <<"todo", "odd">>, <<"odd", "todo">>}
=============================================================================
