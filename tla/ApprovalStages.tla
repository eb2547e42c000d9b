--------------------------- MODULE ApprovalStages ---------------------------
(***************************************************************************)
(* What an approval request promises, without votes, templates or clocks:  *)
(* it passes its steps one at a time and in order, it is granted with the  *)
(* step that completes it and never before, a denial or a recall stops it  *)
(* where it stands, and nothing is ever taken back from the steps passed.  *)
(* ApprovalRequests implements this under the mapping it states.           *)
(***************************************************************************)
EXTENDS Integers

CONSTANTS Requests, MaxSteps

VARIABLES
  outcome,  \* [Requests -> Outcomes]
  height,   \* how many steps each request has
  passed    \* the steps it has passed

stageVars == <<outcome, height, passed>>

Outcomes == {"none", "open", "granted", "denied", "recalled"}

Init ==
  /\ outcome = [r \in Requests |-> "none"]
  /\ height  = [r \in Requests |-> 0]
  /\ passed  = [r \in Requests |-> {}]

\* A new request with n steps; one granted at once has passed them all.
Enters(r, n, opened) ==
  /\ outcome[r] = "none"
  /\ height' = [height EXCEPT ![r] = n]
  /\ \/ opened = "open"    /\ UNCHANGED passed
     \/ opened = "granted" /\ passed' = [passed EXCEPT ![r] = 1 .. n]

Enter(r, n, opened) ==
  Enters(r, n, opened) /\ outcome' = [outcome EXCEPT ![r] = opened]

\* An open request gives way to a new one.
Replace(old, r, n, opened) ==
  /\ outcome[old] = "open"
  /\ Enters(r, n, opened)
  /\ outcome' = [outcome EXCEPT ![old] = "recalled", ![r] = opened]

\* Step s is the next to pass.
Passes(r, s) ==
  /\ outcome[r] = "open"
  /\ passed[r] = 1 .. s - 1
  /\ passed' = [passed EXCEPT ![r] = 1 .. s]
  /\ UNCHANGED height

Climb(r, s) == Passes(r, s) /\ s < height[r] /\ UNCHANGED outcome

Grant(r, s) ==
  Passes(r, s) /\ s = height[r] /\ outcome' = [outcome EXCEPT ![r] = "granted"]

Deny(r) ==
  /\ outcome[r] = "open"
  /\ outcome' = [outcome EXCEPT ![r] = "denied"]
  /\ UNCHANGED <<height, passed>>

Recall(r) ==
  /\ outcome[r] # "none"
  /\ outcome' = [outcome EXCEPT ![r] = "recalled"]
  /\ UNCHANGED <<height, passed>>

Next ==
  \E r \in Requests :
    \/ \E n \in 1 .. MaxSteps, opened \in {"open", "granted"} :
         Enter(r, n, opened) \/ \E old \in Requests : Replace(old, r, n, opened)
    \/ \E s \in 1 .. MaxSteps : Climb(r, s) \/ Grant(r, s)
    \/ Deny(r)
    \/ Recall(r)

Spec == Init /\ [][Next]_stageVars
=============================================================================
