-------------------------- MODULE ApprovalRequests --------------------------
(***************************************************************************)
(* The approval request tables of Servers/utils/approvalRequest.utils.ts:  *)
(* requests, their steps and the votes on each step, the workflow          *)
(* templates they are copied from, and the hourly SLA escalation sweep.    *)
(*                                                                         *)
(* A decision runs in one transaction that starts with SELECT ... FOR      *)
(* UPDATE on the request row, so each is one action.  What is not atomic   *)
(* is kept apart: the HTTP call that carries a decision (it can arrive     *)
(* late, twice or never) and the sweep's read, claim and notify.           *)
(*                                                                         *)
(* What a request does to the thing it is about (use case, file, AI        *)
(* action) is added by UseCaseApprovals, whose actions conjoin these.      *)
(***************************************************************************)
EXTENDS Integers, FiniteSets

CONSTANTS
  Requests,    \* ids approval_requests can issue: a bound on requests
  Users,
  Admins,      \* users whose role has approvalRequest.admin
  Workflows,   \* rows of approval_workflows
  Templates,   \* the step lists an administrator may save
  Entities,    \* what a request can be about
  Sweepers,    \* processes that run the escalation sweep
  MaxSteps,    \* bound on the steps of a template
  MaxSends,    \* bound on the different decisions clients send
  MaxCrashes,  \* bound on the sweeps cut short
  None

Steps   == 1 .. MaxSteps
Results == {"Approved", "Rejected"}
Votes   == {"none", "Pending"} \cup Results
Timers  == {"none", "armed", "running", "elapsed", "escalated"}

RequestStatuses == {"unused", "Pending", "Withdrawn"} \cup Results
StepStatuses    == {"none", "Pending", "Completed", "Rejected"}

Origin  == [workflow : Workflows \cup {None}, entity : Entities \cup {None},
            requester : Users \cup {None}]

NoOrigin == [workflow |-> None, entity |-> None, requester |-> None]

\* The body of POST .../approve and .../reject.  `step` is the step on the
\* sender's screen; only an override carries it (ApprovalOverride.stepNumber).
Submission == [request : Requests, user : Users, result : Results,
               step : Steps, override : BOOLEAN]

Kinds == {"use_case", "file", "ai_action"}

Template == [size : Steps, approvers : [Steps -> SUBSET Users],
             all : [Steps -> BOOLEAN], sla : [Steps -> BOOLEAN],
             kind : Kinds, maxRank : Nat]

ASSUME TemplatesOK ==
  /\ MaxSteps \in Nat \ {0}
  /\ MaxSends \in Nat
  /\ MaxCrashes \in Nat
  /\ Admins \subseteq Users
  /\ None \notin Workflows \cup Entities \cup Users
  /\ Templates \subseteq Template
  /\ \A t \in Templates : \A s \in 1 .. t.size : t.approvers[s] # {}

VARIABLES
  template,    \* [Workflows -> Templates]
  active,      \* the workflows not soft-deleted
  status, origin, current, total,         \* approval_requests
  step, timer, overridden, autoApproved,  \* approval_request_steps
  vote,        \* approval_request_step_approvals; "none" where there is no row
  submitted,   \* decisions some client has sent and may send again
  sweep,       \* [Sweepers -> overdue steps it read and has not handled]
  claimed,     \* [Sweepers -> steps it has claimed and not yet notified]
  alerts,      \* escalation notifications sent for each step
  crashes

requestVars  == <<status, origin, current, total, step, timer, overridden,
                  autoApproved, vote>>
templateVars == <<template, active>>
sweepVars    == <<sweep, claimed, alerts, crashes>>
vars         == <<requestVars, templateVars, submitted, sweepVars>>

Init ==
  /\ template \in [Workflows -> Templates]
  /\ active = Workflows
  /\ status  = [r \in Requests |-> "unused"]
  /\ origin  = [r \in Requests |-> NoOrigin]
  /\ current = [r \in Requests |-> 1]
  /\ total   = [r \in Requests |-> 0]
  /\ step    = [r \in Requests |-> [s \in Steps |-> "none"]]
  /\ timer   = [r \in Requests |-> [s \in Steps |-> "none"]]
  /\ vote    = [r \in Requests |-> [s \in Steps |-> [u \in Users |-> "none"]]]
  /\ overridden   = {}
  /\ autoApproved = {}
  /\ submitted    = {}
  /\ sweep   = [w \in Sweepers |-> {}]
  /\ claimed = [w \in Sweepers |-> {}]
  /\ alerts  = [r \in Requests |-> [s \in Steps |-> 0]]
  /\ crashes = 0

-----------------------------------------------------------------------------
(* Templates *)

\* updateApprovalWorkflowQuery: the step rows are deleted and written anew; the
\* entity type cannot change.  Requests already open keep their own steps.
EditWorkflow(w, t) ==
  /\ t.kind = template[w].kind
  /\ template' = [template EXCEPT ![w] = t]
  /\ UNCHANGED <<active, requestVars, submitted, sweepVars>>

\* deleteApprovalWorkflowQuery is a soft delete.
DeleteWorkflow(w) ==
  /\ active' = active \ {w}
  /\ UNCHANGED <<template, requestVars, submitted, sweepVars>>

-----------------------------------------------------------------------------
(* Opening and withdrawing *)

\* getWorkflowStepsQuery reads the steps in one statement and then the approvers
\* of each step in one more.  An edit that commits when the approvers of the
\* steps before `cut` have been read deletes the rest under the reader's hands.
\* A cut past the last step is a read nothing came between.
Whole(w) == template[w].size + 1

ReadTemplate(w, cut) ==
  \/ cut = Whole(w) /\ UNCHANGED template
  \/ /\ cut < Whole(w)
     /\ \E t \in Templates : /\ t.kind = template[w].kind
                            /\ template' = [template EXCEPT ![w] = t]

\* Only the first step's SLA clock starts with the request.
\* (ClockAtOpenForAll is a mutant: every step gets its due_at at once.)
ClockAtOpenForAll(t, s) == IF s > t.size \/ ~t.sla[s] THEN "none" ELSE "running"

ClockAtOpen(t, s) ==
  IF s > t.size \/ ~t.sla[s] THEN "none" ELSE IF s = 1 THEN "running" ELSE "armed"

\* The rows createApprovalRequestQuery inserts for request r, a copy of the
\* template as it was read; with `auto`, as tryAutoApproveRequestQuery leaves
\* them.
InsertRows(r, w, e, u, auto, cut) ==
  LET t == template[w]
      Row(s, none, plain, approved) ==
        IF s > t.size THEN none ELSE IF auto THEN approved ELSE plain
  IN  /\ origin'  = [origin EXCEPT ![r] =
                      [workflow |-> w, entity |-> e, requester |-> u]]
      /\ current' = [current EXCEPT ![r] = 1]
      /\ total'   = [total EXCEPT ![r] = t.size]
      /\ step'    = [step EXCEPT ![r] =
                      [s \in Steps |-> Row(s, "none", "Pending", "Completed")]]
      /\ vote'    = [vote EXCEPT ![r] = [s \in Steps |-> [v \in Users |->
                      IF s < cut /\ v \in t.approvers[s]
                      THEN Row(s, "none", "Pending", "Approved") ELSE "none"]]]
      /\ timer'   = [timer EXCEPT ![r] = [s \in Steps |-> ClockAtOpen(t, s)]]
      /\ autoApproved' = IF auto THEN autoApproved \cup {r} ELSE autoApproved
      /\ ReadTemplate(w, cut)
      /\ UNCHANGED <<overridden, active, submitted, sweepVars>>

OpenedStatus(auto) == IF auto THEN "Approved" ELSE "Pending"

Open(r, w, e, u, auto, cut) ==
  /\ status[r] = "unused"
  /\ status' = [status EXCEPT ![r] = OpenedStatus(auto)]
  /\ InsertRows(r, w, e, u, auto, cut)

\* updateProjectById withdraws the use case's stale request and opens another
\* in the same transaction.
Supersede(old, r, w, e, u, auto, cut) ==
  /\ status[old] = "Pending"
  /\ origin[old].entity = e
  /\ status[r] = "unused"
  /\ status' = [status EXCEPT ![old] = "Withdrawn", ![r] = OpenedStatus(auto)]
  /\ InsertRows(r, w, e, u, auto, cut)

\* withdrawApprovalRequestQuery: the UPDATE has no condition on the status.
Withdraw(r) ==
  /\ status[r] # "unused"
  /\ status' = [status EXCEPT ![r] = "Withdrawn"]
  /\ UNCHANGED <<origin, current, total, step, timer, overridden, autoApproved,
                 vote, templateVars, submitted, sweepVars>>

-----------------------------------------------------------------------------
(* Decisions: processApprovalQuery *)

\* A client sends a decision on a pending request: an approver who has not
\* voted on the step on screen, or an administrator overriding it.
Submit(r, u, res, override) ==
  /\ status[r] = "Pending"
  /\ Cardinality(submitted) < MaxSends
  /\ IF override THEN u \in Admins ELSE vote[r][current[r]][u] = "Pending"
  /\ submitted' = submitted \cup
       {[request |-> r, user |-> u, result |-> res, step |-> current[r],
         override |-> override]}
  /\ UNCHANGED <<requestVars, templateVars, sweepVars>>

\* requires_all_approvers is read from the template as it is now, by step
\* number; a step the template no longer has requires everyone.
RequiresAll(r, s) ==
  LET t == template[origin[r].workflow] IN s > t.size \/ t.all[s]

\* Mutant: asks those who approve under the template of today.
StepSatisfiedLive(r, s, votes) ==
  \A v \in template[origin[r].workflow].approvers[s] : votes[v] = "Approved"

StepSatisfied(r, s, votes) ==
  IF RequiresAll(r, s) THEN \A v \in Users : votes[v] # "Pending"
                       ELSE \E v \in Users : votes[v] = "Approved"

\* The rest of the transaction once `votes` stand on the current step.
Rejects(r) ==
  /\ step'   = [step EXCEPT ![r][current[r]] = "Rejected"]
  /\ status' = [status EXCEPT ![r] = "Rejected"]
  /\ UNCHANGED <<current, timer>>

\* Mutant: no check for the last step.
AdvancesPastLast(r) ==
  /\ current' = [current EXCEPT ![r] = @ + 1]
  /\ step'    = [step EXCEPT ![r][current[r]] = "Completed"]
  /\ UNCHANGED <<status, timer>>

\* The next step's clock starts only now.
Advances(r) ==
  LET s == current[r] IN
  /\ s < total[r]
  /\ step'    = [step EXCEPT ![r][s] = "Completed"]
  /\ current' = [current EXCEPT ![r] = s + 1]
  /\ timer'   = [timer EXCEPT ![r][s + 1] = IF @ = "armed" THEN "running" ELSE @]
  /\ UNCHANGED status

\* Mutant: any completed step approves the request.
ApprovesEarly(r) ==
  /\ step'   = [step EXCEPT ![r][current[r]] = "Completed"]
  /\ status' = [status EXCEPT ![r] = "Approved"]
  /\ UNCHANGED <<current, timer>>

Approves(r) ==
  LET s == current[r] IN
  /\ s >= total[r]
  /\ step'   = [step EXCEPT ![r][s] = "Completed"]
  /\ status' = [status EXCEPT ![r] = "Approved"]
  /\ UNCHANGED <<current, timer>>

Settles(r, res, votes, force) ==
  /\ vote' = [vote EXCEPT ![r][current[r]] = votes]
  /\ \/ res = "Rejected" /\ Rejects(r)
     \/ /\ res = "Approved"
        /\ force \/ StepSatisfied(r, current[r], votes)
        /\ Advances(r) \/ Approves(r)
     \/ /\ res = "Approved"
        /\ ~(force \/ StepSatisfied(r, current[r], votes))
        /\ UNCHANGED <<step, status, current, timer>>
  /\ UNCHANGED <<origin, total, autoApproved, templateVars, submitted, sweepVars>>

\* The votes on the current step with this decision recorded.
\* (BallotUnwritten is a mutant: the decision counts but leaves no row.)
BallotUnwritten(m) == vote[m.request][current[m.request]]

Ballot(m) == [vote[m.request][current[m.request]] EXCEPT ![m.user] = m.result]

\* The normal path (assertPendingApprover).  Nothing in the call names a step:
\* it counts on whatever step is current when it is processed.
CastVote(m) ==
  LET r == m.request IN
  /\ m \in submitted
  /\ ~m.override
  /\ status[r] = "Pending"
  /\ vote[r][current[r]][m.user] = "Pending"
  /\ Settles(r, m.result, Ballot(m), FALSE)
  /\ UNCHANGED overridden

\* Mutants: without the check of the step number, without that of the vote.
MayOverrideAnyStep(m) ==
  /\ origin[m.request].requester # m.user
  /\ vote[m.request][current[m.request]][m.user] \in {"none", "Pending", m.result}
MayOverrideOwnVote(m) ==
  m.step = current[m.request] /\ origin[m.request].requester # m.user

\* On the step the administrator meant, never on their own request, and never
\* against a vote they already cast.
MayOverride(m) ==
  /\ m.step = current[m.request]
  /\ origin[m.request].requester # m.user
  /\ vote[m.request][current[m.request]][m.user] \in {"none", "Pending", m.result}

OverrideStep(m) ==
  LET r == m.request IN
  /\ m \in submitted
  /\ m.override
  /\ status[r] = "Pending"
  /\ MayOverride(m)
  /\ overridden' = overridden \cup {<<r, current[r]>>}
  /\ Settles(r, m.result, Ballot(m), TRUE)

-----------------------------------------------------------------------------
(* The escalation sweep *)

\* due_at passes.
Elapse(r, s) ==
  /\ timer[r][s] = "running"
  /\ timer' = [timer EXCEPT ![r][s] = "elapsed"]
  /\ UNCHANGED <<status, origin, current, total, step, overridden, autoApproved,
                 vote, templateVars, submitted, sweepVars>>

\* getOverdueApprovalStepsQuery
Overdue ==
  {p \in Requests \X Steps :
     /\ status[p[1]] = "Pending"
     /\ p[2] = current[p[1]]
     /\ step[p[1]][p[2]] = "Pending"
     /\ timer[p[1]][p[2]] = "elapsed"}

ReadOverdue(w) ==
  /\ sweep[w] = {} /\ claimed[w] = {}
  /\ Overdue # {}
  /\ sweep' = [sweep EXCEPT ![w] = Overdue]
  /\ UNCHANGED <<requestVars, templateVars, submitted, claimed, alerts, crashes>>

\* Mutants of the condition: dropped, and the wrong way round.
ClaimableAlways(p)   == p \in Requests \X Steps
ClaimableInverted(p) == timer[p[1]][p[2]] = "escalated"

\* markApprovalStepEscalatedQuery: conditional on escalated_at alone, so the
\* request may have been decided since the read.
Claimable(p) == timer[p[1]][p[2]] # "escalated"

ClaimEscalation(w, p) ==
  /\ p \in sweep[w] /\ claimed[w] = {}
  /\ sweep' = [sweep EXCEPT ![w] = @ \ {p}]
  /\ IF Claimable(p)
     THEN /\ timer' = [timer EXCEPT ![p[1]][p[2]] = "escalated"]
          /\ claimed' = [claimed EXCEPT ![w] = {p}]
     ELSE UNCHANGED <<timer, claimed>>
  /\ UNCHANGED <<status, origin, current, total, step, overridden, autoApproved,
                 vote, templateVars, submitted, alerts, crashes>>

\* A notification that fails is logged and not sent again.
NotifyEscalation(w, p) ==
  /\ p \in claimed[w]
  /\ claimed' = [claimed EXCEPT ![w] = @ \ {p}]
  /\ \/ alerts' = [alerts EXCEPT ![p[1]][p[2]] = @ + 1]
     \/ UNCHANGED alerts
  /\ UNCHANGED <<requestVars, templateVars, submitted, sweep, crashes>>

\* A worker dies in the middle of a sweep.
CrashSweep(w) ==
  /\ sweep[w] # {} \/ claimed[w] # {}
  /\ crashes < MaxCrashes
  /\ crashes' = crashes + 1
  /\ sweep' = [sweep EXCEPT ![w] = {}]
  /\ claimed' = [claimed EXCEPT ![w] = {}]
  /\ UNCHANGED <<requestVars, templateVars, submitted, alerts>>

-----------------------------------------------------------------------------

\* The steps that touch no entity.
Background ==
  \/ \E w \in Workflows, t \in Templates : EditWorkflow(w, t)
  \/ \E w \in Workflows : DeleteWorkflow(w)
  \/ \E r \in Requests, u \in Users, res \in Results, override \in BOOLEAN :
       Submit(r, u, res, override)
  \/ \E r \in Requests, s \in Steps : Elapse(r, s)
  \/ \E w \in Sweepers : ReadOverdue(w) \/ CrashSweep(w)
  \/ \E w \in Sweepers, p \in Requests \X Steps :
       ClaimEscalation(w, p) \/ NotifyEscalation(w, p)

Next ==
  \/ Background
  \/ \E r \in Requests, w \in Workflows, e \in Entities, u \in Users,
        auto \in BOOLEAN, cut \in 1 .. MaxSteps + 1 :
       \/ Open(r, w, e, u, auto, cut)
       \/ \E old \in Requests : Supersede(old, r, w, e, u, auto, cut)
  \/ \E r \in Requests : Withdraw(r)
  \/ \E m \in submitted : CastVote(m) \/ OverrideStep(m)

Spec == Init /\ [][Next]_vars

\* The sweep is a repeatable hourly job: a worker that can take its next step
\* eventually does.
Sweeps(w) == \/ ReadOverdue(w)
             \/ \E p \in Requests \X Steps : ClaimEscalation(w, p) \/ NotifyEscalation(w, p)

FairSpec == Spec /\ \A w \in Sweepers : WF_vars(Sweeps(w))

-----------------------------------------------------------------------------
(* Properties *)

TypeOK ==
  /\ template \in [Workflows -> Templates]
  /\ active \subseteq Workflows
  /\ status \in [Requests -> RequestStatuses]
  /\ origin \in [Requests -> Origin]
  /\ current \in [Requests -> Steps]
  /\ total \in [Requests -> 0 .. MaxSteps]
  /\ step \in [Requests -> [Steps -> StepStatuses]]
  /\ timer \in [Requests -> [Steps -> Timers]]
  /\ vote \in [Requests -> [Steps -> [Users -> Votes]]]
  /\ overridden \subseteq Requests \X Steps
  /\ autoApproved \subseteq Requests
  /\ submitted \subseteq Submission
  /\ sweep \in [Sweepers -> SUBSET (Requests \X Steps)]
  /\ claimed \in [Sweepers -> SUBSET (Requests \X Steps)]
  /\ alerts \in [Requests -> [Steps -> Nat]]
  /\ crashes \in Nat

\* The steps of a request are passed strictly in order: everything before the
\* current step is completed, everything after it untouched, and the current
\* step agrees with the status of the request.  processApprovalQuery writes the
\* step, the pointer and the status in separate statements.
LadderOf(r) ==
  /\ current[r] \in 1 .. total[r]
  /\ \A s \in 1 .. total[r] :
       /\ s < current[r] => step[r][s] = "Completed"
       /\ s > current[r] => step[r][s] = IF r \in autoApproved THEN "Completed" ELSE "Pending"
  /\ status[r] = "Pending"  => step[r][current[r]] = "Pending" /\ r \notin autoApproved
  /\ status[r] = "Rejected" => step[r][current[r]] = "Rejected"
  /\ status[r] = "Approved" => /\ step[r][current[r]] = "Completed"
                               /\ current[r] = total[r] \/ r \in autoApproved

StepLadder == \A r \in Requests : status[r] # "unused" => LadderOf(r)

\* No pending request is stuck: while a step that was given approvers is the
\* current one, one of them can still vote, although "all or any" is re-read
\* from a template that may have been edited between two votes.
SomeoneCanDecide ==
  \A r \in Requests : status[r] = "Pending" =>
    \/ \E u \in Users : vote[r][current[r]][u] = "Pending"
    \/ \A u \in Users : vote[r][current[r]][u] = "none"

\* A step completed by its approvers carries an approval and no rejection, and
\* a rejected step carries the rejection: what the timeline shows explains the
\* outcome.  Overridden and auto-approved steps are marked as such instead.
VerdictMatchesVotes ==
  \A r \in Requests, s \in Steps :
    /\ step[r][s] = "Completed" =>
         \/ r \in autoApproved
         \/ /\ \E u \in Users : vote[r][s][u] = "Approved"
            /\ \A u \in Users : vote[r][s][u] # "Rejected"
    /\ step[r][s] = "Rejected" => \E u \in Users : vote[r][s][u] = "Rejected"

\* A vote stays as cast, whatever retry, override or auto-approval follows.
VotesAreFinal ==
  [][\A r \in Requests, s \in Steps, u \in Users :
       vote[r][s][u] \in Results => vote'[r][s][u] = vote[r][s][u]]_vars

\* An override lands only on a step the administrator was looking at, so that
\* a retry cannot carry it on to the next step, and never on their own request.
OverrideWasMeant ==
  \A p \in overridden :
    \E m \in submitted : /\ m.override /\ m.request = p[1] /\ m.step = p[2]
                         /\ origin[p[1]].requester # m.user

\* At most one escalation notice per step, over concurrent sweeps and crashes,
\* and only for a step the request has reached.
EscalatesOnce ==
  \A r \in Requests, s \in Steps :
    /\ alerts[r][s] <= 1
    /\ alerts[r][s] = 1 => timer[r][s] = "escalated" /\ s <= current[r]

\* Only the step a request waits on has a running clock; the clocks of later
\* steps have not started.
ClockFollowsStep ==
  \A r \in Requests, s \in Steps :
    s > current[r] => timer[r][s] \in {"none", "armed"}

\* An overdue step is escalated, unless the request moves on first.
OverdueEscalates ==
  \A r \in Requests, s \in Steps :
    (<<r, s>> \in Overdue) ~> (timer[r][s] = "escalated" \/ <<r, s>> \notin Overdue)

\* The request table and the step table tell one story: read off the step rows,
\* a request passes its steps one by one and is approved with the last of them,
\* though processApprovalQuery writes rows, pointer and status separately.
OutcomeOf(r) == CASE status[r] = "unused"    -> "none"
                  [] status[r] = "Pending"   -> "open"
                  [] status[r] = "Approved"  -> "granted"
                  [] status[r] = "Rejected"  -> "denied"
                  [] status[r] = "Withdrawn" -> "recalled"

Stages == INSTANCE ApprovalStages WITH
            outcome <- [r \in Requests |-> OutcomeOf(r)],
            height  <- total,
            passed  <- [r \in Requests |-> {s \in Steps : step[r][s] = "Completed"}]

ImplementsStages == Stages!Spec
=============================================================================
