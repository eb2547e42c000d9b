----------------------- MODULE ApprovalRequestsProofs -----------------------
(***************************************************************************)
(* Proofs about ApprovalRequests: typing, the ladder of steps, that no     *)
(* request is stuck, that votes are final and escalations single.          *)
(***************************************************************************)
EXTENDS ApprovalRequests, TLAPS

-----------------------------------------------------------------------------
(* Typing *)

\* What both ways of opening a request share.
LEMMA InsertRowsTyped ==
  ASSUME TypeOK, NEW r \in Requests, NEW w \in Workflows, NEW e \in Entities,
         NEW u \in Users, NEW auto \in BOOLEAN, NEW cut \in 1 .. MaxSteps + 1,
         status' \in [Requests -> RequestStatuses],
         InsertRows(r, w, e, u, auto, cut)
  PROVE  TypeOK'
<1>t. /\ template[w] \in Template
      /\ template[w].size \in Steps
      /\ Steps \subseteq 0 .. MaxSteps
      /\ 1 \in Steps
  BY TemplatesOK DEF TypeOK, Template, Steps
<1>1. /\ active' \subseteq Workflows
      /\ overridden' \subseteq Requests \X Steps
      /\ submitted' \subseteq Submission
      /\ sweep' \in [Sweepers -> SUBSET (Requests \X Steps)]
      /\ claimed' \in [Sweepers -> SUBSET (Requests \X Steps)]
      /\ alerts' \in [Requests -> [Steps -> Nat]]
      /\ crashes' \in Nat
  BY DEF TypeOK, InsertRows, sweepVars
<1>2. template' \in [Workflows -> Templates]
  BY DEF TypeOK, InsertRows, ReadTemplate
<1>3. origin' \in [Requests -> Origin]
  <2>1. [workflow |-> w, entity |-> e, requester |-> u] \in Origin
    BY DEF Origin
  <2> QED BY <2>1 DEF TypeOK, InsertRows
<1>4. current' \in [Requests -> Steps] /\ total' \in [Requests -> 0 .. MaxSteps]
  BY <1>t DEF TypeOK, InsertRows
<1>5. step' \in [Requests -> [Steps -> StepStatuses]]
  BY DEF TypeOK, InsertRows, StepStatuses
<1>6. vote' \in [Requests -> [Steps -> [Users -> Votes]]]
  BY DEF TypeOK, InsertRows, Votes, Results
<1>7. timer' \in [Requests -> [Steps -> Timers]]
  BY DEF TypeOK, InsertRows, ClockAtOpen, Timers
<1>8. autoApproved' \subseteq Requests
  BY DEF TypeOK, InsertRows
<1> QED BY <1>1, <1>2, <1>3, <1>4, <1>5, <1>6, <1>7, <1>8 DEF TypeOK

\* Granting or denying a step writes values the columns allow.
LEMMA SettlesTyped ==
  ASSUME TypeOK, NEW r \in Requests, NEW res \in Results,
         NEW votes \in [Users -> Votes], NEW force \in BOOLEAN,
         overridden' \subseteq Requests \X Steps,
         Settles(r, res, votes, force)
  PROVE  TypeOK'
<1>1. vote' \in [Requests -> [Steps -> [Users -> Votes]]]
  BY DEF TypeOK, Settles
<1>2. UNCHANGED <<template, active, origin, total, autoApproved, submitted,
                  sweep, claimed, alerts, crashes>>
  BY DEF Settles, templateVars, sweepVars
<1>3. /\ status' \in [Requests -> RequestStatuses]
      /\ step' \in [Requests -> [Steps -> StepStatuses]]
      /\ current' \in [Requests -> Steps]
      /\ timer' \in [Requests -> [Steps -> Timers]]
  <2>1. CASE Rejects(r)
    BY <2>1 DEF TypeOK, Rejects, RequestStatuses, StepStatuses, Results
  <2>2. CASE Advances(r)
    <3>1. current[r] \in Steps /\ current[r] + 1 \in Steps
      BY <2>2, TemplatesOK DEF TypeOK, Advances, Steps
    <3>2. /\ status' \in [Requests -> RequestStatuses]
          /\ step' \in [Requests -> [Steps -> StepStatuses]]
          /\ current' \in [Requests -> Steps]
      BY <2>2, <3>1 DEF TypeOK, Advances, StepStatuses
    <3>3. timer' \in [Requests -> [Steps -> Timers]]
      BY <2>2, <3>1 DEF TypeOK, Advances, Timers
    <3> QED BY <3>2, <3>3
  <2>3. CASE Approves(r)
    BY <2>3 DEF TypeOK, Approves, RequestStatuses, StepStatuses, Results
  <2>4. CASE UNCHANGED <<step, status, current, timer>>
    BY <2>4 DEF TypeOK
  <2> QED BY <2>1, <2>2, <2>3, <2>4 DEF Settles
<1> QED BY <1>1, <1>2, <1>3 DEF TypeOK

\* Recording a vote writes values the columns allow.
LEMMA BallotTyped ==
  ASSUME TypeOK, NEW m, m.request \in Requests, m.user \in Users, m.result \in Results
  PROVE  /\ Ballot(m) \in [Users -> Votes]
         /\ Ballot(m)[m.user] = m.result
         /\ \A u \in Users : u # m.user => Ballot(m)[u] = vote[m.request][current[m.request]][u]
BY DEF TypeOK, Ballot, Votes

\* Before the first request every table is empty.
LEMMA TypeInit == Init => TypeOK
<1> SUFFICES ASSUME Init PROVE TypeOK
  OBVIOUS
<1>1. 1 \in Steps
  BY TemplatesOK DEF Steps
<1>2. NoOrigin \in Origin
  BY DEF NoOrigin, Origin
<1> QED BY <1>1, <1>2, TemplatesOK
  DEF Init, TypeOK, RequestStatuses, StepStatuses, Timers, Votes

\* Every handler, and every point at which the sweep may stop, keeps the types.
LEMMA TypeStep == TypeOK /\ [Next]_vars => TypeOK'
<1> SUFFICES ASSUME TypeOK, [Next]_vars PROVE TypeOK'
  OBVIOUS
<1>1. ASSUME NEW w \in Workflows, NEW t \in Templates, EditWorkflow(w, t)
      PROVE  TypeOK'
  BY <1>1 DEF TypeOK, EditWorkflow, requestVars, sweepVars
<1>2. ASSUME NEW w \in Workflows, DeleteWorkflow(w)
      PROVE  TypeOK'
  BY <1>2 DEF TypeOK, DeleteWorkflow, requestVars, sweepVars
<1>3. ASSUME NEW r \in Requests, NEW u \in Users, NEW res \in Results,
             NEW override \in BOOLEAN, Submit(r, u, res, override)
      PROVE  TypeOK'
  <2>1. [request |-> r, user |-> u, result |-> res, step |-> current[r],
         override |-> override] \in Submission
    BY DEF TypeOK, Submission
  <2>2. submitted' \subseteq Submission
    BY <1>3, <2>1 DEF TypeOK, Submit
  <2> QED BY <1>3, <2>2 DEF TypeOK, Submit, requestVars, templateVars, sweepVars
<1>4. ASSUME NEW r \in Requests, NEW s \in Steps, Elapse(r, s)
      PROVE  TypeOK'
  BY <1>4 DEF TypeOK, Elapse, templateVars, sweepVars, Timers
<1>5. ASSUME NEW w \in Sweepers, ReadOverdue(w) \/ CrashSweep(w)
      PROVE  TypeOK'
  <2>1. Overdue \in SUBSET (Requests \X Steps)
    BY DEF Overdue
  <2>2. /\ sweep' \in [Sweepers -> SUBSET (Requests \X Steps)]
        /\ claimed' \in [Sweepers -> SUBSET (Requests \X Steps)]
    BY <1>5, <2>1 DEF TypeOK, ReadOverdue, CrashSweep
  <2> QED BY <1>5, <2>2 DEF TypeOK, ReadOverdue, CrashSweep, requestVars, templateVars
<1>6. ASSUME NEW w \in Sweepers, NEW p \in Requests \X Steps, ClaimEscalation(w, p)
      PROVE  TypeOK'
  <2>1. p[1] \in Requests /\ p[2] \in Steps
    OBVIOUS
  <2>2. timer' \in [Requests -> [Steps -> Timers]]
    <3>1. timer \in [Requests -> [Steps -> Timers]] /\ "escalated" \in Timers
      BY DEF TypeOK, Timers
    <3>2. \/ UNCHANGED timer
          \/ timer' = [timer EXCEPT ![p[1]][p[2]] = "escalated"]
      BY <1>6 DEF ClaimEscalation
    <3> QED BY <2>1, <3>1, <3>2
  <2>3. /\ sweep' \in [Sweepers -> SUBSET (Requests \X Steps)]
        /\ claimed' \in [Sweepers -> SUBSET (Requests \X Steps)]
    <3>1. /\ sweep \in [Sweepers -> SUBSET (Requests \X Steps)]
          /\ claimed \in [Sweepers -> SUBSET (Requests \X Steps)]
      BY DEF TypeOK
    <3>2. /\ sweep[w] \ {p} \in SUBSET (Requests \X Steps)
          /\ {p} \in SUBSET (Requests \X Steps)
      BY <3>1
    <3>3. sweep' = [sweep EXCEPT ![w] = sweep[w] \ {p}]
      BY <1>6 DEF ClaimEscalation
    <3>4. UNCHANGED claimed \/ claimed' = [claimed EXCEPT ![w] = {p}]
      BY <1>6 DEF ClaimEscalation
    <3>5. sweep' \in [Sweepers -> SUBSET (Requests \X Steps)]
      BY <3>1, <3>2, <3>3
    <3>6. claimed' \in [Sweepers -> SUBSET (Requests \X Steps)]
      BY <3>1, <3>2, <3>4
    <3> QED BY <3>5, <3>6
  <2> QED BY <1>6, <2>2, <2>3 DEF TypeOK, ClaimEscalation, templateVars
<1>7. ASSUME NEW w \in Sweepers, NEW p \in Requests \X Steps, NotifyEscalation(w, p)
      PROVE  TypeOK'
  <2>1. alerts \in [Requests -> [Steps -> Nat]] /\ claimed \in [Sweepers -> SUBSET (Requests \X Steps)]
    BY DEF TypeOK
  <2>2. claimed' \in [Sweepers -> SUBSET (Requests \X Steps)]
    BY <1>7, <2>1 DEF NotifyEscalation
  <2>3. alerts' \in [Requests -> [Steps -> Nat]]
    <3>1. p[1] \in Requests /\ p[2] \in Steps
      OBVIOUS
    <3>2. \/ UNCHANGED alerts
          \/ alerts' = [alerts EXCEPT ![p[1]][p[2]] = @ + 1]
      BY <1>7 DEF NotifyEscalation
    <3> QED BY <2>1, <3>1, <3>2
  <2> QED BY <1>7, <2>2, <2>3 DEF TypeOK, NotifyEscalation, requestVars, templateVars
<1>8. ASSUME NEW r \in Requests, NEW w \in Workflows, NEW e \in Entities,
             NEW u \in Users, NEW auto \in BOOLEAN, NEW cut \in 1 .. MaxSteps + 1,
             Open(r, w, e, u, auto, cut)
      PROVE  TypeOK'
  <2>1. status' \in [Requests -> RequestStatuses]
    BY <1>8 DEF TypeOK, Open, OpenedStatus, RequestStatuses, Results
  <2> QED BY <1>8, <2>1, InsertRowsTyped DEF Open
<1>9. ASSUME NEW r \in Requests, NEW w \in Workflows, NEW e \in Entities,
             NEW u \in Users, NEW auto \in BOOLEAN, NEW cut \in 1 .. MaxSteps + 1,
             NEW old \in Requests, Supersede(old, r, w, e, u, auto, cut)
      PROVE  TypeOK'
  <2>1. status' \in [Requests -> RequestStatuses]
    BY <1>9 DEF TypeOK, Supersede, OpenedStatus, RequestStatuses, Results
  <2> QED BY <1>9, <2>1, InsertRowsTyped DEF Supersede
<1>10. ASSUME NEW r \in Requests, Withdraw(r)
       PROVE  TypeOK'
  BY <1>10 DEF TypeOK, Withdraw, templateVars, sweepVars, RequestStatuses
<1>11. ASSUME NEW m \in submitted, CastVote(m)
       PROVE  TypeOK'
  <2>1. m.request \in Requests /\ m.user \in Users /\ m.result \in Results
    BY DEF TypeOK, Submission
  <2>2. Ballot(m) \in [Users -> Votes]
    BY <2>1, BallotTyped
  <2>3. overridden' \subseteq Requests \X Steps
    BY <1>11 DEF TypeOK, CastVote
  <2> QED BY <1>11, <2>1, <2>2, <2>3, SettlesTyped DEF CastVote
<1>12. ASSUME NEW m \in submitted, OverrideStep(m)
       PROVE  TypeOK'
  <2>1. m.request \in Requests /\ m.user \in Users /\ m.result \in Results
    BY DEF TypeOK, Submission
  <2>2. Ballot(m) \in [Users -> Votes]
    BY <2>1, BallotTyped
  <2>3. overridden' \subseteq Requests \X Steps
    BY <1>12, <2>1 DEF TypeOK, OverrideStep
  <2> QED BY <1>12, <2>1, <2>2, <2>3, SettlesTyped DEF OverrideStep
<1>13. CASE UNCHANGED vars
  BY <1>13 DEF TypeOK, vars, requestVars, templateVars, sweepVars
<1> QED
  BY <1>1, <1>2, <1>3, <1>4, <1>5, <1>6, <1>7, <1>8, <1>9, <1>10, <1>11, <1>12, <1>13
  DEF Next, Background

\* Whatever the handlers and the sweep do, every row keeps the values its
\* column allows.
THEOREM TypeCorrect == Spec => []TypeOK
<1> QED BY TypeInit, TypeStep, PTL DEF Spec

-----------------------------------------------------------------------------
(* The rows of one request *)

\* What holds of the rows of one request beyond StepLadder: a request that was
\* never opened has no rows, and there are no step rows past the last step.
LadderAt(r) ==
  /\ status[r] # "unused" => LadderOf(r)
  /\ status[r] = "unused" => total[r] = 0 /\ r \notin autoApproved
  /\ \A s \in Steps : s > total[r] => step[r][s] = "none"

\* The votes on a step still leave somebody to decide it.
Decidable(r, s) ==
  \/ \E u \in Users : vote[r][s][u] = "Pending"
  \/ \A u \in Users : vote[r][s][u] = "none"

VerdictAt(r, s) ==
  /\ step[r][s] = "Completed" =>
       r \in autoApproved \/ \E u \in Users : vote[r][s][u] = "Approved"
  /\ step[r][s] = "Rejected" => \E u \in Users : vote[r][s][u] = "Rejected"
  /\ \A u \in Users : vote[r][s][u] = "Rejected" => step[r][s] = "Rejected"

BallotsAt(r) ==
  /\ status[r] = "unused" => \A s \in Steps, u \in Users : vote[r][s][u] = "none"
  /\ \A s \in Steps : VerdictAt(r, s)
  /\ status[r] = "Pending" => \A s \in current[r] .. total[r] : Decidable(r, s)

RowsOK == \A r \in Requests : LadderAt(r) /\ BallotsAt(r)

\* The request and vote rows of r, as they were.
SameRows(r) ==
  /\ current'[r] = current[r] /\ total'[r] = total[r]
  /\ step'[r] = step[r] /\ vote'[r] = vote[r]
  /\ (r \in autoApproved') = (r \in autoApproved)

\* A step that leaves them alone may at most withdraw the request.
LEMMA SameRowsKept ==
  ASSUME NEW r \in Requests, SameRows(r), LadderAt(r), BallotsAt(r),
         \/ status'[r] = status[r]
         \/ status[r] # "unused" /\ status'[r] = "Withdrawn"
  PROVE  LadderAt(r)' /\ BallotsAt(r)'
<1>1. LadderAt(r)'
  BY DEF LadderAt, LadderOf, SameRows
<1>2. \A s \in Steps : VerdictAt(r, s)'
  BY DEF BallotsAt, VerdictAt, SameRows
<1>3. \A s \in current'[r] .. total'[r] : Decidable(r, s) => Decidable(r, s)'
  BY DEF Decidable, SameRows
<1> QED BY <1>1, <1>2, <1>3 DEF BallotsAt, SameRows

\* The rows of a request that is opened are in order, and only its rows change.
LEMMA InsertRowsOrdered ==
  ASSUME TypeOK, RowsOK, NEW r \in Requests, NEW w \in Workflows, NEW e \in Entities,
         NEW u \in Users, NEW auto \in BOOLEAN, NEW cut \in 1 .. MaxSteps + 1,
         status[r] = "unused", status'[r] = OpenedStatus(auto),
         InsertRows(r, w, e, u, auto, cut)
  PROVE  /\ LadderAt(r)' /\ BallotsAt(r)'
         /\ \A q \in Requests \ {r} : SameRows(q)
<1> DEFINE t == template[w]
<1>t. /\ t \in Templates /\ t \in Template
      /\ t.size \in Steps
      /\ 1 \in Steps
      /\ \A s \in 1 .. t.size : t.approvers[s] # {} /\ t.approvers[s] \subseteq Users
      /\ 1 .. t.size \subseteq Steps
  BY TemplatesOK DEF TypeOK, Template, Steps
<1>0. r \notin autoApproved
  BY DEF RowsOK, LadderAt
<1> HIDE DEF t
<1>1. /\ current'[r] = 1 /\ total'[r] = t.size
      /\ (r \in autoApproved') = auto
      /\ \A s \in Steps : step'[r][s] = IF s > t.size THEN "none"
                                        ELSE IF auto THEN "Completed" ELSE "Pending"
  BY <1>0 DEF InsertRows, TypeOK, t
<1>2. \A s \in Steps, v \in Users :
        vote'[r][s][v] = IF s < cut /\ v \in t.approvers[s]
                         THEN IF s > t.size THEN "none" ELSE IF auto THEN "Approved" ELSE "Pending"
                         ELSE "none"
  BY DEF InsertRows, TypeOK, t
<1>3. LadderAt(r)'
  <2>1. LadderOf(r)'
    BY <1>1, <1>t DEF LadderOf, OpenedStatus, Steps
  <2>2. \A s \in Steps : s > total'[r] => step'[r][s] = "none"
    BY <1>1
  <2> QED BY <2>1, <2>2 DEF LadderAt, OpenedStatus
<1>4. BallotsAt(r)'
  <2>1. \A s \in Steps : VerdictAt(r, s)'
    BY <1>1, <1>2 DEF VerdictAt
  <2>2. ASSUME NEW s \in current'[r] .. total'[r], ~auto
        PROVE  Decidable(r, s)'
    <3>1. s \in 1 .. t.size /\ s \in Steps /\ ~(s > t.size)
      BY <1>1, <1>t DEF Steps
    <3>2. PICK v \in Users : v \in t.approvers[s]
      BY <1>t, <3>1
    <3>3. CASE s < cut
      BY <1>2, <2>2, <3>1, <3>2, <3>3 DEF Decidable
    <3>4. CASE ~(s < cut)
      BY <1>2, <3>1, <3>4 DEF Decidable
    <3> QED BY <3>3, <3>4
  <2> QED BY <2>1, <2>2 DEF BallotsAt, OpenedStatus
<1>5. \A q \in Requests \ {r} : SameRows(q)
  BY DEF InsertRows, TypeOK, SameRows
<1> QED BY <1>3, <1>4, <1>5

\* So does a decision, if the votes it leaves on the current step explain it.
LEMMA SettlesOrdered ==
  ASSUME TypeOK, RowsOK, NEW r \in Requests, status[r] = "Pending",
         NEW res \in Results, NEW votes \in [Users -> Votes], NEW force \in BOOLEAN,
         NEW u \in Users, votes[u] = res,
         \A v \in Users \ {u} : votes[v] = vote[r][current[r]][v],
         Settles(r, res, votes, force)
  PROVE  /\ LadderAt(r)' /\ BallotsAt(r)'
         /\ \A q \in Requests \ {r} : SameRows(q) /\ status'[q] = status[q]
<1>c. PICK c \in Steps : c = current[r]
  BY DEF TypeOK
<1>t. /\ c \in Steps /\ total[r] \in 0 .. MaxSteps /\ MaxSteps \in Nat
      /\ c \in Nat /\ total[r] \in Nat
  BY <1>c, TemplatesOK DEF TypeOK, Steps
<1>0. /\ LadderOf(r) /\ BallotsAt(r) /\ LadderAt(r)
      /\ c \in 1 .. total[r] /\ step[r][c] = "Pending" /\ r \notin autoApproved
  BY <1>c DEF RowsOK, LadderAt, LadderOf
<1>1. /\ total' = total /\ autoApproved' = autoApproved
      /\ vote'[r][c] = votes
      /\ \A s \in Steps : s # c => vote'[r][s] = vote[r][s]
      /\ \A q \in Requests : q # r => vote'[q] = vote[q]
  BY <1>c DEF Settles, TypeOK
<1>2. ASSUME res = "Approved", step'[r][c] # "Rejected"
      PROVE  VerdictAt(r, c)'
  <2>1. \A v \in Users : vote[r][c][v] # "Rejected"
    BY <1>0 DEF BallotsAt, VerdictAt
  <2>2. votes[u] = "Approved" /\ \A v \in Users : votes[v] # "Rejected"
    BY <1>2, <1>c, <2>1
  <2>3. vote'[r][c][u] = "Approved" /\ \A v \in Users : vote'[r][c][v] # "Rejected"
    BY <1>1, <2>2
  <2> QED BY <1>2, <2>3 DEF VerdictAt
<1>3. ASSUME NEW s \in Steps, s # c, step'[r][s] = step[r][s]
      PROVE  VerdictAt(r, s)'
  BY <1>0, <1>1, <1>3 DEF BallotsAt, VerdictAt
<1>4. ASSUME NEW s \in current[r] .. total[r], s # c
      PROVE  Decidable(r, s)'
  <2>1. s \in Steps
    BY <1>c, <1>t DEF Steps
  <2> QED BY <1>0, <1>1, <1>4, <2>1 DEF BallotsAt, Decidable
<1>5. CASE res = "Rejected" /\ Rejects(r)
  <2>1. /\ status'[r] = "Rejected" /\ current' = current /\ step'[r][c] = "Rejected"
        /\ \A s \in Steps : s # c => step'[r][s] = step[r][s]
        /\ \A q \in Requests : q # r => step'[q] = step[q] /\ status'[q] = status[q]
    BY <1>c, <1>5 DEF Rejects, TypeOK
  <2>2. LadderAt(r)'
    BY <1>c, <1>0, <1>1, <1>t, <2>1 DEF LadderAt, LadderOf, Steps
  <2>3. VerdictAt(r, c)'
    BY <1>1, <1>5, <2>1 DEF VerdictAt
  <2>4. BallotsAt(r)'
    BY <1>3, <2>1, <2>3 DEF BallotsAt
  <2> QED BY <1>1, <2>1, <2>2, <2>4 DEF SameRows
<1>6. CASE res = "Approved" /\ Advances(r)
  <2>1. /\ status' = status /\ current'[r] = c + 1 /\ c < total[r]
        /\ step'[r][c] = "Completed"
        /\ \A s \in Steps : s # c => step'[r][s] = step[r][s]
        /\ \A q \in Requests : q # r => step'[q] = step[q] /\ current'[q] = current[q]
    BY <1>c, <1>6 DEF Advances, TypeOK
  <2>2. LadderAt(r)'
    BY <1>c, <1>0, <1>1, <1>t, <2>1 DEF LadderAt, LadderOf, Steps
  <2>3. VerdictAt(r, c)'
    BY <1>2, <1>6, <2>1
  <2>4. \A s \in current'[r] .. total'[r] : Decidable(r, s)'
    BY <1>c, <1>1, <1>4, <1>t, <2>1
  <2>5. BallotsAt(r)'
    BY <1>3, <2>1, <2>3, <2>4 DEF BallotsAt
  <2> QED BY <1>1, <2>1, <2>2, <2>5 DEF SameRows
<1>7. CASE res = "Approved" /\ Approves(r)
  <2>0. c = total[r]
    BY <1>0, <1>c, <1>t, <1>7 DEF Approves
  <2>1. /\ status'[r] = "Approved" /\ current' = current /\ step'[r][c] = "Completed"
        /\ \A s \in Steps : s # c => step'[r][s] = step[r][s]
        /\ \A q \in Requests : q # r => step'[q] = step[q] /\ status'[q] = status[q]
    BY <1>c, <1>7 DEF Approves, TypeOK
  <2>2. LadderAt(r)'
    <3>1. /\ status'[r] = "Approved" /\ current'[r] = c /\ total'[r] = c
          /\ step'[r][c] = "Completed"
          /\ \A s \in Steps : s # c => step'[r][s] = step[r][s]
      BY <1>c, <1>1, <2>0, <2>1
    <3>2. \A s \in 1 .. c : s \in Steps /\ s <= c
      BY <1>t DEF Steps
    <3>3. LadderOf(r)'
      BY <1>0, <1>c, <1>t, <2>0, <3>1, <3>2 DEF LadderOf
    <3> QED BY <1>0, <1>t, <2>0, <3>1, <3>3 DEF LadderAt
  <2>3. VerdictAt(r, c)'
    BY <1>2, <1>7, <2>1
  <2>4. BallotsAt(r)'
    BY <1>3, <2>1, <2>3 DEF BallotsAt
  <2> QED BY <1>1, <2>1, <2>2, <2>4 DEF SameRows
<1>8. CASE /\ res = "Approved"
           /\ ~(force \/ StepSatisfied(r, current[r], votes))
           /\ UNCHANGED <<step, status, current, timer>>
  <2>1. LadderAt(r)'
    BY <1>0, <1>1, <1>8 DEF LadderAt, LadderOf
  <2>2. VerdictAt(r, c)'
    BY <1>0, <1>2, <1>8
  <2>3. Decidable(r, c)'
    BY <1>c, <1>1, <1>8 DEF StepSatisfied, Decidable
  <2>4. \A s \in current'[r] .. total'[r] : Decidable(r, s)'
    BY <1>1, <1>4, <1>8, <2>3
  <2>5. BallotsAt(r)'
    BY <1>3, <1>8, <2>2, <2>4 DEF BallotsAt
  <2> QED BY <1>1, <1>8, <2>1, <2>5 DEF SameRows
<1> QED BY <1>5, <1>6, <1>7, <1>8 DEF Settles

\* Edits, submissions and the sweep leave every row of every request alone.
LEMMA BackgroundKeepsRows ==
  ASSUME TypeOK, Background \/ UNCHANGED vars
  PROVE  \A q \in Requests : SameRows(q) /\ status'[q] = status[q]
<1>1. UNCHANGED <<status, current, total, step, vote, autoApproved>>
  BY DEF Background, EditWorkflow, DeleteWorkflow, Submit, Elapse, ReadOverdue, CrashSweep,
         ClaimEscalation, NotifyEscalation, vars, requestVars
<1> QED BY <1>1 DEF SameRows

\* The premises of SettlesOrdered, for the two ways of deciding.
LEMMA DecisionOrdered ==
  ASSUME TypeOK, RowsOK, NEW m \in submitted, CastVote(m) \/ OverrideStep(m)
  PROVE  /\ m.request \in Requests
         /\ LadderAt(m.request)' /\ BallotsAt(m.request)'
         /\ \A q \in Requests \ {m.request} : SameRows(q) /\ status'[q] = status[q]
<1>1. m.request \in Requests /\ m.user \in Users /\ m.result \in Results
  BY DEF TypeOK, Submission
<1>2. /\ Ballot(m) \in [Users -> Votes]
      /\ Ballot(m)[m.user] = m.result
      /\ \A u \in Users \ {m.user} : Ballot(m)[u] = vote[m.request][current[m.request]][u]
  BY <1>1, BallotTyped
<1>3. PICK force \in BOOLEAN : Settles(m.request, m.result, Ballot(m), force)
  BY DEF CastVote, OverrideStep
<1>4. status[m.request] = "Pending"
  BY DEF CastVote, OverrideStep
<1> QED BY <1>1, <1>2, <1>3, <1>4, SettlesOrdered

\* With no requests there are no rows to be out of order.
LEMMA RowsInit == Init => RowsOK
<1> SUFFICES ASSUME Init, NEW r \in Requests PROVE LadderAt(r) /\ BallotsAt(r)
  BY DEF RowsOK
<1>1. LadderAt(r)
  BY DEF Init, LadderAt
<1>2. BallotsAt(r)
  BY DEF Init, BallotsAt, VerdictAt
<1> QED BY <1>1, <1>2

\* Every handler keeps the steps of each request in order and their votes with them.
LEMMA RowsStep == TypeOK /\ RowsOK /\ [Next]_vars => RowsOK'
<1> SUFFICES ASSUME TypeOK, RowsOK, [Next]_vars PROVE RowsOK'
  OBVIOUS
<1>0. ASSUME NEW r \in Requests, SameRows(r),
             \/ status'[r] = status[r]
             \/ status[r] # "unused" /\ status'[r] = "Withdrawn"
      PROVE  LadderAt(r)' /\ BallotsAt(r)'
  BY <1>0, SameRowsKept DEF RowsOK
<1>1. CASE Background \/ UNCHANGED vars
  BY <1>1, <1>0, BackgroundKeepsRows DEF RowsOK
<1>2. ASSUME NEW r \in Requests, NEW w \in Workflows, NEW e \in Entities,
             NEW u \in Users, NEW auto \in BOOLEAN, NEW cut \in 1 .. MaxSteps + 1,
             \/ Open(r, w, e, u, auto, cut)
             \/ \E old \in Requests : Supersede(old, r, w, e, u, auto, cut)
      PROVE  RowsOK'
  <2>1. /\ status[r] = "unused" /\ status'[r] = OpenedStatus(auto)
        /\ InsertRows(r, w, e, u, auto, cut)
    BY <1>2 DEF Open, Supersede, TypeOK
  <2>2. \A q \in Requests \ {r} : \/ status'[q] = status[q]
                                  \/ status[q] # "unused" /\ status'[q] = "Withdrawn"
    BY <1>2 DEF Open, Supersede, TypeOK
  <2> QED BY <1>0, <2>1, <2>2, InsertRowsOrdered DEF RowsOK
<1>3. ASSUME NEW r \in Requests, Withdraw(r)
      PROVE  RowsOK'
  <2>1. \A q \in Requests : /\ SameRows(q)
                            /\ \/ status'[q] = status[q]
                               \/ status[q] # "unused" /\ status'[q] = "Withdrawn"
    BY <1>3 DEF Withdraw, TypeOK, SameRows
  <2> QED BY <1>0, <2>1 DEF RowsOK
<1>4. ASSUME NEW m \in submitted, CastVote(m) \/ OverrideStep(m)
      PROVE  RowsOK'
  BY <1>0, <1>4, DecisionOrdered DEF RowsOK
<1> QED BY <1>1, <1>2, <1>3, <1>4 DEF Next

\* The two halves of the invariant, carried along every behaviour.
THEOREM RowsCorrect == Spec => [](TypeOK /\ RowsOK)
<1> QED BY TypeInit, TypeStep, RowsInit, RowsStep, PTL DEF Spec

\* Steps are passed strictly in order, and pointer, step rows and request
\* status never disagree, over any number of steps, users and requests.
THEOREM LadderHolds == Spec => []StepLadder
<1>1. RowsOK => StepLadder
  BY DEF RowsOK, LadderAt, StepLadder
<1> QED BY <1>1, RowsCorrect, PTL

\* No edit of the template between two votes leaves a pending request with
\* nobody to decide the current step.
THEOREM NeverStuck == Spec => []SomeoneCanDecide
<1>1. TypeOK /\ RowsOK => SomeoneCanDecide
  <2> SUFFICES ASSUME TypeOK, RowsOK, NEW r \in Requests, status[r] = "Pending"
               PROVE  Decidable(r, current[r])
    BY DEF SomeoneCanDecide, Decidable
  <2>1. current[r] \in 1 .. total[r]
    BY DEF RowsOK, LadderAt, LadderOf
  <2>2. current[r] \in current[r] .. total[r]
    BY <2>1
  <2> QED BY <2>2 DEF RowsOK, BallotsAt
<1> QED BY <1>1, RowsCorrect, PTL

\* A finished step carries the votes that explain it.
THEOREM VerdictExplained == Spec => []VerdictMatchesVotes
<1>1. RowsOK /\ (\A r \in autoApproved : r \in Requests) => VerdictMatchesVotes
  BY DEF RowsOK, BallotsAt, VerdictAt, VerdictMatchesVotes
<1>2. TypeOK => \A r \in autoApproved : r \in Requests
  BY DEF TypeOK
<1> QED BY <1>1, <1>2, RowsCorrect, PTL

\* No retry, override, auto-approval or late call changes a vote once cast.
THEOREM VotesFinal == Spec => VotesAreFinal
<1> DEFINE Final(r) == \A s \in Steps, u \in Users :
                         vote[r][s][u] \in Results => vote'[r][s][u] = vote[r][s][u]
<1>1. TypeOK /\ RowsOK /\ [Next]_vars => \A r \in Requests : Final(r)
  <2> SUFFICES ASSUME TypeOK, RowsOK, [Next]_vars, NEW q \in Requests PROVE Final(q)
    OBVIOUS
  <2>0. ASSUME SameRows(q) PROVE Final(q)
    BY <2>0 DEF SameRows
  <2> HIDE DEF Final
  <2>1. CASE Background \/ UNCHANGED vars
    BY <2>0, <2>1, BackgroundKeepsRows
  <2>2. ASSUME NEW r \in Requests, NEW w \in Workflows, NEW e \in Entities,
               NEW u \in Users, NEW auto \in BOOLEAN, NEW cut \in 1 .. MaxSteps + 1,
               \/ Open(r, w, e, u, auto, cut)
               \/ \E old \in Requests : Supersede(old, r, w, e, u, auto, cut)
        PROVE  Final(q)
    <3>1. /\ status[r] = "unused" /\ status'[r] = OpenedStatus(auto)
          /\ InsertRows(r, w, e, u, auto, cut)
      BY <2>2 DEF Open, Supersede, TypeOK
    <3>2. Final(r)
      BY <3>1 DEF RowsOK, BallotsAt, Results, Final
    <3>3. CASE q # r
      BY <2>0, <3>1, <3>3, InsertRowsOrdered
    <3> QED BY <3>2, <3>3
  <2>3. ASSUME NEW r \in Requests, Withdraw(r)
        PROVE  Final(q)
    BY <2>0, <2>3 DEF Withdraw, SameRows
  <2>4. ASSUME NEW m \in submitted, CastVote(m) \/ OverrideStep(m)
        PROVE  Final(q)
    <3>1. m.request \in Requests /\ m.user \in Users /\ m.result \in Results
      BY DEF TypeOK, Submission
    <3>2. /\ Ballot(m) \in [Users -> Votes]
          /\ Ballot(m)[m.user] = m.result
          /\ \A u \in Users : u # m.user => Ballot(m)[u] = vote[m.request][current[m.request]][u]
      BY <3>1, BallotTyped
    <3>3. vote' = [vote EXCEPT ![m.request][current[m.request]] = Ballot(m)]
      BY <2>4 DEF CastVote, OverrideStep, Settles
    <3>4. vote[m.request][current[m.request]][m.user] \in {"none", "Pending", m.result}
      BY <2>4 DEF CastVote, OverrideStep, MayOverride
    <3>5. \A u \in Users : vote[m.request][current[m.request]][u] \in Results
                             => Ballot(m)[u] = vote[m.request][current[m.request]][u]
      BY <3>1, <3>2, <3>4 DEF Results
    <3> QED BY <3>1, <3>3, <3>5 DEF TypeOK, Final
  <2> QED BY <2>1, <2>2, <2>3, <2>4 DEF Next
<1>2. TypeOK /\ RowsOK /\ [Next]_vars =>
        [\A r \in Requests, s \in Steps, u \in Users :
           vote[r][s][u] \in Results => vote'[r][s][u] = vote[r][s][u]]_vars
  BY <1>1
<1> QED BY <1>2, RowsCorrect, PTL DEF Spec, VotesAreFinal

-----------------------------------------------------------------------------
(* The escalation sweep *)

ClockAt(r, s) ==
  /\ status[r] = "unused" => timer[r][s] = "none" /\ alerts[r][s] = 0
  /\ s > current[r] => timer[r][s] \in {"none", "armed"}
  /\ alerts[r][s] <= 1
  /\ alerts[r][s] = 1 => timer[r][s] = "escalated"

\* A step in a worker's list has been reached.  A claimed one is escalated, its
\* notice is still to come, and nobody else holds it.
ReadAt(p)    == status[p[1]] # "unused" /\ p[2] <= current[p[1]]
ClaimedAt(p) == timer[p[1]][p[2]] = "escalated" /\ alerts[p[1]][p[2]] = 0

ClocksOK ==
  /\ \A r \in Requests, s \in Steps : ClockAt(r, s)
  /\ \A w \in Sweepers : \A p \in sweep[w] : ReadAt(p)
  /\ \A w \in Sweepers : \A p \in claimed[w] : ClaimedAt(p)
  /\ \A w \in Sweepers, v \in Sweepers : v # w => claimed[v] \cap claimed[w] = {}

\* What a step must do to the tables for the lists to stay good.
Forward(r) ==
  /\ current'[r] >= current[r]
  /\ status[r] # "unused" => status'[r] # "unused"
  /\ \A s \in Steps : timer[r][s] = "escalated" => timer'[r][s] = "escalated"

\* A step that moves requests forward and sends no notice.
LEMMA ForwardKeepsClocks ==
  ASSUME TypeOK, TypeOK', ClocksOK, UNCHANGED <<sweep, claimed, alerts>>,
         \A r \in Requests : status[r] # "unused" => Forward(r),
         \A r \in Requests, s \in Steps : ClockAt(r, s)'
  PROVE  ClocksOK'
<1>1. ASSUME NEW w \in Sweepers, NEW p \in sweep[w] PROVE ReadAt(p)'
  <2>1. p[1] \in Requests /\ ReadAt(p)
    BY <1>1 DEF TypeOK, ClocksOK
  <2>2. current[p[1]] \in Nat /\ current'[p[1]] \in Nat /\ p[2] \in Nat
    BY <1>1, <2>1, TemplatesOK DEF TypeOK, Steps
  <2> QED BY <2>1, <2>2 DEF ReadAt, Forward
<1>2. ASSUME NEW w \in Sweepers, NEW p \in claimed[w] PROVE ClaimedAt(p)'
  <2>1. p[1] \in Requests /\ p[2] \in Steps /\ ClaimedAt(p)
    BY <1>2 DEF TypeOK, ClocksOK
  <2>2. status[p[1]] # "unused"
    BY <2>1 DEF ClocksOK, ClockAt, ClaimedAt
  <2> QED BY <2>1, <2>2 DEF ClaimedAt, Forward
<1> QED BY <1>1, <1>2 DEF ClocksOK

\* Opening a request starts the clock of its first step alone.
LEMMA InsertRowsClocked ==
  ASSUME TypeOK, TypeOK', ClocksOK, NEW r \in Requests, NEW w \in Workflows,
         NEW e \in Entities, NEW u \in Users, NEW auto \in BOOLEAN,
         NEW cut \in 1 .. MaxSteps + 1, status[r] = "unused",
         status'[r] = OpenedStatus(auto),
         \A q \in Requests \ {r} : \/ status'[q] = status[q]
                                   \/ status[q] # "unused" /\ status'[q] = "Withdrawn",
         InsertRows(r, w, e, u, auto, cut)
  PROVE  ClocksOK'
<1>1. /\ UNCHANGED <<sweep, claimed, alerts>>
      /\ \A q \in Requests : q # r => current'[q] = current[q] /\ timer'[q] = timer[q]
  BY DEF InsertRows, sweepVars, TypeOK
<1>2. \A q \in Requests : status[q] # "unused" => Forward(q)
  <2> SUFFICES ASSUME NEW q \in Requests, status[q] # "unused" PROVE Forward(q)
    OBVIOUS
  <2>1. current[q] \in Nat
    BY TemplatesOK DEF TypeOK, Steps
  <2> QED BY <1>1, <2>1 DEF Forward
<1>3. \A s \in Steps : ClockAt(r, s)'
  <2> SUFFICES ASSUME NEW s \in Steps PROVE ClockAt(r, s)'
    OBVIOUS
  <2>1. status'[r] # "unused" /\ alerts'[r][s] = 0
    BY <1>1 DEF OpenedStatus, ClocksOK, ClockAt
  <2>2. current'[r] = 1 /\ timer'[r][s] = ClockAtOpen(template[w], s)
    BY DEF InsertRows, TypeOK
  <2>3. s > current'[r] => timer'[r][s] \in {"none", "armed"}
    BY <2>2 DEF ClockAtOpen, Steps
  <2> QED BY <2>1, <2>3 DEF ClockAt
<1>4. \A q \in Requests, s \in Steps : q # r => ClockAt(q, s)'
  BY <1>1 DEF ClocksOK, ClockAt
<1> QED BY <1>1, <1>2, <1>3, <1>4, ForwardKeepsClocks

\* A verdict starts at most the clock of the step it moves on to.
LEMMA SettlesClocked ==
  ASSUME TypeOK, TypeOK', ClocksOK, NEW r \in Requests, status[r] = "Pending",
         NEW res \in Results, NEW votes, NEW force \in BOOLEAN,
         Settles(r, res, votes, force)
  PROVE  ClocksOK'
<1>t. /\ MaxSteps \in Nat /\ Steps \subseteq Nat
      /\ \A q \in Requests : current[q] \in Nat
  BY TemplatesOK DEF TypeOK, Steps
<1>1. UNCHANGED <<sweep, claimed, alerts>>
  BY DEF Settles, sweepVars
<1>2. CASE Advances(r)
  <2>1. /\ status' = status
        /\ current'[r] = current[r] + 1
        /\ \A q \in Requests : q # r => current'[q] = current[q] /\ timer'[q] = timer[q]
    BY <1>2 DEF Advances, TypeOK
  <2>2. \A s \in Steps : timer'[r][s] = IF s = current[r] + 1 /\ timer[r][s] = "armed"
                                        THEN "running" ELSE timer[r][s]
    <3>1. current[r] + 1 \in Steps
      BY <1>t, <1>2 DEF TypeOK, Advances, Steps
    <3> QED BY <1>2, <3>1 DEF Advances, TypeOK
  <2>3. \A q \in Requests : status[q] # "unused" => Forward(q)
    BY <1>t, <2>1, <2>2 DEF Forward
  <2>4. \A s \in Steps : ClockAt(r, s)'
    <3> SUFFICES ASSUME NEW s \in Steps PROVE ClockAt(r, s)'
      OBVIOUS
    <3>1. ClockAt(r, s) /\ s \in Nat /\ current[r] \in Nat
      BY <1>t DEF ClocksOK
    <3> QED BY <1>1, <2>1, <2>2, <3>1 DEF ClockAt
  <2>5. \A q \in Requests, s \in Steps : q # r => ClockAt(q, s)'
    BY <1>1, <2>1 DEF ClocksOK, ClockAt
  <2> QED BY <1>1, <2>3, <2>4, <2>5, ForwardKeepsClocks
<1>3. CASE Rejects(r) \/ Approves(r) \/ UNCHANGED <<step, status, current, timer>>
  <2>1. /\ UNCHANGED <<current, timer>>
        /\ \A q \in Requests : (status'[q] = "unused") <=> (status[q] = "unused")
    BY <1>3 DEF Rejects, Approves, TypeOK
  <2>2. \A q \in Requests : Forward(q)
    BY <1>t, <2>1 DEF Forward
  <2>3. \A q \in Requests, s \in Steps : ClockAt(q, s)'
    BY <1>1, <2>1 DEF ClocksOK, ClockAt
  <2> QED BY <1>1, <2>2, <2>3, ForwardKeepsClocks
<1> QED BY <1>2, <1>3 DEF Settles

\* With no requests no clock runs and no notice has been sent.
LEMMA ClocksInit == Init => ClocksOK
<1> SUFFICES ASSUME Init PROVE ClocksOK
  OBVIOUS
<1>1. \A r \in Requests, s \in Steps : ClockAt(r, s)
  BY DEF Init, ClockAt
<1> QED BY <1>1 DEF Init, ClocksOK

\* The sweep's own steps: the claim's condition keeps a second notice away.
LEMMA SweepClocked ==
  ASSUME TypeOK, TypeOK', ClocksOK, NEW w \in Sweepers,
         \/ ReadOverdue(w) \/ CrashSweep(w)
         \/ \E p \in Requests \X Steps : ClaimEscalation(w, p) \/ NotifyEscalation(w, p)
  PROVE  ClocksOK'
<1>t. /\ \A r \in Requests : current[r] \in Nat
      /\ sweep \in [Sweepers -> SUBSET (Requests \X Steps)]
      /\ claimed \in [Sweepers -> SUBSET (Requests \X Steps)]
  BY TemplatesOK DEF TypeOK, Steps
<1>1. CASE ReadOverdue(w)
  <2>1. /\ sweep' = [sweep EXCEPT ![w] = Overdue]
        /\ UNCHANGED <<status, current, timer, claimed, alerts>>
    BY <1>1 DEF ReadOverdue, requestVars
  <2>2. \A p \in Overdue : ReadAt(p)
    BY <1>t DEF Overdue, ReadAt
  <2>3. \A v \in Sweepers : \A p \in sweep'[v] : ReadAt(p)'
    BY <1>t, <2>1, <2>2 DEF ClocksOK, ReadAt
  <2> QED BY <2>1, <2>3 DEF ClocksOK, ClockAt, ClaimedAt
<1>2. CASE CrashSweep(w)
  <2>1. /\ sweep' = [sweep EXCEPT ![w] = {}]
        /\ claimed' = [claimed EXCEPT ![w] = {}]
        /\ UNCHANGED <<status, current, timer, alerts>>
    BY <1>2 DEF CrashSweep, requestVars
  <2>2. \A v \in Sweepers : sweep'[v] \subseteq sweep[v] /\ claimed'[v] \subseteq claimed[v]
    BY <1>t, <2>1
  <2>3. \A v \in Sweepers, x \in Sweepers : x # v => claimed'[x] \cap claimed'[v] = {}
    BY <2>2 DEF ClocksOK
  <2>4. \A v \in Sweepers : \A p \in sweep'[v] : ReadAt(p)'
    BY <2>1, <2>2 DEF ClocksOK, ReadAt
  <2>5. \A v \in Sweepers : \A p \in claimed'[v] : ClaimedAt(p)'
    BY <2>1, <2>2 DEF ClocksOK, ClaimedAt
  <2>6. \A r \in Requests, s \in Steps : ClockAt(r, s)'
    BY <2>1 DEF ClocksOK, ClockAt
  <2> QED BY <2>3, <2>4, <2>5, <2>6 DEF ClocksOK
<1>3. ASSUME NEW p \in Requests \X Steps, ClaimEscalation(w, p)
      PROVE  ClocksOK'
  <2>1. /\ p[1] \in Requests /\ p[2] \in Steps /\ p \in sweep[w] /\ claimed[w] = {}
        /\ UNCHANGED <<status, current, alerts>>
        /\ sweep' = [sweep EXCEPT ![w] = @ \ {p}]
    BY <1>3 DEF ClaimEscalation
  <2>2. \A v \in Sweepers : \A q \in sweep'[v] : ReadAt(q)'
    <3>1. \A v \in Sweepers : sweep'[v] \subseteq sweep[v]
      BY <1>t, <2>1
    <3> QED BY <2>1, <3>1 DEF ClocksOK, ReadAt
  <2>3. CASE Claimable(p)
    <3>1. /\ timer' = [timer EXCEPT ![p[1]][p[2]] = "escalated"]
          /\ claimed' = [claimed EXCEPT ![w] = {p}]
          /\ timer[p[1]][p[2]] # "escalated"
      BY <1>3, <2>3 DEF ClaimEscalation, Claimable
    <3>2. /\ timer'[p[1]][p[2]] = "escalated"
          /\ \A r \in Requests, s \in Steps :
               <<r, s>> # <<p[1], p[2]>> => timer'[r][s] = timer[r][s]
      BY <2>1, <3>1 DEF TypeOK
    <3>3. claimed'[w] = {p} /\ \A v \in Sweepers : v # w => claimed'[v] = claimed[v]
      BY <1>t, <3>1
    <3>4. \A v \in Sweepers : p \notin claimed[v]
      BY <3>1 DEF ClocksOK, ClaimedAt
    <3>5. ClockAt(p[1], p[2])' /\ ClaimedAt(p)'
      <4>1. ClockAt(p[1], p[2]) /\ ReadAt(p) /\ alerts[p[1]][p[2]] \in Nat
        BY <2>1 DEF ClocksOK, TypeOK
      <4>2. p[2] \in Nat /\ current[p[1]] \in Nat
        BY <1>t, <2>1, TemplatesOK DEF Steps
      <4> QED BY <2>1, <3>1, <3>2, <4>1, <4>2 DEF ClockAt, ReadAt, ClaimedAt
    <3>6. \A r \in Requests, s \in Steps : ClockAt(r, s)'
      BY <2>1, <3>2, <3>5 DEF ClocksOK, ClockAt
    <3>7. \A v \in Sweepers : \A q \in claimed'[v] : ClaimedAt(q)'
      <4>1. ASSUME NEW v \in Sweepers, v # w, NEW q \in claimed'[v] PROVE ClaimedAt(q)'
        <5>1. q \in claimed[v] /\ q # p /\ q \in Requests \X Steps
          BY <1>t, <3>3, <3>4, <4>1
        <5>2. q[1] \in Requests /\ q[2] \in Steps /\ <<q[1], q[2]>> # <<p[1], p[2]>>
          BY <5>1
        <5> QED BY <2>1, <3>2, <5>1, <5>2 DEF ClocksOK, ClaimedAt
      <4> QED BY <3>3, <3>5, <4>1
    <3>8. \A v \in Sweepers, x \in Sweepers : x # v => claimed'[x] \cap claimed'[v] = {}
      BY <3>3, <3>4 DEF ClocksOK
    <3> QED BY <2>2, <3>6, <3>7, <3>8 DEF ClocksOK
  <2>4. CASE ~Claimable(p)
    <3>1. UNCHANGED <<timer, claimed>>
      BY <1>3, <2>4 DEF ClaimEscalation
    <3> QED BY <2>1, <2>2, <3>1 DEF ClocksOK, ClockAt, ClaimedAt
  <2> QED BY <2>3, <2>4
<1>4. ASSUME NEW p \in Requests \X Steps, NotifyEscalation(w, p)
      PROVE  ClocksOK'
  <2>1. /\ p[1] \in Requests /\ p[2] \in Steps /\ p \in claimed[w]
        /\ UNCHANGED <<status, current, timer, sweep>>
        /\ claimed' = [claimed EXCEPT ![w] = @ \ {p}]
        /\ \/ alerts' = [alerts EXCEPT ![p[1]][p[2]] = @ + 1]
           \/ UNCHANGED alerts
    BY <1>4 DEF NotifyEscalation, requestVars
  <2>2. ClaimedAt(p)
    BY <2>1 DEF ClocksOK
  <2>3. /\ alerts'[p[1]][p[2]] \in {0, 1}
        /\ \A r \in Requests, s \in Steps :
             <<r, s>> # <<p[1], p[2]>> => alerts'[r][s] = alerts[r][s]
    BY <2>1, <2>2 DEF TypeOK, ClaimedAt
  <2>4. /\ p \notin claimed'[w]
        /\ \A v \in Sweepers : claimed'[v] \subseteq claimed[v] /\ p \notin claimed'[v]
    BY <1>t, <2>1 DEF ClocksOK
  <2>5. \A v \in Sweepers : \A q \in claimed'[v] : ClaimedAt(q)'
    <3> SUFFICES ASSUME NEW v \in Sweepers, NEW q \in claimed'[v] PROVE ClaimedAt(q)'
      OBVIOUS
    <3>1. q \in claimed[v] /\ q # p /\ q \in Requests \X Steps
      BY <1>t, <2>4
    <3>2. q[1] \in Requests /\ q[2] \in Steps /\ <<q[1], q[2]>> # <<p[1], p[2]>>
      BY <3>1
    <3> QED BY <2>1, <2>3, <3>1, <3>2 DEF ClocksOK, ClaimedAt
  <2>6. \A r \in Requests, s \in Steps : ClockAt(r, s)'
    <3>1. ClockAt(p[1], p[2])'
      BY <2>1, <2>2, <2>3 DEF ClocksOK, ClockAt, ClaimedAt
    <3> QED BY <2>1, <2>3, <3>1 DEF ClocksOK, ClockAt
  <2>7. \A v \in Sweepers, x \in Sweepers : x # v => claimed'[x] \cap claimed'[v] = {}
    BY <2>4 DEF ClocksOK
  <2> QED BY <2>1, <2>5, <2>6, <2>7 DEF ClocksOK, ReadAt
<1> QED BY <1>1, <1>2, <1>3, <1>4

\* Every handler and every step of the sweep keeps clocks and notices in line.
LEMMA ClocksStep == TypeOK /\ TypeOK' /\ ClocksOK /\ [Next]_vars => ClocksOK'
<1> SUFFICES ASSUME TypeOK, TypeOK', ClocksOK, [Next]_vars PROVE ClocksOK'
  OBVIOUS
<1>t. \A r \in Requests : current[r] \in Nat
  BY TemplatesOK DEF TypeOK, Steps
<1>1. CASE \/ \E w \in Workflows, t \in Templates : EditWorkflow(w, t)
           \/ \E w \in Workflows : DeleteWorkflow(w)
           \/ \E r \in Requests, u \in Users, res \in Results, override \in BOOLEAN :
                Submit(r, u, res, override)
           \/ UNCHANGED vars
  <2>1. UNCHANGED <<status, current, timer, sweep, claimed, alerts>>
    BY <1>1 DEF EditWorkflow, DeleteWorkflow, Submit, vars, requestVars, sweepVars
  <2> QED BY <2>1 DEF ClocksOK, ClockAt, ReadAt, ClaimedAt
<1>2. ASSUME NEW r \in Requests, NEW s \in Steps, Elapse(r, s)
      PROVE  ClocksOK'
  <2>1. /\ UNCHANGED <<status, current, sweep, claimed, alerts>>
        /\ timer[r][s] = "running" /\ timer'[r][s] = "elapsed"
        /\ \A q \in Requests, x \in Steps : <<q, x>> # <<r, s>> => timer'[q][x] = timer[q][x]
    BY <1>2 DEF Elapse, TypeOK, sweepVars
  <2>2. \A q \in Requests : Forward(q)
    BY <1>t, <2>1 DEF Forward
  <2>3. ClockAt(r, s)'
    BY <2>1 DEF ClocksOK, ClockAt
  <2>4. \A q \in Requests, x \in Steps : ClockAt(q, x)'
    BY <2>1, <2>3 DEF ClocksOK, ClockAt
  <2> QED BY <2>1, <2>2, <2>4, ForwardKeepsClocks
<1>3. CASE \/ \E w \in Sweepers : ReadOverdue(w) \/ CrashSweep(w)
           \/ \E w \in Sweepers, p \in Requests \X Steps :
                ClaimEscalation(w, p) \/ NotifyEscalation(w, p)
  BY <1>3, SweepClocked
<1>4. ASSUME NEW r \in Requests, NEW w \in Workflows, NEW e \in Entities,
             NEW u \in Users, NEW auto \in BOOLEAN, NEW cut \in 1 .. MaxSteps + 1,
             \/ Open(r, w, e, u, auto, cut)
             \/ \E old \in Requests : Supersede(old, r, w, e, u, auto, cut)
      PROVE  ClocksOK'
  <2>1. /\ status[r] = "unused" /\ status'[r] = OpenedStatus(auto)
        /\ InsertRows(r, w, e, u, auto, cut)
    BY <1>4 DEF Open, Supersede, TypeOK
  <2>2. \A q \in Requests \ {r} : \/ status'[q] = status[q]
                                  \/ status[q] # "unused" /\ status'[q] = "Withdrawn"
    BY <1>4 DEF Open, Supersede, TypeOK
  <2> QED BY <2>1, <2>2, InsertRowsClocked
<1>5. ASSUME NEW r \in Requests, Withdraw(r)
      PROVE  ClocksOK'
  <2>1. /\ UNCHANGED <<current, timer, sweep, claimed, alerts>>
        /\ \A q \in Requests : (status'[q] = "unused") <=> (status[q] = "unused")
    BY <1>5 DEF Withdraw, TypeOK, sweepVars
  <2> QED BY <2>1 DEF ClocksOK, ClockAt, ReadAt, ClaimedAt, TypeOK
<1>6. ASSUME NEW m \in submitted, CastVote(m) \/ OverrideStep(m)
      PROVE  ClocksOK'
  <2>1. m.request \in Requests /\ m.result \in Results
    BY DEF TypeOK, Submission
  <2>2. PICK force \in BOOLEAN : Settles(m.request, m.result, Ballot(m), force)
    BY <1>6 DEF CastVote, OverrideStep
  <2>3. status[m.request] = "Pending"
    BY <1>6 DEF CastVote, OverrideStep
  <2> QED BY <2>1, <2>2, <2>3, SettlesClocked
<1> QED BY <1>1, <1>2, <1>3, <1>4, <1>5, <1>6 DEF Next, Background

\* The invariant on clocks and notices holds along every behaviour.
THEOREM ClocksCorrect == Spec => [](TypeOK /\ ClocksOK)
<1> QED BY TypeInit, TypeStep, ClocksInit, ClocksStep, PTL DEF Spec

\* Any number of workers, each reading, claiming and notifying in its own time
\* and crashing anywhere, send at most one notice for a step.
THEOREM SingleEscalation == Spec => []EscalatesOnce
<1>1. TypeOK /\ ClocksOK => EscalatesOnce
  <2> SUFFICES ASSUME TypeOK, ClocksOK, NEW r \in Requests, NEW s \in Steps
               PROVE  /\ alerts[r][s] <= 1
                      /\ alerts[r][s] = 1 => timer[r][s] = "escalated" /\ s <= current[r]
    BY DEF EscalatesOnce
  <2>1. ClockAt(r, s) /\ s \in Nat /\ current[r] \in Nat
    BY TemplatesOK DEF ClocksOK, TypeOK, Steps
  <2> QED BY <2>1 DEF ClockAt
<1> QED BY <1>1, ClocksCorrect, PTL

\* No step's clock runs before the request has come to it.
THEOREM ClockNeverEarly == Spec => []ClockFollowsStep
<1>1. ClocksOK => ClockFollowsStep
  BY DEF ClocksOK, ClockAt, ClockFollowsStep
<1> QED BY <1>1, ClocksCorrect, PTL

-----------------------------------------------------------------------------
(* Overrides *)

\* The submission behind an override of step s of request r.
MeantBy(m, r, s) ==
  m.override /\ m.request = r /\ m.step = s /\ origin[r].requester # m.user

MeantOK ==
  \A p \in overridden : status[p[1]] # "unused" /\ \E m \in submitted : MeantBy(m, p[1], p[2])

\* The requester of a request that is open never changes.
LEMMA MeantStep == TypeOK /\ MeantOK /\ [Next]_vars => MeantOK'
<1> SUFFICES ASSUME TypeOK, MeantOK, [Next]_vars PROVE MeantOK'
  OBVIOUS
<1>0. ASSUME submitted \subseteq submitted',
             \A r \in Requests : status[r] # "unused" =>
               status'[r] # "unused" /\ origin'[r] = origin[r],
             NEW p \in overridden
      PROVE  status'[p[1]] # "unused" /\ \E m \in submitted' : MeantBy(m, p[1], p[2])'
  <2>1. p[1] \in Requests
    BY DEF TypeOK
  <2>2. PICK m \in submitted : MeantBy(m, p[1], p[2])
    BY DEF MeantOK
  <2>3. MeantBy(m, p[1], p[2])' /\ m \in submitted'
    BY <1>0, <2>1, <2>2 DEF MeantBy, MeantOK
  <2> QED BY <1>0, <2>1, <2>3 DEF MeantOK
<1>1. ASSUME NEW m \in submitted, OverrideStep(m)
      PROVE  MeantOK'
  <2>1. /\ m.request \in Requests
        /\ UNCHANGED <<submitted, origin>>
        /\ \A r \in Requests : status[r] # "unused" => status'[r] # "unused"
    BY <1>1 DEF OverrideStep, Settles, Rejects, Advances, Approves, TypeOK, Submission
  <2>2. MeantBy(m, m.request, current[m.request]) /\ status[m.request] # "unused"
    BY <1>1 DEF OverrideStep, MayOverride, MeantBy
  <2>3. overridden' = overridden \cup {<<m.request, current[m.request]>>}
    BY <1>1 DEF OverrideStep
  <2>4. \A p \in overridden : status'[p[1]] # "unused" /\ \E n \in submitted' : MeantBy(n, p[1], p[2])'
    BY <1>0, <2>1
  <2>5. PICK c : c = current[m.request]
    OBVIOUS
  <2>6. MeantBy(m, m.request, c)' /\ m \in submitted' /\ status'[m.request] # "unused"
    BY <2>1, <2>2, <2>5 DEF MeantBy
  <2>7. \A p \in overridden' : p \in overridden \/ (p[1] = m.request /\ p[2] = c)
    BY <2>3, <2>5
  <2> QED BY <2>4, <2>6, <2>7 DEF MeantOK
<1>2. CASE Background \/ UNCHANGED vars
  <2>1. /\ UNCHANGED <<overridden, status, origin>>
        /\ submitted \subseteq submitted'
    BY <1>2 DEF Background, EditWorkflow, DeleteWorkflow, Submit, Elapse, ReadOverdue,
                CrashSweep, ClaimEscalation, NotifyEscalation, vars, requestVars
  <2> QED BY <1>0, <2>1 DEF MeantOK
<1>3. CASE \E q \in Requests, w \in Workflows, e \in Entities, u \in Users,
              auto \in BOOLEAN, cut \in 1 .. MaxSteps + 1 :
             \/ Open(q, w, e, u, auto, cut)
             \/ \E old \in Requests : Supersede(old, q, w, e, u, auto, cut)
  <2>1. /\ UNCHANGED <<overridden, submitted>>
        /\ \A r \in Requests : status[r] # "unused" =>
             status'[r] # "unused" /\ origin'[r] = origin[r]
    BY <1>3 DEF Open, Supersede, InsertRows, OpenedStatus, TypeOK
  <2> QED BY <1>0, <2>1 DEF MeantOK
<1>4. CASE \E q \in Requests : Withdraw(q)
  <2>1. /\ UNCHANGED <<overridden, submitted, origin>>
        /\ \A r \in Requests : status[r] # "unused" => status'[r] # "unused"
    BY <1>4 DEF Withdraw, TypeOK
  <2> QED BY <1>0, <2>1 DEF MeantOK
<1>5. CASE \E m \in submitted : CastVote(m)
  <2>1. /\ UNCHANGED <<overridden, submitted, origin>>
        /\ \A r \in Requests : status[r] # "unused" => status'[r] # "unused"
    BY <1>5 DEF CastVote, Settles, Rejects, Advances, Approves, TypeOK
  <2> QED BY <1>0, <2>1 DEF MeantOK
<1> QED BY <1>1, <1>2, <1>3, <1>4, <1>5 DEF Next

\* A retried or late override never lands on a step its sender did not see, nor
\* an administrator's on their own request.
THEOREM OverridesMeant == Spec => []OverrideWasMeant
<1>1. Init => MeantOK
  BY DEF Init, MeantOK
<1>2. MeantOK => OverrideWasMeant
  BY DEF MeantOK, MeantBy, OverrideWasMeant
<1> QED BY <1>1, <1>2, MeantStep, TypeInit, TypeStep, PTL DEF Spec

-----------------------------------------------------------------------------
(* Refinement of ApprovalStages *)

Outcome == [r \in Requests |-> OutcomeOf(r)]
Passed  == [r \in Requests |-> {s \in Steps : step[r][s] = "Completed"}]

\* The outcomes of the abstract specification are told apart.
LEMMA OutcomesDiffer ==
  ASSUME TypeOK, NEW r \in Requests
  PROVE  /\ (Outcome[r] = "none") <=> (status[r] = "unused")
         /\ (Outcome[r] = "open") <=> (status[r] = "Pending")
BY DEF TypeOK, Outcome, OutcomeOf, RequestStatuses, Results

\* A new outcome for one request, reached as the abstract one allows, is a step
\* of the abstract specification.
LEMMA OutcomeNext ==
  ASSUME NEW r \in Requests
  PROVE  /\ status'[r] = status[r]    => Outcome'[r] = Outcome[r]
         /\ status'[r] = "Pending"    => Outcome'[r] = "open"
         /\ status'[r] = "Approved"   => Outcome'[r] = "granted"
         /\ status'[r] = "Rejected"   => Outcome'[r] = "denied"
         /\ status'[r] = "Withdrawn"  => Outcome'[r] = "recalled"
<1>1. Outcome[r] = OutcomeOf(r) /\ Outcome'[r] = OutcomeOf(r)'
  BY DEF Outcome
<1>2. status'[r] = status[r] => OutcomeOf(r)' = OutcomeOf(r)
  BY DEF OutcomeOf
<1>3. /\ status'[r] = "Pending"   => OutcomeOf(r)' = "open"
      /\ status'[r] = "Approved"  => OutcomeOf(r)' = "granted"
      /\ status'[r] = "Rejected"  => OutcomeOf(r)' = "denied"
      /\ status'[r] = "Withdrawn" => OutcomeOf(r)' = "recalled"
  BY DEF OutcomeOf
<1> QED BY <1>1, <1>2, <1>3

\* Only the outcome of r changes, to x.
LEMMA OutcomeMoves ==
  ASSUME NEW r \in Requests, NEW x, Outcome'[r] = x,
         \A q \in Requests \ {r} : status'[q] = status[q]
  PROVE  Outcome' = [Outcome EXCEPT ![r] = x]
<1>1. \A q \in Requests \ {r} : Outcome'[q] = Outcome[q]
  BY OutcomeNext
<1> QED BY <1>1 DEF Outcome

\* A decision, seen from the stages: the next one is passed, or the request is
\* denied where it stands, or nothing happens.
LEMMA SettlesMapped ==
  ASSUME TypeOK, RowsOK, NEW r \in Requests, status[r] = "Pending",
         NEW res \in Results, NEW votes, NEW force \in BOOLEAN,
         Settles(r, res, votes, force)
  PROVE  Stages!Next \/ UNCHANGED <<Outcome, total, Passed>>
<1>c. PICK c \in Steps : c = current[r]
  BY DEF TypeOK
<1>t. /\ c \in 1 .. MaxSteps /\ total[r] \in 0 .. MaxSteps /\ MaxSteps \in Nat
      /\ UNCHANGED total
  BY <1>c, TemplatesOK DEF TypeOK, Steps, Settles
<1>0. /\ LadderOf(r) /\ LadderAt(r) /\ step[r][c] = "Pending" /\ c \in 1 .. total[r]
  BY <1>c DEF RowsOK, LadderAt, LadderOf
<1>1. Outcome[r] = "open"
  BY OutcomesDiffer
<1>2. Passed[r] = 1 .. c - 1
  <2>1. \A s \in 1 .. total[r] : (step[r][s] = "Completed") <=> s < c
    BY <1>0, <1>c, <1>t DEF LadderOf
  <2>2. \A s \in Steps : (step[r][s] = "Completed") <=> (s \in 1 .. c - 1)
    BY <1>0, <1>t, <2>1 DEF LadderAt, Steps
  <2>3. 1 .. c - 1 \subseteq Steps
    BY <1>t DEF Steps
  <2> QED BY <2>2, <2>3 DEF Passed
<1>3. ASSUME step' = [step EXCEPT ![r][c] = "Completed"]
      PROVE  Passed' = [Passed EXCEPT ![r] = 1 .. c]
  <2>1. /\ \A q \in Requests : q # r => step'[q] = step[q]
        /\ step'[r][c] = "Completed"
        /\ \A s \in Steps : s # c => step'[r][s] = step[r][s]
    BY <1>3 DEF TypeOK
  <2>2. {s \in Steps : step'[r][s] = "Completed"} = Passed[r] \cup {c}
    BY <2>1 DEF Passed
  <2>3. Passed[r] \cup {c} = 1 .. c
    BY <1>2, <1>t
  <2> QED BY <2>1, <2>2, <2>3 DEF Passed
<1>4. CASE Rejects(r)
  <2>1. Outcome' = [Outcome EXCEPT ![r] = "denied"]
    BY <1>4, OutcomeNext, OutcomeMoves DEF Rejects, TypeOK
  <2>2. /\ \A q \in Requests : q # r => step'[q] = step[q]
        /\ step'[r][c] = "Rejected"
        /\ \A s \in Steps : s # c => step'[r][s] = step[r][s]
    BY <1>c, <1>4 DEF Rejects, TypeOK
  <2>3. UNCHANGED Passed
    BY <1>0, <2>2 DEF Passed
  <2>4. Stages!Deny(r)
    BY <1>1, <1>t, <2>1, <2>3 DEF Stages!Deny, Outcome, Passed
  <2> QED BY <2>4 DEF Stages!Next
<1>5. CASE Advances(r)
  <2>1. c < total[r] /\ step' = [step EXCEPT ![r][c] = "Completed"] /\ UNCHANGED status
    BY <1>c, <1>5 DEF Advances
  <2>2. UNCHANGED Outcome
    BY <2>1 DEF Outcome, OutcomeOf
  <2>3. Stages!Climb(r, c)
    BY <1>1, <1>2, <1>3, <1>t, <2>1, <2>2 DEF Stages!Climb, Stages!Passes, Outcome, Passed
  <2> QED BY <1>t, <2>3 DEF Stages!Next
<1>6. CASE Approves(r)
  <2>1. c = total[r] /\ step' = [step EXCEPT ![r][c] = "Completed"]
    BY <1>0, <1>c, <1>t, <1>6 DEF Approves
  <2>2. Outcome' = [Outcome EXCEPT ![r] = "granted"]
    BY <1>6, OutcomeNext, OutcomeMoves DEF Approves, TypeOK
  <2>3. Stages!Grant(r, c)
    BY <1>1, <1>2, <1>3, <1>t, <2>1, <2>2 DEF Stages!Grant, Stages!Passes, Outcome, Passed
  <2> QED BY <1>t, <2>3 DEF Stages!Next
<1>7. CASE UNCHANGED <<step, status, current, timer>>
  BY <1>t, <1>7 DEF Outcome, OutcomeOf, Passed
<1> QED BY <1>4, <1>5, <1>6, <1>7 DEF Settles

\* Opening a request is the abstract opening, or its opening and approval at once.
LEMMA InsertRowsMapped ==
  ASSUME TypeOK, RowsOK, NEW r \in Requests, NEW w \in Workflows, NEW e \in Entities,
         NEW u \in Users, NEW auto \in BOOLEAN, NEW cut \in 1 .. MaxSteps + 1,
         status[r] = "unused", InsertRows(r, w, e, u, auto, cut),
         NEW opened, opened = IF auto THEN "granted" ELSE "open"
  PROVE  \E n \in 1 .. MaxSteps : Stages!Enters(r, n, opened)
<1>1. PICK n \in 1 .. MaxSteps : n = template[w].size
  BY TemplatesOK DEF TypeOK, Template, Steps
<1>2. Outcome[r] = "none" /\ total' = [total EXCEPT ![r] = n]
  BY <1>1, OutcomesDiffer DEF InsertRows
<1>3. /\ \A q \in Requests : q # r => step'[q] = step[q]
      /\ \A s \in Steps : step[r][s] = "none"
      /\ \A s \in Steps : step'[r][s] = IF s > n THEN "none"
                                        ELSE IF auto THEN "Completed" ELSE "Pending"
  BY <1>1 DEF InsertRows, TypeOK, RowsOK, LadderAt, Steps
<1>4. CASE auto
  <2>1. {s \in Steps : step'[r][s] = "Completed"} = 1 .. n
    BY <1>3, <1>4, TemplatesOK DEF Steps
  <2>2. Passed' = [Passed EXCEPT ![r] = 1 .. n]
    BY <1>3, <2>1 DEF Passed
  <2>3. Stages!Enters(r, n, opened)
    BY <1>2, <1>4, <2>2 DEF Stages!Enters, Outcome, Passed
  <2> QED BY <1>1, <1>4, <2>3
<1>5. CASE ~auto
  <2>1. UNCHANGED Passed
    BY <1>3, <1>5 DEF Passed
  <2>2. Stages!Enters(r, n, opened)
    BY <1>2, <1>5, <2>1 DEF Stages!Enters, Outcome, Passed
  <2> QED BY <1>1, <1>5, <2>2
<1> QED BY <1>4, <1>5

\* Every step of the handlers and of the sweep is an abstract step or none.
LEMMA StepMapped ==
  TypeOK /\ RowsOK /\ [Next]_vars => Stages!Next \/ UNCHANGED <<Outcome, total, Passed>>
<1> SUFFICES ASSUME TypeOK, RowsOK, [Next]_vars
             PROVE  Stages!Next \/ UNCHANGED <<Outcome, total, Passed>>
  OBVIOUS
<1>1. CASE Background \/ UNCHANGED vars
  <2>1. UNCHANGED <<status, total, step>>
    BY <1>1 DEF Background, EditWorkflow, DeleteWorkflow, Submit, Elapse, ReadOverdue, CrashSweep,
                ClaimEscalation, NotifyEscalation, vars, requestVars
  <2> QED BY <2>1 DEF Outcome, OutcomeOf, Passed
<1>2. ASSUME NEW r \in Requests, NEW w \in Workflows, NEW e \in Entities,
             NEW u \in Users, NEW auto \in BOOLEAN, NEW cut \in 1 .. MaxSteps + 1,
             \/ Open(r, w, e, u, auto, cut)
             \/ \E old \in Requests : Supersede(old, r, w, e, u, auto, cut)
      PROVE  Stages!Next
  <2> DEFINE opened == IF auto THEN "granted" ELSE "open"
  <2>1. status[r] = "unused" /\ InsertRows(r, w, e, u, auto, cut)
    BY <1>2 DEF Open, Supersede
  <2>2. PICK n \in 1 .. MaxSteps : Stages!Enters(r, n, opened)
    BY <2>1, InsertRowsMapped
  <2>3. opened \in {"open", "granted"}
    OBVIOUS
  <2>4. CASE Open(r, w, e, u, auto, cut)
    <3>1. Outcome' = [Outcome EXCEPT ![r] = opened]
      BY <2>4, OutcomeNext, OutcomeMoves DEF Open, OpenedStatus, TypeOK
    <3>2. Stages!Enter(r, n, opened)
      BY <2>2, <3>1 DEF Stages!Enter, Outcome
    <3> QED BY <2>3, <3>2 DEF Stages!Next
  <2>5. ASSUME NEW old \in Requests, Supersede(old, r, w, e, u, auto, cut)
        PROVE  Stages!Next
    <3>1. Outcome[old] = "open" /\ old # r
      BY <2>5, OutcomesDiffer DEF Supersede
    <3>2. Outcome' = [Outcome EXCEPT ![old] = "recalled", ![r] = opened]
      <4>1. /\ status'[old] = "Withdrawn" /\ status'[r] = OpenedStatus(auto)
            /\ \A q \in Requests \ {old, r} : status'[q] = status[q]
        BY <2>5, <3>1 DEF Supersede, TypeOK
      <4>2. Outcome'[old] = "recalled" /\ Outcome'[r] = opened
        BY <4>1, OutcomeNext DEF OpenedStatus
      <4>3. \A q \in Requests \ {old, r} : Outcome'[q] = Outcome[q]
        BY <4>1, OutcomeNext
      <4> QED BY <3>1, <4>2, <4>3 DEF Outcome
    <3>3. Stages!Replace(old, r, n, opened)
      BY <2>2, <3>1, <3>2 DEF Stages!Replace, Outcome
    <3> QED BY <2>3, <3>3 DEF Stages!Next
  <2> QED BY <1>2, <2>4, <2>5
<1>3. ASSUME NEW r \in Requests, Withdraw(r)
      PROVE  Stages!Next
  <2>0. UNCHANGED <<total, Passed>>
    BY <1>3 DEF Withdraw, Passed
  <2>1. Outcome' = [Outcome EXCEPT ![r] = "recalled"] /\ UNCHANGED <<total, Passed>>
    BY <1>3, <2>0, OutcomeNext, OutcomeMoves DEF Withdraw, TypeOK
  <2>2. Outcome[r] # "none"
    BY <1>3, OutcomesDiffer DEF Withdraw
  <2>3. Stages!Recall(r)
    BY <2>1, <2>2 DEF Stages!Recall, Outcome, Passed
  <2> QED BY <2>3 DEF Stages!Next
<1>4. ASSUME NEW m \in submitted, CastVote(m) \/ OverrideStep(m)
      PROVE  Stages!Next \/ UNCHANGED <<Outcome, total, Passed>>
  <2>1. m.request \in Requests /\ m.result \in Results
    BY DEF TypeOK, Submission
  <2>2. PICK force \in BOOLEAN : Settles(m.request, m.result, Ballot(m), force)
    BY <1>4 DEF CastVote, OverrideStep
  <2>3. status[m.request] = "Pending"
    BY <1>4 DEF CastVote, OverrideStep
  <2> QED BY <2>1, <2>2, <2>3, SettlesMapped
<1> QED BY <1>1, <1>2, <1>3, <1>4 DEF Next

\* The transactions on the tables implement the abstract ladder: a request is
\* granted with its last step and never before, and nothing passed is undone.
THEOREM Refinement == Spec => ImplementsStages
<1>1. Init => Stages!Init
  <2> SUFFICES ASSUME Init PROVE Stages!Init
    OBVIOUS
  <2>1. Outcome = [r \in Requests |-> "none"] /\ Passed = [r \in Requests |-> {}]
    BY DEF Init, Outcome, OutcomeOf, Passed
  <2>2. total = [r \in Requests |-> 0]
    BY DEF Init
  <2> QED BY <2>1, <2>2 DEF Stages!Init, Outcome, Passed
<1>2. TypeOK /\ RowsOK /\ [Next]_vars => [Stages!Next]_(Stages!stageVars)
  BY StepMapped DEF Stages!stageVars, Outcome, Passed
<1> QED BY <1>1, <1>2, RowsCorrect, PTL DEF Spec, ImplementsStages, Stages!Spec
=============================================================================
