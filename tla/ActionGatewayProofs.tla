------------------------- MODULE ActionGatewayProofs -------------------------
(***************************************************************************)
(* Proofs about ActionGateway, for any approvals, runs, calls and workflow. *)
(***************************************************************************)
EXTENDS ActionGateway, FiniteSetTheorems, TLAPS

-----------------------------------------------------------------------------
(* Types *)

\* A persisted run keeps to the columns of its row.
LEMMA PersistTyped ==
  ASSUME TypeOK, NEW r \in Runs, NEW s \in RunStates, NEW i \in 0 .. LastStep + 1,
         NEW b \in Approvals \cup {None}, PersistRun(r, s, i, b)
  PROVE  /\ runState' \in [Runs -> RunStates]
         /\ runStep' \in [Runs -> 0 .. LastStep + 1]
         /\ awaiting' \in [Runs -> Approvals \cup {None}]
  BY DEF TypeOK, PersistRun

\* Where a typed call goes is a typed call.
LEMMA GoesTyped ==
  ASSUME TypeOK, NEW c \in Calls, NEW place \in Places, Goes(c, place)
  PROVE  call' \in [Calls -> Call]
  BY DEF TypeOK, Goes, Call

\* Before anything is submitted every table is empty.
LEMMA TypeInit == Init => TypeOK
  BY WorkflowOK DEF Init, TypeOK, States, RunStates, Idle, Call, Handlers, Places

\* Where a call stands tells which of its variables are set, and by whom.
HasRun   == {"load", "resume", "step", "written", "park", "verify", "cancel"}
HasInput == {"read", "find", "load", "resume", "verify", "execute", "complete",
             "fail", "revert", "find parked", "cancel"}
Deciding == {"find", "load", "resume", "verify", "execute"}

CallOK(k) ==
  /\ k.at = "idle" => k.handler = "none"
  /\ k.at \in Deciding => k.handler = "approve"
  /\ k.at \in {"find parked", "cancel"} => k.handler = "reject"
  /\ k.at \in HasInput \/ k.handler = "approve" => k.approval \in Approvals
  /\ k.at \in HasRun => k.run \in Runs
  /\ k.at \in {"written", "park"} => k.step \in Steps
  /\ k.at = "park" => k.opened \in Approvals
  /\ k.resumed # None => k.handler = "approve" /\ k.resumed = k.approval

CallsOK == \A c \in Calls : CallOK(call[c])

\* What calls and runs refer to.  An approval that stands for a gate exists; the
\* gate a call has opened is the one it parks the run at; an approving call acts
\* on the run of its approval, and marks the approval before anything else.
Acting == {"find", "load", "resume", "step", "written", "park", "verify", "execute"}

RefersOK(k, g, given) ==
  /\ k.at = "park" => g[k.opened] = [run |-> k.run, step |-> k.step]
  /\ k.handler = "approve" /\ k.at \in HasRun => g[k.approval].run = k.run
  /\ k.handler = "approve" /\ k.at \in Acting => k.approval \in given
  /\ k.at = "execute" => g[k.approval] = NoGate

LinksOK ==
  /\ ParkedAtItsGate
  /\ \A a \in Approvals : gate[a] # NoGate => state[a] # "none"
  /\ \A c \in Calls : RefersOK(call[c], gate, approved)

\* What a call has written it has written under its own approval, and it will
\* write nothing more.
MayWrite(k) ==
  \/ k.at \in {"idle", "read", "find", "load", "resume", "execute"}
  \/ k.at = "step" /\ k.resumed # None

WritesOK ==
  /\ WriteWasApproved
  /\ OneDecisionOneWrite
  /\ \A w \in writes : /\ w.approval = call[w.call].approval
                        /\ ~MayWrite(call[w.call])

\* Each call that died has left one approval behind, or none.
StrandedOK == IsFiniteSet(Stranded) /\ Cardinality(Stranded) <= crashes

Inv == TypeOK /\ CallsOK /\ LinksOK /\ WritesOK /\ StrandedOK

-----------------------------------------------------------------------------
(* Types and what a call has set *)

\* Changing one call for another that is in order.
LEMMA CallMoves ==
  ASSUME TypeOK, CallsOK, NEW c \in Calls, NEW k \in Call, CallOK(k),
         call' = [call EXCEPT ![c] = k]
  PROVE  call' \in [Calls -> Call] /\ CallsOK'
  BY DEF TypeOK, CallsOK

\* A call that only goes on.
LEMMA CallGoes ==
  ASSUME TypeOK, CallsOK, NEW c \in Calls, NEW place \in Places, Goes(c, place),
         CallOK([call[c] EXCEPT !.at = place])
  PROVE  call' \in [Calls -> Call] /\ CallsOK'
<1>1. [call[c] EXCEPT !.at = place] \in Call
  BY DEF TypeOK, Call
<1>2. call' = [call EXCEPT ![c] = [call[c] EXCEPT !.at = place]]
  BY DEF Goes
<1> QED BY <1>1, <1>2, CallMoves

\* A call is typed and in order.
LEMMA CallInOrder ==
  ASSUME TypeOK, CallsOK, NEW c \in Calls
  PROVE  call[c] \in Call /\ CallOK(call[c])
  BY DEF TypeOK, CallsOK

\* Where the loop ends its call goes on in order.
LEMMA AfterLoopInOrder ==
  ASSUME TypeOK, CallsOK, NEW c \in Calls, call[c].at \in {"step", "written", "park"},
         AfterLoop(c)
  PROVE  call' \in [Calls -> Call] /\ CallsOK'
<1>1. call[c] \in Call /\ CallOK(call[c])
  BY CallInOrder
<1>2. CallOK([call[c] EXCEPT !.at = "done"])
  BY <1>1 DEF Call, CallOK, HasRun, HasInput, Deciding
<1>3. call[c].handler = "approve" => CallOK([call[c] EXCEPT !.at = "verify"])
  BY <1>1 DEF Call, CallOK, HasRun, HasInput, Deciding
<1> QED BY <1>2, <1>3, CallGoes DEF AfterLoop, Places

\* Every statement keeps to the types and leaves its call in order.
LEMMA CallsStep == TypeOK /\ CallsOK /\ [Next]_vars => TypeOK' /\ CallsOK'
<1> SUFFICES ASSUME TypeOK, CallsOK, [Next]_vars
             PROVE  TypeOK' /\ CallsOK'
  OBVIOUS
<1>1. ASSUME NEW a \in Approvals, NEW s \in {"pending_approval", "auto_reject"},
             SubmitTool(a, s)
      PROVE  TypeOK' /\ CallsOK'
  BY <1>1 DEF SubmitTool, TypeOK, CallsOK, States, Final, runVars
<1>2. ASSUME NEW c \in Calls, NEW a \in Approvals, SubmitApproved(c, a)
      PROVE  TypeOK' /\ CallsOK'
  <2>1. PICK p \in {"complete", "fail"} :
          /\ call' = [call EXCEPT ![c] = [call[c] EXCEPT !.handler = "submit",
                                           !.approval = a, !.at = p]]
          /\ writes' \in {writes, writes \cup {[call |-> c, approval |-> a, gate |-> NoGate]}}
    BY <1>2 DEF SubmitApproved
  <2> DEFINE k == [call[c] EXCEPT !.handler = "submit", !.approval = a, !.at = p]
  <2>2. k \in Call /\ CallOK(k)
    BY CallInOrder, <1>2
    DEF Call, CallOK, HasRun, HasInput, Deciding, Steps, Handlers, Places, SubmitApproved
  <2>3. call' \in [Calls -> Call] /\ CallsOK'
    BY <2>1, <2>2, CallMoves
  <2> QED BY <1>2, <2>1, <2>3 DEF TypeOK, SubmitApproved, approvalVars, runVars
<1>3. ASSUME NEW c \in Calls, NEW h \in {"approve", "reject"}, NEW a \in Approvals,
             ReadsPending(c, h, a)
      PROVE  TypeOK' /\ CallsOK'
  <2>1. /\ [call[c] EXCEPT !.handler = h, !.at = "read", !.approval = a] \in Call
        /\ CallOK([call[c] EXCEPT !.handler = h, !.at = "read", !.approval = a])
    BY CallInOrder, <1>3
    DEF Call, CallOK, HasRun, HasInput, Deciding, Steps, Handlers, Places, ReadsPending
  <2>2. call' \in [Calls -> Call] /\ CallsOK'
    BY <1>3, <2>1, CallMoves DEF ReadsPending
  <2> QED BY <1>3, <2>2 DEF TypeOK, ReadsPending, approvalVars, runVars
<1>4. ASSUME NEW c \in Calls, NEW r \in Runs, StartsRun(c, r)
      PROVE  TypeOK' /\ CallsOK'
  <2>1. /\ [call[c] EXCEPT !.handler = "start", !.at = "step", !.run = r, !.step = 1] \in Call
        /\ CallOK([call[c] EXCEPT !.handler = "start", !.at = "step", !.run = r, !.step = 1])
    <3>1. call[c].at = "idle" /\ 1 \in 0 .. LastStep + 1
      BY WorkflowOK, <1>4 DEF StartsRun
    <3> QED BY CallInOrder, <3>1
            DEF Call, CallOK, HasRun, HasInput, Deciding, Handlers, Places
  <2>2. call' \in [Calls -> Call] /\ CallsOK'
    BY <1>4, <2>1, CallMoves DEF StartsRun
  <2>3. runState' \in [Runs -> RunStates] /\ runStep' \in [Runs -> 0 .. LastStep + 1]
       /\ awaiting' \in [Runs -> Approvals \cup {None}]
    <3>1. 1 \in 0 .. LastStep + 1
      BY WorkflowOK
    <3> QED BY <1>4, <3>1, PersistTyped DEF StartsRun, RunStates
  <2> QED BY <1>4, <2>2, <2>3 DEF TypeOK, StartsRun, approvalVars, runVars
<1>5. ASSUME NEW c \in Calls, MarksExecuting(c)
      PROVE  TypeOK' /\ CallsOK'
  <2>1. CallOK([call[c] EXCEPT !.at = "execute"])
    BY CallInOrder, <1>5
    DEF Call, CallOK, HasRun, HasInput, Deciding, Steps, MarksExecuting
  <2>2. CallOK([call[c] EXCEPT !.at = "find"])
    BY CallInOrder, <1>5
    DEF Call, CallOK, HasRun, HasInput, Deciding, Steps, MarksExecuting
  <2>3. call' \in [Calls -> Call] /\ CallsOK'
    BY <1>5, <2>1, <2>2, CallGoes DEF MarksExecuting, Places
  <2>4. state' \in [Approvals -> States] /\ approved' \subseteq Approvals
    BY <1>5 DEF MarksExecuting, TypeOK, CallsOK, CallOK, HasInput, States
  <2> QED BY <1>5, <2>3, <2>4 DEF TypeOK, MarksExecuting, approvalVars, runVars
<1>6. ASSUME NEW c \in Calls, NoExecutor(c)
      PROVE  TypeOK' /\ CallsOK'
  <2>1. CallOK([call[c] EXCEPT !.at = "fail"])
    BY CallInOrder, <1>6 DEF Call, CallOK, HasRun, HasInput, Deciding, Steps, NoExecutor
  <2>2. call' \in [Calls -> Call] /\ CallsOK'
    BY <1>6, <2>1, CallGoes DEF NoExecutor, Places
  <2> QED BY <1>6, <2>2 DEF TypeOK, NoExecutor, approvalVars, runVars
<1>7. ASSUME NEW c \in Calls, RunsTool(c)
      PROVE  TypeOK' /\ CallsOK'
  <2>1. CallOK([call[c] EXCEPT !.at = "complete"])
    BY CallInOrder, <1>7 DEF Call, CallOK, HasRun, HasInput, Deciding, Steps, RunsTool
  <2>2. CallOK([call[c] EXCEPT !.at = "fail"])
    BY CallInOrder, <1>7 DEF Call, CallOK, HasRun, HasInput, Deciding, Steps, RunsTool
  <2>3. CallOK([call[c] EXCEPT !.at = "revert"])
    BY CallInOrder, <1>7 DEF Call, CallOK, HasRun, HasInput, Deciding, Steps, RunsTool
  <2>4. call' \in [Calls -> Call] /\ CallsOK'
    BY <1>7, <2>1, <2>2, <2>3, CallGoes DEF RunsTool, Places
  <2>5. writes' \subseteq [call : Calls, approval : Approvals, gate : Gate \cup {NoGate}]
    <3>1. [call |-> c, approval |-> call[c].approval, gate |-> NoGate]
            \in [call : Calls, approval : Approvals, gate : Gate \cup {NoGate}]
      BY CallInOrder, <1>7 DEF CallOK, HasInput, RunsTool
    <3> QED BY <1>7, <3>1 DEF RunsTool, TypeOK
  <2> QED BY <1>7, <2>4, <2>5 DEF TypeOK, RunsTool, approvalVars, runVars
<1>8. ASSUME NEW c \in Calls, FindsRun(c)
      PROVE  TypeOK' /\ CallsOK'
  <2>1. CallOK([call[c] EXCEPT !.at = "fail"])
    BY CallInOrder, <1>8 DEF Call, CallOK, HasRun, HasInput, Deciding, Steps, FindsRun
  <2>2. ASSUME NEW r \in Runs
        PROVE  /\ [call[c] EXCEPT !.run = r, !.at = "load"] \in Call
               /\ CallOK([call[c] EXCEPT !.run = r, !.at = "load"])
    BY CallInOrder, <1>8
    DEF Call, CallOK, HasRun, HasInput, Deciding, Steps, Places, FindsRun
  <2>3. CASE Goes(c, "fail")
    BY <1>8, <2>1, <2>3, CallGoes DEF TypeOK, FindsRun, Places, approvalVars, runVars
  <2>4. ASSUME NEW r \in WaitingFor(call[c].approval),
               call' = [call EXCEPT ![c] = [call[c] EXCEPT !.run = r, !.at = "load"]]
        PROVE  TypeOK' /\ CallsOK'
    <3>1. r \in Runs
      BY DEF WaitingFor
    <3>2. call' \in [Calls -> Call] /\ CallsOK'
      BY <2>2, <2>4, <3>1, CallMoves
    <3> QED BY <1>8, <3>2 DEF TypeOK, FindsRun, approvalVars, runVars
  <2> QED BY <1>8, <2>3, <2>4 DEF FindsRun
<1>9. ASSUME NEW c \in Calls, LoadsRun(c)
      PROVE  TypeOK' /\ CallsOK'
  <2>1. CallOK([call[c] EXCEPT !.at = "verify"])
    BY CallInOrder, <1>9 DEF Call, CallOK, HasRun, HasInput, Deciding, Steps, LoadsRun
  <2>2. /\ [call[c] EXCEPT !.step = runStep[call[c].run], !.at = "resume"] \in Call
        /\ CallOK([call[c] EXCEPT !.step = runStep[call[c].run], !.at = "resume"])
    <3>1. runStep[call[c].run] \in 0 .. LastStep + 1
      BY CallInOrder, <1>9 DEF TypeOK, CallOK, HasRun, LoadsRun
    <3> QED BY CallInOrder, <1>9, <3>1
            DEF Call, CallOK, HasRun, HasInput, Deciding, Steps, Places, LoadsRun
  <2>3. CASE Goes(c, "verify")
    BY <1>9, <2>1, <2>3, CallGoes DEF TypeOK, LoadsRun, Places, approvalVars, runVars
  <2>4. CASE call' = [call EXCEPT ![c] = [call[c] EXCEPT !.step = runStep[call[c].run],
                                                         !.at = "resume"]]
    BY <1>9, <2>2, <2>4, CallMoves DEF TypeOK, LoadsRun, approvalVars, runVars
  <2> QED BY <1>9, <2>3, <2>4 DEF LoadsRun
<1>10. ASSUME NEW c \in Calls, Resumes(c)
      PROVE  TypeOK' /\ CallsOK'
  <2>1. /\ [call[c] EXCEPT !.at = "step", !.resumed = call[c].approval] \in Call
        /\ CallOK([call[c] EXCEPT !.at = "step", !.resumed = call[c].approval])
    BY CallInOrder, <1>10
    DEF Call, CallOK, HasRun, HasInput, Deciding, Steps, Handlers, Places, Resumes, Acting
  <2>2. call' \in [Calls -> Call] /\ CallsOK'
    BY <1>10, <2>1, CallMoves DEF Resumes
  <2>3. runState' \in [Runs -> RunStates] /\ runStep' \in [Runs -> 0 .. LastStep + 1]
       /\ awaiting' \in [Runs -> Approvals \cup {None}]
    BY <1>10, PersistTyped
    DEF Resumes, RunStates, TypeOK, CallsOK, CallOK, Call, HasRun, Steps
  <2> QED BY <1>10, <2>2, <2>3 DEF TypeOK, Resumes, approvalVars, runVars
<1>11. ASSUME NEW c \in Calls, Verifies(c)
      PROVE  TypeOK' /\ CallsOK'
  <2>1. CallOK([call[c] EXCEPT !.at = "fail"])
    BY CallInOrder, <1>11 DEF Call, CallOK, HasRun, HasInput, Deciding, Steps, Verifies
  <2>2. CallOK([call[c] EXCEPT !.at = "complete"])
    BY CallInOrder, <1>11 DEF Call, CallOK, HasRun, HasInput, Deciding, Steps, Verifies
  <2>3. call' \in [Calls -> Call] /\ CallsOK'
    BY <1>11, <2>1, <2>2, CallGoes DEF Verifies, Places
  <2> QED BY <1>11, <2>3 DEF TypeOK, Verifies, approvalVars, runVars
<1>12. ASSUME NEW c \in Calls, Settles(c)
      PROVE  TypeOK' /\ CallsOK'
  <2>1. CallOK([call[c] EXCEPT !.at = "done"])
    BY CallInOrder, <1>12 DEF Call, CallOK, HasRun, HasInput, Deciding, Steps, Settles
  <2>2. call' \in [Calls -> Call] /\ CallsOK'
    BY <1>12, <2>1, CallGoes DEF Settles, Places
  <2>3. state' \in [Approvals -> States] /\ approved' \subseteq Approvals
    BY <1>12 DEF Settles, TypeOK, CallsOK, CallOK, HasInput, States, Final
  <2> QED BY <1>12, <2>2, <2>3 DEF TypeOK, Settles, approvalVars, runVars
<1>13. ASSUME NEW c \in Calls, NEW b \in Approvals, OpensGate(c, b)
      PROVE  TypeOK' /\ CallsOK'
  <2>1. /\ [call[c] EXCEPT !.at = "park", !.opened = b] \in Call
        /\ CallOK([call[c] EXCEPT !.at = "park", !.opened = b])
    <3>1. call[c].at = "step" /\ call[c].step \in Steps
      BY WorkflowOK, <1>13 DEF OpensGate, MustWait
    <3> QED BY CallInOrder, <3>1 DEF Call, CallOK, HasRun, HasInput, Deciding, Places
  <2>2. call' \in [Calls -> Call] /\ CallsOK'
    BY <1>13, <2>1, CallMoves DEF OpensGate
  <2>3. state' \in [Approvals -> States] /\ gate' \in [Approvals -> Gate \cup {NoGate}]
    <3>1. [run |-> call[c].run, step |-> call[c].step] \in Gate
      BY CallInOrder, WorkflowOK, <1>13 DEF OpensGate, MustWait, CallOK, HasRun, Gate
    <3> QED BY <1>13, <3>1 DEF OpensGate, TypeOK, States
  <2> QED BY <1>13, <2>2, <2>3 DEF TypeOK, OpensGate, approvalVars, runVars
<1>14. ASSUME NEW c \in Calls, Writes(c)
      PROVE  TypeOK' /\ CallsOK'
  <2>1. CallOK([call[c] EXCEPT !.at = "written"])
    BY CallInOrder, WorkflowOK, <1>14
    DEF Call, CallOK, HasRun, HasInput, Deciding, Steps, Writes, MustWait
  <2>2. call' \in [Calls -> Call] /\ CallsOK'
    BY <1>14, <2>1, CallGoes DEF Writes, Places
  <2>3. writes' \subseteq [call : Calls, approval : Approvals, gate : Gate \cup {NoGate}]
    <3>1. call[c].resumed \in Approvals /\ call[c].run \in Runs /\ call[c].step \in Steps
      BY CallInOrder, WorkflowOK, <1>14 DEF Writes, MustWait, CallOK, HasRun
    <3>2. [run |-> call[c].run, step |-> call[c].step] \in Gate
      BY <3>1 DEF Gate
    <3> QED BY <1>14, <3>1, <3>2 DEF Writes, TypeOK
  <2> QED BY <1>14, <2>2, <2>3 DEF TypeOK, Writes, approvalVars, runVars
<1>15. ASSUME NEW c \in Calls, Passes(c)
      PROVE  TypeOK' /\ CallsOK'
  <2>1. PICK j \in NextSteps(call[c].step) :
          /\ PersistRun(call[c].run, "running", j, None)
          /\ call' = [call EXCEPT ![c] = [call[c] EXCEPT !.step = j, !.at = "step",
                                                          !.resumed = None]]
    BY <1>15 DEF Passes
  <2>2. j \in 0 .. LastStep + 1 /\ call[c].run \in Runs
    <3>1. call[c].step \in Steps /\ call[c].run \in Runs
      BY CallInOrder, <1>15 DEF CallOK, HasRun, Passes, StepIsDone
    <3>2. j \in call[c].step + 1 .. LastStep + 1
      BY DEF NextSteps
    <3> QED BY WorkflowOK, <3>1, <3>2 DEF Steps
  <2> DEFINE k == [call[c] EXCEPT !.step = j, !.at = "step", !.resumed = None]
  <2>3. k \in Call /\ CallOK(k)
    BY CallInOrder, <1>15, <2>2
    DEF Call, CallOK, HasRun, HasInput, Deciding, Steps, Places, Passes, StepIsDone
  <2>4. call' \in [Calls -> Call] /\ CallsOK'
    BY <2>1, <2>3, CallMoves
  <2>5. runState' \in [Runs -> RunStates] /\ runStep' \in [Runs -> 0 .. LastStep + 1]
        /\ awaiting' \in [Runs -> Approvals \cup {None}]
    BY <2>1, <2>2, PersistTyped DEF RunStates
  <2> QED BY <1>15, <2>4, <2>5 DEF TypeOK, Passes, approvalVars
<1>16. ASSUME NEW c \in Calls, Parks(c)
      PROVE  TypeOK' /\ CallsOK'
  <2>1. call' \in [Calls -> Call] /\ CallsOK'
    BY <1>16, AfterLoopInOrder DEF Parks
  <2>2. runState' \in [Runs -> RunStates] /\ runStep' \in [Runs -> 0 .. LastStep + 1]
       /\ awaiting' \in [Runs -> Approvals \cup {None}]
    BY <1>16, PersistTyped
    DEF Parks, RunStates, TypeOK, CallsOK, CallOK, Call, HasRun, Steps
  <2> QED BY <1>16, <2>1, <2>2 DEF TypeOK, Parks, approvalVars, runVars
<1>17. ASSUME NEW c \in Calls, FailsStep(c)
      PROVE  TypeOK' /\ CallsOK'
  <2>1. call' \in [Calls -> Call] /\ CallsOK'
    BY <1>17, AfterLoopInOrder DEF FailsStep
  <2>2. runState' \in [Runs -> RunStates] /\ runStep' \in [Runs -> 0 .. LastStep + 1]
       /\ awaiting' \in [Runs -> Approvals \cup {None}]
    BY <1>17, PersistTyped
    DEF FailsStep, RunStates, TypeOK, CallsOK, CallOK, Call, HasRun, Steps
  <2> QED BY <1>17, <2>1, <2>2 DEF TypeOK, FailsStep, approvalVars, runVars
<1>18. ASSUME NEW c \in Calls, FinishesRun(c)
      PROVE  TypeOK' /\ CallsOK'
  <2>1. call' \in [Calls -> Call] /\ CallsOK'
    BY <1>18, AfterLoopInOrder DEF FinishesRun
  <2>2. runState' \in [Runs -> RunStates] /\ runStep' \in [Runs -> 0 .. LastStep + 1]
       /\ awaiting' \in [Runs -> Approvals \cup {None}]
    BY <1>18, PersistTyped
    DEF FinishesRun, RunStates, TypeOK, CallsOK, CallOK, Call, HasRun, Steps
  <2> QED BY <1>18, <2>1, <2>2 DEF TypeOK, FinishesRun, approvalVars, runVars
<1>19. ASSUME NEW c \in Calls, Throws(c)
      PROVE  TypeOK' /\ CallsOK'
  <2>1. call[c].handler = "approve" => CallOK([call[c] EXCEPT !.at = "fail"])
    BY CallInOrder, <1>19 DEF Call, CallOK, HasRun, HasInput, Deciding, Steps, Throws
  <2>2. CallOK([call[c] EXCEPT !.at = "done"])
    BY CallInOrder, <1>19 DEF Call, CallOK, HasRun, HasInput, Deciding, Steps, Throws
  <2>3. call' \in [Calls -> Call] /\ CallsOK'
    BY <1>19, <2>1, <2>2, CallGoes DEF Throws, Places
  <2> QED BY <1>19, <2>3 DEF TypeOK, Throws, approvalVars, runVars
<1>20. ASSUME NEW c \in Calls, Rejects(c)
      PROVE  TypeOK' /\ CallsOK'
  <2>1. CallOK([call[c] EXCEPT !.at = "find parked"])
    BY CallInOrder, <1>20 DEF Call, CallOK, HasRun, HasInput, Deciding, Steps, Rejects
  <2>2. CallOK([call[c] EXCEPT !.at = "done"])
    BY CallInOrder, <1>20 DEF Call, CallOK, HasRun, HasInput, Deciding, Steps, Rejects
  <2>3. call' \in [Calls -> Call] /\ CallsOK'
    BY <1>20, <2>1, <2>2, CallGoes DEF Rejects, Places
  <2>4. state' \in [Approvals -> States]
    BY <1>20 DEF Rejects, TypeOK, States, Final
  <2> QED BY <1>20, <2>3, <2>4 DEF TypeOK, Rejects, approvalVars, runVars
<1>21. ASSUME NEW c \in Calls, FindsParked(c)
      PROVE  TypeOK' /\ CallsOK'
  <2>1. CallOK([call[c] EXCEPT !.at = "done"])
    BY CallInOrder, <1>21 DEF Call, CallOK, HasRun, HasInput, Deciding, Steps, FindsParked
  <2>2. ASSUME NEW r \in Runs
        PROVE  /\ [call[c] EXCEPT !.run = r, !.step = runStep[r], !.at = "cancel"] \in Call
               /\ CallOK([call[c] EXCEPT !.run = r, !.step = runStep[r], !.at = "cancel"])
    <3>1. runStep[r] \in 0 .. LastStep + 1
      BY <2>2 DEF TypeOK
    <3> QED BY CallInOrder, <1>21, <3>1
            DEF Call, CallOK, HasRun, HasInput, Deciding, Steps, Places, FindsParked
  <2>3. CASE Goes(c, "done")
    BY <1>21, <2>1, <2>3, CallGoes DEF TypeOK, FindsParked, Places, approvalVars, runVars
  <2>4. ASSUME NEW r \in WaitingFor(call[c].approval),
               call' = [call EXCEPT ![c] = [call[c] EXCEPT !.run = r, !.step = runStep[r],
                                                           !.at = "cancel"]]
        PROVE  TypeOK' /\ CallsOK'
    <3>1. r \in Runs
      BY DEF WaitingFor
    <3>2. call' \in [Calls -> Call] /\ CallsOK'
      BY <2>2, <2>4, <3>1, CallMoves
    <3> QED BY <1>21, <3>2 DEF TypeOK, FindsParked, approvalVars, runVars
  <2> QED BY <1>21, <2>3, <2>4 DEF FindsParked
<1>22. ASSUME NEW c \in Calls, CancelsRun(c)
      PROVE  TypeOK' /\ CallsOK'
  <2>1. CallOK([call[c] EXCEPT !.at = "done"])
    BY CallInOrder, <1>22 DEF Call, CallOK, HasRun, HasInput, Deciding, Steps, CancelsRun
  <2>2. call' \in [Calls -> Call] /\ CallsOK'
    BY <1>22, <2>1, CallGoes DEF CancelsRun, Places
  <2>3. runState' \in [Runs -> RunStates] /\ runStep' \in [Runs -> 0 .. LastStep + 1]
       /\ awaiting' \in [Runs -> Approvals \cup {None}]
    BY <1>22, PersistTyped
    DEF CancelsRun, RunStates, TypeOK, CallsOK, CallOK, Call, HasRun, Steps
  <2> QED BY <1>22, <2>2, <2>3 DEF TypeOK, CancelsRun, approvalVars, runVars
<1>23. ASSUME NEW c \in Calls, Crashes(c)
      PROVE  TypeOK' /\ CallsOK'
  <2>1. CallOK([call[c] EXCEPT !.at = "done"])
    BY CallInOrder, <1>23 DEF Call, CallOK, HasRun, HasInput, Deciding, Steps, Crashes
  <2>2. call' \in [Calls -> Call] /\ CallsOK'
    BY <1>23, <2>1, CallGoes DEF Crashes, Places
  <2>3. crashes' \in 0 .. MaxCrashes
    BY <1>23, WorkflowOK DEF Crashes, TypeOK
  <2> QED BY <1>23, <2>2, <2>3 DEF TypeOK, Crashes, approvalVars, runVars
<1>24. ASSUME NEW a \in Approvals, Expires(a)
      PROVE  TypeOK' /\ CallsOK'
  BY <1>24 DEF Expires, TypeOK, CallsOK, States, Final, runVars
<1>25. CASE UNCHANGED vars
  BY <1>25 DEF vars, approvalVars, runVars, TypeOK, CallsOK
<1> QED
  BY <1>1, <1>2, <1>3, <1>4, <1>5, <1>6, <1>7, <1>8, <1>9, <1>10, <1>11, <1>12, <1>13,
     <1>14, <1>15, <1>16, <1>17, <1>18, <1>19, <1>20, <1>21, <1>22, <1>23, <1>24, <1>25
  DEF Next, Continues

-----------------------------------------------------------------------------
(* What calls and runs refer to *)

\* A run is persisted with the link its gate has.
LEMMA PersistParked ==
  ASSUME TypeOK, ParkedAtItsGate, NEW r \in Runs, NEW s \in RunStates, NEW i, NEW b,
         PersistRun(r, s, i, b), gate' = gate,
         s = "awaiting_approval" => gate[b] = [run |-> r, step |-> i]
  PROVE  ParkedAtItsGate'
<1> SUFFICES ASSUME NEW x \in Runs
             PROVE  IF runState'[x] = "awaiting_approval"
                    THEN gate'[awaiting'[x]] = [run |-> x, step |-> runStep'[x]]
                    ELSE awaiting'[x] = None
  BY DEF ParkedAtItsGate
<1>1. CASE x = r
  BY <1>1 DEF TypeOK, PersistRun
<1>2. CASE x # r
  BY <1>2 DEF TypeOK, PersistRun, ParkedAtItsGate
<1> QED BY <1>1, <1>2

\* One call moves on, the others still refer to what they did.
LEMMA CallRefers ==
  ASSUME TypeOK, LinksOK, NEW c \in Calls, NEW k, call' = [call EXCEPT ![c] = k],
         gate' = gate, approved \subseteq approved', RefersOK(k, gate, approved')
  PROVE  \A d \in Calls : RefersOK(call'[d], gate', approved')
<1> TAKE d \in Calls
<1>1. CASE d = c
  BY <1>1 DEF TypeOK
<1>2. CASE d # c
  BY <1>2 DEF TypeOK, LinksOK, RefersOK
<1> QED BY <1>1, <1>2

\* A run that waits for an approval is the run of its gate.
LEMMA WaitsAtItsGate ==
  ASSUME ParkedAtItsGate, NEW a, NEW r \in WaitingFor(a)
  PROVE  gate[a].run = r
<1>1. gate[a] = [run |-> r, step |-> runStep[r]]
  BY DEF ParkedAtItsGate, WaitingFor
<1> QED BY <1>1

\* Every statement keeps what calls and runs refer to.
LEMMA LinksStep == TypeOK /\ CallsOK /\ LinksOK /\ [Next]_vars => LinksOK'
<1> SUFFICES ASSUME TypeOK, CallsOK, LinksOK, [Next]_vars
             PROVE  LinksOK'
  OBVIOUS
<1>a. ASSUME NEW c \in Calls
      PROVE  call[c] \in Call /\ CallOK(call[c]) /\ RefersOK(call[c], gate, approved)
  BY <1>a, CallInOrder DEF LinksOK
<1>b. ASSUME UNCHANGED runVars, gate' = gate
      PROVE  ParkedAtItsGate'
  BY <1>b DEF runVars, ParkedAtItsGate, LinksOK
<1>1. ASSUME NEW a \in Approvals, NEW s \in {"pending_approval", "auto_reject"},
             SubmitTool(a, s)
      PROVE  LinksOK'
  BY <1>1, <1>b DEF SubmitTool, LinksOK, TypeOK
<1>2. ASSUME NEW c \in Calls, NEW a \in Approvals, SubmitApproved(c, a)
      PROVE  LinksOK'
  <2>1. PICK p \in {"complete", "fail"} :
          call' = [call EXCEPT ![c] = [call[c] EXCEPT !.handler = "submit",
                                                      !.approval = a, !.at = p]]
    BY <1>2 DEF SubmitApproved
  <2>2. RefersOK([call[c] EXCEPT !.handler = "submit", !.approval = a, !.at = p],
                 gate, approved')
    BY <1>a DEF Call, RefersOK
  <2>3. \A d \in Calls : RefersOK(call'[d], gate', approved')
    BY <1>2, <2>1, <2>2, CallRefers DEF SubmitApproved, approvalVars
  <2> QED BY <1>2, <1>b, <2>3 DEF LinksOK, SubmitApproved, approvalVars
<1>3. ASSUME NEW c \in Calls, NEW h \in {"approve", "reject"}, NEW a \in Approvals,
             ReadsPending(c, h, a)
      PROVE  LinksOK'
  <2>1. RefersOK([call[c] EXCEPT !.handler = h, !.at = "read", !.approval = a],
                 gate, approved')
    BY <1>3, <1>a
    DEF Call, CallOK, RefersOK, HasRun, HasInput, Deciding, Acting, ReadsPending
  <2>2. \A d \in Calls : RefersOK(call'[d], gate', approved')
    BY <1>3, <2>1, CallRefers DEF ReadsPending, Goes, approvalVars
  <2>3. ParkedAtItsGate'
    BY <1>3, <1>b DEF ReadsPending, approvalVars
  <2> QED BY <1>3, <2>2, <2>3 DEF LinksOK, ReadsPending, approvalVars
<1>4. ASSUME NEW c \in Calls, NEW r \in Runs, StartsRun(c, r)
      PROVE  LinksOK'
  <2> DEFINE k == [call[c] EXCEPT !.handler = "start", !.at = "step", !.run = r, !.step = 1]
  <2>1. RefersOK(k, gate, approved')
    BY <1>a DEF Call, CallOK, RefersOK, HasRun, HasInput, Deciding, Acting
  <2>2. call' = [call EXCEPT ![c] = k]
    BY <1>4 DEF StartsRun
  <2>3. \A d \in Calls : RefersOK(call'[d], gate', approved')
    <3> HIDE DEF k
    <3> QED BY <1>4, <2>1, <2>2, CallRefers DEF StartsRun, approvalVars
  <2>4. ParkedAtItsGate'
    BY <1>4, PersistParked DEF StartsRun, LinksOK, RunStates, approvalVars
  <2> QED BY <1>4, <2>3, <2>4 DEF LinksOK, StartsRun, approvalVars
<1>5. ASSUME NEW c \in Calls, MarksExecuting(c)
      PROVE  LinksOK'
  <2>1. gate[call[c].approval] = NoGate =>
          RefersOK([call[c] EXCEPT !.at = "execute"], gate, approved')
    BY <1>5, <1>a
    DEF Call, CallOK, RefersOK, HasRun, HasInput, Deciding, Acting, MarksExecuting
  <2>2. RefersOK([call[c] EXCEPT !.at = "find"], gate, approved')
    BY <1>5, <1>a
    DEF Call, CallOK, RefersOK, HasRun, HasInput, Deciding, Acting, MarksExecuting
  <2>3. \A d \in Calls : RefersOK(call'[d], gate', approved')
    BY <1>5, <2>1, <2>2, CallRefers DEF MarksExecuting, Goes, approvalVars
  <2>4. ParkedAtItsGate'
    BY <1>5, <1>b DEF MarksExecuting, approvalVars
  <2>5. \A x \in Approvals : gate'[x] # NoGate => state'[x] # "none"
    BY <1>5, <1>a DEF MarksExecuting, LinksOK, TypeOK, CallOK, HasInput
  <2> QED BY <2>3, <2>4, <2>5 DEF LinksOK
<1>6. ASSUME NEW c \in Calls, NoExecutor(c)
      PROVE  LinksOK'
  <2>1. RefersOK([call[c] EXCEPT !.at = "fail"], gate, approved')
    BY <1>6, <1>a
    DEF Call, CallOK, RefersOK, HasRun, HasInput, Deciding, Acting, NoExecutor
  <2>2. \A d \in Calls : RefersOK(call'[d], gate', approved')
    BY <1>6, <2>1, CallRefers DEF NoExecutor, Goes, approvalVars
  <2>3. ParkedAtItsGate'
    BY <1>6, <1>b DEF NoExecutor, approvalVars
  <2> QED BY <1>6, <2>2, <2>3 DEF LinksOK, NoExecutor, approvalVars
<1>7. ASSUME NEW c \in Calls, RunsTool(c)
      PROVE  LinksOK'
  <2>1. RefersOK([call[c] EXCEPT !.at = "complete"], gate, approved')
    BY <1>7, <1>a DEF Call, CallOK, RefersOK, HasRun, HasInput, Deciding, Acting, RunsTool
  <2>2. RefersOK([call[c] EXCEPT !.at = "fail"], gate, approved')
    BY <1>7, <1>a DEF Call, CallOK, RefersOK, HasRun, HasInput, Deciding, Acting, RunsTool
  <2>3. RefersOK([call[c] EXCEPT !.at = "revert"], gate, approved')
    BY <1>7, <1>a DEF Call, CallOK, RefersOK, HasRun, HasInput, Deciding, Acting, RunsTool
  <2>4. \A d \in Calls : RefersOK(call'[d], gate', approved')
    BY <1>7, <2>1, <2>2, <2>3, CallRefers DEF RunsTool, Goes, approvalVars
  <2>5. ParkedAtItsGate'
    BY <1>7, <1>b DEF RunsTool, approvalVars
  <2> QED BY <1>7, <2>4, <2>5 DEF LinksOK, RunsTool, approvalVars
<1>8. ASSUME NEW c \in Calls, FindsRun(c)
      PROVE  LinksOK'
  <2>1. RefersOK([call[c] EXCEPT !.at = "fail"], gate, approved')
    BY <1>8, <1>a DEF Call, CallOK, RefersOK, HasRun, HasInput, Deciding, Acting, FindsRun
  <2>2. ASSUME NEW r \in WaitingFor(call[c].approval)
        PROVE  RefersOK([call[c] EXCEPT !.run = r, !.at = "load"],
                        gate, approved')
    <3>1. gate[call[c].approval].run = r
      BY WaitsAtItsGate DEF LinksOK
    <3> QED BY <1>8, <1>a, <3>1
            DEF Call, CallOK, RefersOK, HasRun, HasInput, Deciding, Acting, FindsRun,
                approvalVars
  <2>3. \A d \in Calls : RefersOK(call'[d], gate', approved')
    <3>1. CASE Goes(c, "fail")
      BY <1>8, <2>1, <3>1, CallRefers DEF FindsRun, Goes, approvalVars
    <3>2. ASSUME NEW r \in WaitingFor(call[c].approval),
                 call' = [call EXCEPT ![c] = [call[c] EXCEPT !.run = r, !.at = "load"]]
          PROVE  \A d \in Calls : RefersOK(call'[d], gate', approved')
      BY <1>8, <2>2, <3>2, CallRefers DEF FindsRun, approvalVars
    <3> QED BY <1>8, <3>1, <3>2 DEF FindsRun
  <2> QED BY <1>8, <1>b, <2>3 DEF LinksOK, FindsRun, approvalVars
<1>9. ASSUME NEW c \in Calls, LoadsRun(c)
      PROVE  LinksOK'
  <2> DEFINE k == [call[c] EXCEPT !.step = runStep[call[c].run], !.at = "resume"]
  <2>1. RefersOK(k, gate, approved')
    BY <1>9, <1>a
    DEF Call, CallOK, RefersOK, HasRun, HasInput, Deciding, Acting, LoadsRun, approvalVars
  <2>2. RefersOK([call[c] EXCEPT !.at = "verify"], gate, approved')
    BY <1>9, <1>a
    DEF Call, CallOK, RefersOK, HasRun, HasInput, Deciding, Acting, LoadsRun, approvalVars
  <2>3. \A d \in Calls : RefersOK(call'[d], gate', approved')
    <3>1. CASE call' = [call EXCEPT ![c] = k]
      <4> HIDE DEF k
      <4> QED BY <1>9, <2>1, <3>1, CallRefers DEF LoadsRun, approvalVars
    <3>2. CASE Goes(c, "verify")
      BY <1>9, <2>2, <3>2, CallRefers DEF LoadsRun, Goes, approvalVars
    <3> QED BY <1>9, <3>1, <3>2 DEF LoadsRun
  <2> QED BY <1>9, <1>b, <2>3 DEF LinksOK, LoadsRun, approvalVars
<1>10. ASSUME NEW c \in Calls, Resumes(c)
      PROVE  LinksOK'
  <2>1. RefersOK([call[c] EXCEPT !.at = "step", !.resumed = call[c].approval],
                 gate, approved')
    BY <1>10, <1>a
    DEF Call, CallOK, RefersOK, HasRun, HasInput, Deciding, Acting, Resumes, approvalVars
  <2>2. \A d \in Calls : RefersOK(call'[d], gate', approved')
    BY <1>10, <2>1, CallRefers DEF Resumes, Goes, approvalVars
  <2>3. ParkedAtItsGate'
    BY <1>10, <1>a, PersistParked, WorkflowOK
    DEF Resumes, LinksOK, CallOK, RefersOK, HasRun, RunStates, approvalVars
  <2> QED BY <1>10, <2>2, <2>3 DEF LinksOK, Resumes, approvalVars
<1>11. ASSUME NEW c \in Calls, Verifies(c)
      PROVE  LinksOK'
  <2>1. RefersOK([call[c] EXCEPT !.at = "fail"], gate, approved')
    BY <1>11, <1>a
    DEF Call, CallOK, RefersOK, HasRun, HasInput, Deciding, Acting, Verifies
  <2>2. RefersOK([call[c] EXCEPT !.at = "complete"], gate, approved')
    BY <1>11, <1>a
    DEF Call, CallOK, RefersOK, HasRun, HasInput, Deciding, Acting, Verifies
  <2>3. \A d \in Calls : RefersOK(call'[d], gate', approved')
    BY <1>11, <2>1, <2>2, CallRefers DEF Verifies, Goes, approvalVars
  <2>4. ParkedAtItsGate'
    BY <1>11, <1>b DEF Verifies, approvalVars
  <2> QED BY <1>11, <2>3, <2>4 DEF LinksOK, Verifies, approvalVars
<1>12. ASSUME NEW c \in Calls, Settles(c)
      PROVE  LinksOK'
  <2>1. RefersOK([call[c] EXCEPT !.at = "done"], gate, approved')
    BY <1>12, <1>a DEF Call, CallOK, RefersOK, HasRun, HasInput, Deciding, Acting, Settles
  <2>2. \A d \in Calls : RefersOK(call'[d], gate', approved')
    BY <1>12, <2>1, CallRefers DEF Settles, Goes, approvalVars
  <2>3. ParkedAtItsGate'
    BY <1>12, <1>b DEF Settles, approvalVars
  <2>4. \A x \in Approvals : gate'[x] # NoGate => state'[x] # "none"
    BY <1>12, <1>a DEF Settles, LinksOK, TypeOK, CallOK, HasInput
  <2> QED BY <2>2, <2>3, <2>4 DEF LinksOK
<1>13. ASSUME NEW c \in Calls, NEW b \in Approvals, OpensGate(c, b)
      PROVE  LinksOK'
  <2> DEFINE g == [run |-> call[c].run, step |-> call[c].step]
  <2>1. gate[b] = NoGate /\ \A d \in Calls : call[d].approval # b
    BY <1>13 DEF OpensGate, Fresh, LinksOK
  <2>2. gate'[b] = g /\ \A x \in Approvals \ {b} : gate'[x] = gate[x]
    BY <1>13 DEF OpensGate, TypeOK
  <2>3. ASSUME NEW d \in Calls
        PROVE  RefersOK(call'[d], gate', approved')
    <3>1. CASE d = c
      <4>1. call'[d] = [call[c] EXCEPT !.at = "park", !.opened = b]
        BY <1>13, <3>1 DEF OpensGate, TypeOK
      <4>2. /\ call'[d].at = "park" /\ call'[d].opened = b
            /\ call'[d].run = call[c].run /\ call'[d].step = call[c].step
            /\ call'[d].handler = call[c].handler /\ call'[d].approval = call[c].approval
        BY <1>a, <4>1 DEF Call
      <4>3. call[c].handler = "approve" =>
              /\ gate'[call[c].approval].run = call[c].run
              /\ call[c].approval \in approved'
        BY <1>13, <1>a, <2>1, <2>2 DEF OpensGate, CallOK, RefersOK, HasRun, Acting
      <4> QED BY <2>2, <4>2, <4>3 DEF RefersOK
    <3>2. CASE d # c
      <4>1. call'[d] = call[d] /\ approved' = approved
        BY <1>13, <3>2 DEF OpensGate, TypeOK
      <4>2. call[d].approval \in Approvals =>
              gate'[call[d].approval] = gate[call[d].approval]
        BY <2>1, <2>2
      <4>3. call[d].at = "park" => gate'[call[d].opened] = gate[call[d].opened]
        <5> SUFFICES ASSUME call[d].at = "park"
                     PROVE  gate'[call[d].opened] = gate[call[d].opened]
          OBVIOUS
        <5>1. call[d].opened \in Approvals /\ call[d].run \in Runs
          BY <1>a DEF CallOK, HasRun
        <5>2. gate[call[d].opened] # NoGate
          <6>1. gate[call[d].opened] = [run |-> call[d].run, step |-> call[d].step]
            BY <1>a DEF RefersOK
          <6>2. gate[call[d].opened].run # None
            BY <5>1, <6>1, WorkflowOK
          <6> QED BY <6>2 DEF NoGate
        <5> QED BY <2>1, <2>2, <5>1, <5>2
      <4>4. call[d].handler = "approve" \/ call[d].at = "execute" =>
              call[d].approval \in Approvals
        BY <1>a DEF CallOK, HasInput
      <4>5. RefersOK(call[d], gate, approved)
        BY <1>a
      <4>6. RefersOK(call[d], gate', approved)
        BY <4>2, <4>3, <4>4, <4>5 DEF RefersOK
      <4> QED BY <4>1, <4>6
    <3> QED BY <3>1, <3>2
  <2>4. ParkedAtItsGate'
    <3> SUFFICES ASSUME NEW x \in Runs
                 PROVE  IF runState[x] = "awaiting_approval"
                        THEN gate'[awaiting[x]] = [run |-> x, step |-> runStep[x]]
                        ELSE awaiting[x] = None
      BY <1>13 DEF ParkedAtItsGate, OpensGate, runVars
    <3>1. CASE runState[x] = "awaiting_approval"
      <4>1. gate[awaiting[x]] = [run |-> x, step |-> runStep[x]]
        BY <3>1 DEF LinksOK, ParkedAtItsGate
      <4>2. gate[awaiting[x]] # NoGate
        BY <4>1, WorkflowOK DEF NoGate
      <4>3. awaiting[x] # b
        BY <2>1, <4>2
      <4> QED BY <1>13, <3>1, <4>1, <4>3 DEF OpensGate, TypeOK
    <3>2. CASE runState[x] # "awaiting_approval"
      BY <3>2 DEF LinksOK, ParkedAtItsGate
    <3> QED BY <3>1, <3>2
  <2>5. \A x \in Approvals : gate'[x] # NoGate => state'[x] # "none"
    BY <1>13, <2>2 DEF OpensGate, LinksOK, TypeOK
  <2> QED BY <2>3, <2>4, <2>5 DEF LinksOK
<1>14. ASSUME NEW c \in Calls, Writes(c)
      PROVE  LinksOK'
  <2>1. RefersOK([call[c] EXCEPT !.at = "written"], gate, approved')
    BY <1>14, <1>a
    DEF Call, CallOK, RefersOK, HasRun, HasInput, Deciding, Acting, Writes, approvalVars
  <2>2. \A d \in Calls : RefersOK(call'[d], gate', approved')
    BY <1>14, <2>1, CallRefers DEF Writes, Goes, approvalVars
  <2>3. ParkedAtItsGate'
    BY <1>14, <1>b DEF Writes, approvalVars
  <2> QED BY <1>14, <2>2, <2>3 DEF LinksOK, Writes, approvalVars
<1>15. ASSUME NEW c \in Calls, Passes(c)
      PROVE  LinksOK'
  <2>1. PICK j \in NextSteps(call[c].step) :
          /\ PersistRun(call[c].run, "running", j, None)
          /\ call' = [call EXCEPT ![c] = [call[c] EXCEPT !.step = j, !.at = "step",
                                                          !.resumed = None]]
    BY <1>15 DEF Passes
  <2>2. RefersOK([call[c] EXCEPT !.step = j, !.at = "step", !.resumed = None],
                 gate, approved')
    BY <1>15, <1>a
    DEF Call, CallOK, RefersOK, HasRun, HasInput, Deciding, Acting, Passes, StepIsDone,
        approvalVars
  <2>3. \A d \in Calls : RefersOK(call'[d], gate', approved')
    BY <1>15, <2>1, <2>2, CallRefers DEF Passes, approvalVars
  <2>4. call[c].run \in Runs
    BY <1>15, <1>a DEF CallOK, HasRun, Passes, StepIsDone
  <2>5. ParkedAtItsGate'
    BY <1>15, <2>1, <2>4, PersistParked DEF Passes, LinksOK, RunStates, approvalVars
  <2> QED BY <1>15, <2>3, <2>5 DEF LinksOK, Passes, approvalVars
<1>16. ASSUME NEW c \in Calls, Parks(c)
      PROVE  LinksOK'
  <2>1. RefersOK([call[c] EXCEPT !.at = "done"], gate, approved')
    BY <1>16, <1>a
    DEF Call, CallOK, RefersOK, HasRun, HasInput, Deciding, Acting, Parks, approvalVars
  <2>2. call[c].handler = "approve" =>
          RefersOK([call[c] EXCEPT !.at = "verify"], gate, approved')
    BY <1>16, <1>a
    DEF Call, CallOK, RefersOK, HasRun, HasInput, Deciding, Acting, Parks, approvalVars
  <2>3. \A d \in Calls : RefersOK(call'[d], gate', approved')
    BY <1>16, <2>1, <2>2, CallRefers DEF Parks, Goes, approvalVars, AfterLoop
  <2>4. ParkedAtItsGate'
    BY <1>16, <1>a, PersistParked, WorkflowOK
    DEF Parks, LinksOK, CallOK, RefersOK, HasRun, RunStates, approvalVars
  <2> QED BY <1>16, <2>3, <2>4 DEF LinksOK, Parks, approvalVars
<1>17. ASSUME NEW c \in Calls, FailsStep(c)
      PROVE  LinksOK'
  <2>1. RefersOK([call[c] EXCEPT !.at = "done"], gate, approved')
    BY <1>17, <1>a
    DEF Call, CallOK, RefersOK, HasRun, HasInput, Deciding, Acting, FailsStep,
        approvalVars
  <2>2. call[c].handler = "approve" =>
          RefersOK([call[c] EXCEPT !.at = "verify"], gate, approved')
    BY <1>17, <1>a
    DEF Call, CallOK, RefersOK, HasRun, HasInput, Deciding, Acting, FailsStep,
        approvalVars
  <2>3. \A d \in Calls : RefersOK(call'[d], gate', approved')
    BY <1>17, <2>1, <2>2, CallRefers DEF FailsStep, Goes, approvalVars, AfterLoop
  <2>4. ParkedAtItsGate'
    BY <1>17, <1>a, PersistParked, WorkflowOK
    DEF FailsStep, LinksOK, CallOK, RefersOK, HasRun, RunStates, approvalVars
  <2> QED BY <1>17, <2>3, <2>4 DEF LinksOK, FailsStep, approvalVars
<1>18. ASSUME NEW c \in Calls, FinishesRun(c)
      PROVE  LinksOK'
  <2>1. RefersOK([call[c] EXCEPT !.at = "done"], gate, approved')
    BY <1>18, <1>a
    DEF Call, CallOK, RefersOK, HasRun, HasInput, Deciding, Acting, FinishesRun,
        approvalVars
  <2>2. call[c].handler = "approve" =>
          RefersOK([call[c] EXCEPT !.at = "verify"], gate, approved')
    BY <1>18, <1>a
    DEF Call, CallOK, RefersOK, HasRun, HasInput, Deciding, Acting, FinishesRun,
        approvalVars
  <2>3. \A d \in Calls : RefersOK(call'[d], gate', approved')
    BY <1>18, <2>1, <2>2, CallRefers DEF FinishesRun, Goes, approvalVars, AfterLoop
  <2>4. ParkedAtItsGate'
    BY <1>18, <1>a, PersistParked, WorkflowOK
    DEF FinishesRun, LinksOK, CallOK, RefersOK, HasRun, RunStates, approvalVars
  <2> QED BY <1>18, <2>3, <2>4 DEF LinksOK, FinishesRun, approvalVars
<1>19. ASSUME NEW c \in Calls, Throws(c)
      PROVE  LinksOK'
  <2>1. RefersOK([call[c] EXCEPT !.at = "done"], gate, approved')
    BY <1>19, <1>a DEF Call, CallOK, RefersOK, HasRun, HasInput, Deciding, Acting, Throws
  <2>2. RefersOK([call[c] EXCEPT !.at = "fail"], gate, approved')
    BY <1>19, <1>a DEF Call, CallOK, RefersOK, HasRun, HasInput, Deciding, Acting, Throws
  <2>3. \A d \in Calls : RefersOK(call'[d], gate', approved')
    BY <1>19, <2>1, <2>2, CallRefers DEF Throws, Goes, approvalVars
  <2>4. ParkedAtItsGate'
    BY <1>19, <1>b DEF Throws, approvalVars
  <2> QED BY <1>19, <2>3, <2>4 DEF LinksOK, Throws, approvalVars
<1>20. ASSUME NEW c \in Calls, Rejects(c)
      PROVE  LinksOK'
  <2>1. RefersOK([call[c] EXCEPT !.at = "done"], gate, approved')
    BY <1>20, <1>a DEF Call, CallOK, RefersOK, HasRun, HasInput, Deciding, Acting, Rejects
  <2>2. RefersOK([call[c] EXCEPT !.at = "find parked"], gate, approved')
    BY <1>20, <1>a DEF Call, CallOK, RefersOK, HasRun, HasInput, Deciding, Acting, Rejects
  <2>3. \A d \in Calls : RefersOK(call'[d], gate', approved')
    BY <1>20, <2>1, <2>2, CallRefers DEF Rejects, Goes, approvalVars
  <2>4. ParkedAtItsGate'
    BY <1>20, <1>b DEF Rejects, approvalVars
  <2>5. \A x \in Approvals : gate'[x] # NoGate => state'[x] # "none"
    BY <1>20, <1>a DEF Rejects, LinksOK, TypeOK, CallOK, HasInput
  <2> QED BY <2>3, <2>4, <2>5 DEF LinksOK
<1>21. ASSUME NEW c \in Calls, FindsParked(c)
      PROVE  LinksOK'
  <2>1. RefersOK([call[c] EXCEPT !.at = "done"], gate, approved')
    BY <1>21, <1>a
    DEF Call, CallOK, RefersOK, HasRun, HasInput, Deciding, Acting, FindsParked
  <2>2. ASSUME NEW r \in WaitingFor(call[c].approval)
        PROVE  RefersOK([call[c] EXCEPT !.run = r, !.step = runStep[r], !.at = "cancel"],
                        gate, approved')
    <3>1. gate[call[c].approval].run = r
      BY WaitsAtItsGate DEF LinksOK
    <3> QED BY <1>21, <1>a, <3>1
            DEF Call, CallOK, RefersOK, HasRun, HasInput, Deciding, Acting, FindsParked,
                approvalVars
  <2>3. \A d \in Calls : RefersOK(call'[d], gate', approved')
    <3>1. CASE Goes(c, "done")
      BY <1>21, <2>1, <3>1, CallRefers DEF FindsParked, Goes, approvalVars
    <3>2. ASSUME NEW r \in WaitingFor(call[c].approval),
                 call' = [call EXCEPT ![c] = [call[c] EXCEPT !.run = r, !.step = runStep[r],
                                                             !.at = "cancel"]]
          PROVE  \A d \in Calls : RefersOK(call'[d], gate', approved')
      BY <1>21, <2>2, <3>2, CallRefers DEF FindsParked, approvalVars
    <3> QED BY <1>21, <3>1, <3>2 DEF FindsParked
  <2> QED BY <1>21, <1>b, <2>3 DEF LinksOK, FindsParked, approvalVars
<1>22. ASSUME NEW c \in Calls, CancelsRun(c)
      PROVE  LinksOK'
  <2>1. RefersOK([call[c] EXCEPT !.at = "done"], gate, approved')
    BY <1>22, <1>a
    DEF Call, CallOK, RefersOK, HasRun, HasInput, Deciding, Acting, CancelsRun
  <2>2. \A d \in Calls : RefersOK(call'[d], gate', approved')
    BY <1>22, <2>1, CallRefers DEF CancelsRun, Goes, approvalVars
  <2>3. ParkedAtItsGate'
    BY <1>22, <1>a, PersistParked, WorkflowOK
    DEF CancelsRun, LinksOK, CallOK, RefersOK, HasRun, RunStates, approvalVars
  <2> QED BY <1>22, <2>2, <2>3 DEF LinksOK, CancelsRun, approvalVars
<1>23. ASSUME NEW c \in Calls, Crashes(c)
      PROVE  LinksOK'
  <2>1. RefersOK([call[c] EXCEPT !.at = "done"], gate, approved')
    BY <1>23, <1>a DEF Call, CallOK, RefersOK, HasRun, HasInput, Deciding, Acting, Crashes
  <2>2. \A d \in Calls : RefersOK(call'[d], gate', approved')
    BY <1>23, <2>1, CallRefers DEF Crashes, Goes, approvalVars
  <2>3. ParkedAtItsGate'
    BY <1>23, <1>b DEF Crashes, approvalVars
  <2> QED BY <1>23, <2>2, <2>3 DEF LinksOK, Crashes, approvalVars
<1>24. ASSUME NEW a \in Approvals, Expires(a)
      PROVE  LinksOK'
  BY <1>24, <1>b DEF Expires, LinksOK, TypeOK
<1>25. CASE UNCHANGED vars
  BY <1>25 DEF vars, approvalVars, runVars, LinksOK, ParkedAtItsGate
<1> QED
  BY <1>1, <1>2, <1>3, <1>4, <1>5, <1>6, <1>7, <1>8, <1>9, <1>10, <1>11, <1>12,
     <1>13, <1>14, <1>15, <1>16, <1>17, <1>18, <1>19, <1>20, <1>21, <1>22, <1>23,
     <1>24, <1>25
  DEF Next, Continues

-----------------------------------------------------------------------------
(* What calls write *)

\* A call that moves on without writing.
LEMMA WritesKept ==
  ASSUME TypeOK, WritesOK, NEW c \in Calls, NEW k, call' = [call EXCEPT ![c] = k],
         writes' = writes, gate' = gate, approved \subseteq approved',
         MayWrite(k) => MayWrite(call[c]),
         k.approval = call[c].approval \/ MayWrite(call[c])
  PROVE  WritesOK'
<1>1. \A w \in writes : /\ w.call \in Calls
                        /\ w.approval = call'[w.call].approval
                        /\ ~MayWrite(call'[w.call])
  <2> TAKE w \in writes
  <2>1. CASE w.call = c
    BY <2>1 DEF TypeOK, WritesOK
  <2>2. CASE w.call # c
    BY <2>2 DEF TypeOK, WritesOK
  <2> QED BY <2>1, <2>2
<1>2. WriteWasApproved' /\ OneDecisionOneWrite'
  BY DEF WritesOK, WriteWasApproved, OneDecisionOneWrite
<1> QED BY <1>1, <1>2 DEF WritesOK, MayWrite

\* A call that makes its one write.
LEMMA WriteMade ==
  ASSUME TypeOK, WritesOK, NEW c \in Calls, NEW k, call' = [call EXCEPT ![c] = k],
         NEW v \in [call : Calls, approval : Approvals, gate : Gate \cup {NoGate}],
         writes' = writes \cup {v}, v.call = c, v.approval = k.approval,
         gate' = gate, approved' = approved, MayWrite(call[c]), ~MayWrite(k),
         k.approval = call[c].approval \/ call[c].at = "idle",
         IF v.gate = NoGate THEN gate[v.approval] = NoGate
         ELSE v.approval \in approved /\ gate[v.approval].run = v.gate.run
  PROVE  WritesOK'
<1>1. \A w \in writes : w.call \in Calls /\ w.call # c
  BY DEF TypeOK, WritesOK
<1>2. call'[c] = k /\ \A d \in Calls \ {c} : call'[d] = call[d]
  BY DEF TypeOK
<1>3. \A w \in writes' : /\ w.approval = call'[w.call].approval
                         /\ ~MayWrite(call'[w.call])
  BY <1>1, <1>2 DEF WritesOK
<1>4. WriteWasApproved'
  BY DEF WritesOK, WriteWasApproved
<1>5. OneDecisionOneWrite'
  BY <1>1 DEF WritesOK, OneDecisionOneWrite
<1> QED BY <1>3, <1>4, <1>5 DEF WritesOK, MayWrite

\* Every statement keeps to one approved write for a call.
LEMMA WritesStep == TypeOK /\ CallsOK /\ LinksOK /\ WritesOK /\ [Next]_vars => WritesOK'
<1> SUFFICES ASSUME TypeOK, CallsOK, LinksOK, WritesOK, [Next]_vars
             PROVE  WritesOK'
  OBVIOUS
<1>a. ASSUME NEW c \in Calls
      PROVE  call[c] \in Call /\ CallOK(call[c]) /\ RefersOK(call[c], gate, approved)
  BY <1>a, CallInOrder DEF LinksOK
<1>1. ASSUME NEW a \in Approvals, NEW s \in {"pending_approval", "auto_reject"},
             SubmitTool(a, s)
      PROVE  WritesOK'
  BY <1>1 DEF SubmitTool, WritesOK, WriteWasApproved, OneDecisionOneWrite
<1>2. ASSUME NEW c \in Calls, NEW a \in Approvals, SubmitApproved(c, a)
      PROVE  WritesOK'
  <2> DEFINE k(p) == [call[c] EXCEPT !.handler = "submit", !.approval = a, !.at = p]
             v    == [call |-> c, approval |-> a, gate |-> NoGate]
  <2>1. MayWrite(call[c])
    BY <1>2 DEF SubmitApproved, MayWrite
  <2>2. /\ ~MayWrite(k("complete")) /\ k("complete").approval = a
        /\ ~MayWrite(k("fail"))
    BY <1>a DEF Call, MayWrite
  <2>3. gate[a] = NoGate
    BY <1>2 DEF SubmitApproved, Fresh, LinksOK
  <2>4. /\ v \in [call : Calls, approval : Approvals, gate : Gate \cup {NoGate}]
        /\ v.call = c /\ v.approval = a /\ v.gate = NoGate
    OBVIOUS
  <2>5. CASE call' = [call EXCEPT ![c] = k("complete")] /\ writes' = writes \cup {v}
    <3> HIDE DEF k, v
    <3> QED BY <1>2, <2>1, <2>2, <2>3, <2>4, <2>5, WriteMade
            DEF SubmitApproved, approvalVars
  <2>6. CASE call' = [call EXCEPT ![c] = k("fail")] /\ writes' = writes
    <3> HIDE DEF k, v
    <3> QED BY <1>2, <2>1, <2>2, <2>6, WritesKept DEF SubmitApproved, approvalVars
  <2> QED BY <1>2, <2>5, <2>6 DEF SubmitApproved
<1>3. ASSUME NEW c \in Calls, NEW h \in {"approve", "reject"}, NEW a \in Approvals,
             ReadsPending(c, h, a)
      PROVE  WritesOK'
  <2> DEFINE k == [call[c] EXCEPT !.handler = h, !.at = "read", !.approval = a]
  <2>1. MayWrite(call[c])
    BY <1>3 DEF ReadsPending, MayWrite
  <2>2. call' = [call EXCEPT ![c] = k]
    BY <1>3 DEF ReadsPending
  <2> HIDE DEF k
  <2> QED BY <1>3, <2>1, <2>2, WritesKept DEF ReadsPending, approvalVars
<1>4. ASSUME NEW c \in Calls, NEW r \in Runs, StartsRun(c, r)
      PROVE  WritesOK'
  <2> DEFINE k == [call[c] EXCEPT !.handler = "start", !.at = "step", !.run = r, !.step = 1]
  <2>1. MayWrite(call[c])
    BY <1>4 DEF StartsRun, MayWrite
  <2>2. call' = [call EXCEPT ![c] = k]
    BY <1>4 DEF StartsRun
  <2> HIDE DEF k
  <2> QED BY <1>4, <2>1, <2>2, WritesKept DEF StartsRun, approvalVars
<1>5. ASSUME NEW c \in Calls, MarksExecuting(c)
      PROVE  WritesOK'
  <2>1. /\ MayWrite([call[c] EXCEPT !.at = "execute"]) => MayWrite(call[c])
        /\ [call[c] EXCEPT !.at = "execute"].approval = call[c].approval
             \/ MayWrite(call[c])
    BY <1>5, <1>a DEF Call, MayWrite, MarksExecuting
  <2>2. /\ MayWrite([call[c] EXCEPT !.at = "find"]) => MayWrite(call[c])
        /\ [call[c] EXCEPT !.at = "find"].approval = call[c].approval \/ MayWrite(call[c])
    BY <1>5, <1>a DEF Call, MayWrite, MarksExecuting
  <2> QED BY <1>5, <2>1, <2>2, WritesKept DEF MarksExecuting, Goes, approvalVars
<1>6. ASSUME NEW c \in Calls, NoExecutor(c)
      PROVE  WritesOK'
  <2>1. /\ MayWrite([call[c] EXCEPT !.at = "fail"]) => MayWrite(call[c])
        /\ [call[c] EXCEPT !.at = "fail"].approval = call[c].approval \/ MayWrite(call[c])
    BY <1>6, <1>a DEF Call, MayWrite, NoExecutor
  <2> QED BY <1>6, <2>1, WritesKept DEF NoExecutor, Goes, approvalVars
<1>7. ASSUME NEW c \in Calls, RunsTool(c)
      PROVE  WritesOK'
  <2> DEFINE v == [call |-> c, approval |-> call[c].approval, gate |-> NoGate]
  <2>1. call[c].approval \in Approvals /\ gate[call[c].approval] = NoGate /\ MayWrite(call[c])
    BY <1>7, <1>a DEF RunsTool, CallOK, HasInput, RefersOK, MayWrite
  <2>2. /\ ~MayWrite([call[c] EXCEPT !.at = "complete"])
        /\ [call[c] EXCEPT !.at = "complete"].approval = call[c].approval
        /\ ~MayWrite([call[c] EXCEPT !.at = "fail"])
        /\ ~MayWrite([call[c] EXCEPT !.at = "revert"])
    BY <1>a DEF Call, MayWrite
  <2>3. /\ v \in [call : Calls, approval : Approvals, gate : Gate \cup {NoGate}]
        /\ v.call = c /\ v.approval = call[c].approval /\ v.gate = NoGate
    BY <2>1
  <2>4. CASE Goes(c, "complete") /\ writes' = writes \cup {v}
    <3> HIDE DEF v
    <3> QED BY <1>7, <2>1, <2>2, <2>3, <2>4, WriteMade DEF RunsTool, Goes, approvalVars
  <2>5. CASE (Goes(c, "fail") \/ Goes(c, "revert")) /\ writes' = writes
    BY <1>7, <2>1, <2>2, <2>5, WritesKept DEF RunsTool, Goes, approvalVars
  <2> QED BY <1>7, <2>4, <2>5 DEF RunsTool
<1>8. ASSUME NEW c \in Calls, FindsRun(c)
      PROVE  WritesOK'
  <2>1. /\ MayWrite([call[c] EXCEPT !.at = "fail"]) => MayWrite(call[c])
        /\ [call[c] EXCEPT !.at = "fail"].approval = call[c].approval
    BY <1>8, <1>a DEF Call, MayWrite, FindsRun
  <2>2. ASSUME NEW r \in Runs
        PROVE  /\ MayWrite([call[c] EXCEPT !.run = r, !.at = "load"]) => MayWrite(call[c])
               /\ [call[c] EXCEPT !.run = r, !.at = "load"].approval = call[c].approval
    BY <1>8, <1>a DEF Call, MayWrite, FindsRun
  <2>3. CASE Goes(c, "fail")
    BY <1>8, <2>1, <2>3, WritesKept DEF FindsRun, Goes, approvalVars
  <2>4. ASSUME NEW r \in WaitingFor(call[c].approval),
               call' = [call EXCEPT ![c] = [call[c] EXCEPT !.run = r, !.at = "load"]]
        PROVE  WritesOK'
    BY <1>8, <2>2, <2>4, WritesKept DEF FindsRun, WaitingFor, approvalVars
  <2> QED BY <1>8, <2>3, <2>4 DEF FindsRun
<1>9. ASSUME NEW c \in Calls, LoadsRun(c)
      PROVE  WritesOK'
  <2> DEFINE k == [call[c] EXCEPT !.step = runStep[call[c].run], !.at = "resume"]
  <2>1. MayWrite(call[c])
    BY <1>9 DEF LoadsRun, MayWrite
  <2>2. CASE call' = [call EXCEPT ![c] = k]
    <3> HIDE DEF k
    <3> QED BY <1>9, <2>1, <2>2, WritesKept DEF LoadsRun, approvalVars
  <2>3. CASE Goes(c, "verify")
    BY <1>9, <2>1, <2>3, WritesKept DEF LoadsRun, Goes, approvalVars
  <2> QED BY <1>9, <2>2, <2>3 DEF LoadsRun
<1>10. ASSUME NEW c \in Calls, Resumes(c)
      PROVE  WritesOK'
  <2>1. /\ MayWrite([call[c] EXCEPT !.at = "step", !.resumed = call[c].approval]) =>
             MayWrite(call[c])
        /\ [call[c] EXCEPT !.at = "step", !.resumed = call[c].approval].approval = call[c].approval
             \/ MayWrite(call[c])
    BY <1>10, <1>a DEF Call, MayWrite, Resumes
  <2> QED BY <1>10, <2>1, WritesKept DEF Resumes, Goes, approvalVars
<1>11. ASSUME NEW c \in Calls, Verifies(c)
      PROVE  WritesOK'
  <2>1. /\ MayWrite([call[c] EXCEPT !.at = "fail"]) => MayWrite(call[c])
        /\ [call[c] EXCEPT !.at = "fail"].approval = call[c].approval \/ MayWrite(call[c])
    BY <1>11, <1>a DEF Call, MayWrite, Verifies
  <2>2. /\ MayWrite([call[c] EXCEPT !.at = "complete"]) => MayWrite(call[c])
        /\ [call[c] EXCEPT !.at = "complete"].approval = call[c].approval
             \/ MayWrite(call[c])
    BY <1>11, <1>a DEF Call, MayWrite, Verifies
  <2> QED BY <1>11, <2>1, <2>2, WritesKept DEF Verifies, Goes, approvalVars
<1>12. ASSUME NEW c \in Calls, Settles(c)
      PROVE  WritesOK'
  <2>1. /\ MayWrite([call[c] EXCEPT !.at = "done"]) => MayWrite(call[c])
        /\ [call[c] EXCEPT !.at = "done"].approval = call[c].approval
    BY <1>12, <1>a DEF Call, MayWrite, Settles
  <2>2. approved \subseteq approved'
    BY <1>12 DEF Settles
  <2> QED BY <1>12, <2>1, <2>2, WritesKept DEF Settles, Goes
<1>13. ASSUME NEW c \in Calls, NEW b \in Approvals, OpensGate(c, b)
      PROVE  WritesOK'
  <2> DEFINE k == [call[c] EXCEPT !.at = "park", !.opened = b]
  <2>1. \A w \in writes : w.call \in Calls /\ w.approval \in Approvals \ {b}
    BY <1>13 DEF OpensGate, Fresh, TypeOK, WritesOK
  <2>2. /\ \A x \in Approvals \ {b} : gate'[x] = gate[x]
        /\ approved' = approved /\ writes' = writes
    BY <1>13 DEF OpensGate, TypeOK
  <2>3. ~MayWrite(k) /\ k.approval = call[c].approval
    BY <1>a DEF Call, MayWrite
  <2>4. call'[c] = k /\ \A d \in Calls \ {c} : call'[d] = call[d]
    BY <1>13 DEF OpensGate, TypeOK
  <2> HIDE DEF k
  <2>5. \A w \in writes : /\ w.approval = call'[w.call].approval
                          /\ ~MayWrite(call'[w.call])
    BY <2>1, <2>3, <2>4 DEF WritesOK
  <2>6. WriteWasApproved'
    BY <2>1, <2>2 DEF WritesOK, WriteWasApproved
  <2>7. OneDecisionOneWrite'
    BY <2>2 DEF WritesOK, OneDecisionOneWrite
  <2> QED BY <2>2, <2>5, <2>6, <2>7 DEF WritesOK, MayWrite
<1>14. ASSUME NEW c \in Calls, Writes(c)
      PROVE  WritesOK'
  <2> DEFINE g == [run |-> call[c].run, step |-> call[c].step]
             v == [call |-> c, approval |-> call[c].resumed, gate |-> g]
  <2>1. /\ call[c].resumed # None /\ call[c].at = "step" /\ call[c].run \in Runs
        /\ call[c].handler = "approve" /\ call[c].resumed = call[c].approval
        /\ call[c].approval \in Approvals /\ call[c].step \in Steps
    BY <1>14, <1>a, WorkflowOK DEF Writes, MustWait, CallOK, HasRun
  <2>2. call[c].approval \in approved /\ gate[call[c].approval].run = call[c].run
    BY <1>a, <2>1 DEF RefersOK, HasRun, Acting
  <2>3. g \in Gate /\ g.run = call[c].run
    BY <2>1 DEF Gate
  <2>4. g # NoGate
    BY <2>1, <2>3, WorkflowOK DEF NoGate
  <2>5. MayWrite(call[c])
    BY <2>1 DEF MayWrite
  <2>6. /\ ~MayWrite([call[c] EXCEPT !.at = "written"])
        /\ [call[c] EXCEPT !.at = "written"].approval = call[c].approval
    BY <1>a DEF Call, MayWrite
  <2> HIDE DEF g
  <2>7. /\ v \in [call : Calls, approval : Approvals, gate : Gate \cup {NoGate}]
        /\ v.call = c /\ v.approval = call[c].approval /\ v.gate = g
    BY <2>1, <2>3
  <2>8. writes' = writes \cup {v}
    BY <1>14 DEF Writes, g
  <2> HIDE DEF v
  <2> QED BY <1>14, <2>2, <2>3, <2>4, <2>5, <2>6, <2>7, <2>8, WriteMade
          DEF Writes, Goes, approvalVars
<1>15. ASSUME NEW c \in Calls, Passes(c)
      PROVE  WritesOK'
  <2>1. PICK j \in NextSteps(call[c].step) :
          call' = [call EXCEPT ![c] = [call[c] EXCEPT !.step = j, !.at = "step",
                                                      !.resumed = None]]
    BY <1>15 DEF Passes
  <2> DEFINE k == [call[c] EXCEPT !.step = j, !.at = "step", !.resumed = None]
  <2>2. ~MayWrite(k) /\ k.approval = call[c].approval
    BY <1>a DEF Call, MayWrite
  <2> HIDE DEF k
  <2>3. call' = [call EXCEPT ![c] = k]
    BY <2>1 DEF k
  <2> QED BY <1>15, <2>2, <2>3, WritesKept DEF Passes, approvalVars
<1>16. ASSUME NEW c \in Calls, Parks(c)
      PROVE  WritesOK'
  <2>1. /\ MayWrite([call[c] EXCEPT !.at = "done"]) => MayWrite(call[c])
        /\ [call[c] EXCEPT !.at = "done"].approval = call[c].approval \/ MayWrite(call[c])
    BY <1>16, <1>a DEF Call, MayWrite, Parks
  <2>2. /\ MayWrite([call[c] EXCEPT !.at = "verify"]) => MayWrite(call[c])
        /\ [call[c] EXCEPT !.at = "verify"].approval = call[c].approval \/ MayWrite(call[c])
    BY <1>16, <1>a DEF Call, MayWrite, Parks
  <2> QED BY <1>16, <2>1, <2>2, WritesKept DEF Parks, Goes, approvalVars, AfterLoop
<1>17. ASSUME NEW c \in Calls, FailsStep(c)
      PROVE  WritesOK'
  <2>1. /\ MayWrite([call[c] EXCEPT !.at = "done"]) => MayWrite(call[c])
        /\ [call[c] EXCEPT !.at = "done"].approval = call[c].approval \/ MayWrite(call[c])
    BY <1>17, <1>a DEF Call, MayWrite, FailsStep
  <2>2. /\ MayWrite([call[c] EXCEPT !.at = "verify"]) => MayWrite(call[c])
        /\ [call[c] EXCEPT !.at = "verify"].approval = call[c].approval \/ MayWrite(call[c])
    BY <1>17, <1>a DEF Call, MayWrite, FailsStep
  <2> QED BY <1>17, <2>1, <2>2, WritesKept DEF FailsStep, Goes, approvalVars, AfterLoop
<1>18. ASSUME NEW c \in Calls, FinishesRun(c)
      PROVE  WritesOK'
  <2>1. /\ MayWrite([call[c] EXCEPT !.at = "done"]) => MayWrite(call[c])
        /\ [call[c] EXCEPT !.at = "done"].approval = call[c].approval \/ MayWrite(call[c])
    BY <1>18, <1>a DEF Call, MayWrite, FinishesRun
  <2>2. /\ MayWrite([call[c] EXCEPT !.at = "verify"]) => MayWrite(call[c])
        /\ [call[c] EXCEPT !.at = "verify"].approval = call[c].approval \/ MayWrite(call[c])
    BY <1>18, <1>a DEF Call, MayWrite, FinishesRun
  <2> QED BY <1>18, <2>1, <2>2, WritesKept DEF FinishesRun, Goes, approvalVars, AfterLoop
<1>19. ASSUME NEW c \in Calls, Throws(c)
      PROVE  WritesOK'
  <2>1. /\ MayWrite([call[c] EXCEPT !.at = "done"]) => MayWrite(call[c])
        /\ [call[c] EXCEPT !.at = "done"].approval = call[c].approval \/ MayWrite(call[c])
    BY <1>19, <1>a DEF Call, MayWrite, Throws
  <2>2. /\ MayWrite([call[c] EXCEPT !.at = "fail"]) => MayWrite(call[c])
        /\ [call[c] EXCEPT !.at = "fail"].approval = call[c].approval \/ MayWrite(call[c])
    BY <1>19, <1>a DEF Call, MayWrite, Throws
  <2> QED BY <1>19, <2>1, <2>2, WritesKept DEF Throws, Goes, approvalVars
<1>20. ASSUME NEW c \in Calls, Rejects(c)
      PROVE  WritesOK'
  <2>1. /\ MayWrite([call[c] EXCEPT !.at = "done"]) => MayWrite(call[c])
        /\ [call[c] EXCEPT !.at = "done"].approval = call[c].approval \/ MayWrite(call[c])
    BY <1>20, <1>a DEF Call, MayWrite, Rejects
  <2>2. /\ MayWrite([call[c] EXCEPT !.at = "find parked"]) => MayWrite(call[c])
        /\ [call[c] EXCEPT !.at = "find parked"].approval = call[c].approval
             \/ MayWrite(call[c])
    BY <1>20, <1>a DEF Call, MayWrite, Rejects
  <2> QED BY <1>20, <2>1, <2>2, WritesKept DEF Rejects, Goes, approvalVars
<1>21. ASSUME NEW c \in Calls, FindsParked(c)
      PROVE  WritesOK'
  <2>1. /\ MayWrite([call[c] EXCEPT !.at = "done"]) => MayWrite(call[c])
        /\ [call[c] EXCEPT !.at = "done"].approval = call[c].approval
    BY <1>21, <1>a DEF Call, MayWrite, FindsParked
  <2>2. ASSUME NEW r \in Runs
        PROVE  /\ MayWrite([call[c] EXCEPT !.run = r, !.step = runStep[r], !.at = "cancel"]) =>
                    MayWrite(call[c])
               /\ [call[c] EXCEPT !.run = r, !.step = runStep[r], !.at = "cancel"].approval = call[c].approval
    BY <1>21, <1>a DEF Call, MayWrite, FindsParked
  <2>3. CASE Goes(c, "done")
    BY <1>21, <2>1, <2>3, WritesKept DEF FindsParked, Goes, approvalVars
  <2>4. ASSUME NEW r \in WaitingFor(call[c].approval),
               call' = [call EXCEPT ![c] = [call[c] EXCEPT !.run = r, !.step = runStep[r],
                                                           !.at = "cancel"]]
        PROVE  WritesOK'
    BY <1>21, <2>2, <2>4, WritesKept DEF FindsParked, WaitingFor, approvalVars
  <2> QED BY <1>21, <2>3, <2>4 DEF FindsParked
<1>22. ASSUME NEW c \in Calls, CancelsRun(c)
      PROVE  WritesOK'
  <2>1. /\ MayWrite([call[c] EXCEPT !.at = "done"]) => MayWrite(call[c])
        /\ [call[c] EXCEPT !.at = "done"].approval = call[c].approval \/ MayWrite(call[c])
    BY <1>22, <1>a DEF Call, MayWrite, CancelsRun
  <2> QED BY <1>22, <2>1, WritesKept DEF CancelsRun, Goes, approvalVars
<1>23. ASSUME NEW c \in Calls, Crashes(c)
      PROVE  WritesOK'
  <2>1. /\ MayWrite([call[c] EXCEPT !.at = "done"]) => MayWrite(call[c])
        /\ [call[c] EXCEPT !.at = "done"].approval = call[c].approval \/ MayWrite(call[c])
    BY <1>23, <1>a DEF Call, MayWrite, Crashes
  <2> QED BY <1>23, <2>1, WritesKept DEF Crashes, Goes, approvalVars
<1>24. ASSUME NEW a \in Approvals, Expires(a)
      PROVE  WritesOK'
  BY <1>24 DEF Expires, WritesOK, WriteWasApproved, OneDecisionOneWrite
<1>25. CASE UNCHANGED vars
  BY <1>25
  DEF vars, approvalVars, runVars, WritesOK, WriteWasApproved, OneDecisionOneWrite
<1> QED
  BY <1>1, <1>2, <1>3, <1>4, <1>5, <1>6, <1>7, <1>8, <1>9, <1>10, <1>11, <1>12,
     <1>13, <1>14, <1>15, <1>16, <1>17, <1>18, <1>19, <1>20, <1>21, <1>22, <1>23,
     <1>24, <1>25
  DEF Next, Continues

-----------------------------------------------------------------------------
(* Who executes and who still works on it *)

\* A step no call dies in, and that strands nothing new.
LEMMA StrandedShrinks ==
  ASSUME TypeOK, StrandedOK, Stranded' \subseteq Stranded, crashes' = crashes
  PROVE  StrandedOK'
<1>1. IsFiniteSet(Stranded') /\ Cardinality(Stranded') <= Cardinality(Stranded)
  BY FS_Subset DEF StrandedOK
<1>2. Cardinality(Stranded) \in Nat /\ Cardinality(Stranded') \in Nat
  BY <1>1, FS_CardinalityType DEF StrandedOK
<1> QED BY <1>1, <1>2 DEF StrandedOK, TypeOK

\* A call strands nothing as long as it goes on attending to what it executes, or
\* settles it.
LEMMA StrandsNone ==
  ASSUME TypeOK, StrandedOK, NEW c \in Calls, NEW k,
         call' = [call EXCEPT ![c] = k], crashes' = crashes,
         \A a \in Approvals :
           state'[a] = "executing" =>
             \/ Attends(k, a)
             \/ state[a] = "executing" /\ ~Attends(call[c], a)
  PROVE  StrandedOK'
<1>1. call'[c] = k /\ \A d \in Calls \ {c} : call'[d] = call[d]
  BY DEF TypeOK
<1>2. ASSUME NEW a \in Stranded'
      PROVE  a \in Stranded
  <2>1. a \in Approvals /\ state'[a] = "executing" /\ \A d \in Calls : ~Attends(call'[d], a)
    BY DEF Stranded, AtWork
  <2>2. \A d \in Calls : ~Attends(call[d], a)
    BY <1>1, <2>1
  <2> QED BY <1>1, <2>1, <2>2 DEF Stranded, AtWork
<1> QED BY <1>2, StrandedShrinks

\* A call that goes on, and has more to do than to end.
LEMMA GoesOnAttending ==
  ASSUME TypeOK, StrandedOK, NEW c \in Calls, call[c] \in Call,
         NEW p \in Places \ {"idle", "read", "done"}, Goes(c, p),
         state' = state, crashes' = crashes
  PROVE  StrandedOK'
<1> DEFINE k == [call[c] EXCEPT !.at = p]
<1>1. \A a \in Approvals : Attends(call[c], a) => Attends(k, a)
  BY DEF Attends, Call
<1>2. call' = [call EXCEPT ![c] = k]
  BY DEF Goes
<1> HIDE DEF k
<1> QED BY <1>1, <1>2, StrandsNone

\* Where the loop ends, or the engine throws, only a call that approves nothing ends.
LEMMA EndsOrGoesOn ==
  ASSUME TypeOK, StrandedOK, NEW c \in Calls, call[c] \in Call,
         NEW p \in {"verify", "fail"},
         Goes(c, IF call[c].handler = "approve" THEN p ELSE "done"),
         state' = state, crashes' = crashes
  PROVE  StrandedOK'
<1>1. CASE call[c].handler = "approve"
  BY <1>1, GoesOnAttending DEF Places
<1>2. CASE call[c].handler # "approve"
  <2> DEFINE k == [call[c] EXCEPT !.at = "done"]
  <2>1. \A a \in Approvals : ~Attends(call[c], a)
    BY <1>2 DEF Attends
  <2>2. call' = [call EXCEPT ![c] = k]
    BY <1>2 DEF Goes
  <2> HIDE DEF k
  <2> QED BY <2>1, <2>2, StrandsNone
<1> QED BY <1>1, <1>2

\* Only a call that dies strands an approval, and it strands its own.
LEMMA StrandedStep == TypeOK /\ CallsOK /\ StrandedOK /\ [Next]_vars => StrandedOK'
<1> SUFFICES ASSUME TypeOK, CallsOK, StrandedOK, [Next]_vars
             PROVE  StrandedOK'
  OBVIOUS
<1>a. ASSUME NEW c \in Calls
      PROVE  call[c] \in Call /\ CallOK(call[c])
  BY <1>a, CallInOrder
<1>1. ASSUME NEW a \in Approvals, NEW s \in {"pending_approval", "auto_reject"},
             SubmitTool(a, s)
      PROVE  StrandedOK'
  <2>1. Stranded' \subseteq Stranded
    BY <1>1 DEF SubmitTool, TypeOK, Stranded, AtWork
  <2> QED BY <1>1, <2>1, StrandedShrinks DEF SubmitTool
<1>2. ASSUME NEW c \in Calls, NEW a \in Approvals, SubmitApproved(c, a)
      PROVE  StrandedOK'
  <2>1. \A b \in Approvals : ~Attends(call[c], b)
    BY <1>2 DEF SubmitApproved, Attends
  <2>2. PICK p \in {"complete", "fail"} :
          call' = [call EXCEPT ![c] = [call[c] EXCEPT !.handler = "submit",
                                           !.approval = a, !.at = p]]
    BY <1>2 DEF SubmitApproved
  <2> DEFINE k == [call[c] EXCEPT !.handler = "submit", !.approval = a, !.at = p]
  <2> HIDE DEF k
  <2>3. call' = [call EXCEPT ![c] = k]
    BY <2>2 DEF k
  <2> QED BY <1>2, <2>1, <2>3, StrandsNone DEF SubmitApproved, approvalVars
<1>3. ASSUME NEW c \in Calls, NEW h \in {"approve", "reject"}, NEW a \in Approvals,
             ReadsPending(c, h, a)
      PROVE  StrandedOK'
  <2> DEFINE k == [call[c] EXCEPT !.handler = h, !.at = "read", !.approval = a]
  <2>1. \A b \in Approvals : ~Attends(call[c], b)
    BY <1>3 DEF ReadsPending, Attends
  <2>2. call' = [call EXCEPT ![c] = k]
    BY <1>3 DEF ReadsPending
  <2> HIDE DEF k
  <2> QED BY <1>3, <2>1, <2>2, StrandsNone DEF ReadsPending, approvalVars
<1>4. ASSUME NEW c \in Calls, NEW r \in Runs, StartsRun(c, r)
      PROVE  StrandedOK'
  <2> DEFINE k == [call[c] EXCEPT !.handler = "start", !.at = "step", !.run = r, !.step = 1]
  <2>1. \A a \in Approvals : ~Attends(call[c], a)
    BY <1>4 DEF StartsRun, Attends
  <2>2. call' = [call EXCEPT ![c] = k]
    BY <1>4 DEF StartsRun
  <2> HIDE DEF k
  <2> QED BY <1>4, <2>1, <2>2, StrandsNone DEF StartsRun, approvalVars
<1>5. ASSUME NEW c \in Calls, MarksExecuting(c)
      PROVE  StrandedOK'
  <2> DEFINE p == IF gate[call[c].approval] = NoGate THEN "execute" ELSE "find"
             k == [call[c] EXCEPT !.at = p]
  <2>1. \A a \in Approvals : ~Attends(call[c], a)
    BY <1>5 DEF MarksExecuting, Attends
  <2>2. Attends(k, call[c].approval)
    BY <1>5, <1>a DEF MarksExecuting, Attends, Call
  <2>3. call' = [call EXCEPT ![c] = k]
    BY <1>5 DEF MarksExecuting, Goes
  <2>4. \A a \in Approvals : state'[a] = state[a] \/ a = call[c].approval
    BY <1>5 DEF MarksExecuting, TypeOK
  <2> HIDE DEF k, p
  <2> QED BY <1>5, <2>1, <2>2, <2>3, <2>4, StrandsNone DEF MarksExecuting
<1>6. ASSUME NEW c \in Calls, NoExecutor(c)
      PROVE  StrandedOK'
  <2>1. Goes(c, "fail")
    BY <1>6 DEF NoExecutor
  <2> QED BY <1>6, <1>a, <2>1, GoesOnAttending DEF NoExecutor, approvalVars, Places
<1>7. ASSUME NEW c \in Calls, RunsTool(c)
      PROVE  StrandedOK'
  <2>1. Goes(c, "complete") \/ Goes(c, "fail") \/ Goes(c, "revert")
    BY <1>7 DEF RunsTool
  <2> QED BY <1>7, <1>a, <2>1, GoesOnAttending DEF RunsTool, approvalVars, Places
<1>8. ASSUME NEW c \in Calls, FindsRun(c)
      PROVE  StrandedOK'
  <2>1. CASE Goes(c, "fail")
    BY <1>8, <1>a, <2>1, GoesOnAttending DEF FindsRun, approvalVars, Places
  <2>2. ASSUME NEW r \in Runs, call' = [call EXCEPT ![c] = [call[c] EXCEPT !.run = r, !.at = "load"]]
        PROVE  StrandedOK'
    <3> DEFINE k == [call[c] EXCEPT !.run = r, !.at = "load"]
    <3>1. \A a \in Approvals : Attends(call[c], a) => Attends(k, a)
      BY <1>8, <1>a DEF FindsRun, Attends, Call
    <3> HIDE DEF k
    <3>2. call' = [call EXCEPT ![c] = k]
      BY <2>2 DEF k
    <3> QED BY <1>8, <3>1, <3>2, StrandsNone DEF FindsRun, approvalVars
  <2> QED BY <1>8, <2>1, <2>2 DEF FindsRun, WaitingFor
<1>9. ASSUME NEW c \in Calls, LoadsRun(c)
      PROVE  StrandedOK'
  <2> DEFINE k == [call[c] EXCEPT !.step = runStep[call[c].run], !.at = "resume"]
  <2>1. CASE Goes(c, "verify")
    BY <1>9, <1>a, <2>1, GoesOnAttending DEF LoadsRun, approvalVars, Places
  <2>2. CASE call' = [call EXCEPT ![c] = k]
    <3>1. \A a \in Approvals : Attends(call[c], a) => Attends(k, a)
      BY <1>9, <1>a DEF LoadsRun, Attends, Call
    <3> HIDE DEF k
    <3> QED BY <1>9, <2>2, <3>1, StrandsNone DEF LoadsRun, approvalVars
  <2> QED BY <1>9, <2>1, <2>2 DEF LoadsRun
<1>10. ASSUME NEW c \in Calls, Resumes(c)
      PROVE  StrandedOK'
  <2> DEFINE k == [call[c] EXCEPT !.at = "step", !.resumed = call[c].approval]
  <2>1. \A a \in Approvals : Attends(call[c], a) => Attends(k, a)
    BY <1>10, <1>a DEF Resumes, Attends, Call, StepIsDone
  <2>2. call' = [call EXCEPT ![c] = k]
    BY <1>10 DEF Resumes
  <2> HIDE DEF k
  <2> QED BY <1>10, <2>1, <2>2, StrandsNone DEF Resumes, approvalVars
<1>11. ASSUME NEW c \in Calls, Verifies(c)
      PROVE  StrandedOK'
  <2>1. Goes(c, "fail") \/ Goes(c, "complete")
    BY <1>11 DEF Verifies
  <2> QED BY <1>11, <1>a, <2>1, GoesOnAttending DEF Verifies, approvalVars, Places
<1>12. ASSUME NEW c \in Calls, Settles(c)
      PROVE  StrandedOK'
  <2> DEFINE k == [call[c] EXCEPT !.at = "done"]
  <2>1. call[c].approval \in Approvals
    BY <1>12, <1>a DEF Settles, CallOK, HasInput
  <2>2. /\ state'[call[c].approval] # "executing"
        /\ \A a \in Approvals : state'[a] = state[a] \/ a = call[c].approval
    BY <1>12, <2>1 DEF Settles, TypeOK
  <2>3. call' = [call EXCEPT ![c] = k]
    BY <1>12 DEF Settles, Goes
  <2>4. \A a \in Approvals : Attends(call[c], a) => a = call[c].approval
    BY DEF Attends
  <2> HIDE DEF k
  <2> QED BY <1>12, <2>2, <2>3, <2>4, StrandsNone DEF Settles
<1>13. ASSUME NEW c \in Calls, NEW b \in Approvals, OpensGate(c, b)
      PROVE  StrandedOK'
  <2> DEFINE k == [call[c] EXCEPT !.at = "park", !.opened = b]
  <2>1. \A a \in Approvals : Attends(call[c], a) => Attends(k, a)
    BY <1>13, <1>a DEF OpensGate, Attends, Call
  <2>2. call' = [call EXCEPT ![c] = k]
    BY <1>13 DEF OpensGate
  <2>3. \A a \in Approvals : state'[a] = "executing" => state[a] = "executing"
    BY <1>13 DEF OpensGate, TypeOK
  <2> HIDE DEF k
  <2> QED BY <1>13, <2>1, <2>2, <2>3, StrandsNone DEF OpensGate
<1>14. ASSUME NEW c \in Calls, Writes(c)
      PROVE  StrandedOK'
  <2>1. Goes(c, "written")
    BY <1>14 DEF Writes
  <2> QED BY <1>14, <1>a, <2>1, GoesOnAttending DEF Writes, approvalVars, Places
<1>15. ASSUME NEW c \in Calls, Passes(c)
      PROVE  StrandedOK'
  <2>p. PICK j \in NextSteps(call[c].step) :
          call' = [call EXCEPT ![c] = [call[c] EXCEPT !.step = j, !.at = "step",
                                                      !.resumed = None]]
    BY <1>15 DEF Passes
  <2> DEFINE k == [call[c] EXCEPT !.step = j, !.at = "step", !.resumed = None]
  <2>1. \A a \in Approvals : Attends(call[c], a) => Attends(k, a)
    BY <1>15, <1>a DEF Passes, Attends, Call, StepIsDone
  <2>2. call' = [call EXCEPT ![c] = k]
    BY <2>p
  <2> HIDE DEF k
  <2> QED BY <1>15, <2>1, <2>2, StrandsNone DEF Passes, approvalVars
<1>16. ASSUME NEW c \in Calls, Parks(c)
      PROVE  StrandedOK'
  <2>1. AfterLoop(c) /\ state' = state /\ crashes' = crashes
    BY <1>16 DEF Parks, approvalVars
  <2> QED BY <1>a, <2>1, EndsOrGoesOn DEF AfterLoop
<1>17. ASSUME NEW c \in Calls, FailsStep(c)
      PROVE  StrandedOK'
  <2>1. AfterLoop(c) /\ state' = state /\ crashes' = crashes
    BY <1>17 DEF FailsStep, approvalVars
  <2> QED BY <1>a, <2>1, EndsOrGoesOn DEF AfterLoop
<1>18. ASSUME NEW c \in Calls, FinishesRun(c)
      PROVE  StrandedOK'
  <2>1. AfterLoop(c) /\ state' = state /\ crashes' = crashes
    BY <1>18 DEF FinishesRun, approvalVars
  <2> QED BY <1>a, <2>1, EndsOrGoesOn DEF AfterLoop
<1>19. ASSUME NEW c \in Calls, Throws(c)
      PROVE  StrandedOK'
  <2>1. state' = state /\ crashes' = crashes
    BY <1>19 DEF Throws, approvalVars
  <2> QED BY <1>19, <1>a, <2>1, EndsOrGoesOn DEF Throws
<1>20. ASSUME NEW c \in Calls, Rejects(c)
      PROVE  StrandedOK'
  <2> DEFINE p == IF gate[call[c].approval] = NoGate THEN "done" ELSE "find parked"
             k == [call[c] EXCEPT !.at = p]
  <2>1. \A a \in Approvals : ~Attends(call[c], a)
    BY <1>20 DEF Rejects, Attends
  <2>2. call' = [call EXCEPT ![c] = k]
    BY <1>20 DEF Rejects, Goes
  <2>3. \A a \in Approvals : state'[a] = "executing" => state[a] = "executing"
    BY <1>20 DEF Rejects, TypeOK
  <2> HIDE DEF k, p
  <2> QED BY <1>20, <2>1, <2>2, <2>3, StrandsNone DEF Rejects
<1>21. ASSUME NEW c \in Calls, FindsParked(c)
      PROVE  StrandedOK'
  <2>1. \A a \in Approvals : ~Attends(call[c], a)
    BY <1>21, <1>a DEF FindsParked, Attends, CallOK
  <2>2. PICK k : call' = [call EXCEPT ![c] = k]
    BY <1>21 DEF FindsParked, Goes
  <2> QED BY <1>21, <2>1, <2>2, StrandsNone DEF FindsParked, approvalVars
<1>22. ASSUME NEW c \in Calls, CancelsRun(c)
      PROVE  StrandedOK'
  <2>1. \A a \in Approvals : ~Attends(call[c], a)
    BY <1>22, <1>a DEF CancelsRun, Attends, CallOK
  <2>2. PICK k : call' = [call EXCEPT ![c] = k]
    BY <1>22 DEF CancelsRun, Goes
  <2> QED BY <1>22, <2>1, <2>2, StrandsNone DEF CancelsRun, approvalVars
<1>23. ASSUME NEW c \in Calls, Crashes(c)
      PROVE  StrandedOK'
  <2>1. Stranded' \subseteq Stranded \cup {call[c].approval}
    BY <1>23 DEF Crashes, Goes, TypeOK, Stranded, AtWork, Attends, approvalVars
  <2>2. /\ IsFiniteSet(Stranded \cup {call[c].approval})
        /\ Cardinality(Stranded \cup {call[c].approval}) <= Cardinality(Stranded) + 1
    BY FS_AddElement, FS_CardinalityType DEF StrandedOK
  <2>3. /\ IsFiniteSet(Stranded')
        /\ Cardinality(Stranded') <= Cardinality(Stranded \cup {call[c].approval})
    BY <2>1, <2>2, FS_Subset
  <2>4. /\ Cardinality(Stranded) \in Nat /\ Cardinality(Stranded') \in Nat
        /\ Cardinality(Stranded \cup {call[c].approval}) \in Nat
    BY <2>2, <2>3, FS_CardinalityType DEF StrandedOK
  <2> QED BY <1>23, <2>2, <2>3, <2>4 DEF Crashes, StrandedOK, TypeOK
<1>24. ASSUME NEW a \in Approvals, Expires(a)
      PROVE  StrandedOK'
  <2>1. Stranded' \subseteq Stranded
    BY <1>24 DEF Expires, TypeOK, Stranded, AtWork
  <2> QED BY <1>24, <2>1, StrandedShrinks DEF Expires
<1>25. CASE UNCHANGED vars
  BY <1>25 DEF vars, approvalVars, StrandedOK, Stranded, AtWork
<1> QED
  BY <1>1, <1>2, <1>3, <1>4, <1>5, <1>6, <1>7, <1>8, <1>9, <1>10, <1>11, <1>12,
     <1>13, <1>14, <1>15, <1>16, <1>17, <1>18, <1>19, <1>20, <1>21, <1>22, <1>23,
     <1>24, <1>25
  DEF Next, Continues

-----------------------------------------------------------------------------
(* Theorems *)

\* With empty tables nothing refers to anything and nothing is written.
LEMMA InvInit == Init => Inv
<1> SUFFICES ASSUME Init PROVE Inv
  OBVIOUS
<1>1. TypeOK
  BY TypeInit
<1>2. CallsOK
  BY DEF Init, CallsOK, CallOK, Idle, HasRun, HasInput, Deciding
<1>3. LinksOK
  BY DEF Init, LinksOK, ParkedAtItsGate, RefersOK, Idle, HasRun, Acting
<1>4. WritesOK
  BY DEF Init, WritesOK, WriteWasApproved, OneDecisionOneWrite
<1>5. StrandedOK
  <2>1. Stranded = {} /\ crashes = 0
    BY DEF Init, Stranded
  <2> QED BY <2>1, FS_EmptySet DEF StrandedOK
<1> QED BY <1>1, <1>2, <1>3, <1>4, <1>5 DEF Inv

\* The invariant all of the theorems follow from.
LEMMA InvHolds == Spec => []Inv
<1>1. Inv /\ [Next]_vars => Inv'
  BY CallsStep, LinksStep, WritesStep, StrandedStep DEF Inv
<1> QED BY InvInit, <1>1, PTL DEF Spec

\* Every row and every handler keeps to its type, for any number of approvals,
\* runs, calls and steps.
THEOREM GatewayTypeCorrect == Spec => []TypeOK
<1>1. Inv => TypeOK
  BY DEF Inv
<1> QED BY <1>1, InvHolds, PTL

\* A run that is parked is parked at the gate of the step it stands at, and a run
\* that is not is linked to no approval, however many resumes, rejections and
\* restarts cross.
THEOREM LinksHold == Spec => []ParkedAtItsGate
<1>1. Inv => ParkedAtItsGate
  BY DEF Inv, LinksOK
<1> QED BY <1>1, InvHolds, PTL

\* Nothing is written behind a gate of a run but under an approval that somebody
\* gave to that run.
THEOREM WritesApproved == Spec => []WriteWasApproved
<1>1. Inv => WriteWasApproved
  BY DEF Inv, WritesOK
<1> QED BY <1>1, InvHolds, PTL

\* One decision makes one write at most.
THEOREM OneWriteEach == Spec => []OneDecisionOneWrite
<1>1. Inv => OneDecisionOneWrite
  BY DEF Inv, WritesOK
<1> QED BY <1>1, InvHolds, PTL

\* Whatever fails, throws or crosses, an approval that executes and that nobody
\* works on any more is the remains of a call that died, one for each at most.
THEOREM CrashesStrand == Spec => []StrandedByCrashOnly
<1>1. Inv => StrandedByCrashOnly
  BY DEF Inv, StrandedOK, StrandedByCrashOnly
<1> QED BY <1>1, InvHolds, PTL

-----------------------------------------------------------------------------
(* The gateway keeps to WritePermits                                         *)

Taken == {c \in Calls : Decided(call[c])}

Out == {PermitOf(c) : c \in {x \in Calls : Permitted(call[x])}}

Made == {[decision |-> w.call, approval |-> w.approval, subject |-> w.gate.run] :
           w \in writes}

Promised == [Permits!Next]_(Permits!vars)

\* The approvals that permits are about keep their gates.
GatesKept ==
  \A c \in Calls : Permitted(call[c]) => gate'[call[c].approval] = gate[call[c].approval]

LEMMA TakenWhenTurns ==
  ASSUME TypeOK, NEW c \in Calls, NEW k, call' = [call EXCEPT ![c] = k]
  PROVE  Taken' = IF Decided(k) THEN Taken \cup {c} ELSE Taken \ {c}
<1>1. call'[c] = k /\ \A d \in Calls \ {c} : call'[d] = call[d]
  BY DEF TypeOK
<1> QED BY <1>1 DEF Taken

\* What becomes of the permits when one call turns to k.
LEMMA OutWhenTurns ==
  ASSUME TypeOK, NEW c \in Calls, NEW k, call' = [call EXCEPT ![c] = k], GatesKept
  PROVE  /\ Permitted(call[c]) => PermitOf(c) \in Out
         /\ ~Permitted(k) => Out' = Out \ {PermitOf(c)}
         /\ Permitted(k) /\ Permitted(call[c]) /\ k.approval = call[c].approval => Out' = Out
         /\ Permitted(k) /\ ~Permitted(call[c]) =>
              Out' = Out \cup {[decision |-> c, approval |-> k.approval,
                                subject |-> gate'[k.approval].run]}
<1>1. call'[c] = k /\ \A d \in Calls \ {c} : call'[d] = call[d]
  BY DEF TypeOK
<1>2. \A d \in Calls : PermitOf(d).decision = d
  BY DEF PermitOf
<1>3. \A d \in Calls \ {c} : Permitted(call[d]) => PermitOf(d)' = PermitOf(d)
  BY <1>1 DEF GatesKept, PermitOf
<1>4. PermitOf(c)' = [decision |-> c, approval |-> k.approval, subject |-> gate'[k.approval].run]
  BY <1>1 DEF PermitOf
<1>5. k.approval = call[c].approval /\ Permitted(call[c]) => PermitOf(c)' = PermitOf(c)
  BY <1>1 DEF GatesKept, PermitOf
<1>6. \A x : x \in Out <=> \E d \in Calls : Permitted(call[d]) /\ x = PermitOf(d)
  BY DEF Out
<1>7. \A x : x \in Out' <=> \E d \in Calls : Permitted(call'[d]) /\ x = PermitOf(d)'
  BY DEF Out, Permitted
<1>8. \A x : x \in Out' <=>
        \/ \E d \in Calls \ {c} : Permitted(call[d]) /\ x = PermitOf(d)
        \/ Permitted(k) /\ x = PermitOf(c)'
  BY <1>1, <1>3, <1>7
<1>9. \A d \in Calls \ {c} : PermitOf(d) # PermitOf(c)
  BY <1>2
<1>10. Permitted(call[c]) => PermitOf(c) \in Out
  BY <1>6
<1>11. ~Permitted(k) => Out' = Out \ {PermitOf(c)}
  BY <1>6, <1>8, <1>9
<1>12. Permitted(k) /\ Permitted(call[c]) /\ k.approval = call[c].approval => Out' = Out
  BY <1>5, <1>6, <1>8
<1>13. Permitted(k) /\ ~Permitted(call[c]) => Out' = Out \cup {PermitOf(c)'}
  BY <1>6, <1>8
<1> QED BY <1>4, <1>10, <1>11, <1>12, <1>13

\* What one statement of a call that has decided does when it makes no write.
GoesOn(c) ==
  \E k : /\ call' = [call EXCEPT ![c] = k]
         /\ Decided(call[c]) /\ Decided(k)
         /\ k.approval = call[c].approval
         /\ Permitted(k) => Permitted(call[c])
         /\ k.at = "complete" => call[c].at = "verify"
         /\ GatesKept
         /\ UNCHANGED <<writes, approved>>

LEMMA GoesTo ==
  ASSUME TypeOK, NEW c \in Calls, call[c] \in Call, NEW p \in Places, Goes(c, p),
         p \notin {"idle", "read", "execute", "find", "load", "resume", "step"},
         Decided(call[c]),
         p = "complete" => call[c].at = "verify", UNCHANGED <<gate, writes, approved>>
  PROVE  GoesOn(c)
<1> DEFINE k == [call[c] EXCEPT !.at = p]
<1>1. k.at = p /\ k.approval = call[c].approval
  BY DEF Call
<1>2. call' = [call EXCEPT ![c] = k]
  BY DEF Goes
<1> HIDE DEF k
<1>3. Decided(k) /\ ~Permitted(k)
  BY <1>1 DEF Decided, Permitted
<1> QED BY <1>1, <1>2, <1>3 DEF GoesOn, GatesKept

\* The statements behind a decision that write nothing.
Silent(c) ==
  \/ FindsRun(c) \/ LoadsRun(c) \/ Resumes(c) \/ Verifies(c)
  \/ \E b \in Approvals : OpensGate(c, b)
  \/ Passes(c) \/ Parks(c) \/ FailsStep(c) \/ FinishesRun(c) \/ Throws(c)
  \/ FindsParked(c) \/ CancelsRun(c)

LEMMA PermitsName ==
  ASSUME TypeOK, CallsOK, NEW c \in Calls, Permitted(call[c])
  PROVE  call[c].approval \in Approvals
<1>1. CallOK(call[c])
  BY CallInOrder
<1> QED BY <1>1 DEF CallOK, Permitted

LEMMA StepGoesOn ==
  ASSUME TypeOK, CallsOK, NEW c \in Calls, Silent(c)
  PROVE  GoesOn(c)
<1>a. call[c] \in Call /\ CallOK(call[c])
  BY CallInOrder
<1>b. {"fail", "verify", "done", "complete"} \subseteq Places
  BY DEF Places
<1>c. ASSUME Goes(c, "fail") \/ Goes(c, "verify") \/ Goes(c, "done"),
             Decided(call[c]), UNCHANGED <<gate, writes, approved>>
      PROVE  GoesOn(c)
  BY <1>a, <1>b, <1>c, GoesTo
<1>d. ASSUME AfterLoop(c), call[c].at \in {"step", "written", "park"},
             UNCHANGED <<gate, writes, approved>>
      PROVE  GoesOn(c)
  BY <1>c, <1>d DEF AfterLoop, Decided
<1>1. CASE FindsRun(c)
  <2>1. CASE Goes(c, "fail")
    BY <1>1, <1>c, <2>1 DEF FindsRun, Decided, approvalVars
  <2>2. ASSUME NEW r \in Runs, call' = [call EXCEPT ![c] = [call[c] EXCEPT !.run = r, !.at = "load"]]
        PROVE  GoesOn(c)
    <3> DEFINE k == [call[c] EXCEPT !.run = r, !.at = "load"]
    <3>1. k.at = "load" /\ k.approval = call[c].approval /\ k.handler = call[c].handler
      BY <1>a DEF Call
    <3> HIDE DEF k
    <3>2. call' = [call EXCEPT ![c] = k]
      BY <2>2 DEF k
    <3> QED BY <1>1, <3>1, <3>2 DEF GoesOn, GatesKept, FindsRun, Decided, Permitted, approvalVars
  <2> QED BY <1>1, <2>1, <2>2 DEF FindsRun, WaitingFor
<1>2. CASE LoadsRun(c)
  <2> DEFINE k == [call[c] EXCEPT !.step = runStep[call[c].run], !.at = "resume"]
  <2>1. CASE Goes(c, "verify")
    BY <1>2, <1>c, <2>1 DEF LoadsRun, Decided, approvalVars
  <2>2. CASE call' = [call EXCEPT ![c] = k]
    <3>1. k.at = "resume" /\ k.approval = call[c].approval /\ k.handler = call[c].handler
      BY <1>a DEF Call
    <3> HIDE DEF k
    <3> QED BY <1>2, <2>2, <3>1 DEF GoesOn, GatesKept, LoadsRun, Decided, Permitted, approvalVars
  <2> QED BY <1>2, <2>1, <2>2 DEF LoadsRun
<1>3. CASE Resumes(c)
  <2> DEFINE k == [call[c] EXCEPT !.at = "step", !.resumed = call[c].approval]
  <2>1. k.at = "step" /\ k.approval = call[c].approval /\ k.handler = call[c].handler
    BY <1>a DEF Call
  <2>2. call' = [call EXCEPT ![c] = k]
    BY <1>3 DEF Resumes
  <2> HIDE DEF k
  <2> QED BY <1>3, <2>1, <2>2 DEF GoesOn, GatesKept, Resumes, Decided, Permitted, approvalVars
<1>4. CASE Verifies(c)
  <2>1. CASE Goes(c, "fail")
    BY <1>4, <1>c, <2>1 DEF Verifies, Decided, approvalVars
  <2>2. CASE Goes(c, "complete")
    BY <1>4, <1>a, <1>b, <2>2, GoesTo DEF Verifies, Decided, approvalVars
  <2> QED BY <1>4, <2>1, <2>2 DEF Verifies
<1>5. ASSUME NEW b \in Approvals, OpensGate(c, b) PROVE GoesOn(c)
  <2> DEFINE k == [call[c] EXCEPT !.at = "park", !.opened = b]
  <2>1. k.at = "park" /\ k.approval = call[c].approval
    BY <1>a DEF Call
  <2>2. call' = [call EXCEPT ![c] = k]
    BY <1>5 DEF OpensGate
  <2>3. GatesKept
    <3> SUFFICES ASSUME NEW d \in Calls, Permitted(call[d])
                 PROVE  gate'[call[d].approval] = gate[call[d].approval]
      BY DEF GatesKept
    <3>1. call[d].approval \in Approvals
      BY PermitsName
    <3>2. call[d].approval # b
      BY <1>5 DEF OpensGate, Fresh
    <3> QED BY <1>5, <3>1, <3>2 DEF OpensGate, TypeOK
  <2> HIDE DEF k
  <2> QED BY <1>5, <2>1, <2>2, <2>3 DEF GoesOn, OpensGate, Decided, Permitted
<1>6. CASE Passes(c)
  <2>p. PICK j \in NextSteps(call[c].step) :
          call' = [call EXCEPT ![c] = [call[c] EXCEPT !.step = j, !.at = "step",
                                                      !.resumed = None]]
    BY <1>6 DEF Passes
  <2> DEFINE k == [call[c] EXCEPT !.step = j, !.at = "step", !.resumed = None]
  <2>1. k.at = "step" /\ k.approval = call[c].approval /\ k.resumed = None
    BY <1>a DEF Call
  <2>2. call' = [call EXCEPT ![c] = k]
    BY <2>p
  <2> HIDE DEF k
  <2> QED BY <1>6, <2>1, <2>2
          DEF GoesOn, GatesKept, Passes, StepIsDone, Decided, Permitted, approvalVars
<1>7. CASE Parks(c)
  BY <1>7, <1>d DEF Parks, approvalVars
<1>8. CASE FailsStep(c)
  BY <1>8, <1>d DEF FailsStep, approvalVars
<1>9. CASE FinishesRun(c)
  BY <1>9, <1>d DEF FinishesRun, approvalVars
<1>10. CASE Throws(c)
  <2>1. Goes(c, "fail") \/ Goes(c, "done")
    BY <1>10 DEF Throws
  <2> QED BY <1>10, <1>c, <2>1 DEF Throws, Decided, approvalVars
<1>11. CASE FindsParked(c)
  <2>1. CASE Goes(c, "done")
    BY <1>11, <1>c, <2>1 DEF FindsParked, Decided, approvalVars
  <2>2. ASSUME NEW r \in Runs,
               call' = [call EXCEPT ![c] = [call[c] EXCEPT !.run = r, !.step = runStep[r],
                                                           !.at = "cancel"]]
        PROVE  GoesOn(c)
    <3> DEFINE k == [call[c] EXCEPT !.run = r, !.step = runStep[r], !.at = "cancel"]
    <3>1. k.at = "cancel" /\ k.approval = call[c].approval
      BY <1>a DEF Call
    <3> HIDE DEF k
    <3>2. call' = [call EXCEPT ![c] = k]
      BY <2>2 DEF k
    <3> QED BY <1>11, <3>1, <3>2
            DEF GoesOn, GatesKept, FindsParked, Decided, Permitted, approvalVars
  <2> QED BY <1>11, <2>1, <2>2 DEF FindsParked, WaitingFor
<1>12. CASE CancelsRun(c)
  BY <1>12, <1>c DEF CancelsRun, Decided, approvalVars
<1> QED BY <1>1, <1>2, <1>3, <1>4, <1>5, <1>6, <1>7, <1>8, <1>9, <1>10, <1>11, <1>12
        DEF Silent

\* A call about to complete its approval was told to by a person, or has made
\* the write that the rules let through.
Recordable(k) ==
  k.at = "complete" => k.approval \in approved \/ \E w \in writes : w.approval = k.approval

Recorded == \A c \in Calls : Recordable(call[c])

LEMMA RecordedTurns ==
  ASSUME TypeOK, Recorded, NEW c \in Calls, NEW k, call' = [call EXCEPT ![c] = k],
         approved \subseteq approved', writes \subseteq writes',
         k.at = "complete" =>
           k.approval \in approved' \/ \E w \in writes' : w.approval = k.approval
  PROVE  Recorded'
<1>1. call'[c] = k /\ \A d \in Calls \ {c} : call'[d] = call[d]
  BY DEF TypeOK
<1> QED BY <1>1 DEF Recorded, Recordable

LEMMA RecordedGoes ==
  ASSUME TypeOK, Recorded, NEW c \in Calls, call[c] \in Call, NEW p, p # "complete", Goes(c, p),
         approved \subseteq approved', writes \subseteq writes'
  PROVE  Recorded'
<1> DEFINE k == [call[c] EXCEPT !.at = p]
<1>1. k.at = p
  BY DEF Call
<1>2. call' = [call EXCEPT ![c] = k]
  BY DEF Goes
<1> HIDE DEF k
<1> QED BY <1>1, <1>2, RecordedTurns

LEMMA RecordedStep == TypeOK /\ CallsOK /\ LinksOK /\ Recorded /\ [Next]_vars => Recorded'
<1> SUFFICES ASSUME TypeOK, CallsOK, LinksOK, Recorded, [Next]_vars
             PROVE  Recorded'
  OBVIOUS
<1>a. ASSUME NEW c \in Calls
      PROVE  call[c] \in Call /\ CallOK(call[c]) /\ RefersOK(call[c], gate, approved)
  BY <1>a, CallInOrder DEF LinksOK
<1>1. ASSUME UNCHANGED <<call, writes, approved>> PROVE Recorded'
  BY <1>1 DEF Recorded, Recordable
<1>2. ASSUME NEW c \in Calls, NEW a \in Approvals, SubmitApproved(c, a) PROVE Recorded'
  <2> DEFINE k(p) == [call[c] EXCEPT !.handler = "submit", !.approval = a, !.at = p]
             v    == [call |-> c, approval |-> a, gate |-> NoGate]
  <2>1. k("complete").approval = a /\ k("fail").at = "fail" /\ v.approval = a
    BY <1>a DEF Call
  <2>2. \/ call' = [call EXCEPT ![c] = k("complete")] /\ writes' = writes \cup {v}
        \/ call' = [call EXCEPT ![c] = k("fail")] /\ writes' = writes
    BY <1>2 DEF SubmitApproved
  <2>3. approved' = approved
    BY <1>2 DEF SubmitApproved, approvalVars
  <2> HIDE DEF k, v
  <2> QED BY <2>1, <2>2, <2>3, RecordedTurns
<1>3. ASSUME NEW c \in Calls, NEW h \in {"approve", "reject"}, NEW a \in Approvals,
             ReadsPending(c, h, a)
      PROVE  Recorded'
  <2> DEFINE k == [call[c] EXCEPT !.handler = h, !.at = "read", !.approval = a]
  <2>1. k.at = "read"
    BY <1>a DEF Call
  <2>2. call' = [call EXCEPT ![c] = k]
    BY <1>3 DEF ReadsPending
  <2> HIDE DEF k
  <2> QED BY <1>3, <2>1, <2>2, RecordedTurns DEF ReadsPending, approvalVars
<1>4. ASSUME NEW c \in Calls, NEW r \in Runs, StartsRun(c, r) PROVE Recorded'
  <2> DEFINE k == [call[c] EXCEPT !.handler = "start", !.at = "step", !.run = r, !.step = 1]
  <2>1. k.at = "step"
    BY <1>a DEF Call
  <2>2. call' = [call EXCEPT ![c] = k]
    BY <1>4 DEF StartsRun
  <2> HIDE DEF k
  <2> QED BY <1>4, <2>1, <2>2, RecordedTurns DEF StartsRun, approvalVars
<1>5. ASSUME NEW c \in Calls, Silent(c) PROVE Recorded'
  <2>1. PICK k : /\ call' = [call EXCEPT ![c] = k]
                 /\ k.approval = call[c].approval
                 /\ k.at = "complete" => call[c].at = "verify"
                 /\ UNCHANGED <<writes, approved>>
    BY <1>5, StepGoesOn DEF GoesOn
  <2>2. call[c].at = "verify" => call[c].approval \in approved
    BY <1>a DEF CallOK, RefersOK, Deciding, Acting
  <2> QED BY <2>1, <2>2, RecordedTurns
<1>6. ASSUME NEW c \in Calls, MarksExecuting(c) PROVE Recorded'
  <2>1. PICK p \in {"execute", "find"} : Goes(c, p)
    BY <1>6 DEF MarksExecuting
  <2> QED BY <1>6, <1>a, <2>1, RecordedGoes DEF MarksExecuting
<1>7. ASSUME NEW c \in Calls, NoExecutor(c) PROVE Recorded'
  BY <1>7, <1>a, RecordedGoes DEF NoExecutor, approvalVars
<1>8. ASSUME NEW c \in Calls, RunsTool(c) PROVE Recorded'
  <2>1. CASE Goes(c, "fail") \/ Goes(c, "revert")
    BY <1>8, <1>a, <2>1, RecordedGoes DEF RunsTool, approvalVars
  <2>2. CASE Goes(c, "complete")
    <3> DEFINE k == [call[c] EXCEPT !.at = "complete"]
    <3>1. k.approval = call[c].approval
      BY <1>a DEF Call
    <3>2. call' = [call EXCEPT ![c] = k]
      BY <2>2 DEF Goes
    <3>3. call[c].approval \in approved
      BY <1>8, <1>a DEF RunsTool, CallOK, RefersOK, Deciding, Acting
    <3> HIDE DEF k
    <3> QED BY <1>8, <3>1, <3>2, <3>3, RecordedTurns DEF RunsTool, approvalVars
  <2> QED BY <1>8, <2>1, <2>2 DEF RunsTool
<1>9. ASSUME NEW c \in Calls, Settles(c) PROVE Recorded'
  BY <1>9, <1>a, RecordedGoes DEF Settles
<1>10. ASSUME NEW c \in Calls, Writes(c) PROVE Recorded'
  BY <1>10, <1>a, RecordedGoes DEF Writes, approvalVars
<1>11. ASSUME NEW c \in Calls, Rejects(c) PROVE Recorded'
  <2>1. Goes(c, "done") \/ Goes(c, "find parked")
    BY <1>11 DEF Rejects
  <2>2. approved' = approved /\ writes' = writes
    BY <1>11 DEF Rejects
  <2>3. "find parked" # "complete"
    OBVIOUS
  <2> QED BY <1>a, <2>1, <2>2, <2>3, RecordedGoes
<1>12. ASSUME NEW c \in Calls, Crashes(c) PROVE Recorded'
  BY <1>12, <1>a, RecordedGoes DEF Crashes, approvalVars
<1>13. ASSUME \/ \E a \in Approvals, s \in {"pending_approval", "auto_reject"} : SubmitTool(a, s)
              \/ \E a \in Approvals : Expires(a)
              \/ UNCHANGED vars
       PROVE  Recorded'
  BY <1>1, <1>13 DEF SubmitTool, Expires, vars, approvalVars
<1> QED
  BY <1>2, <1>3, <1>4, <1>5, <1>6, <1>7, <1>8, <1>9, <1>10, <1>11, <1>12, <1>13
  DEF Next, Continues, Silent

\* The steps of WritePermits in the terms of the gateway.
LEMMA PermitSteps ==
  /\ UNCHANGED <<Taken, approved, Out, Made>> => Promised
  /\ \A x \in Out : Out' = Out \ {x} /\ UNCHANGED <<Taken, approved, Made>> => Promised
  /\ \A x \in Out : Out' = Out \ {x} /\ Made' = Made \cup {x} /\ UNCHANGED <<Taken, approved>>
       => Promised
  /\ \A c \in Calls : c \notin Taken /\ Taken' = Taken \cup {c} =>
       /\ UNCHANGED <<approved, Out, Made>> => Promised
       /\ \A a \in Approvals :
            /\ UNCHANGED <<approved, Out>>
            /\ Made' = Made \cup {[decision |-> c, approval |-> a, subject |-> None]}
            => Promised
       /\ \A a \in Approvals, y \in Runs \cup {None} :
            /\ approved' = approved \cup {a}
            /\ Out' = Out \cup {[decision |-> c, approval |-> a, subject |-> y]}
            /\ UNCHANGED Made
            => Promised
  /\ \A a \in Approvals :
       /\ \E w \in Made : w.approval = a
       /\ approved' = approved \cup {a}
       /\ UNCHANGED <<Taken, Out, Made>>
       => Promised
<1> USE DEF Promised, Permits!Next, Permits!vars, Permits!Permit
<1>1. UNCHANGED <<Taken, approved, Out, Made>> => Promised
  BY DEF Taken, Out, Made
<1>2. ASSUME NEW x \in Out, Out' = Out \ {x}, UNCHANGED <<Taken, approved, Made>>
      PROVE  Promised
  <2>1. Permits!Lose(x)
    BY <1>2 DEF Permits!Lose, Taken, Out, Made
  <2> QED BY <2>1 DEF Out
<1>3. ASSUME NEW x \in Out, Out' = Out \ {x}, Made' = Made \cup {x}, UNCHANGED <<Taken, approved>>
      PROVE  Promised
  <2>1. Permits!Use(x)
    BY <1>3 DEF Permits!Use, Taken, Out, Made
  <2> QED BY <2>1 DEF Out
<1>4. ASSUME NEW c \in Calls, c \notin Taken, Taken' = Taken \cup {c},
             UNCHANGED <<approved, Out, Made>>
      PROVE  Promised
  <2>1. Permits!Abstain(c)
    BY <1>4 DEF Permits!Abstain, Taken, Out, Made
  <2> QED BY <2>1
<1>5. ASSUME NEW c \in Calls, c \notin Taken, Taken' = Taken \cup {c}, NEW a \in Approvals,
             UNCHANGED <<approved, Out>>,
             Made' = Made \cup {[decision |-> c, approval |-> a, subject |-> None]}
      PROVE  Promised
  <2>1. Permits!LetThrough(c, a)
    BY <1>5 DEF Permits!LetThrough, Taken, Out, Made
  <2> QED BY <2>1
<1>6. ASSUME NEW c \in Calls, c \notin Taken, Taken' = Taken \cup {c},
             NEW a \in Approvals, NEW y \in Runs \cup {None},
             approved' = approved \cup {a},
             Out' = Out \cup {[decision |-> c, approval |-> a, subject |-> y]},
             UNCHANGED Made
      PROVE  Promised
  <2>1. Permits!Issue(c, a, y)
    BY <1>6 DEF Permits!Issue, Taken, Out, Made
  <2> QED BY <2>1
<1>7. ASSUME NEW a \in Approvals, \E w \in Made : w.approval = a,
             approved' = approved \cup {a}, UNCHANGED <<Taken, Out, Made>>
      PROVE  Promised
  <2>1. Permits!Record(a)
    BY <1>7 DEF Permits!Record, Taken, Out, Made
  <2> QED BY <2>1
<1> HIDE DEF Promised
<1> QED BY <1>1, <1>2, <1>3, <1>4, <1>5, <1>6, <1>7

\* A call that has decided, or has not, and writes nothing.
LEMMA PromisedTurns ==
  ASSUME TypeOK, NEW c \in Calls, NEW k, call' = [call EXCEPT ![c] = k], GatesKept,
         Permitted(k) => Permitted(call[c]) /\ k.approval = call[c].approval,
         Decided(call[c]) => Decided(k), UNCHANGED <<writes, approved>>,
         Permitted(call[c]) => Decided(call[c])
  PROVE  Promised
<1>1. Made' = Made
  BY DEF Made
<1>2. Taken' = IF Decided(k) THEN Taken \cup {c} ELSE Taken \ {c}
  BY TakenWhenTurns
<1>3. c \in Taken <=> Decided(call[c])
  BY DEF Taken
<1>4. /\ Permitted(call[c]) => PermitOf(c) \in Out
      /\ ~Permitted(k) => Out' = Out \ {PermitOf(c)}
      /\ Permitted(k) => Out' = Out
  BY OutWhenTurns
<1>5. ~Permitted(call[c]) => Out \ {PermitOf(c)} = Out
  BY DEF Out, PermitOf
<1>6. CASE Permitted(call[c])
  <2>1. Taken' = Taken
    BY <1>2, <1>3, <1>6
  <2> QED BY <1>1, <1>4, <1>6, <2>1, PermitSteps
<1>7. CASE ~Permitted(call[c])
  <2>1. Out' = Out
    BY <1>4, <1>5, <1>7
  <2>2. CASE Decided(k) /\ ~Decided(call[c])
    BY <1>1, <1>2, <1>3, <2>1, <2>2, PermitSteps
  <2>3. CASE ~(Decided(k) /\ ~Decided(call[c]))
    <3>1. Taken' = Taken
      BY <1>2, <1>3, <2>3
    <3> QED BY <1>1, <2>1, <3>1, PermitSteps
  <2> QED BY <2>2, <2>3
<1> QED BY <1>6, <1>7

\* A call that makes the one write its permit is good for.
LEMMA PromisedWrite ==
  ASSUME TypeOK, NEW c \in Calls, NEW k, call' = [call EXCEPT ![c] = k],
         Permitted(call[c]), ~Permitted(k), Decided(k), UNCHANGED <<gate, approved>>,
         NEW v, writes' = writes \cup {v}, v.call = c, v.approval = call[c].approval,
         v.gate.run = gate[call[c].approval].run
  PROVE  Promised
<1>1. Made' = Made \cup {PermitOf(c)}
  BY DEF Made, PermitOf
<1>2. GatesKept
  BY DEF GatesKept
<1>3. PermitOf(c) \in Out /\ Out' = Out \ {PermitOf(c)}
  BY <1>2, OutWhenTurns
<1>4. Taken' = Taken
  <2>1. c \in Taken
    BY DEF Taken, Permitted, Decided
  <2>2. Taken' = Taken \cup {c}
    BY TakenWhenTurns
  <2> QED BY <2>1, <2>2
<1> QED BY <1>1, <1>3, <1>4, PermitSteps

\* A call that ends where no permit is held.
LEMMA PromisedGoes ==
  ASSUME TypeOK, NEW c \in Calls, call[c] \in Call, NEW p, Goes(c, p),
         p \notin {"idle", "read", "execute", "find", "load", "resume", "step"},
         UNCHANGED <<gate, writes, approved>>
  PROVE  Promised
<1> DEFINE k == [call[c] EXCEPT !.at = p]
<1>1. k.at = p
  BY DEF Call
<1>2. call' = [call EXCEPT ![c] = k]
  BY DEF Goes
<1> HIDE DEF k
<1>3. ~Permitted(k) /\ Decided(k)
  BY <1>1 DEF Permitted, Decided
<1>4. Permitted(call[c]) => Decided(call[c])
  BY DEF Permitted, Decided
<1> QED BY <1>2, <1>3, <1>4, PromisedTurns DEF GatesKept

\* Every statement of the gateway is a step of WritePermits, or none.
LEMMA PromiseStep == TypeOK /\ CallsOK /\ LinksOK /\ Recorded /\ [Next]_vars => Promised
<1> SUFFICES ASSUME TypeOK, CallsOK, LinksOK, Recorded, [Next]_vars
             PROVE  Promised
  OBVIOUS
<1>a. ASSUME NEW c \in Calls
      PROVE  call[c] \in Call /\ CallOK(call[c]) /\ RefersOK(call[c], gate, approved)
  BY <1>a, CallInOrder DEF LinksOK
<1>b. \A c \in Calls : Permitted(call[c]) => Decided(call[c])
  BY DEF Permitted, Decided
<1>1. ASSUME \/ \E a \in Approvals, s \in {"pending_approval", "auto_reject"} : SubmitTool(a, s)
             \/ \E a \in Approvals : Expires(a)
             \/ UNCHANGED vars
      PROVE  Promised
  <2>1. UNCHANGED <<gate, call, writes, approved>>
    BY <1>1 DEF SubmitTool, Expires, vars, approvalVars
  <2>2. UNCHANGED <<Taken, approved, Out, Made>>
    BY <2>1 DEF Taken, Out, Made, Permitted, Decided, PermitOf
  <2> QED BY <2>2, PermitSteps
<1>2. ASSUME NEW c \in Calls, NEW a \in Approvals, SubmitApproved(c, a) PROVE Promised
  <2> DEFINE k(p) == [call[c] EXCEPT !.handler = "submit", !.approval = a, !.at = p]
             v    == [call |-> c, approval |-> a, gate |-> NoGate]
  <2>1. /\ k("complete").at = "complete" /\ k("fail").at = "fail"
        /\ v.call = c /\ v.approval = a /\ v.gate.run = None
    BY <1>a DEF Call, NoGate
  <2>2. \/ call' = [call EXCEPT ![c] = k("complete")] /\ writes' = writes \cup {v}
        \/ call' = [call EXCEPT ![c] = k("fail")] /\ writes' = writes
    BY <1>2 DEF SubmitApproved
  <2>3. UNCHANGED <<approved, gate>>
    BY <1>2 DEF SubmitApproved, approvalVars
  <2>4. ~Decided(call[c]) /\ ~Permitted(call[c])
    BY <1>2 DEF SubmitApproved, Decided, Permitted
  <2>5. GatesKept
    BY <2>3 DEF GatesKept
  <2> HIDE DEF k, v
  <2>6. /\ Decided(k("complete")) /\ ~Permitted(k("complete"))
        /\ Decided(k("fail")) /\ ~Permitted(k("fail"))
    BY <2>1 DEF Decided, Permitted
  <2>7. CASE call' = [call EXCEPT ![c] = k("fail")] /\ writes' = writes
    BY <2>3, <2>4, <2>5, <2>6, <2>7, PromisedTurns
  <2>8. CASE call' = [call EXCEPT ![c] = k("complete")] /\ writes' = writes \cup {v}
    <3>1. Made' = Made \cup {[decision |-> c, approval |-> a, subject |-> None]}
      BY <2>1, <2>8 DEF Made
    <3>2. Out' = Out \ {PermitOf(c)}
      BY <2>5, <2>6, <2>8, OutWhenTurns
    <3>3. PermitOf(c) \notin Out
      BY <2>4 DEF Out, PermitOf
    <3>4. c \notin Taken /\ Taken' = Taken \cup {c}
      BY <2>4, <2>6, <2>8, TakenWhenTurns DEF Taken
    <3>5. Out' = Out
      BY <3>2, <3>3
    <3> QED BY <2>3, <3>1, <3>4, <3>5, PermitSteps
  <2> QED BY <2>2, <2>7, <2>8
<1>3. ASSUME NEW c \in Calls, NEW h \in {"approve", "reject"}, NEW a \in Approvals,
             ReadsPending(c, h, a)
      PROVE  Promised
  <2> DEFINE k == [call[c] EXCEPT !.handler = h, !.at = "read", !.approval = a]
  <2>1. k.at = "read"
    BY <1>a DEF Call
  <2>2. call' = [call EXCEPT ![c] = k]
    BY <1>3 DEF ReadsPending
  <2>3. ~Decided(call[c])
    BY <1>3 DEF ReadsPending, Decided
  <2> HIDE DEF k
  <2>4. ~Permitted(k)
    BY <2>1 DEF Permitted
  <2> QED BY <1>3, <1>b, <2>2, <2>3, <2>4, PromisedTurns
          DEF ReadsPending, approvalVars, GatesKept
<1>4. ASSUME NEW c \in Calls, NEW r \in Runs, StartsRun(c, r) PROVE Promised
  <2> DEFINE k == [call[c] EXCEPT !.handler = "start", !.at = "step", !.run = r, !.step = 1]
  <2>1. k.handler = "start" /\ k.at = "step"
    BY <1>a DEF Call
  <2>2. call' = [call EXCEPT ![c] = k]
    BY <1>4 DEF StartsRun
  <2> HIDE DEF k
  <2>3. ~Permitted(k) /\ Decided(k)
    BY <2>1 DEF Permitted, Decided
  <2> QED BY <1>4, <1>b, <2>2, <2>3, PromisedTurns DEF StartsRun, approvalVars, GatesKept
<1>5. ASSUME NEW c \in Calls, Silent(c) PROVE Promised
  <2>1. GoesOn(c)
    BY <1>5, StepGoesOn
  <2> QED BY <1>b, <2>1, PromisedTurns DEF GoesOn
<1>6. ASSUME NEW c \in Calls, MarksExecuting(c) PROVE Promised
  <2> DEFINE a    == call[c].approval
             k(p) == [call[c] EXCEPT !.at = p]
  <2>1. PICK p \in {"execute", "find"} : Goes(c, p)
    BY <1>6 DEF MarksExecuting
  <2>2. k(p).at = p /\ k(p).handler = "approve" /\ k(p).approval = a
    BY <1>6, <1>a DEF Call, MarksExecuting
  <2>3. call' = [call EXCEPT ![c] = k(p)]
    BY <2>1 DEF Goes
  <2>4. a \in Approvals
    BY <1>6, <1>a DEF MarksExecuting, CallOK
  <2>5. gate[a].run \in Runs \cup {None}
    BY <2>4 DEF TypeOK, Gate, NoGate
  <2> HIDE DEF a, k
  <2>6. /\ UNCHANGED <<gate, writes>> /\ approved' = approved \cup {a}
        /\ ~Decided(call[c]) /\ ~Permitted(call[c])
    BY <1>6 DEF MarksExecuting, Decided, Permitted, a
  <2>7. Permitted(k(p)) /\ Decided(k(p))
    BY <2>2 DEF Permitted, Decided
  <2>8. GatesKept
    BY <2>6 DEF GatesKept
  <2>9. Out' = Out \cup {[decision |-> c, approval |-> a, subject |-> gate[a].run]}
    BY <2>2, <2>3, <2>6, <2>7, <2>8, OutWhenTurns
  <2>10. c \notin Taken /\ Taken' = Taken \cup {c}
    BY <2>3, <2>6, <2>7, TakenWhenTurns DEF Taken
  <2>11. Made' = Made
    BY <2>6 DEF Made
  <2> QED BY <2>4, <2>5, <2>6, <2>9, <2>10, <2>11, PermitSteps
<1>7. ASSUME NEW c \in Calls, NoExecutor(c) PROVE Promised
  BY <1>7, <1>a, PromisedGoes DEF NoExecutor, approvalVars
<1>8. ASSUME NEW c \in Calls, RunsTool(c) PROVE Promised
  <2>1. CASE (Goes(c, "fail") \/ Goes(c, "revert")) /\ UNCHANGED writes
    BY <1>8, <1>a, <2>1, PromisedGoes DEF RunsTool, approvalVars
  <2> DEFINE k == [call[c] EXCEPT !.at = "complete"]
             v == [call |-> c, approval |-> call[c].approval, gate |-> NoGate]
  <2>2. CASE Goes(c, "complete") /\ writes' = writes \cup {v}
    <3>1. k.at = "complete"
      BY <1>a DEF Call
    <3>2. call' = [call EXCEPT ![c] = k]
      BY <2>2 DEF Goes
    <3>3. gate[call[c].approval] = NoGate /\ call[c].handler = "approve"
      BY <1>8, <1>a DEF RunsTool, RefersOK, CallOK, Deciding
    <3>4. v.call = c /\ v.approval = call[c].approval /\ v.gate = NoGate
      OBVIOUS
    <3> HIDE DEF k, v
    <3>5. ~Permitted(k) /\ Decided(k) /\ Permitted(call[c])
      BY <1>8, <3>1, <3>3 DEF Permitted, Decided, RunsTool
    <3>6. UNCHANGED <<gate, approved>>
      BY <1>8 DEF RunsTool, approvalVars
    <3> QED BY <2>2, <3>2, <3>3, <3>4, <3>5, <3>6, PromisedWrite
  <2> QED BY <1>8, <2>1, <2>2 DEF RunsTool
<1>9. ASSUME NEW c \in Calls, Settles(c) PROVE Promised
  <2>1. CASE approved' = approved
    BY <1>9, <1>a, <2>1, PromisedGoes DEF Settles
  <2>2. CASE call[c].at = "complete" /\ approved' # approved
    <3> DEFINE a == call[c].approval
               k == [call[c] EXCEPT !.at = "done"]
    <3>1. a \in Approvals
      BY <1>a, <2>2 DEF CallOK, HasInput
    <3>2. approved' = approved \cup {a} /\ UNCHANGED <<gate, writes>>
      BY <1>9, <2>2 DEF Settles
    <3>3. \E w \in Made : w.approval = a
      <4>1. PICK w \in writes : w.approval = a
        BY <2>2, <3>2 DEF Recorded, Recordable
      <4>2. [decision |-> w.call, approval |-> w.approval, subject |-> w.gate.run] \in Made
        BY DEF Made
      <4> HIDE DEF a
      <4> QED BY <4>1, <4>2
    <3>4. k.at = "done"
      BY <1>a DEF Call
    <3>5. call' = [call EXCEPT ![c] = k]
      BY <1>9 DEF Settles, Goes
    <3> HIDE DEF a, k
    <3>6. ~Permitted(k) /\ Decided(k) /\ ~Permitted(call[c]) /\ Decided(call[c])
      BY <2>2, <3>4 DEF Permitted, Decided
    <3>7. GatesKept
      BY <3>2 DEF GatesKept
    <3>8. Out' = Out \ {PermitOf(c)} /\ PermitOf(c) \notin Out
      BY <3>5, <3>6, <3>7, OutWhenTurns DEF Out, PermitOf
    <3>9. Taken' = Taken \cup {c} /\ c \in Taken
      BY <3>5, <3>6, TakenWhenTurns DEF Taken
    <3>10. UNCHANGED <<Taken, Out, Made>>
      BY <3>2, <3>8, <3>9 DEF Made
    <3> QED BY <3>1, <3>2, <3>3, <3>10, PermitSteps
  <2> QED BY <1>9, <2>1, <2>2 DEF Settles
<1>10. ASSUME NEW c \in Calls, Writes(c) PROVE Promised
  <2> DEFINE k == [call[c] EXCEPT !.at = "written"]
             v == [call |-> c, approval |-> call[c].resumed,
                   gate |-> [run |-> call[c].run, step |-> call[c].step]]
  <2>1. k.at = "written"
    BY <1>a DEF Call
  <2>2. call' = [call EXCEPT ![c] = k] /\ writes' = writes \cup {v}
    BY <1>10 DEF Writes, Goes
  <2>3. call[c].at = "step" /\ call[c].resumed # None /\ UNCHANGED <<gate, approved>>
    BY <1>10 DEF Writes, MustWait, approvalVars
  <2>4. call[c].handler = "approve" /\ call[c].resumed = call[c].approval
    BY <1>a, <2>3 DEF CallOK
  <2>5. gate[call[c].approval].run = call[c].run
    BY <1>a, <2>3, <2>4 DEF RefersOK, HasRun
  <2>6. v.call = c /\ v.approval = call[c].approval /\ v.gate.run = call[c].run
    BY <2>4
  <2> HIDE DEF k, v
  <2>7. ~Permitted(k) /\ Decided(k) /\ Permitted(call[c])
    BY <2>1, <2>3, <2>4 DEF Permitted, Decided
  <2> QED BY <2>2, <2>3, <2>5, <2>6, <2>7, PromisedWrite
<1>11. ASSUME NEW c \in Calls, Rejects(c) PROVE Promised
  <2>1. Goes(c, "done") \/ Goes(c, "find parked")
    BY <1>11 DEF Rejects
  <2>2. UNCHANGED <<gate, writes, approved>>
    BY <1>11 DEF Rejects
  <2>3. "find parked" \notin {"idle", "read", "execute", "find", "load", "resume", "step"}
    OBVIOUS
  <2> QED BY <1>a, <2>1, <2>2, <2>3, PromisedGoes
<1>12. ASSUME NEW c \in Calls, Crashes(c) PROVE Promised
  BY <1>12, <1>a, PromisedGoes DEF Crashes, approvalVars
<1> QED
  BY <1>1, <1>2, <1>3, <1>4, <1>5, <1>6, <1>7, <1>8, <1>9, <1>10, <1>11, <1>12
  DEF Next, Continues, Silent

\* Nobody has decided, and there is nothing to decide.
LEMMA PromisedInit == Init => Permits!Init /\ Recorded
<1> SUFFICES ASSUME Init PROVE Permits!Init /\ Recorded
  OBVIOUS
<1>1. \A c \in Calls : ~Decided(call[c]) /\ ~Permitted(call[c]) /\ call[c].at # "complete"
  BY DEF Init, Decided, Permitted, Idle
<1>2. Permits!Init
  BY <1>1 DEF Init, Permits!Init
<1> QED BY <1>1, <1>2 DEF Recorded, Recordable

\* The gateway keeps what WritePermits promises those who approve: one write at
\* most for one decision, on what was decided, and none that was not.
THEOREM GatewayImplementsPermits == Spec => ImplementsPermits
<1>1. Recorded /\ Inv /\ [Next]_vars => Recorded'
  BY RecordedStep DEF Inv
<1>2. Recorded /\ Inv /\ [Next]_vars => [Permits!Next]_(Permits!vars)
  BY PromiseStep DEF Inv, Promised
<1>3. Init => Recorded /\ Permits!Init
  BY PromisedInit
<1>4. Permits!Spec <=> Permits!Init /\ [][Permits!Next]_(Permits!vars)
  BY DEF Permits!Spec
<1> QED BY <1>1, <1>2, <1>3, <1>4, InvHolds, PTL DEF Spec, ImplementsPermits

=============================================================================
