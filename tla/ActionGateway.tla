---------------------------- MODULE ActionGateway ----------------------------
(***************************************************************************)
(* The approvals of AI writes, Servers/advisor/approval, and the workflow  *)
(* engine whose runs wait for them, Servers/services/workflows/engine.ts.  *)
(* An approval stands for the call of a tool or for a gate of a run.       *)
(*                                                                         *)
(* No handler here opens a transaction or locks a row: each reads, decides *)
(* and then writes, so every statement that others can see is an action of *)
(* its own.  A call is one invocation of a handler; its record holds what  *)
(* the handler has in its variables.                                       *)
(***************************************************************************)
EXTENDS Integers, FiniteSets

CONSTANTS
  Approvals,   \* ids of ai_action_approvals: a bound on approvals
  Runs,        \* ids of ai_workflow_runs: a bound on runs
  Calls,       \* a bound on handler invocations: each serves once
  LastStep,    \* the number of steps of the workflow
  Gates,       \* its steps that wait for a person
  MaxCrashes,  \* bound on calls that die
  None

Steps == 1 .. LastStep

Final  == {"auto_reject", "rejected", "completed", "failed"}
States == {"none", "pending_approval", "executing"} \cup Final

RunStates ==
  {"none", "running", "awaiting_approval", "completed", "failed", "cancelled"}

\* What an approval is for: a step of a run, or the call of a tool.
Gate   == [run : Runs, step : Steps]
NoGate == [run |-> None, step |-> 0]

Handlers == {"none", "submit", "approve", "reject", "start"}
Places   == {"idle", "read", "find", "load", "resume", "step", "written", "park",
             "verify", "execute", "complete", "fail", "revert", "find parked", "cancel",
             "done"}

\* resumed is ctx.resumedApprovalId, opened the gate the run is about to park at.
Call == [handler : Handlers, at : Places, approval : Approvals \cup {None},
         run : Runs \cup {None}, step : 0 .. LastStep + 1,
         resumed : Approvals \cup {None}, opened : Approvals \cup {None}]

Idle == [handler |-> "none", at |-> "idle", approval |-> None, run |-> None,
         step |-> 0, resumed |-> None, opened |-> None]

ASSUME WorkflowOK ==
  /\ LastStep \in Nat \ {0}
  /\ Gates \subseteq Steps
  /\ MaxCrashes \in Nat
  /\ None \notin Approvals \cup Runs

VARIABLES
  state, gate, approved,         \* ai_action_approvals; approved: approved_by is set
  runState, runStep, awaiting,   \* ai_workflow_runs
  call,
  writes,  \* the writes made: by which call, under which approval, at which gate
  crashes

approvalVars == <<state, gate, approved>>
runVars      == <<runState, runStep, awaiting>>
vars         == <<approvalVars, runVars, call, writes, crashes>>

Init ==
  /\ state    = [a \in Approvals |-> "none"]
  /\ gate     = [a \in Approvals |-> NoGate]
  /\ approved = {}
  /\ runState = [r \in Runs |-> "none"]
  /\ runStep  = [r \in Runs |-> 0]
  /\ awaiting = [r \in Runs |-> None]
  /\ call     = [c \in Calls |-> Idle]
  /\ writes   = {}
  /\ crashes  = 0

-----------------------------------------------------------------------------
(* Calls and statements *)

Goes(c, place) == call' = [call EXCEPT ![c].at = place]

\* No row and no handler has this id yet.
Fresh(a) == state[a] = "none" /\ \A c \in Calls : call[c].approval # a

\* The columns of persistRun.  The link to an approval is set when the run
\* parks and cleared by every other transition.
\* (PersistKeepingLink is a mutant: a link once set stays.)
PersistKeepingLink(r, s, i, b) ==
  /\ runState' = [runState EXCEPT ![r] = s]
  /\ runStep'  = [runStep EXCEPT ![r] = i]
  /\ awaiting' = [awaiting EXCEPT ![r] = IF s = "awaiting_approval" THEN b ELSE @]

PersistRun(r, s, i, b) ==
  /\ runState' = [runState EXCEPT ![r] = s]
  /\ runStep'  = [runStep EXCEPT ![r] = i]
  /\ awaiting' = [awaiting EXCEPT ![r] = IF s = "awaiting_approval" THEN b ELSE None]

\* The runs that wait for an approval.
\* (WaitingForAny is a mutant: every run that waits.)
WaitingForAny(a) == {r \in Runs : runState[r] = "awaiting_approval"}

WaitingFor(a) == {r \in Runs : runState[r] = "awaiting_approval" /\ awaiting[r] = a}

-----------------------------------------------------------------------------
(* Submitting a tool call: submitForApproval *)

\* The rules ask for a person, or refuse the tool.
SubmitTool(a, s) ==
  /\ Fresh(a)
  /\ state' = [state EXCEPT ![a] = s]
  /\ UNCHANGED <<gate, approved, runVars, call, writes, crashes>>

\* The rules approve: the tool runs first, the record is written after it.
SubmitApproved(c, a) ==
  /\ call[c].at = "idle"
  /\ Fresh(a)
  /\ \E success \in BOOLEAN :
       /\ call' = [call EXCEPT ![c].handler = "submit", ![c].approval = a,
                               ![c].at = IF success THEN "complete" ELSE "fail"]
       /\ writes' = IF success
                    THEN writes \cup {[call |-> c, approval |-> a, gate |-> NoGate]}
                    ELSE writes
  /\ UNCHANGED <<approvalVars, runVars, crashes>>

-----------------------------------------------------------------------------
(* Approving *)

\* approveAction and rejectAction read the record and refuse one that is not
\* pending.  Nothing keeps it pending until they write.
ReadsPending(c, h, a) ==
  /\ call[c].at = "idle"
  /\ state[a] = "pending_approval"
  /\ call' = [call EXCEPT ![c].handler = h, ![c].at = "read", ![c].approval = a]
  /\ UNCHANGED <<approvalVars, runVars, writes, crashes>>

MarksExecuting(c) ==
  LET a == call[c].approval IN
  /\ call[c].handler = "approve" /\ call[c].at = "read"
  /\ state' = [state EXCEPT ![a] = "executing"]
  /\ approved' = approved \cup {a}
  /\ Goes(c, IF gate[a] = NoGate THEN "execute" ELSE "find")
  /\ UNCHANGED <<gate, runVars, writes, crashes>>

\* No executor is registered for the tool.
NoExecutor(c) ==
  /\ call[c].handler = "approve" /\ call[c].at = "read"
  /\ gate[call[c].approval] = NoGate
  /\ Goes(c, "fail")
  /\ UNCHANGED <<approvalVars, runVars, writes, crashes>>

\* The executor succeeds, fails, or fails with a TransientApprovalError.
RunsTool(c) ==
  /\ call[c].at = "execute"
  /\ \/ /\ Goes(c, "complete")
        /\ writes' = writes \cup
             {[call |-> c, approval |-> call[c].approval, gate |-> NoGate]}
     \/ (Goes(c, "fail") \/ Goes(c, "revert")) /\ UNCHANGED writes
  /\ UNCHANGED <<approvalVars, runVars, crashes>>

\* Mutant: an approval whose run is not found is left as it is.
FindsRunOrReturns(c) ==
  /\ call[c].at = "find"
  /\ IF WaitingFor(call[c].approval) = {} THEN Goes(c, "done")
     ELSE \E r \in WaitingFor(call[c].approval) :
            call' = [call EXCEPT ![c].run = r, ![c].at = "load"]
  /\ UNCHANGED <<approvalVars, runVars, writes, crashes>>

FindsRun(c) ==
  /\ call[c].at = "find"
  /\ IF WaitingFor(call[c].approval) = {} THEN Goes(c, "fail")
     ELSE \E r \in WaitingFor(call[c].approval) :
            call' = [call EXCEPT ![c].run = r, ![c].at = "load"]
  /\ UNCHANGED <<approvalVars, runVars, writes, crashes>>

\* resumeWorkflow loads the run again, and asks only whether it is parked.  A run
\* that is not, or whose workflow is not registered, is returned as it is.
LoadsRun(c) ==
  LET r == call[c].run IN
  /\ call[c].at = "load"
  /\ \/ /\ runState[r] = "awaiting_approval"
        /\ call' = [call EXCEPT ![c].step = runStep[r], ![c].at = "resume"]
     \/ Goes(c, "verify")
  /\ UNCHANGED <<approvalVars, runVars, writes, crashes>>

Resumes(c) ==
  /\ call[c].at = "resume"
  /\ PersistRun(call[c].run, "running", call[c].step, None)
  /\ call' = [call EXCEPT ![c].at = "step", ![c].resumed = call[c].approval]
  /\ UNCHANGED <<approvalVars, writes, crashes>>

\* After the resume the run is read once more: still waiting for this approval
\* means that nothing happened.
Verifies(c) ==
  /\ call[c].at = "verify"
  /\ Goes(c, IF call[c].run \in WaitingFor(call[c].approval) THEN "fail" ELSE "complete")
  /\ UNCHANGED <<approvalVars, runVars, writes, crashes>>

\* The last statement of a call, which sets the state whatever it is by then.
\* resumePausedWorkflowForApproval, which follows for a tool, finds no run: runs
\* are parked at gates only.
Settles(c) ==
  LET a == call[c].approval IN
  /\ call[c].at \in {"complete", "fail", "revert"}
  /\ state' = [state EXCEPT ![a] = CASE call[c].at = "complete" -> "completed"
                                     [] call[c].at = "fail"     -> "failed"
                                     [] call[c].at = "revert"   -> "pending_approval"]
  /\ approved' = IF call[c].at = "complete" THEN approved \cup {a} ELSE approved
  /\ Goes(c, "done")
  /\ UNCHANGED <<gate, runVars, writes, crashes>>

-----------------------------------------------------------------------------
(* Running a workflow: executeStepLoop, from the first step or a gate *)

\* createRun and the first persistRun: nobody can reach the run in between.
StartsRun(c, r) ==
  /\ call[c].at = "idle"
  /\ runState[r] = "none"
  /\ PersistRun(r, "running", 1, None)
  /\ call' = [call EXCEPT ![c].handler = "start", ![c].at = "step",
                          ![c].run = r, ![c].step = 1]
  /\ UNCHANGED <<approvalVars, writes, crashes>>

\* An approval lifts the gate of one step, the one it resumed the run at.
MustWait(c) == call[c].step \in Gates /\ call[c].resumed = None

\* requestGateApproval inserts the approval before the run is parked at it.
OpensGate(c, b) ==
  /\ call[c].at = "step"
  /\ MustWait(c)
  /\ Fresh(b)
  /\ state' = [state EXCEPT ![b] = "pending_approval"]
  /\ gate'  = [gate EXCEPT ![b] = [run |-> call[c].run, step |-> call[c].step]]
  /\ call'  = [call EXCEPT ![c].at = "park", ![c].opened = b]
  /\ UNCHANGED <<approved, runVars, writes, crashes>>

\* Where a handler goes on when the loop ends.
AfterLoop(c) == Goes(c, IF call[c].handler = "approve" THEN "verify" ELSE "done")

Parks(c) ==
  /\ call[c].at = "park"
  /\ PersistRun(call[c].run, "awaiting_approval", call[c].step, call[c].opened)
  /\ AfterLoop(c)
  /\ UNCHANGED <<approvalVars, writes, crashes>>

\* The step behind the gate makes its write.
Writes(c) ==
  /\ call[c].at = "step" /\ call[c].step \in Gates
  /\ ~MustWait(c)
  /\ writes' = writes \cup
       {[call |-> c, approval |-> call[c].resumed,
         gate |-> [run |-> call[c].run, step |-> call[c].step]]}
  /\ Goes(c, "written")
  /\ UNCHANGED <<approvalVars, runVars, crashes>>

\* Branches go forward, in every workflow that is registered.
NextSteps(i) == {j \in i + 1 .. LastStep + 1 : j = i + 1 \/ j \in Steps}

\* A step is done, skipped or branches, and the run moves on.
StepIsDone(c) ==
  \/ call[c].at = "written"
  \/ call[c].at = "step" /\ call[c].step \in Steps \ Gates

\* Mutant: the approval is not forgotten after its step.
PassesKeepingApproval(c) ==
  /\ StepIsDone(c)
  /\ \E j \in NextSteps(call[c].step) :
       /\ PersistRun(call[c].run, "running", j, None)
       /\ call' = [call EXCEPT ![c].step = j, ![c].at = "step"]
  /\ UNCHANGED <<approvalVars, writes, crashes>>

Passes(c) ==
  /\ StepIsDone(c)
  /\ \E j \in NextSteps(call[c].step) :
       /\ PersistRun(call[c].run, "running", j, None)
       /\ call' = [call EXCEPT ![c].step = j, ![c].at = "step", ![c].resumed = None]
  /\ UNCHANGED <<approvalVars, writes, crashes>>

\* A step fails: its gate could not be opened, or its write was only begun or
\* made and not reported.
FailsStep(c) ==
  /\ call[c].at \in {"step", "written"} /\ call[c].step \in Steps
  /\ PersistRun(call[c].run, "failed", call[c].step, None)
  /\ AfterLoop(c)
  /\ UNCHANGED <<approvalVars, writes, crashes>>

FinishesRun(c) ==
  /\ call[c].at = "step" /\ call[c].step = LastStep + 1
  /\ PersistRun(call[c].run, "completed", LastStep + 1, None)
  /\ AfterLoop(c)
  /\ UNCHANGED <<approvalVars, writes, crashes>>

\* A statement of the engine throws: approveAction fails the approval, a trigger
\* and rejectAction only log it.
Throws(c) ==
  /\ call[c].at \in {"load", "resume", "step", "written", "park", "find parked",
                     "cancel"}
  /\ Goes(c, IF call[c].handler = "approve" THEN "fail" ELSE "done")
  /\ UNCHANGED <<approvalVars, runVars, writes, crashes>>

-----------------------------------------------------------------------------
(* Rejecting, by a person and by the clock *)

Rejects(c) ==
  LET a == call[c].approval IN
  /\ call[c].handler = "reject" /\ call[c].at = "read"
  /\ state' = [state EXCEPT ![a] = "rejected"]
  /\ Goes(c, IF gate[a] = NoGate THEN "done" ELSE "find parked")
  /\ UNCHANGED <<gate, approved, runVars, writes, crashes>>

\* cancelRunForRejectedApproval
FindsParked(c) ==
  /\ call[c].at = "find parked"
  /\ IF WaitingFor(call[c].approval) = {} THEN Goes(c, "done")
     ELSE \E r \in WaitingFor(call[c].approval) :
            call' = [call EXCEPT ![c].run = r, ![c].step = runStep[r], ![c].at = "cancel"]
  /\ UNCHANGED <<approvalVars, runVars, writes, crashes>>

CancelsRun(c) ==
  /\ call[c].at = "cancel"
  /\ PersistRun(call[c].run, "cancelled", call[c].step, None)
  /\ Goes(c, "done")
  /\ UNCHANGED <<approvalVars, writes, crashes>>

\* expirePendingApprovals, once the approval is old enough: its UPDATE asks again
\* whether it is pending.  It does not look for a run.
Expires(a) ==
  /\ state[a] = "pending_approval"
  /\ state' = [state EXCEPT ![a] = "rejected"]
  /\ UNCHANGED <<gate, approved, runVars, call, writes, crashes>>

\* The process dies and the call with it, or a statement outside every try fails.
Crashes(c) ==
  /\ call[c].at \notin {"idle", "done"}
  /\ crashes < MaxCrashes
  /\ crashes' = crashes + 1
  /\ Goes(c, "done")
  /\ UNCHANGED <<approvalVars, runVars, writes>>

-----------------------------------------------------------------------------

\* What a call does next once it has begun.
Continues(c) ==
  \/ MarksExecuting(c) \/ NoExecutor(c) \/ RunsTool(c)
  \/ FindsRun(c) \/ LoadsRun(c) \/ Resumes(c) \/ Verifies(c) \/ Settles(c)
  \/ \E b \in Approvals : OpensGate(c, b)
  \/ Writes(c) \/ Passes(c)
  \/ Parks(c) \/ FailsStep(c) \/ FinishesRun(c) \/ Throws(c)
  \/ Rejects(c) \/ FindsParked(c) \/ CancelsRun(c)

Next ==
  \/ \E a \in Approvals, s \in {"pending_approval", "auto_reject"} : SubmitTool(a, s)
  \/ \E c \in Calls, a \in Approvals : SubmitApproved(c, a)
  \/ \E c \in Calls, h \in {"approve", "reject"}, a \in Approvals : ReadsPending(c, h, a)
  \/ \E c \in Calls, r \in Runs : StartsRun(c, r)
  \/ \E c \in Calls : Continues(c) \/ Crashes(c)
  \/ \E a \in Approvals : Expires(a)

Spec == Init /\ [][Next]_vars

\* A handler that has begun goes on; time passes and the timer looks every minute.
\* Nobody has to decide anything.
Fairness ==
  /\ \A c \in Calls : WF_vars(Continues(c))
  /\ \A a \in Approvals : WF_vars(Expires(a))

FairSpec == Spec /\ Fairness

-----------------------------------------------------------------------------
(* Properties *)

TypeOK ==
  /\ state \in [Approvals -> States]
  /\ gate \in [Approvals -> Gate \cup {NoGate}]
  /\ approved \subseteq Approvals
  /\ runState \in [Runs -> RunStates]
  /\ runStep \in [Runs -> 0 .. LastStep + 1]
  /\ awaiting \in [Runs -> Approvals \cup {None}]
  /\ call \in [Calls -> Call]
  /\ writes \subseteq [call : Calls, approval : Approvals, gate : Gate \cup {NoGate}]
  /\ crashes \in 0 .. MaxCrashes

\* A parked run can be found by the approval it waits for, and by no other: the
\* approval is the gate of the very step the run stands at, and a run that is not
\* parked waits for none.  Resumes, cancellations and failures of the run, in any
\* order and several at once, never leave a link that leads elsewhere.
ParkedAtItsGate ==
  \A r \in Runs :
    IF runState[r] = "awaiting_approval"
    THEN gate[awaiting[r]] = [run |-> r, step |-> runStep[r]]
    ELSE awaiting[r] = None

\* No gated write without a person: it is made under an approval that somebody
\* gave to that very run, also when several resumes and restarts of several runs
\* cross; and no tool runs under an approval that stands for a gate.
WriteWasApproved ==
  \A w \in writes :
    IF w.gate = NoGate THEN gate[w.approval] = NoGate
    ELSE /\ w.approval \in approved
         /\ gate[w.approval].run = w.gate.run

\* One human decision does not authorize two writes, however many gates the run
\* it resumes comes to, and whatever else resumes that run at the same time.
OneDecisionOneWrite ==
  \A w, v \in writes : w.call = v.call => w = v

\* A call that approved it is still under way, somewhere between marking the
\* approval and settling it.
Attends(k, a) ==
  /\ k.handler = "approve" /\ k.approval = a
  /\ k.at \notin {"idle", "read", "done"}

AtWork(a) == \E c \in Calls : Attends(call[c], a)

Stranded == {a \in Approvals : state[a] = "executing" /\ ~AtWork(a)}

\* An approval nobody works on and nobody can decide is the remains of a call that
\* died, and of one such call no more than one: no failure of a step, a run that
\* is gone, an engine that throws or a second person approving at the same time
\* leaves an approval executing for ever.
StrandedByCrashOnly == Cardinality(Stranded) <= crashes

\* Every approval is settled: by a person or by the clock, also after an attempt
\* that reverts it to pending, a run that is not there, and an engine that throws.
\* Only a call cut short while it executes leaves one behind.
ApprovalSettles ==
  \A a \in Approvals :
    state[a] = "pending_approval" ~>
      (state[a] \in Final \/ (crashes > 0 /\ state[a] = "executing"))

\* An approving call that may still make its write: it looks for what it approved,
\* or stands at the step it resumed its run at.
Permitted(k) ==
  /\ k.handler = "approve"
  /\ k.at \in {"execute", "find", "load", "resume"} \/ (k.at = "step" /\ k.resumed # None)

\* A call that is past reading what it is about.
Decided(k) == k.at \notin {"idle", "read"}

PermitOf(c) ==
  [decision |-> c, approval |-> call[c].approval, subject |-> gate[call[c].approval].run]

Permits == INSTANCE WritePermits WITH
  decided <- {c \in Calls : Decided(call[c])},
  given   <- approved,
  permits <- {PermitOf(c) : c \in {x \in Calls : Permitted(call[x])}},
  made    <- {[decision |-> w.call, approval |-> w.approval, subject |-> w.gate.run] :
                w \in writes},
  Decision <- Calls, Approval <- Approvals, Subject <- Runs, Nothing <- None

\* A decision to approve is good for one write, to the run whose gate it decided
\* or by the tool it approved, and is spent by it: no second resume, restart,
\* throw or crash gives back a permit that was used or lost, and none is issued
\* by anything but an approval.
ImplementsPermits == Permits!Spec

\* Refuted.  "incident_response has two gated writes, and a single approval would
\* otherwise authorize both": each gated write is made under the approval of its
\* own gate.
GateGuardsItsStep ==
  \A w \in writes : w.gate = gate[w.approval]

=============================================================================
