-------------------------- MODULE UseCaseApprovals --------------------------
(***************************************************************************)
(* What an approval request does to the thing it is about.  The handlers   *)
(* of use cases, files and AI actions run the queries of ApprovalRequests  *)
(* and their own writes in one transaction; each action here is one such   *)
(* transaction, built on an action of ApprovalRequests.                    *)
(*                                                                         *)
(* Two handlers act on something they read before their transaction holds  *)
(* any lock: the use case edit (updateProjectById compares the submitted   *)
(* workflow with an earlier read) and the framework handlers (which ask    *)
(* for a pending request first).  They take two actions.  Once it runs,    *)
(* the transaction of an edit holds the row lock on the use case, which    *)
(* whatever ends an approval takes too.                                    *)
(***************************************************************************)
EXTENDS ApprovalRequests

CONSTANTS
  UseCases, Files,
  AiActions,   \* what an AI action request is about: nothing that exists yet
  Frameworks,
  Risks,       \* ranks of ai_risk_classification; 0 is never auto-approved
  Editors,     \* concurrent edits of use cases
  Linkers      \* concurrent framework changes

ASSUME EntitiesOK ==
  /\ Entities = UseCases \cup Files \cup AiActions
  /\ UseCases \cap Files = {} /\ AiActions \cap (UseCases \cup Files) = {}
  /\ Risks \subseteq Nat /\ 0 \in Risks

LifecycleStages == {"planned", "in_review", "live", "retired"}
CaseStates == LifecycleStages \cup {"absent", "deleted"}
FileStates == {"absent", "stored", "approved", "rejected", "deleted"}

VARIABLES
  stage,     \* projects.lifecycle_stage, or that there is no such row
  risk,      \* projects.ai_risk_classification, as a rank
  attached,  \* projects.approval_workflow_id
  queued,    \* projects.pending_frameworks
  linked,    \* projects_frameworks
  file,      \* files.review_status, or that there is no such row
  aiRuns,    \* how often executeAiAction has run for each request
  editor,    \* what an edit in progress read
  linker     \* the use case a framework handler found without pending request

caseVars   == <<stage, risk, attached, queued, linked>>
entityVars == <<caseVars, file, aiRuns, editor, linker>>
allVars    == <<vars, entityVars>>

NoEdit == [useCase |-> None, previous |-> None]

ApprovalInit ==
  /\ Init
  /\ stage    = [e \in UseCases |-> "absent"]
  /\ risk     = [e \in UseCases |-> 0]
  /\ attached = [e \in UseCases |-> None]
  /\ queued   = [e \in UseCases |-> {}]
  /\ linked   = [e \in UseCases |-> {}]
  /\ file     = [e \in Files |-> "absent"]
  /\ aiRuns   = [r \in Requests |-> 0]
  /\ editor   = [d \in Editors |-> NoEdit]
  /\ linker   = [a \in Linkers |-> None]

-----------------------------------------------------------------------------
(* Helpers of the handlers *)

Exists(e) == stage[e] \in LifecycleStages

\* hasPendingApprovalQuery and getPendingApprovalRequestIdQuery; the latter
\* returns any one of them.
PendingFor(e) == {r \in Requests : status[r] = "Pending" /\ origin[r].entity = e}

\* (NotReleased is a mutant of Released: the use case stays in review.)
NotReleased(s) == s

\* releaseUseCaseFromReview and moveUseCaseIntoReview
Released(s) == IF s = "in_review" THEN "planned" ELSE s
IntoReview(s) == IF s = "planned" THEN "in_review" ELSE s

\* evaluateAutoApproval on the risk stored for the use case
Eligible(w, k) == k \in 1 .. template[w].maxRank

\* Mutant: the queued frameworks are forgotten.
EndsApprovalKeepingQueue(e) ==
  /\ stage' = [stage EXCEPT ![e] = Released(@)]
  /\ UNCHANGED <<queued, linked>>

\* createPendingFrameworksForApprovedUseCase.  projects_frameworks is unique on
\* (project, framework): one queued framework linked meanwhile makes the whole
\* transaction fail.
EndsApproval(e) ==
  /\ queued[e] \cap linked[e] = {}
  /\ stage'  = [stage EXCEPT ![e] = Released(@)]
  /\ linked' = [linked EXCEPT ![e] = @ \cup queued[e]]
  /\ queued' = [queued EXCEPT ![e] = {}]

\* createUseCaseApprovalRequest refuses a deleted workflow and one for
\* something else.
Usable(w) == w \in active /\ template[w].kind = "use_case"

-----------------------------------------------------------------------------
(* Creating and editing a use case *)

\* createUseCaseService without a workflow: the frameworks are created at once.
CreateFree(e, k, fs) ==
  /\ stage[e] = "absent"
  /\ stage'  = [stage EXCEPT ![e] = "planned"]
  /\ risk'   = [risk EXCEPT ![e] = k]
  /\ linked' = [linked EXCEPT ![e] = fs]
  /\ UNCHANGED <<vars, attached, queued, file, aiRuns, editor, linker>>

\* createUseCaseService with one: they are queued until the request is decided.
CreateReviewed(r, e, w, u, k, fs, cut) ==
  LET auto == Eligible(w, k) IN
  /\ stage[e] = "absent"
  /\ Usable(w)
  /\ Open(r, w, e, u, auto, cut)
  /\ stage'    = [stage EXCEPT ![e] = IF auto THEN "planned" ELSE "in_review"]
  /\ risk'     = [risk EXCEPT ![e] = k]
  /\ attached' = [attached EXCEPT ![e] = w]
  /\ queued'   = [queued EXCEPT ![e] = IF auto THEN {} ELSE fs]
  /\ linked'   = [linked EXCEPT ![e] = IF auto THEN fs ELSE {}]
  /\ UNCHANGED <<file, aiRuns, editor, linker>>

\* updateProjectById reads the use case before its transaction locks it.
BeginEdit(d, e) ==
  /\ editor[d] = NoEdit
  /\ Exists(e)
  /\ editor' = [editor EXCEPT ![d] = [useCase |-> e, previous |-> attached[e]]]
  /\ UNCHANGED <<vars, caseVars, file, aiRuns, linker>>

\* What every edit that commits writes: the risk and the submitted workflow.
Saves(d, w, k) ==
  LET e == editor[d].useCase IN
  /\ editor[d] # NoEdit
  /\ Exists(e)
  /\ risk'     = [risk EXCEPT ![e] = k]
  /\ attached' = [attached EXCEPT ![e] = w]
  /\ editor'   = [editor EXCEPT ![d] = NoEdit]
  /\ UNCHANGED <<file, aiRuns, linker>>

\* A body without the field leaves the workflow alone; one that submits what
\* was read earlier writes it back and does nothing else.
EditKeepsWorkflow(d, k) ==
  /\ editor[d] # NoEdit
  /\ \E w \in {attached[editor[d].useCase], editor[d].previous} : Saves(d, w, k)
  /\ UNCHANGED <<vars, stage, queued, linked>>

\* The workflow is cleared: a pending request is withdrawn and the queued
\* frameworks are created now.
EditClearsWorkflow(d, k) ==
  LET e == editor[d].useCase IN
  /\ editor[d].previous # None
  /\ Saves(d, None, k)
  /\ IF PendingFor(e) = {} THEN UNCHANGED vars
                           ELSE \E r \in PendingFor(e) : Withdraw(r)
  /\ EndsApproval(e)

\* Another workflow is attached: a request under the workflow that was read is
\* withdrawn, one under the new workflow is opened.
EditAttachesWorkflow(d, r, w, u, k, cut) ==
  LET e    == editor[d].useCase
      auto == Eligible(w, k)
  IN  /\ w # editor[d].previous
      /\ Usable(w)
      /\ Saves(d, w, k)
      /\ IF editor[d].previous = None \/ PendingFor(e) = {}
         THEN Open(r, w, e, u, auto, cut)
         ELSE \E old \in PendingFor(e) : Supersede(old, r, w, e, u, auto, cut)
      /\ IF auto
         THEN EndsApproval(e)
         ELSE /\ stage' = [stage EXCEPT ![e] = IntoReview(@)]
              /\ UNCHANGED <<queued, linked>>

\* The edit fails: the row is gone, the workflow is refused, the database
\* breaks a deadlock with a decision, or createPendingFrameworks fails.
EditAbandoned(d) ==
  /\ editor[d] # NoEdit
  /\ editor' = [editor EXCEPT ![d] = NoEdit]
  /\ UNCHANGED <<vars, caseVars, file, aiRuns, linker>>

-----------------------------------------------------------------------------
(* Requests opened by other means *)

\* Clients name things that exist or once did.
Known(e) == \/ e \in UseCases /\ stage[e] # "absent"
            \/ e \in Files /\ file[e] # "absent"
            \/ e \in AiActions

\* POST /approval-requests, about anything: neither the workflow nor what is
\* already pending is looked at, and a use case is not moved into review.
PostRequest(r, e, w, u, cut) ==
  LET auto == e \in UseCases /\ Eligible(w, risk[e]) IN
  /\ Known(e)
  /\ Open(r, w, e, u, auto, cut)
  /\ IF auto THEN EndsApproval(e) ELSE UNCHANGED <<stage, queued, linked>>
  /\ UNCHANGED <<risk, attached, file, aiRuns, editor, linker>>

\* agent_create_approval_request: the same without automatic approval.
AgentRequest(r, e, w, u, cut) ==
  /\ Known(e) /\ e \notin AiActions
  /\ Open(r, w, e, u, FALSE, cut)
  /\ UNCHANGED entityVars

UploadFree(e) ==
  /\ file[e] = "absent"
  /\ file' = [file EXCEPT ![e] = "stored"]
  /\ UNCHANGED <<vars, caseVars, aiRuns, editor, linker>>

\* An upload with a workflow reads steps and approvers in one statement.
UploadFile(r, e, w, u) ==
  /\ file[e] = "absent"
  /\ template[w].kind = "file"
  /\ Open(r, w, e, u, FALSE, Whole(w))
  /\ file' = [file EXCEPT ![e] = "stored"]
  /\ UNCHANGED <<caseVars, aiRuns, editor, linker>>

ProposeAiAction(r, e, w, u, cut) ==
  /\ w \in active
  /\ template[w].kind = "ai_action"
  /\ Open(r, w, e, u, FALSE, cut)
  /\ UNCHANGED entityVars

-----------------------------------------------------------------------------
(* Ending a request *)

\* Mutant: a rejection creates the queued frameworks as an approval does, and
\* leaves the file as it is.
RejectionCreatesQueue(e) ==
  /\ IF e \in UseCases THEN EndsApproval(e) ELSE UNCHANGED <<stage, queued, linked>>
  /\ UNCHANGED <<file, aiRuns>>

\* The writes processApprovalQuery makes outside the request's own tables.
RejectionReaches(e) ==
  /\ IF e \in UseCases THEN stage' = [stage EXCEPT ![e] = Released(@)]
                       ELSE UNCHANGED stage
  /\ IF e \in Files /\ file[e] # "deleted"
     THEN file' = [file EXCEPT ![e] = "rejected"] ELSE UNCHANGED file
  /\ UNCHANGED <<queued, linked, aiRuns>>

ApprovalReaches(r, e) ==
  /\ IF e \in UseCases THEN EndsApproval(e) ELSE UNCHANGED <<stage, queued, linked>>
  /\ IF e \in Files /\ file[e] # "deleted"
     THEN file' = [file EXCEPT ![e] = "approved"] ELSE UNCHANGED file
  /\ IF e \in AiActions THEN aiRuns' = [aiRuns EXCEPT ![r] = @ + 1] ELSE UNCHANGED aiRuns

\* processApprovalQuery in full.
Decide(m) ==
  LET r == m.request
      e == origin[r].entity
  IN  /\ CastVote(m) \/ OverrideStep(m)
      /\ CASE status'[r] = "Rejected" -> RejectionReaches(e)
           [] status'[r] = "Approved" -> ApprovalReaches(r, e)
           [] OTHER -> UNCHANGED <<stage, queued, linked, file, aiRuns>>
      /\ UNCHANGED <<risk, attached, editor, linker>>

\* POST .../withdraw by the requester, whatever the status.
WithdrawRequest(r) ==
  LET e == origin[r].entity IN
  /\ Withdraw(r)
  /\ IF e \in UseCases THEN stage' = [stage EXCEPT ![e] = Released(@)]
                       ELSE UNCHANGED stage
  /\ UNCHANGED <<risk, attached, queued, linked, file, aiRuns, editor, linker>>

\* removeFile: the transaction that would reject the file's request names
\* columns its table does not have, fails as a whole and is ignored.
DeleteFile(e) ==
  /\ file[e] \notin {"absent", "deleted"}
  /\ file' = [file EXCEPT ![e] = "deleted"]
  /\ UNCHANGED <<vars, caseVars, aiRuns, editor, linker>>

\* deleteProjectWithSideEffects withdraws one pending request.
DeleteUseCase(e) ==
  /\ Exists(e)
  /\ IF PendingFor(e) = {} THEN UNCHANGED vars
                           ELSE \E r \in PendingFor(e) : Withdraw(r)
  /\ stage'    = [stage EXCEPT ![e] = "deleted"]
  /\ risk'     = [risk EXCEPT ![e] = 0]
  /\ attached' = [attached EXCEPT ![e] = None]
  /\ queued'   = [queued EXCEPT ![e] = {}]
  /\ linked'   = [linked EXCEPT ![e] = {}]
  /\ UNCHANGED <<file, aiRuns, editor, linker>>

-----------------------------------------------------------------------------
(* Lifecycle and frameworks *)

\* applyLifecycleAction: the stage is checked by the UPDATE itself.
MovesStage(e, from, to) ==
  /\ stage[e] \in from
  /\ stage' = [stage EXCEPT ![e] = to]
  /\ UNCHANGED <<vars, risk, attached, queued, linked, file, aiRuns, editor, linker>>

GoLive(e) == MovesStage(e, {"planned"}, "live")
Retire(e) == MovesStage(e, {"planned", "live"}, "retired")

\* addFrameworkToProject and deleteFrameworkFromProject look for a pending
\* request outside their transaction, and then write.
FindsNonePending(a, e) ==
  /\ linker[a] = None
  /\ Exists(e)
  /\ PendingFor(e) = {}
  /\ linker' = [linker EXCEPT ![a] = e]
  /\ UNCHANGED <<vars, caseVars, file, aiRuns, editor>>

ChangesLinks(a, fs) ==
  LET e == linker[a] IN
  /\ linker' = [linker EXCEPT ![a] = None]
  /\ linked' = IF Exists(e) THEN [linked EXCEPT ![e] = fs] ELSE linked
  /\ UNCHANGED <<vars, stage, risk, attached, queued, file, aiRuns, editor>>

LinkFramework(a, f) ==
  linker[a] # None /\ ChangesLinks(a, linked[linker[a]] \cup {f})
UnlinkFramework(a, f) ==
  linker[a] # None /\ ChangesLinks(a, linked[linker[a]] \ {f})

-----------------------------------------------------------------------------

OnUseCase(e) ==
  \/ \E k \in Risks, fs \in SUBSET Frameworks : CreateFree(e, k, fs)
  \/ \E r \in Requests, w \in Workflows, u \in Users, k \in Risks,
        fs \in SUBSET Frameworks, cut \in 1 .. MaxSteps + 1 :
       CreateReviewed(r, e, w, u, k, fs, cut)
  \/ DeleteUseCase(e) \/ GoLive(e) \/ Retire(e)
  \/ \E d \in Editors : BeginEdit(d, e)
  \/ \E a \in Linkers : FindsNonePending(a, e)

InProgress ==
  \/ \E d \in Editors, k \in Risks :
       \/ EditKeepsWorkflow(d, k) \/ EditClearsWorkflow(d, k)
       \/ \E r \in Requests, w \in Workflows, u \in Users, cut \in 1 .. MaxSteps + 1 :
            EditAttachesWorkflow(d, r, w, u, k, cut)
  \/ \E d \in Editors : EditAbandoned(d)
  \/ \E a \in Linkers, f \in Frameworks : LinkFramework(a, f) \/ UnlinkFramework(a, f)

ApprovalNext ==
  \/ Background /\ UNCHANGED entityVars
  \/ \E e \in UseCases : OnUseCase(e)
  \/ InProgress
  \/ \E r \in Requests, e \in Files, w \in Workflows, u \in Users : UploadFile(r, e, w, u)
  \/ \E e \in Files : UploadFree(e) \/ DeleteFile(e)
  \/ \E r \in Requests, w \in Workflows, u \in Users, cut \in 1 .. MaxSteps + 1 :
       \/ \E e \in AiActions : ProposeAiAction(r, e, w, u, cut)
       \/ \E e \in Entities : PostRequest(r, e, w, u, cut) \/ AgentRequest(r, e, w, u, cut)
  \/ \E m \in submitted : Decide(m)
  \/ \E r \in Requests : WithdrawRequest(r)

ApprovalSpec == ApprovalInit /\ [][ApprovalNext]_allVars

-----------------------------------------------------------------------------
(* Properties *)

EntityTypeOK ==
  /\ stage \in [UseCases -> CaseStates]
  /\ risk \in [UseCases -> Risks]
  /\ attached \in [UseCases -> Workflows \cup {None}]
  /\ queued \in [UseCases -> SUBSET Frameworks]
  /\ linked \in [UseCases -> SUBSET Frameworks]
  /\ file \in [Files -> FileStates]
  /\ aiRuns \in [Requests -> Nat]
  /\ editor \in [Editors -> [useCase : UseCases \cup {None}, previous : Workflows \cup {None}]]
  /\ linker \in [Linkers -> UseCases \cup {None}]

\* A use case in review always has a pending request, so someone's decision or
\* withdrawal will take it out of review again: whichever way a request ends
\* (decision, withdrawal, replacement, edit, deletion), in whatever order with
\* the edits in progress, the stage follows in the same transaction.
InReviewHasRequest ==
  \A e \in UseCases : stage[e] = "in_review" => PendingFor(e) # {}

\* Queued frameworks are created by an approval or by clearing the workflow,
\* and by nothing else a use case goes through.
QueueNeedsVerdict ==
  [][\A e \in UseCases :
       (queued[e] # {} /\ queued'[e] # queued[e] /\ stage'[e] # "deleted") =>
         \/ attached'[e] = None
         \/ \E r \in Requests : /\ origin'[r].entity = e
                               /\ status'[r] = "Approved" /\ status[r] # "Approved"]_allVars

AllStepsCompleted(r) ==
  total[r] > 0 /\ \A s \in 1 .. total[r] : step[r][s] = "Completed"

\* What was decided has reached the thing it was decided about, and nothing
\* else has: an approved use case has nothing left in its queue, a file shows a
\* verdict only if some request about it was carried to that verdict, and an AI
\* action ran once if its request passed every step and never otherwise.
VerdictReachesEntity ==
  /\ \A r \in Requests :
       LET e == origin[r].entity IN
       /\ status[r] = "Approved" => /\ e \in UseCases => queued[e] = {}
                                    /\ e \in Files => file[e] # "stored"
       /\ status[r] = "Rejected" => (e \in Files => file[e] # "stored")
       /\ aiRuns[r] = IF e \in AiActions /\ AllStepsCompleted(r) THEN 1 ELSE 0
  /\ \A e \in Files :
       LET about == {r \in Requests : origin[r].entity = e} IN
       /\ file[e] = "approved" => \E r \in about : AllStepsCompleted(r)
       /\ file[e] = "rejected" => \E r \in about, s \in Steps : step[r][s] = "Rejected"

=============================================================================
