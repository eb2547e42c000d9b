----------------------- MODULE UseCaseApprovalsProofs -----------------------
(***************************************************************************)
(* Proofs about UseCaseApprovals.  Every handler's transaction is a step   *)
(* of ApprovalRequests, so what is proved of the request tables holds in   *)
(* the composed system; and a use case in review has a pending request.    *)
(***************************************************************************)
EXTENDS UseCaseApprovals, ApprovalRequestsProofs

\* EntityTypeOK, and that an edit in progress is one of a use case.
Typed ==
  /\ EntityTypeOK
  /\ \A d \in Editors : editor[d] # NoEdit => editor[d].useCase \in UseCases

\* Use cases, files and AI actions are what requests may be about.
LEMMA CasesAreEntities ==
  /\ UseCases \subseteq Entities /\ Files \subseteq Entities /\ AiActions \subseteq Entities
  /\ None \notin UseCases /\ None \notin Workflows
BY TemplatesOK, EntitiesOK

-----------------------------------------------------------------------------
(* Every transaction is a step of ApprovalRequests *)

\* What the steps of the composition are, seen from the request tables.
LEMMA StepIsRequestStep ==
  ASSUME TypeOK, Typed, [ApprovalNext]_allVars
  PROVE  [Next]_vars
<1>1. ASSUME NEW r \in Requests, NEW w \in Workflows, NEW e \in Entities, NEW u \in Users,
             NEW auto \in BOOLEAN, NEW cut \in 1 .. MaxSteps + 1,
             \/ Open(r, w, e, u, auto, cut)
             \/ \E old \in Requests : Supersede(old, r, w, e, u, auto, cut)
      PROVE  Next
  BY <1>1 DEF Next
<1>e. /\ \A w \in Workflows, k \in Nat : Eligible(w, k) \in BOOLEAN
      /\ \A w \in Workflows : Whole(w) \in 1 .. MaxSteps + 1
      /\ \A e \in UseCases : PendingFor(e) \subseteq Requests
      /\ \A k \in Risks : k \in Nat
  BY TemplatesOK, EntitiesOK DEF Eligible, Whole, TypeOK, Template, Steps, PendingFor
<1>2. CASE Background
  BY <1>2 DEF Next
<1>3. ASSUME NEW e \in UseCases, OnUseCase(e)
      PROVE  [Next]_vars
  <2>1. ASSUME NEW r \in Requests, NEW w \in Workflows, NEW u \in Users, NEW k \in Risks,
               NEW fs \in SUBSET Frameworks, NEW cut \in 1 .. MaxSteps + 1,
               CreateReviewed(r, e, w, u, k, fs, cut)
        PROVE  Next
    BY <1>1, <1>e, <2>1, CasesAreEntities DEF CreateReviewed
  <2>2. CASE DeleteUseCase(e)
    BY <1>e, <2>2 DEF DeleteUseCase, Next
  <2> QED BY <1>3, <2>1, <2>2
      DEF OnUseCase, CreateFree, GoLive, Retire, MovesStage, BeginEdit, FindsNonePending
<1>4. CASE InProgress
  <2>1. ASSUME NEW d \in Editors, NEW k \in Risks, NEW r \in Requests, NEW w \in Workflows,
               NEW u \in Users, NEW cut \in 1 .. MaxSteps + 1,
               EditAttachesWorkflow(d, r, w, u, k, cut)
        PROVE  Next
    <3>1. editor[d].useCase \in UseCases
      BY <2>1 DEF EditAttachesWorkflow, Saves, Typed
    <3> QED BY <1>1, <1>e, <2>1, <3>1, CasesAreEntities DEF EditAttachesWorkflow
  <2>2. ASSUME NEW d \in Editors, NEW k \in Risks, EditClearsWorkflow(d, k)
        PROVE  [Next]_vars
    <3>1. editor[d].useCase \in UseCases
      BY <2>2 DEF EditClearsWorkflow, Saves, Typed
    <3> QED BY <1>e, <2>2, <3>1 DEF EditClearsWorkflow, Next
  <2> QED BY <1>4, <2>1, <2>2
      DEF InProgress, EditKeepsWorkflow, EditAbandoned, LinkFramework, UnlinkFramework, ChangesLinks
<1>5. ASSUME NEW r \in Requests, NEW e \in Files, NEW w \in Workflows, NEW u \in Users,
             UploadFile(r, e, w, u)
      PROVE  Next
  BY <1>1, <1>e, <1>5, CasesAreEntities DEF UploadFile
<1>6. ASSUME NEW e \in Files, UploadFree(e) \/ DeleteFile(e)
      PROVE  UNCHANGED vars
  BY <1>6 DEF UploadFree, DeleteFile
<1>7. ASSUME NEW r \in Requests, NEW w \in Workflows, NEW u \in Users,
             NEW cut \in 1 .. MaxSteps + 1,
             \/ \E e \in AiActions : ProposeAiAction(r, e, w, u, cut)
             \/ \E e \in Entities : PostRequest(r, e, w, u, cut) \/ AgentRequest(r, e, w, u, cut)
      PROVE  Next
  <2>1. ASSUME NEW e \in Entities, PostRequest(r, e, w, u, cut) PROVE Next
    <3>1. PICK auto \in BOOLEAN : auto = (e \in UseCases /\ Eligible(w, risk[e]))
      OBVIOUS
    <3>2. Open(r, w, e, u, auto, cut)
      BY <2>1, <3>1 DEF PostRequest
    <3> QED BY <1>1, <3>2
  <2> QED BY <1>1, <1>7, <2>1, CasesAreEntities DEF ProposeAiAction, AgentRequest
<1>8. ASSUME NEW m \in submitted, Decide(m)
      PROVE  Next
  BY <1>8 DEF Decide, Next
<1>9. ASSUME NEW r \in Requests, WithdrawRequest(r)
      PROVE  Next
  BY <1>9 DEF WithdrawRequest, Next
<1>10. CASE UNCHANGED allVars
  BY <1>10 DEF allVars
<1> QED BY <1>2, <1>3, <1>4, <1>5, <1>6, <1>7, <1>8, <1>9, <1>10 DEF ApprovalNext

-----------------------------------------------------------------------------
(* Typing *)

\* The writes of EndsApproval and of a release stay within their columns.
LEMMA EndsApprovalTyped ==
  ASSUME EntityTypeOK, NEW e \in UseCases, EndsApproval(e)
  PROVE  /\ stage' \in [UseCases -> CaseStates]
         /\ queued' \in [UseCases -> SUBSET Frameworks]
         /\ linked' \in [UseCases -> SUBSET Frameworks]
<1>1. Released(stage[e]) \in CaseStates
  BY DEF EntityTypeOK, Released, CaseStates, LifecycleStages
<1>2. /\ stage' = [stage EXCEPT ![e] = Released(stage[e])]
      /\ queued' = [queued EXCEPT ![e] = {}]
      /\ linked' = [linked EXCEPT ![e] = linked[e] \cup queued[e]]
  BY DEF EndsApproval
<1>3. linked[e] \cup queued[e] \in SUBSET Frameworks
  BY DEF EntityTypeOK
<1> QED BY <1>1, <1>2, <1>3 DEF EntityTypeOK

\* Releasing what the request was about stays within its columns.
LEMMA ReleaseTyped ==
  ASSUME EntityTypeOK, NEW e \in UseCases, stage' = [stage EXCEPT ![e] = Released(@)]
  PROVE  stage' \in [UseCases -> CaseStates]
<1>1. Released(stage[e]) \in CaseStates
  BY DEF EntityTypeOK, Released, CaseStates, LifecycleStages
<1> QED BY <1>1 DEF EntityTypeOK

\* An edit that commits leaves everything but stage, queue and links typed.
LEMMA SavesTyped ==
  ASSUME Typed, NEW d \in Editors, NEW w \in Workflows \cup {None}, NEW k \in Risks,
         Saves(d, w, k),
         stage' \in [UseCases -> CaseStates],
         queued' \in [UseCases -> SUBSET Frameworks],
         linked' \in [UseCases -> SUBSET Frameworks]
  PROVE  Typed'
<1>1. editor[d].useCase \in UseCases
  BY DEF Saves, Typed
<1>2. risk' \in [UseCases -> Risks] /\ attached' \in [UseCases -> Workflows \cup {None}]
  BY <1>1 DEF Saves, Typed, EntityTypeOK
<1>3. editor' = [editor EXCEPT ![d] = NoEdit] /\ UNCHANGED <<file, aiRuns, linker>>
  BY DEF Saves
<1>4. NoEdit \in [useCase : UseCases \cup {None}, previous : Workflows \cup {None}]
  BY DEF NoEdit
<1> QED BY <1>2, <1>3, <1>4 DEF Typed, EntityTypeOK

\* Every operation of the composition keeps the types of what it writes.
LEMMA EntityTypeStep == TypeOK /\ Typed /\ [ApprovalNext]_allVars => Typed'
<1> SUFFICES ASSUME TypeOK, Typed, [ApprovalNext]_allVars PROVE Typed'
  OBVIOUS
<1>c. EntityTypeOK
  BY DEF Typed
<1>1. ASSUME UNCHANGED <<risk, attached, editor, linker>>,
             stage' \in [UseCases -> CaseStates],
             queued' \in [UseCases -> SUBSET Frameworks],
             linked' \in [UseCases -> SUBSET Frameworks],
             file' \in [Files -> FileStates],
             aiRuns' \in [Requests -> Nat]
      PROVE  Typed'
  BY <1>1 DEF Typed, EntityTypeOK
<1>2. CASE UNCHANGED entityVars
  BY <1>2 DEF Typed, EntityTypeOK, entityVars, caseVars
<1>3. ASSUME NEW e \in UseCases, OnUseCase(e)
      PROVE  Typed'
  <2>1. ASSUME NEW k \in Risks, NEW fs \in SUBSET Frameworks, CreateFree(e, k, fs)
        PROVE  Typed'
    BY <2>1 DEF CreateFree, Typed, EntityTypeOK, CaseStates, LifecycleStages
  <2>2. ASSUME NEW r \in Requests, NEW w \in Workflows, NEW u \in Users, NEW k \in Risks,
               NEW fs \in SUBSET Frameworks, NEW cut \in 1 .. MaxSteps + 1,
               CreateReviewed(r, e, w, u, k, fs, cut)
        PROVE  Typed'
    <3>1. /\ stage' \in [UseCases -> CaseStates]
          /\ risk' \in [UseCases -> Risks]
          /\ attached' \in [UseCases -> Workflows \cup {None}]
      BY <2>2 DEF CreateReviewed, Typed, EntityTypeOK, CaseStates, LifecycleStages
    <3>2. /\ queued' \in [UseCases -> SUBSET Frameworks]
          /\ linked' \in [UseCases -> SUBSET Frameworks]
      BY <2>2 DEF CreateReviewed, Typed, EntityTypeOK
    <3> QED BY <2>2, <3>1, <3>2 DEF CreateReviewed, Typed, EntityTypeOK
  <2>3. CASE DeleteUseCase(e)
    <3>1. /\ stage' \in [UseCases -> CaseStates]
          /\ risk' \in [UseCases -> Risks]
          /\ attached' \in [UseCases -> Workflows \cup {None}]
      BY <2>3, EntitiesOK DEF DeleteUseCase, Typed, EntityTypeOK, CaseStates
    <3>2. /\ queued' \in [UseCases -> SUBSET Frameworks]
          /\ linked' \in [UseCases -> SUBSET Frameworks]
      BY <2>3 DEF DeleteUseCase, Typed, EntityTypeOK
    <3> QED BY <2>3, <3>1, <3>2 DEF DeleteUseCase, Typed, EntityTypeOK
  <2>4. CASE GoLive(e) \/ Retire(e)
    BY <2>4 DEF GoLive, Retire, MovesStage, Typed, EntityTypeOK, CaseStates, LifecycleStages
  <2>5. ASSUME NEW d \in Editors, BeginEdit(d, e)
        PROVE  Typed'
    <3>1. [useCase |-> e, previous |-> attached[e]] \in
            [useCase : UseCases \cup {None}, previous : Workflows \cup {None}]
      BY <1>c DEF EntityTypeOK
    <3>2. editor' = [editor EXCEPT ![d] = [useCase |-> e, previous |-> attached[e]]]
      BY <2>5 DEF BeginEdit
    <3>3. editor' \in [Editors -> [useCase : UseCases \cup {None}, previous : Workflows \cup {None}]]
      BY <1>c, <3>1, <3>2 DEF EntityTypeOK
    <3>4. \A x \in Editors : editor'[x] # NoEdit => editor'[x].useCase \in UseCases
      BY <1>c, <3>2 DEF EntityTypeOK, Typed
    <3> QED BY <2>5, <3>3, <3>4 DEF BeginEdit, Typed, EntityTypeOK, caseVars
  <2>6. ASSUME NEW a \in Linkers, FindsNonePending(a, e)
        PROVE  Typed'
    BY <2>6 DEF FindsNonePending, Typed, EntityTypeOK, caseVars
  <2> QED BY <1>3, <2>1, <2>2, <2>3, <2>4, <2>5, <2>6 DEF OnUseCase
<1>4. CASE InProgress
  <2>1. ASSUME NEW d \in Editors, NEW k \in Risks, EditKeepsWorkflow(d, k)
        PROVE  Typed'
    <3>1. editor[d].useCase \in UseCases /\ editor[d].previous \in Workflows \cup {None}
      BY <1>c, <2>1 DEF EditKeepsWorkflow, Typed, EntityTypeOK
    <3>2. PICK w \in {attached[editor[d].useCase], editor[d].previous} : Saves(d, w, k)
      BY <2>1 DEF EditKeepsWorkflow
    <3>3. w \in Workflows \cup {None}
      BY <1>c, <3>1 DEF EntityTypeOK
    <3>4. UNCHANGED <<stage, queued, linked>>
      BY <2>1 DEF EditKeepsWorkflow
    <3> QED BY <1>c, <3>2, <3>3, <3>4, SavesTyped DEF EntityTypeOK
  <2>2. ASSUME NEW d \in Editors, NEW k \in Risks, EditClearsWorkflow(d, k)
        PROVE  Typed'
    <3>1. Saves(d, None, k) /\ EndsApproval(editor[d].useCase) /\ editor[d].useCase \in UseCases
      BY <2>2 DEF EditClearsWorkflow, Saves, Typed
    <3> QED BY <1>c, <3>1, EndsApprovalTyped, SavesTyped
  <2>3. ASSUME NEW d \in Editors, NEW k \in Risks, NEW r \in Requests, NEW w \in Workflows,
               NEW u \in Users, NEW cut \in 1 .. MaxSteps + 1,
               EditAttachesWorkflow(d, r, w, u, k, cut)
        PROVE  Typed'
    <3>1. PICK e \in UseCases : e = editor[d].useCase
      BY <2>3 DEF EditAttachesWorkflow, Saves, Typed
    <3>2. Saves(d, w, k)
      BY <2>3 DEF EditAttachesWorkflow
    <3>3. CASE EndsApproval(e)
      BY <1>c, <3>2, <3>3, EndsApprovalTyped, SavesTyped
    <3>4. CASE stage' = [stage EXCEPT ![e] = IntoReview(@)] /\ UNCHANGED <<queued, linked>>
      <4>1. IntoReview(stage[e]) \in CaseStates
        BY <1>c DEF EntityTypeOK, IntoReview, CaseStates, LifecycleStages
      <4>2. stage' \in [UseCases -> CaseStates]
        BY <1>c, <3>4, <4>1 DEF EntityTypeOK
      <4> QED BY <1>c, <3>2, <3>4, <4>2, SavesTyped DEF EntityTypeOK
    <3> QED BY <2>3, <3>1, <3>3, <3>4 DEF EditAttachesWorkflow
  <2>4. ASSUME NEW d \in Editors, EditAbandoned(d)
        PROVE  Typed'
    <3>1. NoEdit \in [useCase : UseCases \cup {None}, previous : Workflows \cup {None}]
      BY DEF NoEdit
    <3> QED BY <2>4, <3>1 DEF EditAbandoned, Typed, EntityTypeOK, caseVars
  <2>5. ASSUME NEW a \in Linkers, NEW fs, ChangesLinks(a, fs), linker[a] # None,
               fs \subseteq Frameworks
        PROVE  Typed'
    <3>1. linker[a] \in UseCases
      BY <1>c, <2>5 DEF EntityTypeOK
    <3>2. linked' \in [UseCases -> SUBSET Frameworks]
      BY <1>c, <2>5, <3>1 DEF ChangesLinks, EntityTypeOK
    <3>3. linker' \in [Linkers -> UseCases \cup {None}]
      BY <1>c, <2>5 DEF ChangesLinks, EntityTypeOK
    <3> QED BY <2>5, <3>2, <3>3 DEF ChangesLinks, Typed, EntityTypeOK
  <2>6. ASSUME NEW a \in Linkers, NEW f \in Frameworks, LinkFramework(a, f) \/ UnlinkFramework(a, f)
        PROVE  Typed'
    <3>1. linker[a] \in UseCases
      BY <1>c, <2>6 DEF EntityTypeOK, LinkFramework, UnlinkFramework
    <3>2. linked[linker[a]] \subseteq Frameworks
      BY <1>c, <3>1 DEF EntityTypeOK
    <3> QED BY <2>5, <2>6, <3>2 DEF LinkFramework, UnlinkFramework
  <2> QED BY <1>4, <2>1, <2>2, <2>3, <2>4, <2>6 DEF InProgress
<1>5. ASSUME NEW r \in Requests, NEW e \in Files, NEW w \in Workflows, NEW u \in Users,
             UploadFile(r, e, w, u)
      PROVE  Typed'
  <2>1. file' \in [Files -> FileStates]
    BY <1>c, <1>5 DEF UploadFile, EntityTypeOK, FileStates
  <2> QED BY <1>1, <1>5, <1>c, <2>1 DEF UploadFile, EntityTypeOK, caseVars
<1>6. ASSUME NEW e \in Files, UploadFree(e) \/ DeleteFile(e)
      PROVE  Typed'
  <2>1. file' \in [Files -> FileStates]
    BY <1>c, <1>6 DEF UploadFree, DeleteFile, EntityTypeOK, FileStates
  <2> QED BY <1>1, <1>6, <1>c, <2>1 DEF UploadFree, DeleteFile, EntityTypeOK, caseVars
<1>7. ASSUME NEW r \in Requests, NEW w \in Workflows, NEW u \in Users,
             NEW cut \in 1 .. MaxSteps + 1,
             \/ \E e \in AiActions : ProposeAiAction(r, e, w, u, cut)
             \/ \E e \in Entities : PostRequest(r, e, w, u, cut) \/ AgentRequest(r, e, w, u, cut)
      PROVE  Typed'
  <2>1. ASSUME NEW e \in Entities, PostRequest(r, e, w, u, cut) PROVE Typed'
    <3>1. /\ UNCHANGED <<risk, attached, file, aiRuns, editor, linker>>
          /\ \/ e \in UseCases /\ EndsApproval(e)
             \/ UNCHANGED <<stage, queued, linked>>
      BY <2>1 DEF PostRequest
    <3> QED BY <1>1, <1>c, <3>1, EndsApprovalTyped DEF EntityTypeOK
  <2> QED BY <1>2, <1>7, <2>1 DEF ProposeAiAction, AgentRequest
<1>8. ASSUME NEW m \in submitted, Decide(m)
      PROVE  Typed'
  <2>1. PICK e : e = origin[m.request].entity
    OBVIOUS
  <2>2. /\ m.request \in Requests
        /\ UNCHANGED <<risk, attached, editor, linker>>
        /\ \/ RejectionReaches(e) \/ ApprovalReaches(m.request, e)
           \/ UNCHANGED <<stage, queued, linked, file, aiRuns>>
    BY <1>8, <2>1 DEF Decide, TypeOK, Submission
  <2>3. CASE RejectionReaches(e)
    <3>1. stage' \in [UseCases -> CaseStates]
      BY <1>c, <2>3, ReleaseTyped DEF RejectionReaches, EntityTypeOK
    <3>2. file' \in [Files -> FileStates]
      BY <1>c, <2>3 DEF RejectionReaches, EntityTypeOK, FileStates
    <3> QED BY <1>1, <1>c, <2>2, <2>3, <3>1, <3>2 DEF RejectionReaches, EntityTypeOK
  <2>4. CASE ApprovalReaches(m.request, e)
    <3>1. /\ stage' \in [UseCases -> CaseStates]
          /\ queued' \in [UseCases -> SUBSET Frameworks]
          /\ linked' \in [UseCases -> SUBSET Frameworks]
      BY <1>c, <2>4, EndsApprovalTyped DEF ApprovalReaches, EntityTypeOK
    <3>2. file' \in [Files -> FileStates]
      BY <1>c, <2>4 DEF ApprovalReaches, EntityTypeOK, FileStates
    <3>3. aiRuns' \in [Requests -> Nat]
      BY <1>c, <2>2, <2>4 DEF ApprovalReaches, EntityTypeOK
    <3> QED BY <1>1, <2>2, <3>1, <3>2, <3>3
  <2>5. CASE UNCHANGED <<stage, queued, linked, file, aiRuns>>
    BY <1>1, <1>c, <2>2, <2>5 DEF EntityTypeOK
  <2> QED BY <2>2, <2>3, <2>4, <2>5
<1>9. ASSUME NEW r \in Requests, WithdrawRequest(r)
      PROVE  Typed'
  <2>1. stage' \in [UseCases -> CaseStates]
    BY <1>c, <1>9, ReleaseTyped DEF WithdrawRequest, EntityTypeOK
  <2> QED BY <1>1, <1>9, <1>c, <2>1 DEF WithdrawRequest, EntityTypeOK
<1>10. CASE UNCHANGED allVars
  BY <1>2, <1>10 DEF allVars
<1> QED BY <1>2, <1>3, <1>4, <1>5, <1>6, <1>7, <1>8, <1>9, <1>10 DEF ApprovalNext

\* The first state of the composition is well typed.
LEMMA EntityTypeInit == ApprovalInit => TypeOK /\ Typed
<1> SUFFICES ASSUME ApprovalInit PROVE TypeOK /\ Typed
  OBVIOUS
<1>1. TypeOK
  BY TypeInit DEF ApprovalInit
<1>2. EntityTypeOK
  BY EntitiesOK DEF ApprovalInit, EntityTypeOK, CaseStates, FileStates, NoEdit
<1>3. \A d \in Editors : editor[d] = NoEdit
  BY DEF ApprovalInit
<1> QED BY <1>1, <1>2, <1>3 DEF Typed

\* Requests and entities together keep to their columns along every behaviour.
THEOREM TablesTyped == ApprovalSpec => [](TypeOK /\ Typed)
<1>1. TypeOK /\ Typed /\ [ApprovalNext]_allVars => TypeOK'
  BY StepIsRequestStep, TypeStep
<1> QED BY <1>1, EntityTypeInit, EntityTypeStep, PTL DEF ApprovalSpec

\* Use cases, files and AI actions keep to their columns as well.
THEOREM EntityTypeCorrect == ApprovalSpec => []EntityTypeOK
<1>1. Typed => EntityTypeOK
  BY DEF Typed
<1> QED BY <1>1, TablesTyped, PTL

\* Whatever the handlers around them do, the request tables behave as
\* ApprovalRequests says: all that is proved of Spec holds here too.
THEOREM ComposedImplements == ApprovalSpec => Spec
<1>1. ApprovalInit => Init
  BY DEF ApprovalInit
<1>2. TypeOK /\ Typed /\ [ApprovalNext]_allVars => [Next]_vars
  BY StepIsRequestStep
<1> QED BY <1>1, <1>2, TablesTyped, PTL DEF ApprovalSpec, Spec

-----------------------------------------------------------------------------
(* Review *)

InReviewOf(e) == stage[e] = "in_review" => PendingFor(e) # {}

\* Opening a request withdraws at most one about the same entity; one that is
\* not approved at once is pending.
LEMMA OpeningPends ==
  ASSUME TypeOK, NEW r \in Requests, NEW w \in Workflows, NEW e \in Entities,
         NEW u \in Users, NEW auto \in BOOLEAN, NEW cut \in 1 .. MaxSteps + 1,
         \/ Open(r, w, e, u, auto, cut)
         \/ \E old \in Requests : Supersede(old, r, w, e, u, auto, cut)
  PROVE  /\ ~auto => r \in PendingFor(e)'
         /\ \A x \in UseCases \ {e} : PendingFor(x) \subseteq PendingFor(x)'
         /\ Open(r, w, e, u, auto, cut) => PendingFor(e) \subseteq PendingFor(e)'
         /\ origin'[r].entity = e /\ status'[r] = OpenedStatus(auto)
<1>1. /\ origin' = [origin EXCEPT ![r] = [workflow |-> w, entity |-> e, requester |-> u]]
      /\ status'[r] = OpenedStatus(auto)
      /\ status[r] = "unused"
  BY DEF Open, Supersede, InsertRows, TypeOK
<1>2. origin'[r].entity = e /\ \A q \in Requests : q # r => origin'[q] = origin[q]
  BY <1>1 DEF TypeOK
<1>3. ~auto => r \in PendingFor(e)'
  BY <1>1, <1>2 DEF PendingFor, OpenedStatus
<1>4. CASE Open(r, w, e, u, auto, cut)
  <2>1. \A q \in Requests : q # r => status'[q] = status[q]
    BY <1>4 DEF Open, TypeOK
  <2> QED BY <1>1, <1>2, <1>3, <2>1 DEF PendingFor
<1>5. ASSUME NEW old \in Requests, Supersede(old, r, w, e, u, auto, cut)
      PROVE  /\ \A x \in UseCases \ {e} : PendingFor(x) \subseteq PendingFor(x)'
             /\ ~Open(r, w, e, u, auto, cut)
  <2>1. /\ origin[old].entity = e /\ status[old] = "Pending" /\ status'[old] = "Withdrawn"
        /\ \A q \in Requests \ {old, r} : status'[q] = status[q]
    BY <1>5, <1>1 DEF Supersede, TypeOK
  <2>2. ~Open(r, w, e, u, auto, cut)
    BY <1>1, <2>1 DEF Open, TypeOK
  <2> QED BY <1>1, <1>2, <2>1, <2>2 DEF PendingFor
<1> QED BY <1>1, <1>2, <1>3, <1>4, <1>5

\* A decision ends at most the request it is about.
LEMMA DecisionPends ==
  ASSUME TypeOK, NEW m \in submitted, CastVote(m) \/ OverrideStep(m)
  PROVE  /\ m.request \in Requests
         /\ UNCHANGED origin
         /\ \A q \in Requests \ {m.request} : status'[q] = status[q]
         /\ status[m.request] = "Pending"
         /\ status'[m.request] \in {"Pending", "Approved", "Rejected"}
<1>1. m.request \in Requests
  BY DEF TypeOK, Submission
<1>2. PICK force \in BOOLEAN : Settles(m.request, m.result, Ballot(m), force)
  BY DEF CastVote, OverrideStep
<1>3. status[m.request] = "Pending" /\ UNCHANGED origin
  BY <1>2 DEF CastVote, OverrideStep, Settles
<1>4. /\ \A q \in Requests \ {m.request} : status'[q] = status[q]
      /\ status'[m.request] \in {"Pending", "Approved", "Rejected"}
  BY <1>1, <1>2, <1>3 DEF Settles, Rejects, Advances, Approves, TypeOK
<1> QED BY <1>1, <1>3, <1>4

\* Every operation leaves an open request behind each use case in review.
LEMMA ReviewStep ==
  TypeOK /\ Typed /\ InReviewHasRequest /\ [ApprovalNext]_allVars => InReviewHasRequest'
<1> SUFFICES ASSUME TypeOK, Typed, InReviewHasRequest, [ApprovalNext]_allVars,
                    NEW x \in UseCases
             PROVE  InReviewOf(x)'
  BY DEF InReviewHasRequest, InReviewOf
<1>c. EntityTypeOK /\ InReviewOf(x)
  BY DEF Typed, InReviewHasRequest, InReviewOf
<1>0. ASSUME PendingFor(x) \subseteq PendingFor(x)', stage'[x] = stage[x] \/ stage'[x] # "in_review"
      PROVE  InReviewOf(x)'
  BY <1>0, <1>c DEF InReviewOf
<1>r. \A e \in UseCases : /\ Released(stage[e]) # "in_review"
  BY <1>c DEF Released
<1>e. /\ \A w \in Workflows, k \in Nat : Eligible(w, k) \in BOOLEAN
      /\ \A w \in Workflows : Whole(w) \in 1 .. MaxSteps + 1
      /\ \A k \in Risks : k \in Nat
  BY TemplatesOK, EntitiesOK DEF Eligible, Whole, TypeOK, Template, Steps
<1>s. UNCHANGED <<status, origin>> => UNCHANGED PendingFor(x)
  BY DEF PendingFor
<1>1. CASE UNCHANGED <<status, origin, stage>>
  BY <1>0, <1>1, <1>s
<1>w. ASSUME NEW r \in Requests, Withdraw(r), origin[r].entity # x
      PROVE  PendingFor(x) \subseteq PendingFor(x)'
  BY <1>w DEF Withdraw, PendingFor, TypeOK
<1>2. CASE Background /\ UNCHANGED entityVars
  <2>1. UNCHANGED <<status, origin, stage>>
    BY <1>2 DEF Background, EditWorkflow, DeleteWorkflow, Submit, Elapse, ReadOverdue, CrashSweep,
                ClaimEscalation, NotifyEscalation, requestVars, entityVars, caseVars
  <2> QED BY <1>1, <2>1
<1>3. ASSUME NEW e \in UseCases, OnUseCase(e)
      PROVE  InReviewOf(x)'
  <2>1. ASSUME NEW k \in Risks, NEW fs \in SUBSET Frameworks, CreateFree(e, k, fs)
        PROVE  InReviewOf(x)'
    <3>1. UNCHANGED <<status, origin>> /\ (stage'[x] = stage[x] \/ stage'[x] = "planned")
      BY <1>c, <2>1 DEF CreateFree, vars, requestVars, EntityTypeOK
    <3> QED BY <1>0, <1>s, <3>1
  <2>2. ASSUME NEW r \in Requests, NEW w \in Workflows, NEW u \in Users, NEW k \in Risks,
               NEW fs \in SUBSET Frameworks, NEW cut \in 1 .. MaxSteps + 1,
               CreateReviewed(r, e, w, u, k, fs, cut)
        PROVE  InReviewOf(x)'
    <3>1. PICK auto \in BOOLEAN : auto = Eligible(w, k)
      BY <1>e
    <3>2. /\ Open(r, w, e, u, auto, cut)
          /\ stage' = [stage EXCEPT ![e] = IF auto THEN "planned" ELSE "in_review"]
      BY <2>2, <3>1 DEF CreateReviewed
    <3>3. /\ ~auto => r \in PendingFor(e)'
          /\ PendingFor(x) \subseteq PendingFor(x)'
      BY <3>2, OpeningPends, CasesAreEntities
    <3>4. CASE x = e
      BY <1>c, <3>2, <3>3, <3>4 DEF InReviewOf, EntityTypeOK
    <3>5. CASE x # e
      BY <1>0, <1>c, <3>2, <3>3, <3>5 DEF EntityTypeOK
    <3> QED BY <3>4, <3>5
  <2>3. CASE DeleteUseCase(e)
    <3>1. stage' = [stage EXCEPT ![e] = "deleted"]
      BY <2>3 DEF DeleteUseCase
    <3>2. UNCHANGED <<status, origin>> \/ \E r \in PendingFor(e) : Withdraw(r)
      BY <2>3 DEF DeleteUseCase, vars, requestVars
    <3>3. CASE x = e
      BY <1>c, <3>1, <3>3 DEF InReviewOf, EntityTypeOK
    <3>4. CASE x # e
      <4>1. PendingFor(x) \subseteq PendingFor(x)'
        BY <1>s, <1>w, <3>2, <3>4 DEF PendingFor
      <4> QED BY <1>0, <1>c, <3>1, <3>4, <4>1 DEF EntityTypeOK
    <3> QED BY <3>3, <3>4
  <2>4. CASE GoLive(e) \/ Retire(e)
    <3>1. UNCHANGED <<status, origin>> /\ (stage'[x] = stage[x] \/ stage'[x] # "in_review")
      BY <1>c, <2>4 DEF GoLive, Retire, MovesStage, vars, requestVars, EntityTypeOK
    <3> QED BY <1>0, <1>s, <3>1
  <2>5. CASE \/ \E d \in Editors : BeginEdit(d, e)
             \/ \E a \in Linkers : FindsNonePending(a, e)
    BY <1>1, <2>5 DEF BeginEdit, FindsNonePending, vars, requestVars, caseVars
  <2> QED BY <1>3, <2>1, <2>2, <2>3, <2>4, <2>5 DEF OnUseCase
<1>4. CASE InProgress
  <2>1. CASE \/ \E d \in Editors, k \in Risks : EditKeepsWorkflow(d, k)
             \/ \E d \in Editors : EditAbandoned(d)
             \/ \E a \in Linkers, f \in Frameworks : LinkFramework(a, f) \/ UnlinkFramework(a, f)
    BY <1>1, <2>1 DEF EditKeepsWorkflow, EditAbandoned, LinkFramework, UnlinkFramework,
                      ChangesLinks, vars, requestVars, caseVars
  <2>2. ASSUME NEW d \in Editors, NEW k \in Risks, EditClearsWorkflow(d, k)
        PROVE  InReviewOf(x)'
    <3>1. PICK e \in UseCases : e = editor[d].useCase
      BY <2>2 DEF EditClearsWorkflow, Saves, Typed
    <3>2. /\ stage' = [stage EXCEPT ![e] = Released(stage[e])]
          /\ UNCHANGED <<status, origin>> \/ \E r \in PendingFor(e) : Withdraw(r)
      BY <2>2, <3>1 DEF EditClearsWorkflow, EndsApproval, vars, requestVars
    <3>3. CASE x = e
      BY <1>c, <1>r, <3>2, <3>3 DEF InReviewOf, EntityTypeOK
    <3>4. CASE x # e
      <4>1. PendingFor(x) \subseteq PendingFor(x)'
        BY <1>s, <1>w, <3>2, <3>4 DEF PendingFor
      <4> QED BY <1>0, <1>c, <3>2, <3>4, <4>1 DEF EntityTypeOK
    <3> QED BY <3>3, <3>4
  <2>3. ASSUME NEW d \in Editors, NEW k \in Risks, NEW r \in Requests, NEW w \in Workflows,
               NEW u \in Users, NEW cut \in 1 .. MaxSteps + 1,
               EditAttachesWorkflow(d, r, w, u, k, cut)
        PROVE  InReviewOf(x)'
    <3>1. PICK e \in UseCases : e = editor[d].useCase
      BY <2>3 DEF EditAttachesWorkflow, Saves, Typed
    <3>2. PICK auto \in BOOLEAN : auto = Eligible(w, k)
      BY <1>e
    <3>3. /\ \/ Open(r, w, e, u, auto, cut)
             \/ \E old \in Requests : Supersede(old, r, w, e, u, auto, cut)
          /\ IF auto THEN stage' = [stage EXCEPT ![e] = Released(stage[e])]
                     ELSE stage' = [stage EXCEPT ![e] = IntoReview(stage[e])]
      BY <2>3, <3>1, <3>2 DEF EditAttachesWorkflow, EndsApproval, PendingFor
    <3>4. /\ ~auto => r \in PendingFor(e)'
          /\ x # e => PendingFor(x) \subseteq PendingFor(x)'
      BY <3>3, OpeningPends, CasesAreEntities
    <3>5. CASE x = e
      BY <1>c, <1>r, <3>3, <3>4, <3>5 DEF InReviewOf, EntityTypeOK
    <3>6. CASE x # e
      BY <1>0, <1>c, <3>3, <3>4, <3>6 DEF EntityTypeOK
    <3> QED BY <3>5, <3>6
  <2> QED BY <1>4, <2>1, <2>2, <2>3 DEF InProgress
<1>5. ASSUME NEW r \in Requests, NEW e \in Files, NEW w \in Workflows, NEW u \in Users,
             UploadFile(r, e, w, u)
      PROVE  InReviewOf(x)'
  <2>1. PICK cut \in 1 .. MaxSteps + 1 : cut = Whole(w)
    BY <1>e
  <2>2. Open(r, w, e, u, FALSE, cut) /\ UNCHANGED stage
    BY <1>5, <2>1 DEF UploadFile, caseVars
  <2>3. PendingFor(x) \subseteq PendingFor(x)'
    BY <2>2, OpeningPends, CasesAreEntities
  <2> QED BY <1>0, <2>2, <2>3
<1>6. ASSUME NEW e \in Files, UploadFree(e) \/ DeleteFile(e)
      PROVE  InReviewOf(x)'
  BY <1>1, <1>6 DEF UploadFree, DeleteFile, vars, requestVars, caseVars
<1>7. ASSUME NEW r \in Requests, NEW w \in Workflows, NEW u \in Users,
             NEW cut \in 1 .. MaxSteps + 1, NEW e \in Entities,
             \/ e \in AiActions /\ ProposeAiAction(r, e, w, u, cut)
             \/ PostRequest(r, e, w, u, cut)
             \/ AgentRequest(r, e, w, u, cut)
      PROVE  InReviewOf(x)'
  <2>1. PICK auto \in BOOLEAN :
          /\ Open(r, w, e, u, auto, cut)
          /\ UNCHANGED stage \/ (e \in UseCases /\ stage' = [stage EXCEPT ![e] = Released(stage[e])])
    <3>1. PICK auto \in BOOLEAN : auto = (e \in UseCases /\ Eligible(w, risk[e]))
      OBVIOUS
    <3>2. CASE PostRequest(r, e, w, u, cut)
      BY <3>1, <3>2 DEF PostRequest, EndsApproval
    <3>3. CASE ProposeAiAction(r, e, w, u, cut) \/ AgentRequest(r, e, w, u, cut)
      BY <3>3 DEF ProposeAiAction, AgentRequest, entityVars, caseVars
    <3> QED BY <1>7, <3>2, <3>3
  <2>2. PendingFor(x) \subseteq PendingFor(x)'
    BY <2>1, OpeningPends
  <2>3. stage'[x] = stage[x] \/ stage'[x] # "in_review"
    BY <1>c, <1>r, <2>1 DEF EntityTypeOK
  <2> QED BY <1>0, <2>2, <2>3
<1>8. ASSUME NEW m \in submitted, Decide(m)
      PROVE  InReviewOf(x)'
  <2>1. /\ m.request \in Requests
        /\ UNCHANGED origin
        /\ \A q \in Requests \ {m.request} : status'[q] = status[q]
        /\ status[m.request] = "Pending"
        /\ status'[m.request] \in {"Pending", "Approved", "Rejected"}
    BY <1>8, DecisionPends DEF Decide
  <2>2. CASE status'[m.request] = "Pending"
    <3>1. UNCHANGED stage
      BY <1>8, <2>2 DEF Decide
    <3>2. PendingFor(x) \subseteq PendingFor(x)'
      BY <2>1, <2>2 DEF PendingFor
    <3> QED BY <1>0, <3>1, <3>2
  <2>3. CASE status'[m.request] # "Pending"
    <3>1. PICK e : e = origin[m.request].entity
      OBVIOUS
    <3>2. \/ e \in UseCases /\ stage' = [stage EXCEPT ![e] = Released(stage[e])]
          \/ e \notin UseCases /\ UNCHANGED stage
      BY <1>8, <2>1, <2>3, <3>1 DEF Decide, RejectionReaches, ApprovalReaches, EndsApproval
    <3>3. CASE x = e
      BY <1>c, <1>r, <3>2, <3>3 DEF InReviewOf, EntityTypeOK
    <3>4. CASE x # e
      <4>1. PendingFor(x) \subseteq PendingFor(x)'
        BY <2>1, <3>1, <3>4 DEF PendingFor
      <4> QED BY <1>0, <1>c, <3>2, <3>4, <4>1 DEF EntityTypeOK
    <3> QED BY <3>3, <3>4
  <2> QED BY <2>2, <2>3
<1>9. ASSUME NEW r \in Requests, WithdrawRequest(r)
      PROVE  InReviewOf(x)'
  <2>1. PICK e : e = origin[r].entity
    OBVIOUS
  <2>2. /\ Withdraw(r)
        /\ \/ e \in UseCases /\ stage' = [stage EXCEPT ![e] = Released(stage[e])]
           \/ e \notin UseCases /\ UNCHANGED stage
    BY <1>9, <2>1 DEF WithdrawRequest
  <2>3. CASE x = e
    BY <1>c, <1>r, <2>2, <2>3 DEF InReviewOf, EntityTypeOK
  <2>4. CASE x # e
    BY <1>0, <1>c, <1>w, <2>1, <2>2, <2>4 DEF EntityTypeOK
  <2> QED BY <2>3, <2>4
<1>10. CASE UNCHANGED allVars
  BY <1>1, <1>10 DEF allVars, vars, requestVars, entityVars, caseVars
<1> QED BY <1>2, <1>3, <1>4, <1>5, <1>6, <1>7, <1>8, <1>9, <1>10, CasesAreEntities DEF ApprovalNext

\* No use case is stranded in review: with any number of requests, edits,
\* withdrawals and deletions under way, one in review has a request that can
\* still be decided or withdrawn.
THEOREM ReviewCanEnd == ApprovalSpec => []InReviewHasRequest
<1>1. ApprovalInit => InReviewHasRequest
  BY DEF ApprovalInit, InReviewHasRequest
<1> QED BY <1>1, ReviewStep, TablesTyped, PTL DEF ApprovalSpec

-----------------------------------------------------------------------------
(* Verdicts reach what they are about *)

\* What a request is about exists or once did, and only use cases are approved
\* without a vote.
AboutAt(r) ==
  /\ status[r] # "unused" => Known(origin[r].entity)
  /\ r \in autoApproved => origin[r].entity \in UseCases

\* The conjunct of VerdictReachesEntity on one request, and that on one file.
ReachedAt(r) ==
  LET e == origin[r].entity IN
  /\ status[r] = "Approved" => /\ e \in UseCases => queued[e] = {}
                               /\ e \in Files => file[e] # "stored"
  /\ status[r] = "Rejected" => (e \in Files => file[e] # "stored")
  /\ aiRuns[r] = IF e \in AiActions /\ AllStepsCompleted(r) THEN 1 ELSE 0

ShownAt(e) ==
  LET about == {r \in Requests : origin[r].entity = e} IN
  /\ file[e] = "approved" => \E r \in about : AllStepsCompleted(r)
  /\ file[e] = "rejected" => \E r \in about, s \in Steps : step[r][s] = "Rejected"

\* Nothing is queued for a use case that does not exist yet.
AbsentAt(e) == stage[e] = "absent" => queued[e] = {}

ReachOK ==
  /\ \A r \in Requests : AboutAt(r) /\ ReachedAt(r)
  /\ \A e \in Files : ShownAt(e)
  /\ \A e \in UseCases : AbsentAt(e)

\* What a step may do to a use case and to a file.
CaseMoves(e) ==
  /\ stage[e] # "absent" => stage'[e] # "absent" /\ queued'[e] \in {queued[e], {}}
  /\ stage'[e] = "absent" => queued'[e] = queued[e]
FileMoves(e) ==
  file[e] # "absent" => file'[e] # "absent" /\ (file[e] # "stored" => file'[e] # "stored")
ThingsMove == (\A e \in UseCases : CaseMoves(e)) /\ (\A e \in Files : FileMoves(e))

\* The verdict can be read off the step rows.
ReadOffAt(r) ==
  /\ status[r] = "Approved" => AllStepsCompleted(r)
  /\ status[r] \in {"unused", "Pending", "Rejected"} => ~AllStepsCompleted(r)
  /\ status[r] = "Rejected" => \E s \in Steps : step[r][s] = "Rejected"

VerdictsReadOff == \A r \in Requests : ReadOffAt(r)

\* With the steps in order it can.
LEMMA VerdictOnSteps == TypeOK /\ RowsOK => VerdictsReadOff
<1> SUFFICES ASSUME TypeOK, RowsOK, NEW r \in Requests PROVE ReadOffAt(r)
  BY DEF VerdictsReadOff
<1>t. current[r] \in Nat /\ total[r] \in Nat /\ current[r] \in Steps
  BY TemplatesOK DEF TypeOK, Steps
<1>1. CASE status[r] = "unused"
  BY <1>1, <1>t DEF RowsOK, LadderAt, AllStepsCompleted, ReadOffAt
<1>2. CASE status[r] # "unused"
  <2>1. LadderOf(r)
    BY <1>2 DEF RowsOK, LadderAt
  <2>2. CASE status[r] = "Approved"
    <3>1. \A s \in 1 .. total[r] : s < current[r] \/ s = current[r] \/ s > current[r]
      BY <1>t
    <3> QED BY <1>t, <2>1, <2>2, <3>1 DEF LadderOf, AllStepsCompleted, ReadOffAt
  <2>3. CASE status[r] # "Approved"
    BY <1>2, <1>t, <2>1, <2>3 DEF LadderOf, AllStepsCompleted, ReadOffAt
  <2> QED BY <2>2, <2>3
<1> QED BY <1>1, <1>2

\* A request whose rows a step leaves alone stays explained.
LEMMA RequestKept ==
  ASSUME EntityTypeOK, NEW q \in Requests, AboutAt(q), ReachedAt(q), ThingsMove,
         SameRows(q), origin'[q] = origin[q], aiRuns'[q] = aiRuns[q],
         \/ status'[q] = status[q]
         \/ status[q] # "unused" /\ status'[q] = "Withdrawn"
  PROVE  AboutAt(q)' /\ ReachedAt(q)'
<1>1. PICK e : e = origin[q].entity /\ e = origin'[q].entity
  OBVIOUS
<1>2. AllStepsCompleted(q)' = AllStepsCompleted(q)
  BY DEF AllStepsCompleted, SameRows
<1>3. status[q] # "unused" => Known(e) /\ Known(e)'
  BY <1>1 DEF AboutAt, Known, ThingsMove, CaseMoves, FileMoves
<1>4. AboutAt(q)'
  BY <1>1, <1>3 DEF AboutAt, SameRows
<1>5. status[q] \in {"Approved", "Rejected"} =>
        /\ e \in UseCases => stage[e] # "absent"
        /\ e \in Files => file[e] # "absent"
  BY <1>3, EntitiesOK DEF Known
<1>6. /\ status'[q] = "Approved" => /\ e \in UseCases => queued'[e] = {}
                                    /\ e \in Files => file'[e] # "stored"
      /\ status'[q] = "Rejected" => (e \in Files => file'[e] # "stored")
  BY <1>1, <1>5 DEF ReachedAt, ThingsMove, CaseMoves, FileMoves
<1> QED BY <1>1, <1>2, <1>4, <1>6 DEF ReachedAt
\* No operation takes back that a thing exists, or puts a verdict on a file
\* aside; the queue of a use case stays or is emptied.
LEMMA ThingsMoveStep ==
  ASSUME TypeOK, Typed, \A r \in Requests : AboutAt(r), [ApprovalNext]_allVars
  PROVE  ThingsMove
<1>c. EntityTypeOK
  BY DEF Typed
<1>1. ASSUME UNCHANGED file, NEW e \in UseCases, CaseMoves(e),
             \A x \in UseCases \ {e} : stage'[x] = stage[x] /\ queued'[x] = queued[x]
      PROVE  ThingsMove
  BY <1>1 DEF ThingsMove, CaseMoves, FileMoves
<1>2. ASSUME UNCHANGED <<stage, queued>>,
             \A e \in Files : FileMoves(e)
      PROVE  ThingsMove
  BY <1>2 DEF ThingsMove, CaseMoves
<1>3. CASE UNCHANGED <<stage, queued, file>>
  BY <1>2, <1>3 DEF FileMoves
<1>r. ASSUME NEW e \in UseCases, stage' = [stage EXCEPT ![e] = Released(@)], UNCHANGED queued
      PROVE  /\ CaseMoves(e)
             /\ \A x \in UseCases \ {e} : stage'[x] = stage[x] /\ queued'[x] = queued[x]
  BY <1>c, <1>r DEF EntityTypeOK, CaseMoves, Released
<1>e. ASSUME NEW e \in UseCases, EndsApproval(e), stage[e] # "absent"
      PROVE  /\ CaseMoves(e)
             /\ \A x \in UseCases \ {e} : stage'[x] = stage[x] /\ queued'[x] = queued[x]
  BY <1>c, <1>e DEF EntityTypeOK, CaseMoves, Released, EndsApproval
<1>4. ASSUME NEW e \in UseCases, OnUseCase(e)
      PROVE  ThingsMove
  <2>1. ASSUME NEW k \in Risks, NEW fs \in SUBSET Frameworks, CreateFree(e, k, fs)
        PROVE  ThingsMove
    BY <1>1, <1>c, <2>1 DEF CreateFree, EntityTypeOK, CaseMoves
  <2>2. ASSUME NEW r \in Requests, NEW w \in Workflows, NEW u \in Users, NEW k \in Risks,
               NEW fs \in SUBSET Frameworks, NEW cut \in 1 .. MaxSteps + 1,
               CreateReviewed(r, e, w, u, k, fs, cut)
        PROVE  ThingsMove
    <3>1. /\ UNCHANGED file /\ stage[e] = "absent"
          /\ stage'[e] \in {"planned", "in_review"}
          /\ \A x \in UseCases \ {e} : stage'[x] = stage[x] /\ queued'[x] = queued[x]
      BY <1>c, <2>2 DEF CreateReviewed, EntityTypeOK
    <3> QED BY <1>1, <3>1 DEF CaseMoves
  <2>3. CASE DeleteUseCase(e)
    BY <1>1, <1>c, <2>3 DEF DeleteUseCase, EntityTypeOK, CaseMoves
  <2>4. CASE GoLive(e) \/ Retire(e)
    BY <1>1, <1>c, <2>4 DEF GoLive, Retire, MovesStage, EntityTypeOK, CaseMoves
  <2>5. CASE \/ \E d \in Editors : BeginEdit(d, e)
             \/ \E a \in Linkers : FindsNonePending(a, e)
    BY <1>3, <2>5 DEF BeginEdit, FindsNonePending, caseVars
  <2> QED BY <1>4, <2>1, <2>2, <2>3, <2>4, <2>5 DEF OnUseCase
<1>5. CASE InProgress
  <2>1. CASE \/ \E d \in Editors, k \in Risks : EditKeepsWorkflow(d, k)
             \/ \E d \in Editors : EditAbandoned(d)
             \/ \E a \in Linkers, f \in Frameworks : LinkFramework(a, f) \/ UnlinkFramework(a, f)
    BY <1>3, <2>1 DEF EditKeepsWorkflow, EditAbandoned, LinkFramework, UnlinkFramework,
                      ChangesLinks, Saves, caseVars
  <2>2. ASSUME NEW d \in Editors, NEW k \in Risks, EditClearsWorkflow(d, k)
        PROVE  ThingsMove
    <3>1. PICK e \in UseCases : e = editor[d].useCase
      BY <2>2 DEF EditClearsWorkflow, Saves, Typed
    <3>2. EndsApproval(e) /\ stage[e] # "absent" /\ UNCHANGED file
      BY <2>2, <3>1 DEF EditClearsWorkflow, Saves, Exists, LifecycleStages
    <3> QED BY <1>1, <1>e, <3>2
  <2>3. ASSUME NEW d \in Editors, NEW k \in Risks, NEW r \in Requests, NEW w \in Workflows,
               NEW u \in Users, NEW cut \in 1 .. MaxSteps + 1,
               EditAttachesWorkflow(d, r, w, u, k, cut)
        PROVE  ThingsMove
    <3>1. PICK e \in UseCases : e = editor[d].useCase
      BY <2>3 DEF EditAttachesWorkflow, Saves, Typed
    <3>2. /\ \/ EndsApproval(e)
             \/ stage' = [stage EXCEPT ![e] = IntoReview(@)] /\ UNCHANGED queued
          /\ stage[e] # "absent" /\ UNCHANGED file
      BY <2>3, <3>1 DEF EditAttachesWorkflow, Saves, Exists, LifecycleStages
    <3>3. CASE EndsApproval(e)
      BY <1>1, <1>e, <3>2, <3>3
    <3>4. CASE stage' = [stage EXCEPT ![e] = IntoReview(@)] /\ UNCHANGED queued
      BY <1>1, <1>c, <3>2, <3>4 DEF EntityTypeOK, CaseMoves, IntoReview
    <3> QED BY <3>2, <3>3, <3>4
  <2> QED BY <1>5, <2>1, <2>2, <2>3 DEF InProgress
<1>6. ASSUME NEW r \in Requests, NEW e \in Files, NEW w \in Workflows, NEW u \in Users,
             UploadFile(r, e, w, u)
      PROVE  ThingsMove
  BY <1>2, <1>6, <1>c DEF UploadFile, caseVars, FileMoves, EntityTypeOK
<1>7. ASSUME NEW e \in Files, UploadFree(e) \/ DeleteFile(e)
      PROVE  ThingsMove
  BY <1>2, <1>7, <1>c DEF UploadFree, DeleteFile, caseVars, FileMoves, EntityTypeOK
<1>8. ASSUME NEW r \in Requests, NEW w \in Workflows, NEW u \in Users,
             NEW cut \in 1 .. MaxSteps + 1, NEW e \in Entities,
             \/ e \in AiActions /\ ProposeAiAction(r, e, w, u, cut)
             \/ PostRequest(r, e, w, u, cut)
             \/ AgentRequest(r, e, w, u, cut)
      PROVE  ThingsMove
  <2>1. CASE ProposeAiAction(r, e, w, u, cut) \/ AgentRequest(r, e, w, u, cut)
    BY <1>3, <2>1 DEF ProposeAiAction, AgentRequest, entityVars, caseVars
  <2>2. CASE PostRequest(r, e, w, u, cut)
    <3>1. /\ UNCHANGED file
          /\ \/ e \in UseCases /\ EndsApproval(e) /\ stage[e] # "absent"
             \/ UNCHANGED <<stage, queued>>
      BY <2>2, EntitiesOK DEF PostRequest, Known
    <3> QED BY <1>1, <1>3, <1>e, <3>1
  <2> QED BY <1>8, <2>1, <2>2
<1>9. ASSUME NEW m \in submitted, Decide(m)
      PROVE  ThingsMove
  <2>1. PICK e : e = origin[m.request].entity
    OBVIOUS
  <2>2. Known(e)
    BY <1>9, <2>1, DecisionPends DEF Decide, AboutAt
  <2>3. CASE UNCHANGED <<stage, queued, linked, file, aiRuns>>
    BY <1>3, <2>3
  <2>4. CASE RejectionReaches(e) \/ ApprovalReaches(m.request, e)
    <3>1. CASE e \in UseCases
      <4>1. stage[e] # "absent" /\ UNCHANGED file
        BY <2>2, <2>4, <3>1, EntitiesOK DEF Known, RejectionReaches, ApprovalReaches
      <4>2. \/ EndsApproval(e)
            \/ stage' = [stage EXCEPT ![e] = Released(@)] /\ UNCHANGED queued
        BY <2>4, <3>1 DEF RejectionReaches, ApprovalReaches
      <4> QED BY <1>1, <1>e, <1>r, <3>1, <4>1, <4>2
    <3>2. CASE e \notin UseCases
      <4>1. UNCHANGED <<stage, queued>>
        BY <2>4, <3>2 DEF RejectionReaches, ApprovalReaches
      <4>2. \A x \in Files : FileMoves(x)
        BY <1>c, <2>2, <2>4, <3>2, EntitiesOK
        DEF RejectionReaches, ApprovalReaches, FileMoves, EntityTypeOK
      <4> QED BY <1>2, <4>1, <4>2
    <3> QED BY <3>1, <3>2
  <2> QED BY <1>9, <2>1, <2>3, <2>4 DEF Decide
<1>10. ASSUME NEW r \in Requests, WithdrawRequest(r)
       PROVE  ThingsMove
  <2>1. CASE origin[r].entity \in UseCases
    BY <1>1, <1>10, <1>r, <2>1 DEF WithdrawRequest
  <2>2. CASE origin[r].entity \notin UseCases
    BY <1>3, <1>10, <2>2 DEF WithdrawRequest
  <2> QED BY <2>1, <2>2
<1>11. CASE UNCHANGED entityVars
  BY <1>3, <1>11 DEF entityVars, caseVars
<1> QED BY <1>4, <1>5, <1>6, <1>7, <1>8, <1>9, <1>10, <1>11, CasesAreEntities
    DEF ApprovalNext, allVars

\* What a step does to the rows of a request that has any: a completed or
\* rejected step stays so, and the request stays about the same thing.
LEMMA StepsLast ==
  ASSUME TypeOK, RowsOK, [Next]_vars, NEW q \in Requests, status[q] # "unused"
  PROVE  /\ origin'[q] = origin[q]
         /\ AllStepsCompleted(q) => AllStepsCompleted(q)'
         /\ \A s \in Steps : step[q][s] = "Rejected" => step'[q][s] = "Rejected"
<1>1. CASE origin'[q] = origin[q] /\ SameRows(q)
  BY <1>1 DEF SameRows, AllStepsCompleted
<1>2. CASE Background \/ UNCHANGED vars
  <2>1. UNCHANGED origin
    BY <1>2 DEF Background, EditWorkflow, DeleteWorkflow, Submit, Elapse, ReadOverdue, CrashSweep,
                ClaimEscalation, NotifyEscalation, vars, requestVars
  <2> QED BY <1>1, <1>2, <2>1, BackgroundKeepsRows
<1>3. ASSUME NEW r \in Requests, NEW w \in Workflows, NEW e \in Entities,
             NEW u \in Users, NEW auto \in BOOLEAN, NEW cut \in 1 .. MaxSteps + 1,
             \/ Open(r, w, e, u, auto, cut)
             \/ \E old \in Requests : Supersede(old, r, w, e, u, auto, cut)
      PROVE  origin'[q] = origin[q] /\ SameRows(q)
  <2>1. /\ status[r] = "unused" /\ status'[r] = OpenedStatus(auto)
        /\ InsertRows(r, w, e, u, auto, cut)
    BY <1>3 DEF Open, Supersede, TypeOK
  <2>2. q # r
    BY <2>1
  <2>3. SameRows(q)
    BY <2>1, <2>2, InsertRowsOrdered
  <2>4. origin'[q] = origin[q]
    BY <2>1, <2>2 DEF InsertRows, TypeOK
  <2> QED BY <2>3, <2>4
<1>4. ASSUME NEW r \in Requests, Withdraw(r)
      PROVE  origin'[q] = origin[q] /\ SameRows(q)
  BY <1>4 DEF Withdraw, SameRows
<1>5. ASSUME NEW m \in submitted, CastVote(m) \/ OverrideStep(m), q # m.request
      PROVE  origin'[q] = origin[q] /\ SameRows(q)
  BY <1>5, DecisionOrdered, DecisionPends
<1>6. ASSUME NEW m \in submitted, CastVote(m) \/ OverrideStep(m), q = m.request
      PROVE  /\ origin'[q] = origin[q]
             /\ ~AllStepsCompleted(q)
             /\ \A s \in Steps : step[q][s] = "Rejected" => step'[q][s] = "Rejected"
  <2>1. status[q] = "Pending" /\ UNCHANGED origin
    BY <1>6, DecisionPends
  <2>2. ~AllStepsCompleted(q)
    BY <2>1, VerdictOnSteps DEF VerdictsReadOff, ReadOffAt
  <2>3. step[q][current[q]] = "Pending" /\ current[q] \in Steps
    BY <2>1 DEF RowsOK, LadderAt, LadderOf, TypeOK
  <2>4. PICK force \in BOOLEAN : Settles(q, m.result, Ballot(m), force)
    BY <1>6 DEF CastVote, OverrideStep
  <2>5. \A s \in Steps : s # current[q] => step'[q][s] = step[q][s]
    BY <2>3, <2>4 DEF Settles, Rejects, Advances, Approves, TypeOK
  <2> QED BY <2>1, <2>2, <2>3, <2>5
<1> QED BY <1>1, <1>2, <1>3, <1>4, <1>5, <1>6 DEF Next

\* What was shown of a file is still explained, unless this step shows a verdict.
LEMMA ShownKept ==
  ASSUME TypeOK, RowsOK, [Next]_vars, NEW e \in Files, ShownAt(e),
         file'[e] = file[e] \/ file'[e] \notin {"approved", "rejected"}
  PROVE  ShownAt(e)'
<1>1. \A r \in Requests : origin[r].entity = e =>
        /\ AllStepsCompleted(r) => origin'[r].entity = e /\ AllStepsCompleted(r)'
        /\ \A s \in Steps : step[r][s] = "Rejected" =>
             origin'[r].entity = e /\ step'[r][s] = "Rejected"
  <2> SUFFICES ASSUME NEW r \in Requests, origin[r].entity = e,
                      AllStepsCompleted(r) \/ \E s \in Steps : step[r][s] = "Rejected"
               PROVE  status[r] # "unused"
    BY StepsLast
  <2>1. ASSUME status[r] = "unused"
        PROVE  FALSE
    <3>1. total[r] = 0 /\ \A s \in Steps : step[r][s] = "none"
      BY <2>1, TemplatesOK DEF RowsOK, LadderAt, Steps
    <3> QED BY <2>1, <3>1, VerdictOnSteps DEF VerdictsReadOff, ReadOffAt
  <2> QED BY <2>1
<1> QED BY <1>1 DEF ShownAt

\* A request that is opened is about something that exists and has had no
\* effect; one that is approved at once has emptied the queue.
LEMMA OpenedReached ==
  ASSUME TypeOK, Typed, RowsOK, RowsOK', TypeOK', ReachOK, ThingsMove,
         NEW r \in Requests, NEW w \in Workflows, NEW e \in Entities,
         NEW u \in Users, NEW auto \in BOOLEAN, NEW cut \in 1 .. MaxSteps + 1,
         \/ Open(r, w, e, u, auto, cut)
         \/ \E old \in Requests : Supersede(old, r, w, e, u, auto, cut),
         UNCHANGED aiRuns, Known(e)',
         auto => e \in UseCases /\ queued'[e] = {}
  PROVE  \A q \in Requests : AboutAt(q)' /\ ReachedAt(q)'
<1>1. /\ status[r] = "unused" /\ status'[r] = OpenedStatus(auto)
      /\ InsertRows(r, w, e, u, auto, cut)
  BY DEF Open, Supersede, TypeOK
<1>2. \A q \in Requests \ {r} :
        /\ origin'[q] = origin[q]
        /\ \/ status'[q] = status[q]
           \/ status[q] # "unused" /\ status'[q] = "Withdrawn"
  BY <1>1 DEF Open, Supersede, InsertRows, TypeOK
<1>3. ASSUME NEW q \in Requests, q # r
      PROVE  AboutAt(q)' /\ ReachedAt(q)'
  <2>1. SameRows(q)
    BY <1>1, <1>3, InsertRowsOrdered
  <2> QED BY <1>2, <1>3, <2>1, RequestKept DEF ReachOK, Typed
<1>4. origin'[r].entity = e /\ (r \in autoApproved' => auto)
  BY <1>1 DEF InsertRows, TypeOK, RowsOK, LadderAt
<1>5. aiRuns'[r] = 0
  BY <1>1, VerdictOnSteps DEF ReachOK, ReachedAt, VerdictsReadOff, ReadOffAt
<1>6. ~auto => ~AllStepsCompleted(r)'
  <2>1. VerdictsReadOff'
    BY VerdictOnSteps, PTL
  <2> QED BY <1>1, <2>1 DEF OpenedStatus, VerdictsReadOff, ReadOffAt
<1>7. AboutAt(r)' /\ ReachedAt(r)'
  BY <1>1, <1>4, <1>5, <1>6, EntitiesOK DEF AboutAt, ReachedAt, OpenedStatus
<1> QED BY <1>3, <1>7
\* A decision reaches what the request is about, and nothing else.
LEMMA DecideReached ==
  ASSUME TypeOK, Typed, RowsOK, VerdictsReadOff', ReachOK, ThingsMove,
         [Next]_vars, NEW m \in submitted, Decide(m)
  PROVE  /\ \A q \in Requests : AboutAt(q)' /\ ReachedAt(q)'
         /\ \A x \in Files : ShownAt(x)'
<1>r. PICK r \in Requests : r = m.request
  BY DecisionPends DEF Decide
<1>e. PICK e : e = origin[r].entity
  OBVIOUS
<1>1. /\ r \in Requests /\ UNCHANGED origin
      /\ \A q \in Requests \ {r} : SameRows(q) /\ status'[q] = status[q]
      /\ status[r] = "Pending" /\ status'[r] \in {"Pending", "Approved", "Rejected"}
      /\ UNCHANGED autoApproved
  BY <1>r, DecisionPends, DecisionOrdered DEF Decide, CastVote, OverrideStep, Settles
<1>2. /\ Known(e) /\ ~AllStepsCompleted(r) /\ aiRuns[r] = 0
      /\ r \notin autoApproved
  BY <1>1, <1>e, VerdictOnSteps
  DEF ReachOK, AboutAt, ReachedAt, VerdictsReadOff, ReadOffAt, RowsOK, LadderAt, LadderOf
<1>3. /\ status'[r] = "Rejected" => RejectionReaches(e)
      /\ status'[r] = "Approved" => ApprovalReaches(r, e)
      /\ status'[r] = "Pending" => UNCHANGED <<stage, queued, linked, file, aiRuns>>
  BY <1>1, <1>r, <1>e DEF Decide
<1>v. /\ status'[r] = "Approved" => AllStepsCompleted(r)'
      /\ status'[r] # "Approved" => ~AllStepsCompleted(r)'
      /\ status'[r] = "Rejected" => \E s \in Steps : step'[r][s] = "Rejected"
  BY <1>1 DEF VerdictsReadOff, ReadOffAt
<1>4. ASSUME NEW q \in Requests, q # r
      PROVE  AboutAt(q)' /\ ReachedAt(q)'
  <2>1. aiRuns'[q] = aiRuns[q]
    BY <1>1, <1>3, <1>4 DEF RejectionReaches, ApprovalReaches, Typed, EntityTypeOK
  <2> QED BY <1>1, <1>4, <2>1, RequestKept DEF ReachOK, Typed
<1>5. AboutAt(r)' /\ ReachedAt(r)'
  <2>1. origin'[r].entity = e /\ origin[r].entity = e
    BY <1>1, <1>e
  <2>2. AboutAt(r)'
    <3>1. Known(e)'
      BY <1>2 DEF Known, ThingsMove, CaseMoves, FileMoves
    <3> QED BY <1>1, <1>2, <2>1, <3>1 DEF AboutAt
  <2>3. CASE status'[r] = "Pending"
    BY <1>1, <1>2, <1>3, <1>v, <2>1, <2>2, <2>3 DEF ReachedAt
  <2>4. CASE status'[r] = "Rejected"
    <3>1. e \in Files => file'[e] # "stored"
      BY <1>3, <2>4 DEF RejectionReaches, Typed, EntityTypeOK
    <3> QED BY <1>2, <1>3, <1>v, <2>1, <2>2, <2>4, <3>1 DEF ReachedAt, RejectionReaches
  <2>5. CASE status'[r] = "Approved"
    <3>1. /\ e \in UseCases => queued'[e] = {}
          /\ e \in Files => file'[e] # "stored"
      BY <1>3, <2>5 DEF ApprovalReaches, EndsApproval, Typed, EntityTypeOK
    <3>2. aiRuns'[r] = IF e \in AiActions THEN 1 ELSE 0
      BY <1>1, <1>2, <1>3, <2>5 DEF ApprovalReaches, Typed, EntityTypeOK
    <3> QED BY <1>v, <2>1, <2>2, <2>5, <3>1, <3>2 DEF ReachedAt
  <2> QED BY <1>1, <2>2, <2>3, <2>4, <2>5
<1>6. ASSUME NEW x \in Files
      PROVE  ShownAt(x)'
  <2>1. CASE file'[x] = file[x] \/ file'[x] \notin {"approved", "rejected"}
    BY <2>1, ShownKept DEF ReachOK
  <2>2. CASE x = e /\ file'[x] = "approved" /\ file'[x] # file[x]
    <3>1. status'[r] = "Approved"
      BY <1>1, <1>3, <2>2 DEF RejectionReaches, Typed, EntityTypeOK
    <3>2. origin'[r].entity = x
      BY <1>1, <1>e, <2>2
    <3> QED BY <1>1, <1>v, <2>2, <3>1, <3>2 DEF ShownAt
  <2>3. CASE x = e /\ file'[x] = "rejected" /\ file'[x] # file[x]
    <3>1. status'[r] = "Rejected"
      BY <1>1, <1>3, <2>3 DEF ApprovalReaches, Typed, EntityTypeOK
    <3>2. origin'[r].entity = x
      BY <1>1, <1>e, <2>3
    <3> QED BY <1>1, <1>v, <2>3, <3>1, <3>2 DEF ShownAt
  <2>4. x # e => file'[x] = file[x]
    BY <1>1, <1>3 DEF RejectionReaches, ApprovalReaches, Typed, EntityTypeOK
  <2> QED BY <2>1, <2>2, <2>3, <2>4
<1> QED BY <1>4, <1>5, <1>6
\* Every operation keeps ReachOK.  Only a decision shows a verdict on a file;
\* only an opening and a decision make a request Approved.
LEMMA ReachStep ==
  TypeOK /\ TypeOK' /\ Typed /\ RowsOK /\ RowsOK' /\ ReachOK /\ [ApprovalNext]_allVars => ReachOK'
<1> SUFFICES ASSUME TypeOK, TypeOK', Typed, RowsOK, RowsOK', ReachOK, [ApprovalNext]_allVars
             PROVE  ReachOK'
  OBVIOUS
<1>c. EntityTypeOK
  BY DEF Typed
<1>t. [Next]_vars /\ ThingsMove
  BY StepIsRequestStep, ThingsMoveStep DEF ReachOK
<1>v. VerdictsReadOff'
  BY VerdictOnSteps, PTL
<1>e. /\ \A w \in Workflows, k \in Nat : Eligible(w, k) \in BOOLEAN
      /\ \A w \in Workflows : Whole(w) \in 1 .. MaxSteps + 1
      /\ \A k \in Risks : k \in Nat
  BY TemplatesOK, EntitiesOK DEF Eligible, Whole, TypeOK, Template, Steps
<1>a. \A e \in UseCases : AbsentAt(e)'
  BY <1>t DEF ReachOK, AbsentAt, ThingsMove, CaseMoves
<1>s. ASSUME \A x \in Files : file'[x] = file[x] \/ file'[x] \notin {"approved", "rejected"}
      PROVE  \A x \in Files : ShownAt(x)'
  BY <1>s, <1>t, ShownKept DEF ReachOK
\* The two ways in which requests that are not decided change.
<1>k. ASSUME UNCHANGED <<origin, aiRuns>>,
             \A q \in Requests : /\ SameRows(q)
                                 /\ \/ status'[q] = status[q]
                                    \/ status[q] # "unused" /\ status'[q] = "Withdrawn",
             \A x \in Files : file'[x] = file[x] \/ file'[x] \notin {"approved", "rejected"}
      PROVE  ReachOK'
  BY <1>a, <1>c, <1>k, <1>s, <1>t, RequestKept DEF ReachOK
<1>o. ASSUME NEW r \in Requests, NEW w \in Workflows, NEW e \in Entities,
             NEW u \in Users, NEW auto \in BOOLEAN, NEW cut \in 1 .. MaxSteps + 1,
             \/ Open(r, w, e, u, auto, cut)
             \/ \E old \in Requests : Supersede(old, r, w, e, u, auto, cut),
             UNCHANGED aiRuns, Known(e)',
             auto => e \in UseCases /\ queued'[e] = {},
             \A x \in Files : file'[x] = file[x] \/ file'[x] \notin {"approved", "rejected"}
      PROVE  ReachOK'
  BY <1>a, <1>o, <1>s, <1>t, OpenedReached DEF ReachOK
<1>w. ASSUME NEW r \in Requests, Withdraw(r), UNCHANGED <<aiRuns, file>>
      PROVE  ReachOK'
  BY <1>k, <1>w DEF Withdraw, SameRows, TypeOK
<1>u. ASSUME UNCHANGED vars, UNCHANGED <<aiRuns, file>>
      PROVE  ReachOK'
  BY <1>k, <1>u DEF vars, requestVars, SameRows
<1>1. CASE Background /\ UNCHANGED entityVars
  <2>1. UNCHANGED origin
    BY <1>1 DEF Background, EditWorkflow, DeleteWorkflow, Submit, Elapse, ReadOverdue, CrashSweep,
                ClaimEscalation, NotifyEscalation, requestVars
  <2> QED BY <1>1, <1>k, <2>1, BackgroundKeepsRows DEF entityVars
<1>2. ASSUME NEW e \in UseCases, OnUseCase(e)
      PROVE  ReachOK'
  <2>1. ASSUME NEW r \in Requests, NEW w \in Workflows, NEW u \in Users, NEW k \in Risks,
               NEW fs \in SUBSET Frameworks, NEW cut \in 1 .. MaxSteps + 1,
               CreateReviewed(r, e, w, u, k, fs, cut)
        PROVE  ReachOK'
    <3>1. PICK auto \in BOOLEAN : auto = Eligible(w, k)
      BY <1>e
    <3>2. /\ Open(r, w, e, u, auto, cut)
          /\ UNCHANGED <<aiRuns, file>>
          /\ Known(e)'
          /\ auto => queued'[e] = {}
      BY <1>c, <2>1, <3>1 DEF CreateReviewed, Known, EntityTypeOK
    <3> QED BY <1>o, <3>2, CasesAreEntities
  <2>2. CASE DeleteUseCase(e)
    BY <1>u, <1>w, <2>2 DEF DeleteUseCase, PendingFor
  <2> QED BY <1>2, <1>u, <2>1, <2>2
      DEF OnUseCase, CreateFree, GoLive, Retire, MovesStage, BeginEdit, FindsNonePending
<1>3. CASE InProgress
  <2>1. ASSUME NEW d \in Editors, NEW k \in Risks, NEW r \in Requests, NEW w \in Workflows,
               NEW u \in Users, NEW cut \in 1 .. MaxSteps + 1,
               EditAttachesWorkflow(d, r, w, u, k, cut)
        PROVE  ReachOK'
    <3>1. PICK e \in UseCases : e = editor[d].useCase
      BY <2>1 DEF EditAttachesWorkflow, Saves, Typed
    <3>2. PICK auto \in BOOLEAN : auto = Eligible(w, k)
      BY <1>e
    <3>3. /\ \/ Open(r, w, e, u, auto, cut)
             \/ \E old \in Requests : Supersede(old, r, w, e, u, auto, cut)
          /\ UNCHANGED <<aiRuns, file>>
          /\ stage[e] # "absent"
      BY <2>1, <3>1, <3>2 DEF EditAttachesWorkflow, Saves, Exists, LifecycleStages, PendingFor
    <3>4. auto => queued'[e] = {}
      BY <1>c, <2>1, <3>1, <3>2 DEF EditAttachesWorkflow, EndsApproval, EntityTypeOK
    <3>5. Known(e)'
      BY <1>t, <3>3 DEF Known, ThingsMove, CaseMoves
    <3> QED BY <1>o, <3>3, <3>4, <3>5, CasesAreEntities
  <2>2. ASSUME NEW d \in Editors, NEW k \in Risks, EditClearsWorkflow(d, k)
        PROVE  ReachOK'
    BY <1>u, <1>w, <2>2 DEF EditClearsWorkflow, Saves, PendingFor
  <2> QED BY <1>3, <1>u, <2>1, <2>2
      DEF InProgress, EditKeepsWorkflow, EditAbandoned, LinkFramework, UnlinkFramework,
          ChangesLinks, Saves
<1>4. ASSUME NEW r \in Requests, NEW e \in Files, NEW w \in Workflows, NEW u \in Users,
             UploadFile(r, e, w, u)
      PROVE  ReachOK'
  <2>1. PICK cut \in 1 .. MaxSteps + 1 : cut = Whole(w)
    BY <1>e
  <2>2. /\ Open(r, w, e, u, FALSE, cut) /\ UNCHANGED aiRuns /\ Known(e)'
        /\ \A x \in Files : file'[x] = file[x] \/ file'[x] = "stored"
    BY <1>4, <1>c, <2>1 DEF UploadFile, EntityTypeOK, Known
  <2> QED BY <1>o, <2>2, CasesAreEntities
<1>5. ASSUME NEW e \in Files, UploadFree(e) \/ DeleteFile(e)
      PROVE  ReachOK'
  <2>1. UNCHANGED vars /\ UNCHANGED aiRuns
    BY <1>5 DEF UploadFree, DeleteFile
  <2>2. \A x \in Files : file'[x] = file[x] \/ file'[x] \in {"stored", "deleted"}
    BY <1>5, <1>c DEF UploadFree, DeleteFile, EntityTypeOK
  <2> QED BY <1>k, <2>1, <2>2 DEF vars, requestVars, SameRows
<1>6. ASSUME NEW r \in Requests, NEW w \in Workflows, NEW u \in Users,
             NEW cut \in 1 .. MaxSteps + 1, NEW e \in Entities,
             \/ e \in AiActions /\ ProposeAiAction(r, e, w, u, cut)
             \/ PostRequest(r, e, w, u, cut)
             \/ AgentRequest(r, e, w, u, cut)
      PROVE  ReachOK'
  <2>1. Known(e)'
    <3>1. Known(e)
      BY <1>6 DEF PostRequest, AgentRequest, Known
    <3> QED BY <1>t, <3>1 DEF Known, ThingsMove, CaseMoves, FileMoves
  <2>2. CASE PostRequest(r, e, w, u, cut)
    <3>1. PICK auto \in BOOLEAN : auto = (e \in UseCases /\ Eligible(w, risk[e]))
      OBVIOUS
    <3>2. /\ Open(r, w, e, u, auto, cut)
          /\ UNCHANGED <<aiRuns, file>>
          /\ auto => e \in UseCases /\ queued'[e] = {}
      BY <1>c, <2>2, <3>1 DEF PostRequest, EndsApproval, EntityTypeOK
    <3> QED BY <1>o, <2>1, <3>2
  <2>3. CASE (e \in AiActions /\ ProposeAiAction(r, e, w, u, cut)) \/ AgentRequest(r, e, w, u, cut)
    <3>1. Open(r, w, e, u, FALSE, cut) /\ UNCHANGED <<aiRuns, file>>
      BY <2>3 DEF ProposeAiAction, AgentRequest, entityVars
    <3> QED BY <1>o, <2>1, <3>1
  <2> QED BY <1>6, <2>2, <2>3
<1>7. ASSUME NEW m \in submitted, Decide(m)
      PROVE  ReachOK'
  BY <1>7, <1>a, <1>t, <1>v, DecideReached DEF ReachOK
<1>8. ASSUME NEW r \in Requests, WithdrawRequest(r)
      PROVE  ReachOK'
  BY <1>8, <1>w DEF WithdrawRequest
<1>9. CASE UNCHANGED allVars
  BY <1>9, <1>u DEF allVars, entityVars
<1> QED BY <1>1, <1>2, <1>3, <1>4, <1>5, <1>6, <1>7, <1>8, <1>9, CasesAreEntities
    DEF ApprovalNext

\* With no requests, things or queues there is nothing to explain.
LEMMA ReachInit == ApprovalInit => ReachOK
<1> SUFFICES ASSUME ApprovalInit PROVE ReachOK
  OBVIOUS
<1>1. \A r \in Requests : AboutAt(r) /\ ReachedAt(r)
  BY DEF ApprovalInit, Init, AboutAt, ReachedAt, AllStepsCompleted
<1>2. (\A e \in Files : ShownAt(e)) /\ \A e \in UseCases : AbsentAt(e)
  BY DEF ApprovalInit, ShownAt, AbsentAt
<1> QED BY <1>1, <1>2 DEF ReachOK

\* The rows in order and what was decided in its place, along every behaviour.
THEOREM ReachCorrect == ApprovalSpec => [](TypeOK /\ Typed /\ RowsOK /\ ReachOK)
<1>1. ApprovalSpec => [](TypeOK /\ RowsOK)
  BY ComposedImplements, RowsCorrect, PTL
<1> QED BY <1>1, ReachInit, ReachStep, TablesTyped, PTL DEF ApprovalSpec

\* What was decided has reached the use case, the file or the AI action it was
\* decided about, once, and nothing else has, whatever order decisions,
\* withdrawals, edits, uploads and deletions come in.
THEOREM VerdictsReach == ApprovalSpec => []VerdictReachesEntity
<1>1. ReachOK => VerdictReachesEntity
  BY DEF ReachOK, ReachedAt, ShownAt, VerdictReachesEntity
<1> QED BY <1>1, ReachCorrect, PTL

\* Queued frameworks are created by an approval of a request about their use
\* case or by clearing its workflow, and are not lost otherwise.
THEOREM QueueWaits == ApprovalSpec => QueueNeedsVerdict
<1>1. ASSUME TypeOK, Typed, RowsOK, ReachOK, [ApprovalNext]_allVars, NEW x \in UseCases,
             queued[x] # {}, queued'[x] # queued[x], stage'[x] # "deleted",
             attached'[x] # None
      PROVE  \E r \in Requests : /\ origin'[r].entity = x
                                 /\ status'[r] = "Approved" /\ status[r] # "Approved"
  <2>c. EntityTypeOK /\ stage[x] # "absent"
    BY <1>1 DEF Typed, ReachOK, AbsentAt
  <2>e. \A w \in Workflows, k \in Risks : Eligible(w, k) \in BOOLEAN
    BY DEF Eligible
  <2>o. ASSUME NEW r \in Requests, NEW w \in Workflows, NEW e \in Entities,
               NEW u \in Users, NEW cut \in 1 .. MaxSteps + 1, e = x,
               \/ Open(r, w, e, u, TRUE, cut)
               \/ \E old \in Requests : Supersede(old, r, w, e, u, TRUE, cut)
        PROVE  \E q \in Requests : /\ origin'[q].entity = x
                                   /\ status'[q] = "Approved" /\ status[q] # "Approved"
    <3>1. /\ status[r] = "unused" /\ status'[r] = OpenedStatus(TRUE)
          /\ InsertRows(r, w, e, u, TRUE, cut)
      BY <1>1, <2>o DEF Open, Supersede, TypeOK
    <3> QED BY <1>1, <2>o, <3>1 DEF OpenedStatus, InsertRows, TypeOK
  <2>1. CASE UNCHANGED queued
    BY <1>1, <2>1
  <2>2. ASSUME NEW e \in UseCases, OnUseCase(e), queued' # queued
        PROVE  FALSE
    BY <1>1, <2>2, <2>c DEF OnUseCase, CreateFree, CreateReviewed, DeleteUseCase, GoLive, Retire,
           MovesStage, BeginEdit, FindsNonePending, caseVars, EntityTypeOK
  <2>3. CASE InProgress
    <3>1. ASSUME NEW d \in Editors, NEW k \in Risks, NEW r \in Requests, NEW w \in Workflows,
                 NEW u \in Users, NEW cut \in 1 .. MaxSteps + 1,
                 EditAttachesWorkflow(d, r, w, u, k, cut)
          PROVE  \E q \in Requests : /\ origin'[q].entity = x
                                     /\ status'[q] = "Approved" /\ status[q] # "Approved"
      <4>1. PICK e \in UseCases : e = editor[d].useCase
        BY <1>1, <3>1 DEF EditAttachesWorkflow, Saves, Typed
      <4>2. Eligible(w, k) /\ EndsApproval(e)
        BY <1>1, <3>1, <4>1 DEF EditAttachesWorkflow
      <4>3. e = x
        BY <1>1, <2>c, <4>2 DEF EndsApproval, EntityTypeOK
      <4>4. Eligible(w, k) = TRUE
        BY <2>e, <4>2
      <4>5. \/ Open(r, w, e, u, TRUE, cut)
            \/ \E old \in Requests : Supersede(old, r, w, e, u, TRUE, cut)
        BY <3>1, <4>1, <4>4 DEF EditAttachesWorkflow, PendingFor
      <4> QED BY <2>o, <4>3, <4>5, CasesAreEntities
    <3>2. ASSUME NEW d \in Editors, NEW k \in Risks, EditClearsWorkflow(d, k)
          PROVE  FALSE
      <4>1. PICK e \in UseCases : e = editor[d].useCase
        BY <1>1, <3>2 DEF EditClearsWorkflow, Saves, Typed
      <4>2. e = x
        BY <1>1, <2>c, <3>2, <4>1 DEF EditClearsWorkflow, EndsApproval, EntityTypeOK
      <4> QED BY <1>1, <2>c, <3>2, <4>1, <4>2 DEF EditClearsWorkflow, Saves, EntityTypeOK
    <3> QED BY <2>1, <2>3, <3>1, <3>2
        DEF InProgress, EditKeepsWorkflow, EditAbandoned, LinkFramework, UnlinkFramework,
            ChangesLinks, caseVars
  <2>4. ASSUME NEW r \in Requests, NEW w \in Workflows, NEW u \in Users,
               NEW cut \in 1 .. MaxSteps + 1, NEW e \in Entities, PostRequest(r, e, w, u, cut)
        PROVE  \E q \in Requests : /\ origin'[q].entity = x
                                   /\ status'[q] = "Approved" /\ status[q] # "Approved"
    <3>1. PICK auto \in BOOLEAN : auto = (e \in UseCases /\ Eligible(w, risk[e]))
      OBVIOUS
    <3>2. auto /\ e \in UseCases /\ EndsApproval(e)
      BY <1>1, <2>4, <3>1 DEF PostRequest
    <3>3. e = x
      BY <1>1, <2>c, <3>2 DEF EndsApproval, EntityTypeOK
    <3>4. Open(r, w, e, u, TRUE, cut)
      BY <2>4, <3>1, <3>2 DEF PostRequest
    <3> QED BY <2>o, <3>3, <3>4
  <2>5. ASSUME NEW m \in submitted, Decide(m)
        PROVE  \E q \in Requests : /\ origin'[q].entity = x
                                   /\ status'[q] = "Approved" /\ status[q] # "Approved"
    <3>1. /\ m.request \in Requests /\ UNCHANGED origin
          /\ status[m.request] = "Pending"
      BY <1>1, <2>5, DecisionPends DEF Decide
    <3>2. status'[m.request] = "Approved" /\ ApprovalReaches(m.request, origin[m.request].entity)
      BY <1>1, <2>5 DEF Decide, RejectionReaches
    <3>3. origin[m.request].entity = x
      BY <1>1, <2>c, <3>2 DEF ApprovalReaches, EndsApproval, EntityTypeOK
    <3> QED BY <3>1, <3>2, <3>3
  <2> QED BY <1>1, <2>1, <2>2, <2>3, <2>4, <2>5, CasesAreEntities
      DEF ApprovalNext, entityVars, caseVars, allVars, UploadFile, UploadFree, DeleteFile,
          ProposeAiAction, AgentRequest, WithdrawRequest
<1>2. TypeOK /\ Typed /\ RowsOK /\ ReachOK /\ [ApprovalNext]_allVars =>
        \A e \in UseCases :
          (queued[e] # {} /\ queued'[e] # queued[e] /\ stage'[e] # "deleted") =>
            \/ attached'[e] = None
            \/ \E r \in Requests : /\ origin'[r].entity = e
                                  /\ status'[r] = "Approved" /\ status[r] # "Approved"
  BY <1>1
<1> QED BY <1>2, ReachCorrect, PTL DEF ApprovalSpec, QueueNeedsVerdict
=============================================================================
