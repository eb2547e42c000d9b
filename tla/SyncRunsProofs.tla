--------------------------- MODULE SyncRunsProofs ---------------------------
(* Proofs about SyncRuns, for any number of runners and any windows: its     *)
(* types, the one claim of the pair, the failures counted once, and that it  *)
(* implements ExclusiveClaim.                                                *)
(*                                                                           *)
(* OneClaim is not inductive: a run that claims must not have a started row  *)
(* of its own, and the run that closes a row must be of the kind the row     *)
(* says.  Coherent adds both.                                                *)
EXTENDS SyncRuns, FiniteSetTheorems, TLAPS

\* What a runner executes and what its row says agree.
Coherent ==
    \A r \in Runner :
        /\ task[r].phase = "claiming" => ~Started(r)
        /\ task[r].phase \in {"running", "writing"} /\ Started(r) =>
              rows[r].kind = task[r].kind

IInv == TypeOK /\ OneClaim /\ Coherent

-----------------------------------------------------------------------------
(* Typing lemmas: what the values are, and what the building blocks return   *)

LEMMA SmallerNat ==
    ASSUME NEW a \in Nat, NEW b \in Nat
    PROVE  Smaller(a, b) \in 0 .. b
BY DEF Smaller

LEMMA Bounds == MaxWait \in Nat /\ MaxExponent \in Nat /\ StaleAfter \in Nat
BY SyncAssumption DEF MaxWait, Larger

LEMMA FailuresTyped ==
    ASSUME NEW n \in 0 .. MaxExponent, NEW k \in Nat
    PROVE  Failures(n, k) \in 0 .. MaxExponent
BY Bounds, SmallerNat DEF Failures

\* Without new failures the streak stays as it is.
LEMMA NoFailures ==
    ASSUME NEW n \in 0 .. MaxExponent
    PROVE  Failures(n, 0) = n
BY Bounds DEF Failures, Smaller

LEMMA AbandonedCount == Cardinality(Abandoned) \in Nat
<1>1. Abandoned \subseteq Runner
  BY DEF Abandoned
<1>2. IsFiniteSet(Abandoned)
  BY <1>1, FS_Subset, SyncAssumption
<1> QED BY <1>2, FS_CardinalityType

LEMMA RowOfClosed ==
    ASSUME NEW st \in RunStatuses \ {"started"}
    PROVE  ClosedAs(st) \in Row /\ ClosedAs(st).status = st /\ ClosedAs(st).kind = "none"
BY DEF Row, ClosedAs

LEMMA RowOfClaim ==
    ASSUME NEW k \in Kinds
    PROVE  [status |-> "started", kind |-> k, beat |-> 0] \in Row
BY SyncAssumption DEF Row, StartedRow

LEMMA StartedTyped ==
    ASSUME NEW x \in Row, x.status = "started"
    PROVE  x \in StartedRow
BY DEF Row, ClosedAs

LEMMA BeatTyped ==
    ASSUME NEW x \in StartedRow, NEW b \in 0 .. (StaleAfter + 1)
    PROVE  /\ [x EXCEPT !.beat = b] \in Row
           /\ [x EXCEPT !.beat = b].status = "started"
           /\ [x EXCEPT !.beat = b].kind = x.kind
BY DEF Row, StartedRow

LEMMA TaskParts ==
    /\ Idle \in Task /\ Idle.phase = "idle"
    /\ \A p \in Phases, k \in Kinds :
          [phase |-> p, kind |-> k] \in Task
    /\ \A x \in Task : x.phase # "idle" => x \in [phase : Phases, kind : Kinds]
BY DEF Task, Idle, Phases

\* Closing stale rows closes some started rows as abandoned and leaves the others.
LEMMA SweptRows ==
    ASSUME NEW rs \in [Runner -> Row]
    PROVE  /\ Swept(rs) \in [Runner -> Row]
           /\ \A r \in Runner :
                 \/ Swept(rs)[r] = rs[r] /\ ~(rs[r].status = "started" /\ rs[r].beat > StaleAfter)
                 \/ /\ rs[r].status = "started" /\ rs[r].beat > StaleAfter
                    /\ Swept(rs)[r] = ClosedAs("abandoned")
<1>1. ClosedAs("abandoned") \in Row
  BY RowOfClosed DEF RunStatuses
<1> QED BY <1>1 DEF Swept

LEMMA JobParts ==
    /\ NoJob \in Job
    /\ \A k \in StatusKinds : NewJob(k) \in Job
BY DEF NoJob, NewJob, Job, JobStates, StatusKinds

LEMMA AddedTyped ==
    ASSUME NEW k \in StatusKinds, job \in Job
    PROVE  Added(k) \in Job
BY JobParts DEF Added

LEMMA EndsTyped ==
    ASSUME NEW r \in Runner, job \in Job, task \in [Runner -> Task], Ends(r)
    PROVE  job' \in Job /\ task' \in [Runner -> Task]
BY JobParts, TaskParts DEF Ends


-----------------------------------------------------------------------------
(* Types                                                                     *)

LEMMA ClaimsTyped ==
    ASSUME TypeOK, NEW r \in Runner, NEW k \in Kinds, Claims(r, k)
    PROVE  /\ rows' \in [Runner -> Row]
           /\ task' \in [Runner -> Task]
           /\ streak' \in 0 .. MaxExponent
           /\ since' \in 0 .. MaxWait
<1>1. Swept(rows) \in [Runner -> Row]
  BY SweptRows DEF TypeOK
<1>2. rows' \in [Runner -> Row]
  BY <1>1, RowOfClaim DEF Claims
<1>3. task' \in [Runner -> Task]
  BY TaskParts DEF Claims, TypeOK, Phases
<1>4. streak' \in 0 .. MaxExponent
  BY AbandonedCount, FailuresTyped DEF Claims, TypeOK
<1>5. since' \in 0 .. MaxWait
  BY Bounds DEF Claims, TypeOK
<1> QED BY <1>2, <1>3, <1>4, <1>5

LEMMA TypeStep ==
    ASSUME TypeOK, [Next]_vars
    PROVE  TypeOK'
<1> USE DEF TypeOK
<1>1. CASE Pass
  <2>1. ASSUME NEW r \in Runner, Started(r)
        PROVE  [rows[r] EXCEPT !.beat = Smaller(@ + 1, StaleAfter + 1)] \in Row
    <3>1. rows[r] \in StartedRow
      BY <2>1, StartedTyped DEF Started
    <3>2. rows[r].beat + 1 \in Nat /\ StaleAfter + 1 \in Nat
      BY <3>1, Bounds DEF StartedRow
    <3>3. Smaller(rows[r].beat + 1, StaleAfter + 1) \in 0 .. (StaleAfter + 1)
      BY <3>2, SmallerNat
    <3> QED BY <3>1, <3>3, BeatTyped
  <2>2. rows' \in [Runner -> Row]
    BY <1>1, <2>1 DEF Pass
  <2>3. since' \in 0 .. MaxWait
    BY <1>1, SmallerNat, Bounds DEF Pass
  <2> QED BY <1>1, <2>2, <2>3 DEF Pass
<1>2. ASSUME NEW on \in BOOLEAN, NEW hours \in Intervals, SaveSchedule(on, hours)
      PROVE  TypeOK'
  BY <1>2, SyncAssumption DEF SaveSchedule
<1>3. CASE Tick
  <2>1. CASE TickSweep
    <3>1. rows' \in [Runner -> Row]
      BY <2>1, SweptRows DEF TickSweep, TickSweeps
    <3>2. streak' \in 0 .. MaxExponent
      BY <2>1, AbandonedCount, FailuresTyped DEF TickSweep, TickSweeps
    <3> QED BY <2>1, <3>1, <3>2 DEF TickSweep, TickSweeps
  <2>2. CASE TickAdd
    <3>1. job' \in Job
      BY <2>2, AddedTyped DEF TickAdd, StatusKinds
    <3> QED BY <2>2, <3>1 DEF TickAdd
  <2>3. CASE TickSweepFails \/ TickDue \/ TickGivesUp
    BY <2>3 DEF TickSweepFails, TickDue, TickGivesUp
  <2> QED BY <1>3, <2>1, <2>2, <2>3 DEF Tick
<1>4. CASE Request
  <2>1. CASE ManualCheck
    BY <2>1, SyncAssumption DEF ManualCheck
  <2>2. CASE ManualAdd
    <3>1. job' \in Job
      BY <2>2, AddedTyped DEF ManualAdd, StatusKinds
    <3> QED BY <2>2, <3>1 DEF ManualAdd
  <2>3. CASE ManualGivesUp
    BY <2>3 DEF ManualGivesUp
  <2> QED BY <1>4, <2>1, <2>2, <2>3 DEF Request
<1>5. CASE JobStalls
  <2>1. job' \in Job
    BY <1>5, JobParts DEF JobStalls, Job, JobStates
  <2> QED BY <1>5, <2>1 DEF JobStalls
<1>6. ASSUME NEW r \in Runner, Step(r)
      PROVE  TypeOK'
  <2>1. CASE Pickup(r)
    <3>1. job' \in Job /\ job.kind \in StatusKinds
      BY <2>1 DEF Pickup, Job, JobStates
    <3>2. task' \in [Runner -> Task]
      BY <2>1, <3>1, TaskParts DEF Pickup, StatusKinds, Kinds, Phases
    <3> QED BY <2>1, <3>1, <3>2 DEF Pickup
  <2>2. CASE Claim(r)
    <3>1. task[r].kind \in Kinds
      BY <2>2, TaskParts DEF Claim
    <3> QED BY <2>2, <3>1, ClaimsTyped DEF Claim
  <2>3. CASE ClaimForOperation(r)
    <3>1. asked' \in 0 .. MaxRequests
      BY <2>3, SyncAssumption DEF ClaimForOperation
    <3> QED BY <2>3, <3>1, ClaimsTyped DEF ClaimForOperation, Kinds
  <2>4. CASE Refuse(r) \/ Superseded(r) \/ EndUnrecorded(r)
    BY <2>4, EndsTyped DEF Refuse, Superseded, EndUnrecorded
  <2>5. CASE Beat(r)
    <3>1. rows[r] \in StartedRow
      BY <2>5, StartedTyped DEF Beat, Hears, Started
    <3>2. [rows[r] EXCEPT !.beat = 0] \in Row
      BY <3>1, BeatTyped, Bounds
    <3>3. rows' \in [Runner -> Row]
      BY <2>5, <3>2 DEF Beat, Hears
    <3> QED BY <2>5, <3>3 DEF Beat
  <2>6. CASE Open(r) \/ CloseData(r)
    <3>1. task[r] \in [phase : Phases, kind : Kinds]
      BY <2>6, TaskParts DEF Open, CloseData
    <3>2. \A p \in Phases : [task[r] EXCEPT !.phase = p] \in Task
      BY <3>1 DEF Task
    <3>3. task' \in [Runner -> Task]
      BY <2>6, <3>2 DEF Open, CloseData, Phases
    <3> QED BY <2>6, <3>3 DEF Open, CloseData
  <2>7. CASE Finish(r) \/ FinishInData(r)
    <3>1. Completes(r) /\ Ends(r)
      BY <2>7 DEF Finish, FinishInData
    <3>2. rows' \in [Runner -> Row]
      BY <3>1, RowOfClosed DEF Completes, RunStatuses
    <3>3. streak' \in 0 .. MaxExponent
      BY <3>1, Bounds DEF Completes
    <3> QED BY <2>7, <3>1, <3>2, <3>3, EndsTyped DEF Finish, FinishInData
  <2>8. CASE Fail(r)
    <3>1. rows' \in [Runner -> Row]
      BY <2>8, RowOfClosed DEF Fail, Counts, RunStatuses
    <3>2. streak' \in 0 .. MaxExponent
      BY <2>8, FailuresTyped DEF Fail, Counts
    <3> QED BY <2>8, <3>1, <3>2, EndsTyped DEF Fail
  <2>9. CASE Release(r)
    <3>1. rows' \in [Runner -> Row]
      BY <2>9, RowOfClosed DEF Release, NoRow, RunStatuses
    <3> QED BY <2>9, <3>1, EndsTyped DEF Release
  <2>10. CASE Crash(r)
    <3>1. job' \in Job
      BY <2>10, JobParts DEF Crash, Job
    <3>2. task' \in [Runner -> Task]
      BY <2>10, TaskParts DEF Crash
    <3> QED BY <2>10, <3>1, <3>2 DEF Crash
  <2> QED BY <1>6, <2>1, <2>2, <2>3, <2>4, <2>5, <2>6, <2>7, <2>8, <2>9, <2>10
          DEF Step, Stops
<1>7. CASE UNCHANGED vars
  BY <1>7 DEF vars
<1> QED BY <1>1, <1>2, <1>3, <1>4, <1>5, <1>6, <1>7 DEF Next

LEMMA TypeInit == Init => TypeOK
<1> SUFFICES ASSUME Init PROVE TypeOK
  OBVIOUS
<1>1. NoRow \in Row
  BY RowOfClosed DEF NoRow, RunStatuses
<1>2. interval \in Intervals /\ since \in 0 .. MaxWait /\ asked \in 0 .. MaxRequests
  BY Bounds, SyncAssumption DEF Init
<1>3. streak \in 0 .. MaxExponent
  BY Bounds DEF Init
<1> QED BY <1>1, <1>2, <1>3, TaskParts, JobParts DEF Init, TypeOK

\* Every reachable state of the engine is well typed, whatever the number of
\* runners, the windows and the bounds.
THEOREM Typing == Spec => []TypeOK
<1> QED BY TypeInit, TypeStep, PTL DEF Spec


-----------------------------------------------------------------------------
(* One claim                                                                 *)

\* A step that starts no row, begins no execution that holds one, and leaves
\* no transaction open over a closed row keeps the claim in order.
LEMMA NoNewClaim ==
    ASSUME IInv,
           \A s \in Runner : rows'[s].status = "started" =>
               Started(s) /\ rows'[s].kind = rows[s].kind,
           \A s \in Runner : task'[s].phase = "claiming" => ~Started(s),
           \A s \in Runner : task'[s].phase \in {"running", "writing"} =>
               task[s].phase \in {"running", "writing"} /\ task'[s].kind = task[s].kind,
           \A s \in Runner : task'[s].phase = "writing" => rows'[s].status = "started"
    PROVE  OneClaim' /\ Coherent'
BY DEF IInv, OneClaim, Coherent, Started

\* An execution that ends and leaves the other runners' rows alone.
LEMMA EndKeepsClaim ==
    ASSUME IInv, NEW r \in Runner, Ends(r), NEW x \in Row,
           x.status # "started" \/ x = rows[r],
           rows' = [rows EXCEPT ![r] = x]
    PROVE  OneClaim' /\ Coherent'
<1>1. \A s \in Runner : rows'[s] = IF s = r THEN x ELSE rows[s]
  BY DEF IInv, TypeOK
<1>2. \A s \in Runner : task'[s] = IF s = r THEN Idle ELSE task[s]
  BY DEF Ends, IInv, TypeOK
<1>3. \A s \in Runner : rows'[s].status = "started" =>
         Started(s) /\ rows'[s].kind = rows[s].kind
  BY <1>1 DEF Started
<1>4. \A s \in Runner : task'[s].phase = "claiming" => ~Started(s)
  BY <1>2, TaskParts DEF IInv, Coherent
<1>5. \A s \in Runner : task'[s].phase \in {"running", "writing"} =>
         s # r /\ task'[s] = task[s]
  BY <1>2, TaskParts
<1>6. \A s \in Runner : task'[s].phase = "writing" => rows'[s].status = "started"
  BY <1>1, <1>5 DEF IInv, OneClaim, Started
<1> QED BY <1>3, <1>4, <1>5, <1>6, NoNewClaim

\* Only stale rows are closed by a sweep, and none of them is being written under.
LEMMA SweepKeepsOpen ==
    ASSUME IInv, Sweepable, NEW s \in Runner, task[s].phase = "writing"
    PROVE  Swept(rows)[s] = rows[s] /\ Started(s)
<1>1. Started(s)
  BY DEF IInv, OneClaim
<1>2. ~Stale(s)
  BY DEF Sweepable, ShareLocked
<1> QED BY <1>1, <1>2, SweptRows DEF IInv, TypeOK, Stale, Started

\* With no live run, a sweep leaves no started row.
LEMMA SweepEmpties ==
    ASSUME IInv, Claimable, NEW s \in Runner
    PROVE  Swept(rows)[s].status # "started"
<1>1. ~Live(s)
  BY DEF Claimable
<1>2. Started(s) => rows[s].beat > StaleAfter
  <2>1. ASSUME Started(s) PROVE rows[s].beat \in Nat
    BY <2>1, StartedTyped, Bounds DEF Started, IInv, TypeOK, StartedRow
  <2> QED BY <1>1, <2>1, Bounds DEF Live
<1> QED BY <1>2, SweptRows, RowOfClosed DEF IInv, TypeOK, Started, RunStatuses

LEMMA ClaimKeeps ==
    ASSUME IInv, NEW r \in Runner, NEW k \in Kinds, Claims(r, k)
    PROVE  OneClaim' /\ Coherent'
<1>1. \A s \in Runner : s # r => rows'[s] = Swept(rows)[s] /\ rows'[s].status # "started"
  BY SweepEmpties DEF Claims, Swept
<1>2. rows'[r].status = "started" /\ rows'[r].kind = k
  BY DEF Claims, Swept
<1>3. \A s \in Runner : task'[s] = IF s = r THEN [phase |-> "running", kind |-> k]
                                   ELSE task[s]
  BY DEF Claims, IInv, TypeOK
<1>4. \A s \in Runner : task'[s].phase = "writing" => FALSE
  <2> SUFFICES ASSUME NEW s \in Runner, task'[s].phase = "writing" PROVE FALSE
    OBVIOUS
  <2>1. s # r /\ task[s].phase = "writing"
    BY <1>3
  <2>2. Swept(rows)[s].status = "started"
    BY <2>1, SweepKeepsOpen DEF Claims, Started
  <2> QED BY <2>2, SweepEmpties DEF Claims
<1>5. OneClaim'
  BY <1>1, <1>2, <1>4 DEF OneClaim, Started
<1>6. Coherent'
  BY <1>1, <1>2, <1>3 DEF Coherent, Started
<1> QED BY <1>5, <1>6

LEMMA ClaimStep ==
    ASSUME IInv, [Next]_vars
    PROVE  OneClaim' /\ Coherent'
<1>t. /\ rows \in [Runner -> Row] /\ task \in [Runner -> Task]
      /\ \A s \in Runner : task[s].phase = "claiming" => ~Started(s)
      /\ \A s \in Runner : task[s].phase = "writing" => Started(s)
  BY DEF IInv, TypeOK, OneClaim, Coherent
<1>1. CASE Pass
  <2>1. \A s \in Runner : ~Started(s) => rows'[s] = rows[s]
    BY <1>1 DEF Pass
  <2>2. \A s \in Runner : Started(s) => rows'[s] =
           [rows[s] EXCEPT !.beat = Smaller(rows[s].beat + 1, StaleAfter + 1)]
    BY <1>1 DEF Pass
  <2>3. \A s \in Runner : Started(s) =>
           rows'[s].status = "started" /\ rows'[s].kind = rows[s].kind
    <3> SUFFICES ASSUME NEW s \in Runner, Started(s)
                 PROVE  rows'[s].status = "started" /\ rows'[s].kind = rows[s].kind
      OBVIOUS
    <3>1. rows[s] \in StartedRow
      BY <1>t, StartedTyped DEF Started
    <3>2. rows[s].status = "started"
      BY DEF Started
    <3> QED BY <2>2, <3>1, <3>2 DEF StartedRow
  <2>4. UNCHANGED task
    BY <1>1 DEF Pass
  <2>5. \A s \in Runner : rows'[s].status = "started" =>
           Started(s) /\ rows'[s].kind = rows[s].kind
    BY <2>1, <2>3 DEF Started
  <2> QED BY <1>t, <2>3, <2>4, <2>5, NoNewClaim DEF IInv, OneClaim, Coherent, Started
<1>2. CASE TickSweep
  <2>1. rows' = Swept(rows) /\ UNCHANGED task /\ Sweepable
    BY <1>2 DEF TickSweep, TickSweeps
  <2>2. \A s \in Runner : rows'[s].status = "started" => rows'[s] = rows[s]
    BY <1>t, <2>1, SweptRows, RowOfClosed DEF RunStatuses
  <2>3. \A s \in Runner : task[s].phase = "writing" => rows'[s].status = "started"
    BY <2>1, SweepKeepsOpen DEF Started
  <2> QED BY <1>t, <2>1, <2>2, <2>3, NoNewClaim DEF Started
<1>3. ASSUME NEW r \in Runner, Pickup(r)
      PROVE  OneClaim' /\ Coherent'
  <2>1. \A s \in Runner : s # r => task'[s] = task[s]
    BY <1>3, <1>t DEF Pickup
  <2>2. task'[r].phase = "claiming" /\ ~Started(r) /\ UNCHANGED rows
    BY <1>3, <1>t DEF Pickup, Ready
  <2> QED BY <1>t, <2>1, <2>2, NoNewClaim DEF Started
<1>4. ASSUME NEW r \in Runner, Claim(r)
      PROVE  OneClaim' /\ Coherent'
  <2>1. task[r].kind \in Kinds
    BY <1>4, <1>t, TaskParts DEF Claim
  <2> QED BY <1>4, <2>1, ClaimKeeps DEF Claim
<1>5. ASSUME NEW r \in Runner, ClaimForOperation(r)
      PROVE  OneClaim' /\ Coherent'
  BY <1>5, ClaimKeeps DEF ClaimForOperation, Kinds
<1>6. ASSUME NEW r \in Runner, Refuse(r) \/ Superseded(r) \/ EndUnrecorded(r)
      PROVE  OneClaim' /\ Coherent'
  <2>1. rows' = [rows EXCEPT ![r] = rows[r]] /\ Ends(r) /\ rows[r] \in Row
    BY <1>6, <1>t DEF Refuse, Superseded, EndUnrecorded
  <2> QED BY <2>1, EndKeepsClaim
<1>7. ASSUME NEW r \in Runner, Beat(r)
      PROVE  OneClaim' /\ Coherent'
  <2>1. rows[r] \in StartedRow /\ Started(r)
    BY <1>7, <1>t, StartedTyped DEF Beat, Hears, Started
  <2>2. rows'[r].status = "started" /\ rows'[r].kind = rows[r].kind
    BY <1>7, <1>t, <2>1 DEF Beat, Hears, StartedRow
  <2>3. \A s \in Runner : s # r => rows'[s] = rows[s]
    BY <1>7, <1>t DEF Beat, Hears
  <2>4. UNCHANGED task
    BY <1>7 DEF Beat
  <2> QED BY <1>t, <2>1, <2>2, <2>3, <2>4, NoNewClaim DEF Started
<1>8. ASSUME NEW r \in Runner, Open(r) \/ CloseData(r)
      PROVE  OneClaim' /\ Coherent'
  <2>1. \A s \in Runner : s # r => task'[s] = task[s]
    BY <1>8, <1>t DEF Open, CloseData
  <2>2. /\ task'[r].kind = task[r].kind
        /\ task'[r].phase \in {"running", "writing"}
        /\ task[r].phase \in {"running", "writing"}
    <3>1. task[r] \in [phase : Phases, kind : Kinds]
      BY <1>8, <1>t, TaskParts DEF Open, CloseData
    <3> QED BY <1>8, <1>t, <3>1 DEF Open, CloseData
  <2>3. UNCHANGED rows /\ (task'[r].phase = "writing" => Started(r))
    BY <1>8, <1>t DEF Open, CloseData, Owns
  <2> QED BY <1>t, <2>1, <2>2, <2>3, NoNewClaim DEF Started
<1>9. ASSUME NEW r \in Runner, Finish(r) \/ FinishInData(r) \/ Fail(r) \/ Release(r)
      PROVE  OneClaim' /\ Coherent'
  <2>1. PICK st \in RunStatuses \ {"started"} : rows' = [rows EXCEPT ![r] = ClosedAs(st)]
    BY <1>9 DEF Finish, FinishInData, Fail, Release, Completes, Counts, NoRow, RunStatuses
  <2>2. Ends(r)
    BY <1>9 DEF Finish, FinishInData, Fail, Release
  <2>3. ClosedAs(st) \in Row /\ ClosedAs(st).status # "started"
    BY RowOfClosed
  <2> QED BY <2>1, <2>2, <2>3, EndKeepsClaim
<1>10. ASSUME NEW r \in Runner, Crash(r)
       PROVE  OneClaim' /\ Coherent'
  <2>1. \A s \in Runner : task'[s] = IF s = r THEN Idle ELSE task[s]
    BY <1>10, <1>t DEF Crash
  <2>2. UNCHANGED rows
    BY <1>10 DEF Crash
  <2> QED BY <1>t, <2>1, <2>2, TaskParts, NoNewClaim DEF Started
<1>11. ASSUME UNCHANGED <<rows, task>>
       PROVE  OneClaim' /\ Coherent'
  BY <1>11, <1>t, NoNewClaim DEF Started
<1>12. CASE \/ \E on \in BOOLEAN, hours \in Intervals : SaveSchedule(on, hours)
            \/ TickSweepFails \/ TickDue \/ TickGivesUp \/ TickAdd
            \/ Request \/ JobStalls \/ UNCHANGED vars
  BY <1>11, <1>12 DEF SaveSchedule, TickSweepFails, TickDue, TickGivesUp, TickAdd,
     Request, ManualCheck, ManualAdd, ManualGivesUp, JobStalls, vars
<1> QED BY <1>1, <1>2, <1>3, <1>4, <1>5, <1>6, <1>7, <1>8, <1>9, <1>10, <1>12
        DEF Next, Tick, Step, Stops

LEMMA IInvInit == Init => IInv
<1> SUFFICES ASSUME Init PROVE IInv
  OBVIOUS
<1>1. \A r \in Runner : ~Started(r) /\ task[r].phase = "idle"
  BY TaskParts, RowOfClosed DEF Init, Started, NoRow, RunStatuses
<1> QED BY <1>1, TypeInit DEF IInv, OneClaim, Coherent

LEMMA IInvStep == IInv /\ [Next]_vars => IInv'
BY TypeStep, ClaimStep DEF IInv

LEMMA Inductive == Spec => []IInv
<1> QED BY IInvInit, IInvStep, PTL DEF Spec

\* However workers, requests and ticks interleave, die or are suspended, at
\* most one row of the pair is started, and a guarded data transaction is only
\* ever open under the started row of its own run.
THEOREM ClaimIsUnique == Spec => []OneClaim
<1>1. IInv => OneClaim
  BY DEF IInv
<1> QED BY <1>1, Inductive, PTL


-----------------------------------------------------------------------------
(* The contract                                                              *)

\* In a state in order the mapped claim is exactly what the rows say.
LEMMA View ==
    ASSUME NEW rs, NEW ts,
           \A r, s \in Runner : rs[r].status = "started" /\ rs[s].status = "started" => r = s,
           \A r \in Runner : ts[r].phase = "writing" => rs[r].status = "started"
    PROVE  /\ HolderOf(rs) \in Runner \cup {NoRunner}
           /\ WriterOf(ts) \in Runner \cup {NoRunner}
           /\ \A r \in Runner : rs[r].status = "started" <=> HolderOf(rs) = r
           /\ \A r \in Runner : ts[r].phase = "writing" <=> WriterOf(ts) = r
           /\ WriterOf(ts) \in {NoRunner, HolderOf(rs)}
           /\ HeardOf(rs) <=> \E r \in Runner : HolderOf(rs) = r /\ rs[r].beat <= StaleAfter
<1>1. /\ HolderOf(rs) \in Runner \cup {NoRunner}
      /\ \A r \in Runner : rs[r].status = "started" <=> HolderOf(rs) = r
  <2>1. CASE \E r \in Runner : rs[r].status = "started"
    <3>1. HolderOf(rs) \in Runner /\ rs[HolderOf(rs)].status = "started"
      BY <2>1 DEF HolderOf
    <3> QED BY <3>1
  <2>2. CASE ~\E r \in Runner : rs[r].status = "started"
    <3>1. HolderOf(rs) = NoRunner
      BY <2>2 DEF HolderOf
    <3> QED BY <2>2, <3>1, SyncAssumption
  <2> QED BY <2>1, <2>2
<1>2. /\ WriterOf(ts) \in Runner \cup {NoRunner}
      /\ \A r \in Runner : ts[r].phase = "writing" <=> WriterOf(ts) = r
  <2>1. CASE \E r \in Runner : ts[r].phase = "writing"
    <3>1. WriterOf(ts) \in Runner /\ ts[WriterOf(ts)].phase = "writing"
      BY <2>1 DEF WriterOf
    <3> QED BY <3>1
  <2>2. CASE ~\E r \in Runner : ts[r].phase = "writing"
    <3>1. WriterOf(ts) = NoRunner
      BY <2>2 DEF WriterOf
    <3> QED BY <2>2, <3>1, SyncAssumption
  <2> QED BY <2>1, <2>2
<1>3. WriterOf(ts) \in {NoRunner, HolderOf(rs)}
  BY <1>1, <1>2
<1> QED BY <1>1, <1>2, <1>3 DEF HeardOf

LEMMA ContractInit == Init => Contract!Init
<1> SUFFICES ASSUME Init PROVE Contract!Init
  OBVIOUS
<1>1. \A r \in Runner : rows[r].status # "started" /\ task[r].phase # "writing"
  BY TaskParts, RowOfClosed DEF Init, NoRow, RunStatuses
<1> QED BY <1>1 DEF Contract!Init, HolderOf, WriterOf, HeardOf

LEMMA ContractStep ==
    ASSUME IInv, IInv', [Next]_vars
    PROVE  [Contract!Next]_(Contract!vars)
<1> DEFINE h == HolderOf(rows)
           w == WriterOf(task)
           f == HeardOf(rows)
<1>v. /\ h \in Runner \cup {NoRunner}
      /\ w \in {NoRunner, h}
      /\ \A r \in Runner : Started(r) <=> h = r
      /\ \A r \in Runner : task[r].phase = "writing" <=> w = r
      /\ f <=> \E r \in Runner : h = r /\ rows[r].beat <= StaleAfter
  BY View DEF IInv, OneClaim, Started
<1>w. /\ h' \in Runner \cup {NoRunner}
      /\ w' \in {NoRunner, h'}
      /\ \A r \in Runner : rows'[r].status = "started" <=> h' = r
      /\ \A r \in Runner : task'[r].phase = "writing" <=> w' = r
      /\ f' <=> \E r \in Runner : h' = r /\ rows'[r].beat <= StaleAfter
  <2>1. /\ \A r, s \in Runner :
              rows'[r].status = "started" /\ rows'[s].status = "started" => r = s
        /\ \A r \in Runner : task'[r].phase = "writing" => rows'[r].status = "started"
    BY DEF IInv, OneClaim, Started
  <2> QED BY <2>1, View
<1>b. f \in BOOLEAN /\ f' \in BOOLEAN
  BY DEF HeardOf
<1>t. rows \in [Runner -> Row] /\ task \in [Runner -> Task]
  BY DEF IInv, TypeOK
<1>a. ASSUME \/ h' = h /\ w' = w /\ f' = f
             \/ \E r \in Runner : ~f /\ w = NoRunner /\ h' = r /\ f' = TRUE /\ w' = w
             \/ \E r \in Runner : h = r /\ w = NoRunner /\ w' = r /\ h' = h /\ f' = f
             \/ h # NoRunner /\ ~f /\ w = NoRunner /\ h' = NoRunner /\ w' = w /\ f' = f
             \/ h # NoRunner /\ f' = TRUE /\ h' = h /\ w' = w
             \/ f /\ f' = FALSE /\ h' = h /\ w' = w
             \/ w # NoRunner /\ w' = NoRunner /\ h' = h /\ f' = f
             \/ h # NoRunner /\ h' = NoRunner /\ w' = NoRunner /\ f' = FALSE
      PROVE  [Contract!Next]_(Contract!vars)
  BY <1>a DEF Contract!Next, Contract!vars, Contract!Take, Contract!Open, Contract!Close,
     Contract!Beat, Contract!Lapse, Contract!End, Contract!Settle
<1> HIDE DEF h, w, f
<1>n. NoRunner \notin Runner
  BY SyncAssumption
<1>k. ASSUME UNCHANGED rows PROVE h' = h /\ f' = f
  BY <1>k DEF h, f
\* Neither the rows nor the open transaction change.
<1>1. ASSUME UNCHANGED rows,
             \A r \in Runner : task'[r].phase = "writing" <=> task[r].phase = "writing"
      PROVE  [Contract!Next]_(Contract!vars)
  <2>1. h' = h /\ f' = f
    BY <1>1, <1>k
  <2>2. w' = w
    BY <1>1, <1>v, <1>w, <1>n
  <2> QED BY <1>a, <2>1, <2>2
<1>2. CASE Pass
  <2>1. UNCHANGED task /\ \A r \in Runner : rows'[r].status = rows[r].status
    <3>1. \A r \in Runner : Started(r) => rows[r] \in StartedRow
      BY <1>t, StartedTyped DEF Started
    <3> QED BY <1>2, <3>1 DEF Pass, StartedRow
  <2>2. h' = h
    BY <2>1, <1>v, <1>w, <1>n DEF Started
  <2>3. w' = w
    BY <2>1, <1>v, <1>w, <1>n
  <2>4. ASSUME f' PROVE f
    <3>1. PICK r \in Runner : h = r /\ rows'[r].beat <= StaleAfter
      BY <2>2, <2>4, <1>w
    <3>2. Started(r) /\ rows[r] \in StartedRow
      BY <3>1, <1>v, <1>t, StartedTyped DEF Started
    <3>3. rows[r].beat \in Nat /\ StaleAfter \in Nat
      BY <3>2, Bounds DEF StartedRow
    <3>4. rows'[r].beat = Smaller(rows[r].beat + 1, StaleAfter + 1)
      BY <1>2, <3>2 DEF Pass, StartedRow
    <3>5. rows[r].beat <= StaleAfter
      BY <3>1, <3>3, <3>4 DEF Smaller
    <3> QED BY <3>1, <3>5, <1>v
  <2> QED BY <2>2, <2>3, <2>4, <1>a, <1>b
\* A sweep that may run closes the claim of a lapsed holder, or nothing.
<1>3. ASSUME Sweepable
      PROVE  /\ f => \A r \in Runner : Swept(rows)[r] = rows[r]
             /\ ~f => \A r \in Runner : Swept(rows)[r].status # "started"
             /\ ~f => w = NoRunner
  <2>1. ASSUME f PROVE \A r \in Runner : Swept(rows)[r] = rows[r]
    <3> SUFFICES ASSUME NEW r \in Runner, Started(r), rows[r].beat > StaleAfter
                 PROVE  FALSE
      BY SweptRows, <1>t DEF Started
    <3>1. rows[r].beat <= StaleAfter
      BY <2>1, <1>v
    <3>2. rows[r].beat \in Nat /\ StaleAfter \in Nat
      BY <1>t, StartedTyped, Bounds DEF Started, StartedRow
    <3> QED BY <3>1, <3>2
  <2>2. ASSUME ~f PROVE Claimable
    BY <2>2, <1>v DEF Claimable, Live
  <2>3. ASSUME ~f PROVE \A r \in Runner : Swept(rows)[r].status # "started"
    BY <2>2, <2>3, SweepEmpties
  <2>4. ASSUME ~f PROVE w = NoRunner
    <3> SUFFICES ASSUME NEW r \in Runner, w = r PROVE FALSE
      BY <1>v
    <3>1. Swept(rows)[r].status = "started"
      BY <1>v, <1>3, SweepKeepsOpen DEF Started
    <3> QED BY <3>1, <2>3, <2>4
  <2> QED BY <2>1, <2>3, <2>4
<1>4. CASE TickSweep
  <2>1. rows' = Swept(rows) /\ UNCHANGED task /\ Sweepable
    BY <1>4 DEF TickSweep, TickSweeps
  <2>2. w' = w
    BY <2>1, <1>v, <1>w, <1>n
  <2>3. CASE f
    <3>1. \A r \in Runner : rows'[r] = rows[r]
      BY <2>1, <2>3, <1>3
    <3>2. h' = h /\ f' = f
      BY <3>1, <1>v, <1>w, <1>n, <1>b DEF Started
    <3> QED BY <2>2, <3>2, <1>a
  <2>4. CASE ~f
    <3>1. h' = NoRunner /\ ~f' /\ w = NoRunner
      BY <2>1, <2>4, <1>3, <1>w
    <3> QED BY <2>2, <2>4, <3>1, <1>a, <1>b
  <2> QED BY <2>3, <2>4
<1>5. ASSUME NEW r \in Runner, NEW k \in Kinds, Claims(r, k)
      PROVE  [Contract!Next]_(Contract!vars)
  <2>1. ~f /\ Sweepable
    BY <1>5, <1>v DEF Claims, Claimable, Live
  <2>2. rows'[r].status = "started" /\ rows'[r].beat = 0
    BY <1>5 DEF Claims, Swept
  <2>3. h' = r /\ f'
    BY <2>2, <1>w, Bounds
  <2>4. w = NoRunner
    BY <2>1, <1>3
  <2>5. w' = NoRunner
    <3>1. \A s \in Runner : task'[s].phase = "writing" => task[s].phase = "writing"
      BY <1>5, <1>t DEF Claims
    <3> QED BY <3>1, <2>4, <1>v, <1>w, <1>n
  <2> QED BY <2>1, <2>3, <2>4, <2>5, <1>a, <1>b
<1>6. ASSUME NEW r \in Runner, Beat(r)
      PROVE  [Contract!Next]_(Contract!vars)
  <2>1. Started(r) /\ UNCHANGED task
    BY <1>6 DEF Beat, Hears
  <2>2. rows[r] \in StartedRow
    BY <2>1, <1>t, StartedTyped DEF Started
  <2>3. rows'[r].status = "started" /\ rows'[r].beat = 0
    BY <1>6, <1>t, <2>2 DEF Beat, Hears, StartedRow
  <2>4. h = r /\ h' = r /\ f'
    BY <2>1, <2>3, <1>v, <1>w, Bounds
  <2>5. w' = w
    BY <2>1, <1>v, <1>w, <1>n
  <2> QED BY <2>4, <2>5, <1>a, <1>b, <1>n
<1>7. ASSUME NEW r \in Runner, Open(r)
      PROVE  [Contract!Next]_(Contract!vars)
  <2>1. h = r /\ task[r].phase # "writing" /\ UNCHANGED rows
    BY <1>7, <1>v DEF Open, Owns
  <2>2. task'[r].phase = "writing"
    <3>1. task[r] \in [phase : Phases, kind : Kinds]
      BY <1>7, <1>t, TaskParts DEF Open
    <3> QED BY <1>7, <1>t, <3>1 DEF Open
  <2>3. h' = h /\ f' = f
    BY <2>1, <1>k
  <2>4. w = NoRunner /\ w' = r
    BY <2>1, <2>2, <1>v, <1>w
  <2> QED BY <2>1, <2>3, <2>4, <1>a
\* The open transaction of a run ends, and its row stays as it is.
<1>8. ASSUME NEW r \in Runner, UNCHANGED rows, task'[r].phase # "writing",
             \A s \in Runner : s # r => task'[s] = task[s]
      PROVE  [Contract!Next]_(Contract!vars)
  <2>1. h' = h /\ f' = f
    BY <1>8, <1>k
  <2>2. w' = w \/ (w = r /\ w' = NoRunner)
    BY <1>8, <1>v, <1>w, <1>n
  <2> QED BY <2>1, <2>2, <1>a, <1>n
<1>9. ASSUME NEW r \in Runner, CloseData(r)
      PROVE  [Contract!Next]_(Contract!vars)
  <2>1. task[r] \in [phase : Phases, kind : Kinds]
    BY <1>9, <1>t, TaskParts DEF CloseData
  <2>2. task'[r].phase = "running"
    BY <1>9, <2>1, <1>t DEF CloseData
  <2> QED BY <1>8, <1>9, <2>2, <1>t DEF CloseData
<1>10. ASSUME NEW r \in Runner,
              Crash(r) \/ Refuse(r) \/ Superseded(r) \/ EndUnrecorded(r)
       PROVE  [Contract!Next]_(Contract!vars)
  <2>1. task'[r] = Idle /\ UNCHANGED rows
    BY <1>10, <1>t DEF Crash, Refuse, Superseded, EndUnrecorded, Ends
  <2>2. \A s \in Runner : s # r => task'[s] = task[s]
    BY <1>10, <1>t DEF Crash, Refuse, Superseded, EndUnrecorded, Ends
  <2> QED BY <2>1, <2>2, <1>8, TaskParts
\* A run closes its own row and ends.
<1>11. ASSUME NEW r \in Runner, Started(r), Ends(r), NEW st \in RunStatuses \ {"started"},
              rows' = [rows EXCEPT ![r] = ClosedAs(st)]
       PROVE  [Contract!Next]_(Contract!vars)
  <2>1. h = r
    BY <1>11, <1>v
  <2>2. \A s \in Runner : rows'[s].status # "started"
    BY <1>11, <1>t, <1>v, <2>1, RowOfClosed DEF Started
  <2>3. h' = NoRunner /\ w' = NoRunner /\ ~f'
    BY <2>2, <1>w
  <2> QED BY <2>1, <2>3, <1>a, <1>b, <1>n
<1>12. ASSUME NEW r \in Runner, Finish(r) \/ FinishInData(r) \/ Fail(r) \/ Release(r)
       PROVE  [Contract!Next]_(Contract!vars)
  <2>1. PICK st \in RunStatuses \ {"started"} : rows' = [rows EXCEPT ![r] = ClosedAs(st)]
    BY <1>12 DEF Finish, FinishInData, Fail, Release, Completes, Counts, NoRow, RunStatuses
  <2>2. Ends(r) /\ Started(r)
    BY <1>12 DEF Finish, FinishInData, Fail, Release, Completes, Counts
  <2> QED BY <2>1, <2>2, <1>11
<1>13. ASSUME NEW r \in Runner, Pickup(r)
       PROVE  [Contract!Next]_(Contract!vars)
  <2>1. task[r].phase # "writing" /\ task'[r].phase # "writing" /\ UNCHANGED rows
    BY <1>13, <1>t DEF Pickup, Ready
  <2> QED BY <1>8, <1>13, <2>1, <1>t DEF Pickup
<1>14. ASSUME NEW r \in Runner, Claim(r) \/ ClaimForOperation(r)
       PROVE  [Contract!Next]_(Contract!vars)
  <2>1. CASE Claim(r)
    <3>1. task[r].kind \in Kinds
      BY <2>1, <1>t, TaskParts DEF Claim
    <3> QED BY <2>1, <3>1, <1>5 DEF Claim
  <2>2. CASE ClaimForOperation(r)
    BY <2>2, <1>5 DEF ClaimForOperation, Kinds
  <2> QED BY <1>14, <2>1, <2>2
<1>15. CASE \/ \E on \in BOOLEAN, hours \in Intervals : SaveSchedule(on, hours)
            \/ TickSweepFails \/ TickDue \/ TickGivesUp \/ TickAdd
            \/ Request \/ JobStalls \/ UNCHANGED vars
  BY <1>1, <1>15 DEF SaveSchedule, TickSweepFails, TickDue, TickGivesUp, TickAdd,
     Request, ManualCheck, ManualAdd, ManualGivesUp, JobStalls, vars
<1> QED BY <1>2, <1>4, <1>6, <1>7, <1>9, <1>10, <1>12, <1>13, <1>14, <1>15
        DEF Next, Tick, Step, Stops

\* The engine keeps the promise of RunContext for any number of workers and
\* requests: every behaviour of SyncRuns is one of ExclusiveClaim.
THEOREM Refinement == Spec => ImplementsClaim
<1>1. Spec => Contract!Init /\ [][Contract!Next]_(Contract!vars)
  BY ContractInit, ContractStep, Inductive, PTL DEF Spec
<1> QED BY <1>1 DEF ImplementsClaim, Contract!Spec


-----------------------------------------------------------------------------
(* The streak                                                                *)

\* A step that closes no row and leaves the streak alone.
LEMMA NothingCloses ==
    ASSUME IInv, UNCHANGED streak,
           \A s \in Runner : rows'[s].status \in {rows[s].status, "none"},
           \A s \in Runner : rows[s].status \in Closed => rows'[s].status = rows[s].status
    PROVE  ClosedForGood /\ StreakFollows
<1>1. Failing = {} /\ Completing = {}
  BY DEF Failing, Completing, ClosesAs, Started
<1>2. Cardinality(Failing) = 0
  BY <1>1, FS_EmptySet
<1>3. streak' = Failures(streak, 0)
  BY NoFailures DEF IInv, TypeOK
<1> QED BY <1>1, <1>2, <1>3 DEF ClosedForGood, StreakFollows

\* A sweep, alone or as the beginning of a claim by a runner without a row.
LEMMA SweepCounts ==
    ASSUME IInv, streak' = Failures(streak, Cardinality(Abandoned)),
           NEW R,
           \A s \in Runner \ R : rows'[s] = Swept(rows)[s],
           \A s \in Runner \cap R : /\ ~Started(s) /\ rows'[s].status = "started"
                                    /\ task[s].phase \in {"claiming", "idle"}
    PROVE  ClosedForGood /\ StreakFollows
<1>1. \A s \in Runner \ R :
         \/ rows'[s] = rows[s] /\ ~Stale(s)
         \/ Stale(s) /\ rows'[s].status = "abandoned"
  BY SweptRows, RowOfClosed DEF IInv, TypeOK, Stale, Started, RunStatuses
<1>2. Failing = Abandoned
  BY <1>1 DEF Failing, Abandoned, ClosesAs, Started, Stale
<1>3. Completing = {}
  BY <1>1 DEF Completing, ClosesAs, Started, Stale
<1>4. ClosedForGood
  BY <1>1 DEF ClosedForGood, Closed, Stale, Started
<1> QED BY <1>2, <1>3, <1>4 DEF StreakFollows

\* A run closes its own started row.
LEMMA OwnClose ==
    ASSUME IInv, NEW r \in Runner, Started(r), NEW st \in RunStatuses \ {"started"},
           task[r].phase \in {"running", "writing"},
           rows' = [rows EXCEPT ![r] = ClosedAs(st)],
           streak' = IF st = "completed" /\ task[r].kind \in StatusKinds THEN 0
                     ELSE IF st = "failed" /\ task[r].kind = "scheduled"
                     THEN Failures(streak, 1) ELSE streak,
           st \in {"completed", "failed", "none"}
    PROVE  ClosedForGood /\ StreakFollows
<1>1. \A s \in Runner : rows'[s] = IF s = r THEN ClosedAs(st) ELSE rows[s]
  BY DEF IInv, TypeOK
<1>2. rows'[r].status = st /\ rows[r].kind = task[r].kind
  BY <1>1, RowOfClosed DEF IInv, Coherent
<1>3. ClosedForGood
  BY <1>1, <1>2 DEF ClosedForGood, Started, Closed
<1>4. Failing = IF st = "failed" /\ task[r].kind = "scheduled" THEN {r} ELSE {}
  BY <1>1, <1>2 DEF Failing, ClosesAs, Started
<1>5. Completing = IF st = "completed" /\ task[r].kind \in StatusKinds THEN {r} ELSE {}
  BY <1>1, <1>2 DEF Completing, ClosesAs, Started
<1>6. Cardinality({r}) = 1 /\ Cardinality({}) = 0
  BY FS_Singleton, FS_EmptySet
<1>7. Failures(streak, 0) = streak
  BY NoFailures DEF IInv, TypeOK
<1> QED BY <1>3, <1>4, <1>5, <1>6, <1>7 DEF StreakFollows

LEMMA OutcomeStep ==
    ASSUME IInv, [Next]_vars
    PROVE  [ClosedForGood /\ StreakFollows]_vars
<1>t. rows \in [Runner -> Row] /\ task \in [Runner -> Task]
  BY DEF IInv, TypeOK
<1>1. CASE Pass
  <2>1. \A s \in Runner : Started(s) => rows[s] \in StartedRow
    BY <1>t, StartedTyped DEF Started
  <2>2. \A s \in Runner : rows'[s].status = rows[s].status
    BY <1>1, <2>1 DEF Pass, StartedRow
  <2> QED BY <1>1, <2>2, NothingCloses DEF Pass
<1>2. CASE TickSweep
  <2>1. \A s \in Runner \ {} : rows'[s] = Swept(rows)[s]
    BY <1>2 DEF TickSweep, TickSweeps
  <2>2. streak' = Failures(streak, Cardinality(Abandoned))
    BY <1>2 DEF TickSweep, TickSweeps
  <2>3. \A s \in Runner \cap {} : /\ ~Started(s) /\ rows'[s].status = "started"
                                /\ task[s].phase \in {"claiming", "idle"}
    OBVIOUS
  <2>4. ClosedForGood /\ StreakFollows
    BY <2>1, <2>2, <2>3, SweepCounts
  <2> QED BY <2>4
<1>3. ASSUME NEW r \in Runner, NEW k \in Kinds, Claims(r, k), ~Started(r),
             task[r].phase \in {"claiming", "idle"}
      PROVE  ClosedForGood /\ StreakFollows
  <2>1. \A s \in Runner \ {r} : rows'[s] = Swept(rows)[s]
    BY <1>3 DEF Claims, Swept
  <2>2. rows'[r].status = "started"
    BY <1>3 DEF Claims, Swept
  <2>3. streak' = Failures(streak, Cardinality(Abandoned))
    BY <1>3 DEF Claims
  <2>4. \A s \in Runner \cap {r} : /\ ~Started(s) /\ rows'[s].status = "started"
                                 /\ task[s].phase \in {"claiming", "idle"}
    BY <1>3, <2>2
  <2> QED BY <2>1, <2>3, <2>4, SweepCounts
<1>4. ASSUME NEW r \in Runner, Claim(r) \/ ClaimForOperation(r)
      PROVE  ClosedForGood /\ StreakFollows
  <2>1. CASE Claim(r)
    <3>1. task[r].kind \in Kinds /\ task[r].phase = "claiming" /\ ~Started(r)
      BY <2>1, <1>t, TaskParts DEF Claim, IInv, Coherent
    <3> QED BY <2>1, <3>1, <1>3 DEF Claim
  <2>2. CASE ClaimForOperation(r)
    BY <2>2, <1>3 DEF ClaimForOperation, Ready, Kinds
  <2> QED BY <1>4, <2>1, <2>2
<1>5. ASSUME NEW r \in Runner, Beat(r)
      PROVE  ClosedForGood /\ StreakFollows
  <2>1. rows[r] \in StartedRow
    BY <1>5, <1>t, StartedTyped DEF Beat, Hears, Started
  <2>2. \A s \in Runner : rows'[s].status = rows[s].status
    BY <1>5, <1>t, <2>1 DEF Beat, Hears, StartedRow
  <2> QED BY <1>5, <2>2, NothingCloses DEF Beat
<1>6. ASSUME NEW r \in Runner, Finish(r) \/ FinishInData(r) \/ Fail(r) \/ Release(r)
      PROVE  ClosedForGood /\ StreakFollows
  <2>1. CASE Finish(r) \/ FinishInData(r)
    BY <2>1, OwnClose DEF Finish, FinishInData, Completes, RunStatuses
  <2>2. CASE Fail(r)
    BY <2>2, OwnClose DEF Fail, Counts, RunStatuses
  <2>3. CASE Release(r)
    BY <2>3, OwnClose DEF Release, NoRow, RunStatuses
  <2> QED BY <1>6, <2>1, <2>2, <2>3
<1>7. ASSUME UNCHANGED <<rows, streak>>
      PROVE  ClosedForGood /\ StreakFollows
  BY <1>7, NothingCloses
<1>8. CASE \/ \E on \in BOOLEAN, hours \in Intervals : SaveSchedule(on, hours)
           \/ TickSweepFails \/ TickDue \/ TickGivesUp \/ TickAdd
           \/ Request \/ JobStalls \/ UNCHANGED vars
           \/ \E r \in Runner : \/ Pickup(r) \/ Refuse(r) \/ Open(r) \/ CloseData(r)
                                \/ Superseded(r) \/ EndUnrecorded(r) \/ Crash(r)
  BY <1>7, <1>8 DEF SaveSchedule, TickSweepFails, TickDue, TickGivesUp, TickAdd,
     Request, ManualCheck, ManualAdd, ManualGivesUp, JobStalls, vars,
     Pickup, Refuse, Open, CloseData, Superseded, EndUnrecorded, Crash
<1> QED BY <1>1, <1>2, <1>4, <1>5, <1>6, <1>8 DEF Next, Tick, Step, Stops

\* The failures that delay the schedule are exactly the scheduled runs that
\* failed or were abandoned since the last success, each counted once, whoever
\* closed its row.
THEOREM StreakCountsOutcomes == Spec => OutcomesCountOnce
<1>1. IInv /\ [Next]_vars => [ClosedForGood /\ StreakFollows]_vars
  BY OutcomeStep
<1> QED BY <1>1, Inductive, PTL DEF Spec, OutcomesCountOnce

=============================================================================
