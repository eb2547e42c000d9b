--------------------------- MODULE PromisesProofs ---------------------------
(* What follows from the abstract specifications alone: the promises that    *)
(* whoever relies on a component may count on, without its tables, locks and *)
(* handlers.  With the refinements each holds of the component, too.         *)
EXTENDS Integers, TLAPS

CONSTANTS Requests, MaxSteps,
          Decision, Approval, Subject, Nothing,
          Runner, Nobody,
          Entry, Shortest

VARIABLES outcome, height, passed,
          decided, given, permits, made,
          holder, busy, fresh,
          log, spent, now

Stages == INSTANCE ApprovalStages
Permits == INSTANCE WritePermits
Claim == INSTANCE ExclusiveClaim
Log == INSTANCE AppendOnlyLog

-----------------------------------------------------------------------------
(* Requests: ApprovalStages                                                  *)

\* An open request has steps before it, a granted one has none left, and what
\* was passed is never a gap in what was asked.
InOrder(r) ==
  /\ outcome[r] = "none" => passed[r] = {}
  /\ outcome[r] = "open" => \E k \in 0 .. MaxSteps : k < height[r] /\ passed[r] = 1 .. k
  /\ outcome[r] = "granted" => passed[r] = 1 .. height[r]

StagesInOrder == \A r \in Requests : InOrder(r)

StagesTyped ==
  /\ outcome \in [Requests -> Stages!Outcomes]
  /\ height \in [Requests -> 0 .. MaxSteps]
  /\ passed \in [Requests -> SUBSET (1 .. MaxSteps)]

StagesInv == StagesTyped /\ StagesInOrder

\* Nothing is taken back: a step passed stays passed, and a request that is decided
\* or recalled is not opened again.
Forward(r) ==
  /\ passed[r] \subseteq passed'[r]
  /\ outcome[r] = "recalled" => outcome'[r] = "recalled"
  /\ outcome[r] \in {"granted", "denied"} => outcome'[r] \in {outcome[r], "recalled"}

StagesForward == \A r \in Requests : Forward(r)

\* What entering does to the steps.
Entered(r, opened) ==
  /\ height' \in [Requests -> 0 .. MaxSteps]
  /\ passed' \in [Requests -> SUBSET (1 .. MaxSteps)]
  /\ passed[r] = {}
  /\ opened = "open" => passed'[r] = 1 .. 0 /\ 0 < height'[r]
  /\ opened = "granted" => passed'[r] = 1 .. height'[r]
  /\ \A q \in Requests \ {r} : height'[q] = height[q] /\ passed'[q] = passed[q]

LEMMA EntersInOrder ==
  ASSUME MaxSteps \in Nat, StagesInv, NEW r \in Requests, NEW n \in 1 .. MaxSteps,
         NEW opened \in {"open", "granted"}, Stages!Enters(r, n, opened),
         outcome'[r] = opened
  PROVE  Entered(r, opened)
<1>1. height' \in [Requests -> 0 .. MaxSteps] /\ height'[r] = n
  BY DEF StagesInv, StagesTyped, Stages!Enters
<1>2. passed[r] = {} /\ 1 .. 0 = {}
  BY DEF StagesInv, StagesInOrder, InOrder, Stages!Enters
<1>3. passed' \in [Requests -> SUBSET (1 .. MaxSteps)]
  <2>1. 1 .. n \subseteq 1 .. MaxSteps
    OBVIOUS
  <2> QED BY <2>1 DEF StagesInv, StagesTyped, Stages!Enters
<1>4. \A q \in Requests \ {r} : height'[q] = height[q] /\ passed'[q] = passed[q]
  BY DEF StagesInv, StagesTyped, Stages!Enters
<1>5. /\ opened = "open" => passed'[r] = passed[r]
      /\ opened = "granted" => passed'[r] = 1 .. n
  BY DEF StagesInv, StagesTyped, Stages!Enters
<1> QED BY <1>1, <1>2, <1>3, <1>4, <1>5 DEF Entered

LEMMA StagesStep ==
  ASSUME MaxSteps \in Nat, StagesInv, [Stages!Next]_(Stages!stageVars)
  PROVE  StagesInv' /\ StagesForward
<1> USE DEF StagesInv, StagesTyped, StagesInOrder, InOrder, StagesForward, Forward,
            Stages!Outcomes
<1>1. ASSUME NEW r \in Requests, NEW n \in 1 .. MaxSteps, NEW opened \in {"open", "granted"},
             Stages!Enter(r, n, opened)
      PROVE  StagesInv' /\ StagesForward
  <2>1. Stages!Enters(r, n, opened) /\ outcome' = [outcome EXCEPT ![r] = opened]
        /\ outcome[r] = "none"
    BY <1>1 DEF Stages!Enter, Stages!Enters
  <2>2. outcome'[r] = opened /\ \A q \in Requests \ {r} : outcome'[q] = outcome[q]
    BY <2>1
  <2>3. outcome' \in [Requests -> Stages!Outcomes]
    BY <2>1
  <2>4. Entered(r, opened)
    BY <2>1, <2>2, EntersInOrder
  <2> HIDE DEF StagesInv, StagesTyped, StagesInOrder, InOrder, StagesForward, Forward
  <2>5. StagesTyped'
    BY <2>3, <2>4 DEF Entered, StagesTyped
  <2>6. \A q \in Requests : InOrder(q)' /\ Forward(q)
    <3> TAKE q \in Requests
    <3>1. CASE q = r
      <4>1. InOrder(r)'
        BY <2>2, <2>4, 0 \in 0 .. MaxSteps DEF Entered, InOrder
      <4>2. Forward(r)
        BY <2>1, <2>4 DEF Entered, Forward
      <4> QED BY <3>1, <4>1, <4>2
    <3>2. CASE q # r
      BY <2>1, <2>2, <2>4, <3>2 DEF Entered, InOrder, Forward, StagesInv, StagesInOrder
    <3> QED BY <3>1, <3>2
  <2> QED BY <2>5, <2>6 DEF StagesInv, StagesInOrder, StagesForward
<1>2. ASSUME NEW r \in Requests, NEW n \in 1 .. MaxSteps, NEW opened \in {"open", "granted"},
             NEW old \in Requests, Stages!Replace(old, r, n, opened)
      PROVE  StagesInv' /\ StagesForward
  <2>1. /\ Stages!Enters(r, n, opened)
        /\ outcome' = [outcome EXCEPT ![old] = "recalled", ![r] = opened]
        /\ outcome[r] = "none" /\ outcome[old] = "open"
    BY <1>2 DEF Stages!Replace, Stages!Enters
  <2>2. /\ outcome'[r] = opened /\ outcome'[old] = "recalled" /\ r # old
        /\ \A q \in Requests \ {r, old} : outcome'[q] = outcome[q]
    BY <2>1
  <2>3. outcome' \in [Requests -> Stages!Outcomes]
    BY <2>1
  <2>4. Entered(r, opened)
    BY <2>1, <2>2, EntersInOrder
  <2> HIDE DEF StagesInv, StagesTyped, StagesInOrder, InOrder, StagesForward, Forward
  <2>5. StagesTyped'
    BY <2>3, <2>4 DEF Entered, StagesTyped
  <2>6. \A q \in Requests : InOrder(q)' /\ Forward(q)
    <3> TAKE q \in Requests
    <3>1. CASE q = r
      <4>1. InOrder(r)'
        BY <2>2, <2>4, 0 \in 0 .. MaxSteps DEF Entered, InOrder
      <4>2. Forward(r)
        BY <2>1, <2>4 DEF Entered, Forward
      <4> QED BY <3>1, <4>1, <4>2
    <3>2. CASE q # r
      BY <2>1, <2>2, <2>4, <3>2 DEF Entered, InOrder, Forward, StagesInv, StagesInOrder
    <3> QED BY <3>1, <3>2
  <2> QED BY <2>5, <2>6 DEF StagesInv, StagesInOrder, StagesForward
<1>3. ASSUME NEW r \in Requests, NEW s \in 1 .. MaxSteps, Stages!Climb(r, s)
      PROVE  StagesInv' /\ StagesForward
  <2>1. 1 .. s - 1 \subseteq 1 .. s /\ 1 .. s \subseteq 1 .. MaxSteps /\ s \in 0 .. MaxSteps
    OBVIOUS
  <2> QED BY <1>3, <2>1 DEF Stages!Climb, Stages!Passes
<1>4. ASSUME NEW r \in Requests, NEW s \in 1 .. MaxSteps, Stages!Grant(r, s)
      PROVE  StagesInv' /\ StagesForward
  <2>1. 1 .. s - 1 \subseteq 1 .. s /\ 1 .. s \subseteq 1 .. MaxSteps
    OBVIOUS
  <2> QED BY <1>4, <2>1 DEF Stages!Grant, Stages!Passes
<1>5. ASSUME NEW r \in Requests, Stages!Deny(r) PROVE StagesInv' /\ StagesForward
  BY <1>5 DEF Stages!Deny
<1>6. ASSUME NEW r \in Requests, Stages!Recall(r) PROVE StagesInv' /\ StagesForward
  BY <1>6 DEF Stages!Recall
<1>7. CASE UNCHANGED Stages!stageVars
  BY <1>7 DEF Stages!stageVars
<1> QED BY <1>1, <1>2, <1>3, <1>4, <1>5, <1>6, <1>7 DEF Stages!Next

\* Of every request that keeps to ApprovalStages: granted means that all of its
\* steps were passed, one after the other; while it is open one is left; and
\* nothing that was passed or decided is taken back.
THEOREM GrantedInFull ==
  ASSUME MaxSteps \in Nat
  PROVE  Stages!Spec => []StagesInOrder /\ [][StagesForward]_(Stages!stageVars)
<1>1. Stages!Init => StagesInv
  BY DEF Stages!Init, StagesInv, StagesTyped, StagesInOrder, InOrder, Stages!Outcomes
<1>2. StagesInv /\ [Stages!Next]_(Stages!stageVars) => StagesInv' /\ [StagesForward]_(Stages!stageVars)
  BY StagesStep
<1>3. StagesInv => StagesInOrder
  BY DEF StagesInv
<1> QED BY <1>1, <1>2, <1>3, PTL DEF Stages!Spec

-----------------------------------------------------------------------------
(* Writes of the AI: WritePermits                                            *)

\* What was decided has been written once, or may be written once, or neither.
DecidedOnce ==
  /\ \A w, v \in made : w.decision = v.decision => w = v
  /\ \A w \in made, p \in permits : w.decision # p.decision

\* Nothing is written about a subject unless its approval was given.
SubjectsApproved == \A w \in made : w.subject # Nothing => w.approval \in given

PermitsInv ==
  /\ DecidedOnce
  /\ SubjectsApproved
  /\ \A p, q \in permits : p.decision = q.decision => p = q
  /\ \A p \in permits : p.approval \in given
  /\ \A x \in made \cup permits : x.decision \in decided

LEMMA PermitsStep ==
  ASSUME PermitsInv, [Permits!Next]_(Permits!vars)
  PROVE  PermitsInv'
<1> USE DEF PermitsInv, DecidedOnce, SubjectsApproved, Permits!Permit
<1>1. ASSUME NEW d \in Decision, NEW a \in Approval, NEW x \in Subject \cup {Nothing},
             Permits!Issue(d, a, x)
      PROVE  PermitsInv'
  BY <1>1 DEF Permits!Issue
<1>2. ASSUME NEW d \in Decision, NEW a \in Approval, Permits!LetThrough(d, a)
      PROVE  PermitsInv'
  BY <1>2 DEF Permits!LetThrough
<1>3. ASSUME NEW p \in permits, Permits!Use(p) PROVE PermitsInv'
  BY <1>3 DEF Permits!Use
<1>4. ASSUME NEW p \in permits, Permits!Lose(p) PROVE PermitsInv'
  BY <1>4 DEF Permits!Lose
<1>5. ASSUME NEW a \in Approval, Permits!Record(a) PROVE PermitsInv'
  BY <1>5 DEF Permits!Record
<1>6. ASSUME NEW d \in Decision, Permits!Abstain(d) PROVE PermitsInv'
  BY <1>6 DEF Permits!Abstain
<1>7. CASE UNCHANGED Permits!vars
  BY <1>7 DEF Permits!vars
<1> QED BY <1>1, <1>2, <1>3, <1>4, <1>5, <1>6, <1>7 DEF Permits!Next

\* Of every gateway that keeps to WritePermits: one decision makes one write at
\* most and cannot make it again later, and no subject is written to without
\* an approval that was given.
THEOREM PermitsSuffice == Permits!Spec => [](DecidedOnce /\ SubjectsApproved)
<1>1. Permits!Init => PermitsInv
  BY DEF Permits!Init, PermitsInv, DecidedOnce, SubjectsApproved
<1>2. PermitsInv /\ [Permits!Next]_(Permits!vars) => PermitsInv'
  BY PermitsStep
<1>3. PermitsInv => DecidedOnce /\ SubjectsApproved
  BY DEF PermitsInv
<1> QED BY <1>1, <1>2, <1>3, PTL DEF Permits!Spec

-----------------------------------------------------------------------------
(* Runs of the sync engine: ExclusiveClaim                                   *)

\* Whoever writes under the guard holds the claim, and still does when the guard
\* is lifted: nobody takes it over meanwhile.
GuardHolds == busy # Nobody => busy = holder

GuardKeeps == busy # Nobody /\ busy' = busy => holder' = holder

\* A claim passes from one run to another only through a window without a heartbeat.
TakenOverLate ==
  holder # Nobody /\ holder' \notin {holder, Nobody} => ~fresh /\ busy = Nobody

\* Of every engine that keeps to ExclusiveClaim: a guarded write belongs to the run
\* that holds the claim, from its first statement to its last, and a run that
\* is heard of is not displaced.
THEOREM ClaimGuards ==
  Claim!Spec => []GuardHolds /\ [][GuardKeeps /\ TakenOverLate]_(Claim!vars)
<1>1. Claim!Init => GuardHolds
  BY DEF Claim!Init, GuardHolds
<1>2. GuardHolds /\ [Claim!Next]_(Claim!vars)
        => GuardHolds' /\ [GuardKeeps /\ TakenOverLate]_(Claim!vars)
  BY DEF GuardHolds, GuardKeeps, TakenOverLate, Claim!Next, Claim!vars, Claim!Take,
         Claim!Open, Claim!Close, Claim!Beat, Claim!Lapse, Claim!End, Claim!Settle
<1> QED BY <1>1, <1>2, PTL DEF Claim!Spec

-----------------------------------------------------------------------------
(* The ledger: AppendOnlyLog                                                 *)

\* Nothing is recorded twice, and whatever is there was recorded.
RecordedOnce ==
  /\ \A i, j \in DOMAIN log : log[i].what = log[j].what => i = j
  /\ \A i \in DOMAIN log : log[i].what \in spent

\* An entry stays as it is where it is; and one that was removed, or was never
\* recorded when it could have been, is not recorded later.
NeverRewritten ==
  /\ \A i \in DOMAIN log \cap DOMAIN log' : log'[i] = log[i]
  /\ \A i \in DOMAIN log' : log'[i].what \in spent => i \in DOMAIN log

LEMMA LogStep ==
  ASSUME RecordedOnce, [Log!Next]_(Log!vars)
  PROVE  RecordedOnce' /\ NeverRewritten
<1> USE DEF RecordedOnce, NeverRewritten, Log!Positions
<1>1. ASSUME NEW e \in Entry, Log!Append(e) PROVE RecordedOnce' /\ NeverRewritten
  <2>1. PICK p \in DOMAIN log' \ DOMAIN log :
          /\ \A i \in DOMAIN log : i < p
          /\ log'[p].what = e
          /\ log' = [i \in DOMAIN log \cup {p} |-> IF i = p THEN log'[p] ELSE log[i]]
    BY <1>1 DEF Log!Append
  <2>2. e \notin spent /\ spent' = spent \cup {e}
    BY <1>1 DEF Log!Append
  <2>3. DOMAIN log' = DOMAIN log \cup {p} /\ \A i \in DOMAIN log \ {p} : log'[i] = log[i]
    BY <2>1
  <2> QED BY <2>1, <2>2, <2>3
<1>2. ASSUME NEW e \in Entry, Log!GiveUp(e) PROVE RecordedOnce' /\ NeverRewritten
  BY <1>2 DEF Log!GiveUp
<1>3. CASE Log!Prune
  BY <1>3 DEF Log!Prune
<1>4. CASE Log!Tick
  BY <1>4 DEF Log!Tick
<1>5. CASE UNCHANGED Log!vars
  BY <1>5 DEF Log!vars
<1> QED BY <1>1, <1>2, <1>3, <1>4, <1>5 DEF Log!Next

\* Of every ledger that keeps to AppendOnlyLog: no entry is recorded twice, changed,
\* moved, or brought back after it was removed.
THEOREM NothingRewritten ==
  Log!Spec => []RecordedOnce /\ [][NeverRewritten]_(Log!vars)
<1>1. Log!Init => RecordedOnce
  BY DEF Log!Init, Log!Positions, RecordedOnce
<1>2. RecordedOnce /\ [Log!Next]_(Log!vars) => RecordedOnce' /\ [NeverRewritten]_(Log!vars)
  BY LogStep
<1> QED BY <1>1, <1>2, PTL DEF Log!Spec
=============================================================================
