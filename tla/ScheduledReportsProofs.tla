----------------------- MODULE ScheduledReportsProofs -----------------------
(* Proofs about ScheduledReports, for any number of schedules, ticks and     *)
(* edits at once and any cadences that look forward: its types, that a slot  *)
(* is run at most once, and that a schedule waits for a slot of its cadence. *)
(*                                                                           *)
(* Neither is inductive.  What both rest on is that a slot that was read,    *)
(* claimed or run has passed (Past), while the slot a row stands at moves    *)
(* only forward, unless an edit came late (Ahead): so a claim that finds the *)
(* slot it read finds the cadence it read, and no run of that slot.          *)
EXTENDS ScheduledReports, TLAPS

\* What ticks have read, claimed and run are slots that have passed.
Past ==
  /\ \A r \in Runs : runs[r] # None => runs[r].slot <= now
  /\ \A w \in Ticks :
       /\ tick[w].began <= now
       /\ tick[w].job # None => tick[w].job.slot <= now
       /\ \A d \in tick[w].due : d.slot # 0 /\ d.slot <= tick[w].began

\* What ticks have claimed or run is behind the row, and what they have read is
\* not ahead of it; one that is level has read the row as it is.
Ahead ==
  \A s \in Schedules \ late :
     /\ \A r \in Runs :
          runs[r] # None /\ runs[r].schedule = s => runs[r].slot < next[s]
     /\ \A w \in Ticks :
          /\ tick[w].job # None /\ tick[w].job.schedule = s => tick[w].job.slot < next[s]
          /\ \A d \in tick[w].due : d.schedule = s =>
               /\ d.slot <= next[s]
               /\ d.slot = next[s] => d.cadence = cadence[s]

\* A run that is still to be inserted is of a slot nobody else runs.
Inserting(w) == tick[w].at = "inserts" /\ tick[w].job # None

Apart ==
  /\ \A w \in Ticks, r \in Runs :
       /\ Inserting(w) /\ tick[w].job.schedule \notin late
       /\ runs[r] # None /\ runs[r].schedule = tick[w].job.schedule
       => runs[r].slot # tick[w].job.slot
  /\ \A v, w \in Ticks :
       /\ v # w /\ Inserting(v) /\ Inserting(w)
       /\ tick[w].job.schedule \notin late
       /\ tick[v].job.schedule = tick[w].job.schedule
       => tick[v].job.slot # tick[w].job.slot

IInv == TypeOK /\ Past /\ Ahead /\ Apart /\ SlotRunsOnce /\ CadenceKept

-----------------------------------------------------------------------------
(* Types                                                                     *)

LEMMA IdleTyped == Idle \in Tick
BY CadenceAssumption DEF Idle, Tick, Times

LEMMA NextRunAhead ==
  ASSUME NEW c \in Cadences, NEW t \in Times
  PROVE  NextRun[c][t] \in Nat /\ NextRun[c][t] > t /\ NextRun[c][t] # 0
BY CadenceAssumption DEF Times

LEMMA TypeInit == Init => TypeOK
BY IdleTyped, CadenceAssumption DEF Init, TypeOK, Times

LEMMA TypeStep == TypeOK /\ [Next]_vars => TypeOK'
<1> SUFFICES ASSUME TypeOK, [Next]_vars PROVE TypeOK'
  OBVIOUS
<1> USE CadenceAssumption
<1>1. CASE Pass
  BY <1>1 DEF Pass, TypeOK, rowVars, Times
<1>2. ASSUME NEW s \in Schedules, Pause(s) \/ Resume(s) \/ Delete(s)
      PROVE  TypeOK'
  BY <1>2 DEF Pause, Resume, Delete, TypeOK
<1>3. ASSUME NEW s \in Schedules, NEW c \in Cadences, NEW t \in Times, Create(s, c, t)
      PROVE  TypeOK'
  BY <1>3, NextRunAhead DEF Create, TypeOK
<1>4. ASSUME NEW e \in Editors, BeginEdit(e) \/ EndEdit(e)
      PROVE  TypeOK'
  BY <1>4 DEF BeginEdit, EndEdit, TypeOK, rowVars
<1>5. ASSUME NEW e \in Editors, NEW s \in Schedules, NEW c \in Cadences,
             NEW t \in Times, Edit(e, s, c, t)
      PROVE  TypeOK'
  BY <1>5, NextRunAhead DEF Edit, TypeOK
<1>6. ASSUME NEW w \in Ticks, BeginTick(w)
      PROVE  TypeOK'
  <2>1. [Idle EXCEPT !.at = "selects", !.began = now] \in Tick
    BY DEF TypeOK, Idle, Tick
  <2> QED BY <1>6, <2>1 DEF BeginTick, TypeOK, rowVars
<1>7. ASSUME NEW w \in Ticks, FindDue(w)
      PROVE  TypeOK'
  <2> DEFINE D == {[schedule |-> s, slot |-> next[s], cadence |-> cadence[s]] :
                     s \in {x \in Schedules : IsDue(x, tick[w].began)}}
  <2>1. D \subseteq Reading
    BY DEF TypeOK, Reading
  <2>2. [tick EXCEPT ![w].at = "claims", ![w].due = D] \in [Ticks -> Tick]
    BY <2>1 DEF TypeOK, Tick
  <2> QED BY <1>7, <2>2 DEF FindDue, TypeOK, rowVars
<1>8. ASSUME NEW w \in Ticks, NEW d \in tick[w].due, Claim(w, d)
      PROVE  TypeOK'
  <2>1. d \in Reading /\ tick[w].began \in Times
    BY DEF TypeOK, Tick
  <2>2. NextRun[d.cadence][tick[w].began] \in Nat
    BY <2>1, NextRunAhead DEF Reading
  <2>3. [schedule |-> d.schedule, slot |-> d.slot] \in Job
    BY <2>1 DEF Reading, Job
  <2>4. tick' \in [Ticks -> Tick]
    BY <1>8, <2>3 DEF Claim, TypeOK, Tick
  <2> QED BY <1>8, <2>2, <2>4 DEF Claim, TypeOK
<1>9. ASSUME NEW w \in Ticks, NEW d \in tick[w].due, Skip(w, d)
      PROVE  TypeOK'
  BY <1>9 DEF Skip, TypeOK, Tick, rowVars
<1>10. ASSUME NEW w \in Ticks, EndTick(w) \/ Crash(w)
      PROVE  TypeOK'
  BY <1>10, IdleTyped DEF EndTick, Crash, TypeOK, rowVars
<1>11. ASSUME NEW w \in Ticks, InsertFails(w) \/ Finish(w)
      PROVE  TypeOK'
  <2>1. [tick EXCEPT ![w].at = "claims", ![w].job = None] \in [Ticks -> Tick]
    BY DEF TypeOK, Tick
  <2>2. tick' = [tick EXCEPT ![w].at = "claims", ![w].job = None]
    BY <1>11 DEF InsertFails, Finish, Returns
  <2> QED BY <1>11, <2>1, <2>2 DEF InsertFails, Finish, TypeOK, rowVars
<1>12. ASSUME NEW w \in Ticks, NEW r \in Runs, InsertRun(w, r)
      PROVE  TypeOK'
  BY <1>12 DEF InsertRun, TypeOK, Tick, rowVars
<1>13. CASE UNCHANGED vars
  BY <1>13 DEF vars, TypeOK
<1> QED
  BY <1>1, <1>2, <1>3, <1>4, <1>5, <1>6, <1>7, <1>8, <1>9, <1>10, <1>11, <1>12, <1>13
  DEF Next, People, Goes

\* Every reachable state is well typed.
THEOREM TypeCorrect == Spec => []TypeOK
BY TypeInit, TypeStep, PTL DEF Spec

-----------------------------------------------------------------------------
(* The slots                                                                 *)

LEMMA SlotInit == Init => Past /\ Ahead /\ Apart /\ SlotRunsOnce /\ CadenceKept
BY DEF Init, Past, Ahead, Apart, Inserting, SlotRunsOnce, CadenceKept, Made, Idle, Times

\* What the invariant speaks of stays, but for the clock.
LEMMA QuietStep ==
  ASSUME IInv, TypeOK', now' \in Nat, now <= now',
         UNCHANGED <<next, cadence, late, tick, runs>>
  PROVE  IInv'
<1>1. Past'
  <2>1. \A r \in Runs : runs[r] # None => runs[r].slot \in Nat
    BY DEF IInv, TypeOK, Job
  <2>2. \A w \in Ticks : tick[w].began \in Nat /\ (tick[w].job # None => tick[w].job.slot \in Nat)
    BY CadenceAssumption DEF IInv, TypeOK, Tick, Job, Times
  <2>3. now \in Nat
    BY DEF IInv, TypeOK, Times
  <2> QED BY <2>1, <2>2, <2>3 DEF IInv, Past
<1>2. Ahead' /\ Apart' /\ SlotRunsOnce' /\ CadenceKept'
  BY DEF IInv, Ahead, Apart, Inserting, SlotRunsOnce, CadenceKept, Made
<1> QED BY <1>1, <1>2 DEF IInv

\* A row gets a slot after everything that has passed, from the cadence it gets.
LEMMA RowStep ==
  ASSUME IInv, TypeOK', NEW s \in Schedules, NEW c \in Cadences, NEW t \in Times,
         next' = [next EXCEPT ![s] = NextRun[c][t]],
         cadence' = [cadence EXCEPT ![s] = c],
         late \subseteq late',
         s \notin late' => NextRun[c][t] > now \/ ~Made(s),
         UNCHANGED <<now, tick, runs>>
  PROVE  IInv'
<1>1. Past'
  BY DEF IInv, Past
<1>2. Ahead'
  <2> SUFFICES ASSUME NEW x \in Schedules \ late'
               PROVE  /\ \A r \in Runs :
                           runs[r] # None /\ runs[r].schedule = x => runs[r].slot < next'[x]
                      /\ \A w \in Ticks :
                           /\ tick[w].job # None /\ tick[w].job.schedule = x
                                => tick[w].job.slot < next'[x]
                           /\ \A d \in tick[w].due : d.schedule = x =>
                                /\ d.slot <= next'[x]
                                /\ d.slot = next'[x] => d.cadence = cadence'[x]
    BY DEF Ahead
  <2>1. CASE x # s
    BY <2>1 DEF IInv, TypeOK, Ahead
  <2>2. CASE x = s /\ NextRun[c][t] > now
    <3>1. next'[x] = NextRun[c][t] /\ next'[x] \in Nat /\ now \in Nat
      BY <2>2, NextRunAhead DEF IInv, TypeOK, Times
    <3>2. \A r \in Runs : runs[r] # None => runs[r].slot \in Nat /\ runs[r].slot <= now
      BY DEF IInv, TypeOK, Past, Job
    <3>3. \A w \in Ticks : tick[w].job # None => tick[w].job.slot \in Nat /\ tick[w].job.slot <= now
      BY DEF IInv, TypeOK, Past, Job, Tick
    <3>4. \A w \in Ticks : \A d \in tick[w].due : d.slot \in Nat /\ d.slot <= now
      <4>1. \A w \in Ticks : tick[w].began \in Nat /\ \A d \in tick[w].due : d.slot \in Nat
        BY CadenceAssumption DEF IInv, TypeOK, Tick, Reading, Times
      <4> QED BY <4>1, <3>1 DEF IInv, Past
    <3> QED BY <2>2, <3>1, <3>2, <3>3, <3>4
  <2>3. CASE x = s /\ ~Made(s)
    <3>1. s \in Schedules \ late /\ next[s] = 0
      BY <2>3 DEF Made
    <3>2. \A r \in Runs : ~(runs[r] # None /\ runs[r].schedule = s)
      BY <3>1 DEF IInv, Ahead, TypeOK, Job
    <3>3. \A w \in Ticks : ~(tick[w].job # None /\ tick[w].job.schedule = s)
      BY <3>1 DEF IInv, Ahead, TypeOK, Job, Tick
    <3>4. \A w \in Ticks : \A d \in tick[w].due : d.schedule # s
      <4>1. \A w \in Ticks : \A d \in tick[w].due : d.slot \in Nat /\ d.slot # 0
        BY DEF IInv, TypeOK, Tick, Reading, Past
      <4> QED BY <3>1, <4>1 DEF IInv, Ahead
    <3> QED BY <2>3, <3>2, <3>3, <3>4
  <2> QED BY <2>1, <2>2, <2>3
<1>3. Apart' /\ SlotRunsOnce'
  BY DEF IInv, Apart, Inserting, SlotRunsOnce
<1>4. CadenceKept'
  BY DEF IInv, TypeOK, CadenceKept, Made
<1> QED BY <1>1, <1>2, <1>3, <1>4 DEF IInv

\* A tick that reads nothing new and claims nothing, and ends its INSERT if it
\* was about to make one.
LEMMA TickStep ==
  ASSUME IInv, TypeOK', NEW w \in Ticks, NEW v \in Tick,
         tick' = [tick EXCEPT ![w] = v],
         v.due \subseteq tick[w].due, v.job = None \/ v.job = tick[w].job,
         v.at # "inserts",
         v.began = tick[w].began \/ (v.due = {} /\ v.began <= now),
         UNCHANGED <<now, next, cadence, late, runs>>
  PROVE  IInv'
<1>0. /\ tick'[w] = v
      /\ \A x \in Ticks : x # w => tick'[x] = tick[x]
  BY DEF IInv, TypeOK
<1>1. Past'
  BY <1>0 DEF IInv, Past
<1>2. Ahead'
  BY <1>0 DEF IInv, Ahead
<1>3. Apart'
  BY <1>0 DEF IInv, Apart, Inserting
<1>4. SlotRunsOnce' /\ CadenceKept'
  BY DEF IInv, SlotRunsOnce, CadenceKept, Made
<1> QED BY <1>1, <1>2, <1>3, <1>4 DEF IInv

\* What a tick reads now is level with the rows, and it has passed.
LEMMA FindDueStep ==
  ASSUME IInv, TypeOK', NEW w \in Ticks, FindDue(w)
  PROVE  IInv'
<1> DEFINE D == {[schedule |-> s, slot |-> next[s], cadence |-> cadence[s]] :
                   s \in {x \in Schedules : IsDue(x, tick[w].began)}}
<1>0. /\ tick'[w] = [tick[w] EXCEPT !.at = "claims", !.due = D]
      /\ \A x \in Ticks : x # w => tick'[x] = tick[x]
      /\ tick[w].at = "selects"
      /\ UNCHANGED <<now, next, cadence, late, runs>>
  BY DEF FindDue, IInv, TypeOK, rowVars
<1>1. /\ tick'[w].at = "claims" /\ tick'[w].due = D
      /\ tick'[w].job = tick[w].job /\ tick'[w].began = tick[w].began
  BY <1>0 DEF IInv, TypeOK, Tick
<1>2. \A d \in D : d.slot # 0 /\ d.slot <= tick[w].began
  BY DEF IsDue, Made
<1>3. \A d \in D : d.schedule \in Schedules /\ d.slot = next[d.schedule]
                   /\ d.cadence = cadence[d.schedule]
  OBVIOUS
<1> HIDE DEF D
<1>4. Past'
  BY <1>0, <1>1, <1>2 DEF IInv, Past
<1>5. Ahead'
  <2>1. \A x \in Ticks : tick'[x].job = tick[x].job
    BY <1>0, <1>1
  <2>2. \A x \in Ticks : \A d \in tick'[x].due :
          \/ d \in tick[x].due
          \/ d.slot = next[d.schedule] /\ d.cadence = cadence[d.schedule]
    BY <1>0, <1>1, <1>3
  <2>3. \A s \in Schedules : next[s] \in Nat
    BY DEF IInv, TypeOK
  <2>4. \A s \in Schedules \ late : \A x \in Ticks : \A d \in tick'[x].due :
          d.schedule = s => d.slot <= next[s] /\ (d.slot = next[s] => d.cadence = cadence[s])
    BY <2>2, <2>3 DEF IInv, Ahead
  <2>5. \A s \in Schedules \ late :
          /\ \A r \in Runs : runs[r] # None /\ runs[r].schedule = s => runs[r].slot < next[s]
          /\ \A x \in Ticks :
               tick'[x].job # None /\ tick'[x].job.schedule = s => tick'[x].job.slot < next[s]
    BY <2>1 DEF IInv, Ahead
  <2> QED BY <1>0, <2>4, <2>5 DEF Ahead
<1>6. Apart'
  <2>1. \A x \in Ticks : Inserting(x)' => Inserting(x) /\ tick'[x] = tick[x]
    BY <1>0, <1>1 DEF Inserting
  <2> QED BY <1>0, <2>1 DEF IInv, Apart
<1>7. SlotRunsOnce' /\ CadenceKept'
  BY <1>0 DEF IInv, SlotRunsOnce, CadenceKept, Made
<1> QED BY <1>4, <1>5, <1>6, <1>7 DEF IInv

\* A claim that succeeds: the slot that was read is the row's, so all else is
\* behind it, the cadence that was read is the row's, and the row moves on.
LEMMA ClaimStep ==
  ASSUME IInv, TypeOK', NEW w \in Ticks, NEW d \in tick[w].due, Claim(w, d)
  PROVE  IInv'
<1> DEFINE s == d.schedule
           b == tick[w].began
           n == NextRun[d.cadence][b]
<1>0. /\ d \in Reading /\ s \in Schedules /\ d.cadence \in Cadences /\ d.slot \in Nat
      /\ b \in Times /\ b \in Nat /\ now \in Nat
  <2>1. tick[w] \in Tick /\ now \in Times
    BY DEF IInv, TypeOK
  <2>2. b \in Times /\ d \in Reading
    BY <2>1 DEF Tick
  <2> QED BY <2>1, <2>2, CadenceAssumption DEF Reading, Times
<1>1. /\ next[s] = d.slot
      /\ next' = [next EXCEPT ![s] = n]
      /\ UNCHANGED <<now, cadence, late, runs>>
  BY DEF Claim, Matches
<1>2. /\ tick'[w].at = "inserts" /\ tick'[w].began = b
      /\ tick'[w].due = tick[w].due \ {d}
      /\ tick'[w].job = [schedule |-> s, slot |-> d.slot]
      /\ \A x \in Ticks : x # w => tick'[x] = tick[x]
  BY DEF Claim, IInv, TypeOK, Tick
<1>3. n \in Nat /\ d.slot <= b /\ b <= now /\ d.slot < n
  <2>1. n \in Nat /\ n > b
    BY <1>0, NextRunAhead
  <2>2. d.slot <= b /\ b <= now
    BY DEF IInv, Past
  <2> QED BY <1>0, <2>1, <2>2
<1>4. /\ tick'[w].job.schedule = s /\ tick'[w].job.slot = d.slot
      /\ next'[s] = n
      /\ \A x \in Schedules : x # s => next'[x] = next[x]
  BY <1>0, <1>1, <1>2 DEF IInv, TypeOK
<1>5. s \notin late => d.cadence = cadence[s]
  BY <1>0, <1>1 DEF IInv, Ahead
<1> HIDE DEF n, s, b
<1>6. Past'
  <2>1. \A x \in Ticks : tick'[x].began = tick[x].began /\ tick'[x].due \subseteq tick[x].due
    BY <1>2 DEF b
  <2>2. tick'[w].job.slot <= now
    BY <1>0, <1>3, <1>4
  <2>3. \A x \in Ticks : tick'[x].job # None => tick'[x].job.slot <= now
    BY <1>2, <2>2 DEF IInv, Past
  <2> QED BY <1>1, <2>1, <2>3 DEF IInv, Past
<1>7. Ahead'
  <2> SUFFICES ASSUME NEW x \in Schedules \ late
               PROVE  /\ \A r \in Runs :
                           runs[r] # None /\ runs[r].schedule = x => runs[r].slot < next'[x]
                      /\ \A v \in Ticks :
                           /\ tick'[v].job # None /\ tick'[v].job.schedule = x
                                => tick'[v].job.slot < next'[x]
                           /\ \A e \in tick'[v].due : e.schedule = x =>
                                /\ e.slot <= next'[x]
                                /\ e.slot = next'[x] => e.cadence = cadence'[x]
    BY <1>1 DEF Ahead
  <2>1. next[x] \in Nat /\ next'[x] \in Nat /\ next[x] <= next'[x]
        /\ (x = s => next[x] < next'[x])
    BY <1>0, <1>1, <1>3, <1>4 DEF IInv, TypeOK
  <2>2. ASSUME NEW r \in Runs, runs[r] # None, runs[r].schedule = x
        PROVE  runs[r].slot < next'[x]
    <3>1. runs[r].slot \in Nat /\ runs[r].slot < next[x]
      BY <2>2 DEF IInv, TypeOK, Job, Ahead
    <3> QED BY <2>1, <3>1
  <2>3. ASSUME NEW v \in Ticks, tick'[v].job # None, tick'[v].job.schedule = x
        PROVE  tick'[v].job.slot < next'[x]
    <3>1. CASE v = w
      BY <1>3, <1>4, <2>3, <3>1
    <3>2. CASE v # w
      <4>1. tick'[v] = tick[v]
        BY <1>2, <3>2
      <4>2. tick[v].job.slot \in Nat /\ tick[v].job.slot < next[x]
        BY <2>3, <4>1 DEF IInv, TypeOK, Tick, Job, Ahead
      <4> QED BY <2>1, <4>1, <4>2
    <3> QED BY <3>1, <3>2
  <2>4. ASSUME NEW v \in Ticks, NEW e \in tick'[v].due, e.schedule = x
        PROVE  e.slot <= next'[x] /\ (e.slot = next'[x] => e.cadence = cadence'[x])
    <3>1. e \in tick[v].due
      BY <1>2
    <3>2. e.slot \in Nat /\ e.slot <= next[x] /\ (e.slot = next[x] => e.cadence = cadence[x])
      BY <2>4, <3>1 DEF IInv, TypeOK, Tick, Reading, Ahead
    <3>3. x # s => next'[x] = next[x]
      BY <1>4
    <3> QED BY <1>1, <2>1, <3>2, <3>3
  <2> QED BY <2>2, <2>3, <2>4
<1>8. Apart'
  <2>1. ASSUME NEW r \in Runs, s \notin late, runs[r] # None, runs[r].schedule = s
        PROVE  runs[r].slot # d.slot
    <3>1. runs[r].slot \in Nat /\ runs[r].slot < next[s]
      BY <1>0, <2>1 DEF IInv, TypeOK, Job, Ahead, s
    <3> QED BY <1>0, <1>1, <3>1
  <2>2. ASSUME NEW v \in Ticks, s \notin late, tick[v].job # None, tick[v].job.schedule = s
        PROVE  tick[v].job.slot # d.slot
    <3>1. tick[v].job.slot \in Nat /\ tick[v].job.slot < next[s]
      BY <1>0, <2>2 DEF IInv, TypeOK, Tick, Job, Ahead, s
    <3> QED BY <1>0, <1>1, <3>1
  <2>3. ASSUME NEW v \in Ticks, NEW r \in Runs, Inserting(v)', tick'[v].job.schedule \notin late,
               runs[r] # None, runs[r].schedule = tick'[v].job.schedule
        PROVE  runs[r].slot # tick'[v].job.slot
    <3>1. CASE v = w
      BY <1>4, <2>1, <2>3, <3>1
    <3>2. CASE v # w
      <4>1. tick'[v] = tick[v]
        BY <1>2, <3>2
      <4> QED BY <2>3, <4>1 DEF IInv, Apart, Inserting
    <3> QED BY <3>1, <3>2
  <2>4. ASSUME NEW u \in Ticks, NEW v \in Ticks, u # v, Inserting(u)', Inserting(v)',
               tick'[v].job.schedule \notin late, tick'[u].job.schedule = tick'[v].job.schedule
        PROVE  tick'[u].job.slot # tick'[v].job.slot
    <3>1. CASE u = w
      <4>1. tick'[v] = tick[v]
        BY <1>2, <2>4, <3>1
      <4> QED BY <1>4, <2>2, <2>4, <3>1, <4>1 DEF Inserting
    <3>2. CASE v = w
      <4>1. tick'[u] = tick[u]
        BY <1>2, <2>4, <3>2
      <4> QED BY <1>4, <2>2, <2>4, <3>2, <4>1 DEF Inserting
    <3>3. CASE u # w /\ v # w
      <4>1. tick'[u] = tick[u] /\ tick'[v] = tick[v]
        BY <1>2, <3>3
      <4> QED BY <2>4, <4>1 DEF IInv, Apart, Inserting
    <3> QED BY <3>1, <3>2, <3>3
  <2> QED BY <1>1, <2>3, <2>4 DEF Apart
<1>9. SlotRunsOnce'
  BY <1>1 DEF IInv, SlotRunsOnce
<1>10. CadenceKept'
  <2> SUFFICES ASSUME NEW x \in Schedules, next'[x] # 0, x \notin late
               PROVE  \E t \in Times : next'[x] = NextRun[cadence[x]][t]
    BY <1>1 DEF CadenceKept, Made
  <2>1. CASE x = s
    BY <1>0, <1>4, <1>5, <2>1 DEF n
  <2>2. CASE x # s
    BY <1>4, <2>2 DEF IInv, CadenceKept, Made
  <2> QED BY <2>1, <2>2
<1> QED BY <1>6, <1>7, <1>8, <1>9, <1>10 DEF IInv

\* The run that is inserted is the claimed one, which was apart from all others.
LEMMA InsertStep ==
  ASSUME IInv, TypeOK', NEW w \in Ticks, NEW r \in Runs, InsertRun(w, r)
  PROVE  IInv'
<1>0. /\ tick[w].at = "inserts" /\ runs[r] = None
      /\ runs'[r] = tick[w].job
      /\ \A x \in Runs : x # r => runs'[x] = runs[x]
      /\ UNCHANGED <<now, next, cadence, late>>
  BY DEF InsertRun, IInv, TypeOK, rowVars
<1>1. /\ tick'[w].at = "runs" /\ tick'[w].began = tick[w].began
      /\ tick'[w].due = tick[w].due /\ tick'[w].job = tick[w].job
      /\ \A x \in Ticks : x # w => tick'[x] = tick[x]
  BY DEF InsertRun, IInv, TypeOK, Tick
<1>2. \A x \in Ticks : /\ tick'[x].began = tick[x].began /\ tick'[x].due = tick[x].due
                       /\ tick'[x].job = tick[x].job
  BY <1>1
<1>3. Past'
  <2>1. \A x \in Runs : runs'[x] # None => runs'[x].slot <= now
    BY <1>0 DEF IInv, Past
  <2> QED BY <1>0, <1>2, <2>1 DEF IInv, Past
<1>4. Ahead'
  <2>1. \A s \in Schedules \ late : \A x \in Runs :
          runs'[x] # None /\ runs'[x].schedule = s => runs'[x].slot < next[s]
    BY <1>0 DEF IInv, Ahead
  <2> QED BY <1>0, <1>2, <2>1 DEF IInv, Ahead
<1>5. \A x \in Ticks : Inserting(x)' => x # w /\ Inserting(x) /\ tick'[x] = tick[x]
  BY <1>1 DEF Inserting
<1>6. Apart'
  <2>1. ASSUME NEW v \in Ticks, NEW x \in Runs, Inserting(v)', tick'[v].job.schedule \notin late,
               runs'[x] # None, runs'[x].schedule = tick'[v].job.schedule
        PROVE  runs'[x].slot # tick'[v].job.slot
    <3>1. v # w /\ Inserting(v) /\ tick'[v] = tick[v]
      BY <1>5, <2>1
    <3>2. CASE x = r
      <4>1. Inserting(w) /\ runs'[x] = tick[w].job
        BY <1>0, <2>1, <3>2 DEF Inserting
      <4> QED BY <2>1, <3>1, <4>1 DEF IInv, Apart
    <3>3. CASE x # r
      BY <1>0, <2>1, <3>1, <3>3 DEF IInv, Apart
    <3> QED BY <3>2, <3>3
  <2>2. ASSUME NEW u \in Ticks, NEW v \in Ticks, u # v, Inserting(u)', Inserting(v)',
               tick'[v].job.schedule \notin late, tick'[u].job.schedule = tick'[v].job.schedule
        PROVE  tick'[u].job.slot # tick'[v].job.slot
    BY <1>5, <2>2 DEF IInv, Apart
  <2> QED BY <1>0, <2>1, <2>2 DEF Apart
<1>7. SlotRunsOnce'
  <2>1. ASSUME NEW x \in Runs, x # r, runs[x] # None, tick[w].job # None,
               runs[x].schedule = tick[w].job.schedule, runs[x].slot = tick[w].job.slot
        PROVE  tick[w].job.schedule \in late
    BY <1>0, <2>1 DEF IInv, Apart, Inserting
  <2> SUFFICES ASSUME NEW x \in Runs, NEW y \in Runs, x # y,
                      runs'[x] # None, runs'[y] # None,
                      runs'[x].schedule = runs'[y].schedule, runs'[x].slot = runs'[y].slot
               PROVE  runs'[x].schedule \in late
    BY <1>0 DEF SlotRunsOnce
  <2>2. CASE x = r
    BY <1>0, <2>1, <2>2
  <2>3. CASE y = r
    BY <1>0, <2>1, <2>3
  <2>4. CASE x # r /\ y # r
    BY <1>0, <2>4 DEF IInv, SlotRunsOnce
  <2> QED BY <2>2, <2>3, <2>4
<1>8. CadenceKept'
  BY <1>0 DEF IInv, CadenceKept, Made
<1> QED BY <1>3, <1>4, <1>6, <1>7, <1>8 DEF IInv

LEMMA SlotStep == IInv /\ TypeOK' /\ [Next]_vars => IInv'
<1> SUFFICES ASSUME IInv, TypeOK', [Next]_vars PROVE IInv'
  OBVIOUS
<1>0. now \in Nat
  BY DEF IInv, TypeOK, Times
<1>1. CASE Pass
  <2>1. now' \in Nat /\ now <= now'
    BY <1>0, <1>1 DEF Pass
  <2> QED BY <1>1, <2>1, QuietStep DEF Pass, rowVars
<1>2. ASSUME NEW s \in Schedules, Pause(s) \/ Resume(s) \/ Delete(s)
      PROVE  IInv'
  BY <1>0, <1>2, QuietStep DEF Pause, Resume, Delete
<1>3. ASSUME NEW s \in Schedules, NEW c \in Cadences, NEW t \in Times, Create(s, c, t)
      PROVE  IInv'
  BY <1>3, RowStep DEF Create
<1>4. ASSUME NEW e \in Editors, BeginEdit(e) \/ EndEdit(e)
      PROVE  IInv'
  BY <1>0, <1>4, QuietStep DEF BeginEdit, EndEdit, rowVars
<1>5. ASSUME NEW e \in Editors, NEW s \in Schedules, NEW c \in Cadences,
             NEW t \in Times, Edit(e, s, c, t)
      PROVE  IInv'
  <2>1. late \subseteq late' /\ (s \notin late' => NextRun[c][t] > now \/ ~Made(s))
    BY <1>0, <1>5, NextRunAhead DEF Edit
  <2> QED BY <1>5, <2>1, RowStep DEF Edit
<1>6. ASSUME NEW w \in Ticks, BeginTick(w)
      PROVE  IInv'
  <2> DEFINE v == [Idle EXCEPT !.at = "selects", !.began = now]
  <2>1. v \in Tick /\ v.due = {} /\ v.job = None /\ v.at = "selects" /\ v.began = now
    BY DEF IInv, TypeOK, Idle, Tick
  <2>2. now <= now
    BY <1>0
  <2> QED BY <1>6, <2>1, <2>2, TickStep DEF BeginTick, rowVars
<1>7. ASSUME NEW w \in Ticks, FindDue(w)
      PROVE  IInv'
  BY <1>7, FindDueStep
<1>8. ASSUME NEW w \in Ticks, NEW d \in tick[w].due, Claim(w, d)
      PROVE  IInv'
  BY <1>8, ClaimStep
<1>9. ASSUME NEW w \in Ticks, NEW d \in tick[w].due, Skip(w, d)
      PROVE  IInv'
  <2> DEFINE v == [tick[w] EXCEPT !.due = @ \ {d}]
  <2>1. /\ v \in Tick /\ v.due \subseteq tick[w].due /\ v.job = tick[w].job
        /\ v.at # "inserts" /\ v.began = tick[w].began
    BY <1>9 DEF Skip, IInv, TypeOK, Tick
  <2>2. tick' = [tick EXCEPT ![w] = v]
    BY <1>9 DEF Skip, IInv, TypeOK, Tick
  <2> QED BY <1>9, <2>1, <2>2, TickStep DEF Skip, rowVars
<1>10. ASSUME NEW w \in Ticks, EndTick(w) \/ Crash(w)
       PROVE  IInv'
  <2>1. Idle \in Tick /\ Idle.due = {} /\ Idle.job = None /\ Idle.at = "idle" /\ Idle.began <= now
    BY <1>0, IdleTyped DEF Idle
  <2> QED BY <1>10, <2>1, TickStep DEF EndTick, Crash, rowVars
<1>11. ASSUME NEW w \in Ticks, InsertFails(w) \/ Finish(w)
       PROVE  IInv'
  <2> DEFINE v == [tick[w] EXCEPT !.at = "claims", !.job = None]
  <2>1. /\ v \in Tick /\ v.due = tick[w].due /\ v.job = None
        /\ v.at = "claims" /\ v.began = tick[w].began
    BY DEF IInv, TypeOK, Tick
  <2>2. tick' = [tick EXCEPT ![w] = v]
    BY <1>11 DEF InsertFails, Finish, Returns, IInv, TypeOK, Tick
  <2> QED BY <1>11, <2>1, <2>2, TickStep DEF InsertFails, Finish, rowVars
<1>12. ASSUME NEW w \in Ticks, NEW r \in Runs, InsertRun(w, r)
       PROVE  IInv'
  BY <1>12, InsertStep
<1>13. CASE UNCHANGED vars
  BY <1>0, <1>13, QuietStep DEF vars
<1> QED
  BY <1>1, <1>2, <1>3, <1>4, <1>5, <1>6, <1>7, <1>8, <1>9, <1>10, <1>11, <1>12, <1>13
  DEF Next, People, Goes

\* The invariant the two theorems below rest on.
THEOREM Inductive == Spec => []IInv
<1>1. Init => IInv
  BY TypeInit, SlotInit DEF IInv
<1>2. IInv /\ [Next]_vars => IInv'
  BY TypeStep, SlotStep DEF IInv
<1> QED BY <1>1, <1>2, PTL DEF Spec

\* No slot of a schedule is run twice, whatever ticks overlap and die, unless an
\* edit stored a slot that had passed.
THEOREM SlotOnce == Spec => []SlotRunsOnce
<1>1. IInv => SlotRunsOnce
  BY DEF IInv
<1> QED BY <1>1, Inductive, PTL

\* A tick never puts a schedule back on a cadence that was edited away.
THEOREM CadenceStays == Spec => []CadenceKept
<1>1. IInv => CadenceKept
  BY DEF IInv
<1> QED BY <1>1, Inductive, PTL
=============================================================================
