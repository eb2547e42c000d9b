-------------------------- MODULE ScheduledReports --------------------------
(* Scheduled reports: the rows of scheduled_reports and report_runs          *)
(* (utils/scheduledReport.utils.ts, utils/reportRun.utils.ts), the tick that *)
(* finds due schedules and claims their slots (services/reporting/           *)
(* reportSchedulerJobs.ts), the run of a report (reportRunOrchestrator.ts)   *)
(* and the people who create, edit, pause, resume and delete schedules       *)
(* meanwhile (controllers/scheduledReport.ctrl.ts).  A run that a person     *)
(* starts has no slot and moves none: it is left out.                        *)
(*                                                                           *)
(* A slot is a time at which a schedule was to run, a value of next_run_at.  *)
(* What a schedule reports on and to whom it is sent is left out, and so is  *)
(* what becomes of the run, which takes any time and may be cut short; the   *)
(* cadence stays, because a claim computes the next slot from the cadence    *)
(* the tick read, which is not the row's any more if it was edited.          *)
EXTENDS Naturals

CONSTANTS Schedules, Runs,   \* ids of scheduled_reports and report_runs
          Ticks,             \* executions of the tick
          Editors,           \* PATCH requests in progress
          None,              \* no run, no edit in progress
          Cadences,          \* schedule configurations
          NextRun,           \* computeNextRun: cadence, time |-> next slot
          MaxTime,           \* bound: how far the clock goes
          MaxCrashes         \* bound: ticks cut short

Times == 0 .. MaxTime

\* NextRun looks strictly forward, as cron-parser's next() does.
ASSUME CadenceAssumption ==
  /\ MaxTime \in Nat /\ MaxCrashes \in Nat
  /\ None \notin Runs /\ None \notin Times
  /\ NextRun \in [Cadences -> [Times -> Nat]]
  /\ \A c \in Cadences, t \in Times : NextRun[c][t] > t

VARIABLES now,      \* the clock all replicas share
          next,     \* next_run_at, 0 for a schedule not created yet
          cadence,  \* schedule_config
          active,   \* is_active
          deleted,  \* deleted_at is set
          late,     \* history: rescheduled to a slot that had passed by then
          edit,     \* when each PATCH in progress began
          tick,     \* the ticks in progress
          runs,     \* report_runs, with the rows people delete: schedule and slot
          crashes   \* ticks cut short so far

rowVars == <<next, cadence, active, deleted, late>>
vars == <<now, next, cadence, active, deleted, late, edit, tick, runs, crashes>>

-----------------------------------------------------------------------------
(* Values                                                                    *)

\* A due schedule as a tick has read it, and the run it has claimed.
Reading == [schedule : Schedules, slot : Nat, cadence : Cadences]
Job == [schedule : Schedules, slot : Nat]

\* `at` is the statement a tick comes to next: the SELECT of due rows,
\* the claim of one of them, the INSERT of its run, the run itself.
Tick == [at : {"idle", "selects", "claims", "inserts", "runs"},
         began : Times, due : SUBSET Reading, job : Job \cup {None}]

Idle == [at |-> "idle", began |-> 0, due |-> {}, job |-> None]

Made(s) == next[s] # 0

\* The condition of findDueScheduledReportsQuery at time t.
IsDue(s, t) == Made(s) /\ s \in active \ deleted /\ next[s] <= t

\* The condition of markRunEnqueuedQuery, which the claim of a reading needs:
\* the row is still active and at the slot that was read.
\* (MatchesAnySlot and MatchesPrecisely are mutants: the claim by id alone, and
\* the comparison of milliseconds with the microseconds stored.)
MatchesAnySlot(d) == d.schedule \in active \ deleted
MatchesPrecisely(d) ==
  d.schedule \in active \ deleted /\ next[d.schedule] * 1000 + 1 = d.slot * 1000
Matches(d) == d.schedule \in active \ deleted /\ next[d.schedule] = d.slot

TypeOK ==
  /\ now \in Times
  /\ next \in [Schedules -> Nat]
  /\ cadence \in [Schedules -> Cadences]
  /\ active \subseteq Schedules
  /\ deleted \subseteq Schedules
  /\ late \subseteq Schedules
  /\ edit \in [Editors -> Times \cup {None}]
  /\ tick \in [Ticks -> Tick]
  /\ runs \in [Runs -> Job \cup {None}]
  /\ crashes \in 0 .. MaxCrashes

Init ==
  /\ now = 0
  /\ next = [s \in Schedules |-> 0]
  /\ cadence \in [Schedules -> Cadences]   \* not read until the row is there
  /\ active = {} /\ deleted = {} /\ late = {}
  /\ edit = [e \in Editors |-> None]
  /\ tick = [w \in Ticks |-> Idle]
  /\ runs = [r \in Runs |-> None]
  /\ crashes = 0

-----------------------------------------------------------------------------
(* People                                                                    *)

\* createScheduledReportQuery: next_run_at is computed before the INSERT.
Create(s, c, t) ==
  /\ ~Made(s) /\ t <= now
  /\ next' = [next EXCEPT ![s] = NextRun[c][t]]
  /\ cadence' = [cadence EXCEPT ![s] = c]
  /\ active' = active \cup {s}
  /\ UNCHANGED <<now, deleted, late, edit, tick, runs, crashes>>

\* setActiveQuery asks for the id only, so it reaches deleted rows too; a slot
\* that passed while the schedule was paused is due when it is resumed.
Pause(s) ==
  /\ Made(s)
  /\ active' = active \ {s}
  /\ UNCHANGED <<now, next, cadence, deleted, late, edit, tick, runs, crashes>>

Resume(s) ==
  /\ Made(s)
  /\ active' = active \cup {s}
  /\ UNCHANGED <<now, next, cadence, deleted, late, edit, tick, runs, crashes>>

Delete(s) ==
  /\ Made(s)
  /\ deleted' = deleted \cup {s}
  /\ active' = active \ {s}
  /\ UNCHANGED <<now, next, cadence, late, edit, tick, runs, crashes>>

\* A PATCH reads the row, validates, computes next_run_at and then updates: t
\* is when it computed.  One without a new schedule changes nothing modelled.
BeginEdit(e) ==
  /\ edit[e] = None
  /\ edit' = [edit EXCEPT ![e] = now]
  /\ UNCHANGED <<now, rowVars, tick, runs, crashes>>

Edit(e, s, c, t) ==
  /\ edit[e] # None /\ edit[e] <= t /\ t <= now
  /\ Made(s) /\ s \notin deleted
  /\ next' = [next EXCEPT ![s] = NextRun[c][t]]
  /\ cadence' = [cadence EXCEPT ![s] = c]
  /\ late' = IF NextRun[c][t] <= now THEN late \cup {s} ELSE late
  /\ edit' = [edit EXCEPT ![e] = None]
  /\ UNCHANGED <<now, active, deleted, tick, runs, crashes>>

\* It is refused, fails, or changes no schedule.
EndEdit(e) ==
  /\ edit[e] # None
  /\ edit' = [edit EXCEPT ![e] = None]
  /\ UNCHANGED <<now, rowVars, tick, runs, crashes>>

-----------------------------------------------------------------------------
(* The tick, any number of them at once: a tick that outlasts its quarter of *)
(* an hour, or whose job is delivered again, overlaps the next.              *)

BeginTick(w) ==
  /\ tick[w] = Idle
  /\ tick' = [tick EXCEPT ![w] = [Idle EXCEPT !.at = "selects", !.began = now]]
  /\ UNCHANGED <<now, rowVars, edit, runs, crashes>>

FindDue(w) ==
  /\ tick[w].at = "selects"
  /\ tick' = [tick EXCEPT ![w].at = "claims", ![w].due =
       {[schedule |-> s, slot |-> next[s], cadence |-> cadence[s]] :
          s \in {x \in Schedules : IsDue(x, tick[w].began)}}]
  /\ UNCHANGED <<now, rowVars, edit, runs, crashes>>

\* markRunEnqueuedQuery moves the row to the next slot of the cadence the tick
\* read, counted from when the tick began.
Claim(w, d) ==
  /\ tick[w].at = "claims" /\ d \in tick[w].due
  /\ Matches(d)
  /\ next' = [next EXCEPT ![d.schedule] = NextRun[d.cadence][tick[w].began]]
  /\ tick' = [tick EXCEPT ![w].at = "inserts", ![w].due = @ \ {d},
       ![w].job = [schedule |-> d.schedule, slot |-> d.slot]]
  /\ UNCHANGED <<now, cadence, active, deleted, late, edit, runs, crashes>>

\* Another tick was first, or the schedule was edited, paused or deleted.
Skip(w, d) ==
  /\ tick[w].at = "claims" /\ d \in tick[w].due
  /\ ~Matches(d)
  /\ tick' = [tick EXCEPT ![w].due = @ \ {d}]
  /\ UNCHANGED <<now, rowVars, edit, runs, crashes>>

EndTick(w) ==
  /\ tick[w].at = "claims" /\ tick[w].due = {}
  /\ tick' = [tick EXCEPT ![w] = Idle]
  /\ UNCHANGED <<now, rowVars, edit, runs, crashes>>

-----------------------------------------------------------------------------
(* runScheduledReport                                                        *)

\* Back to the loop of the tick, whatever became of the run.
Returns(w) == tick' = [tick EXCEPT ![w].at = "claims", ![w].job = None]

InsertRun(w, r) ==
  /\ tick[w].at = "inserts" /\ runs[r] = None
  /\ runs' = [runs EXCEPT ![r] = tick[w].job]
  /\ tick' = [tick EXCEPT ![w].at = "runs"]
  /\ UNCHANGED <<now, rowVars, edit, crashes>>

\* createRunQuery throws: the slot is spent and nothing records it.
InsertFails(w) ==
  /\ tick[w].at = "inserts"
  /\ Returns(w)
  /\ UNCHANGED <<now, rowVars, edit, runs, crashes>>

\* Generation, delivery and the record of the outcome, whatever it is.
Finish(w) ==
  /\ tick[w].at = "runs"
  /\ Returns(w)
  /\ UNCHANGED <<now, rowVars, edit, runs, crashes>>

\* The process dies, or a query of the tick throws: nobody takes its run up.
Crash(w) ==
  /\ tick[w] # Idle /\ crashes < MaxCrashes
  /\ crashes' = crashes + 1
  /\ tick' = [tick EXCEPT ![w] = Idle]
  /\ UNCHANGED <<now, rowVars, edit, runs>>

-----------------------------------------------------------------------------

Pass ==
  /\ now < MaxTime
  /\ now' = now + 1
  /\ UNCHANGED <<rowVars, edit, tick, runs, crashes>>

\* What a tick does next.
Goes(w) ==
  \/ FindDue(w)
  \/ \E d \in tick[w].due : Claim(w, d) \/ Skip(w, d)
  \/ EndTick(w)
  \/ \E r \in Runs : InsertRun(w, r)
  \/ InsertFails(w)
  \/ Finish(w)

People ==
  \/ \E s \in Schedules : Pause(s) \/ Resume(s) \/ Delete(s)
  \/ \E s \in Schedules, c \in Cadences, t \in Times : Create(s, c, t)
  \/ \E e \in Editors : BeginEdit(e) \/ EndEdit(e)
  \/ \E e \in Editors, s \in Schedules, c \in Cadences, t \in Times : Edit(e, s, c, t)

Next ==
  \/ Pass
  \/ People
  \/ \E w \in Ticks : BeginTick(w) \/ Goes(w) \/ Crash(w)

Spec == Init /\ [][Next]_vars

\* The job scheduler adds a tick every quarter of an hour, and a tick goes on:
\* each of its queries returns or throws.
Fairness == \A w \in Ticks : WF_vars(BeginTick(w)) /\ WF_vars(Goes(w))

FairSpec == Spec /\ Fairness

-----------------------------------------------------------------------------
(* Properties                                                                *)

\* A slot of a schedule is run at most once, whatever ticks overlap, die or are
\* delivered again and however the schedule is edited, paused and resumed
\* ("prevents the same scheduled slot from being delivered twice").  Not
\* covered is a schedule in `late`: an edit that computed a slot before the tick
\* ran and stored it after it puts the row back to a slot already run.
SlotRunsOnce ==
  \A r1, r2 \in Runs :
     r1 # r2 /\ runs[r1] # None /\ runs[r2] # None
     /\ runs[r1].schedule = runs[r2].schedule
     /\ runs[r1].slot = runs[r2].slot
        => runs[r1].schedule \in late

\* A schedule waits for a slot of the cadence it has: a tick that read the row
\* before an edit does not put it back on its old cadence.  Not covered, as
\* above: schedules in `late`.
CadenceKept ==
  \A s \in Schedules :
     Made(s) /\ s \notin late => \E t \in Times : next[s] = NextRun[cadence[s]][t]

\* Every due slot is claimed in the end, unless its schedule is edited, paused
\* or deleted: no slot is overlooked because a tick lost a claim, skipped it or
\* died.
DueIsClaimed ==
  \A s \in Schedules, slot \in Times :
     (IsDue(s, now) /\ next[s] = slot) ~> ~(IsDue(s, now) /\ next[s] = slot)
=============================================================================
