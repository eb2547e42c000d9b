------------------------------ MODULE SyncRuns ------------------------------
(* The run lifecycle of the extension sync engine                            *)
(* (Servers/extensions/sync-engine): the runs of one extension in one        *)
(* organisation, the rows that record them, the queue that delivers them,    *)
(* the five-minute tick that schedules them and the failures that delay it.  *)
(* Rows of other pairs share no state: every query names the pair, and the   *)
(* advisory lock is taken on it.                                             *)
(*                                                                           *)
(* A runner is one execution that may claim a run: a worker picking up a     *)
(* job, or a request running an exclusive operation (withClaim).  Its row is *)
(* the row of the run it last claimed, so a runner whose execution died      *)
(* keeps its `started` row until someone closes it.  A row that is closed    *)
(* and forgotten by its runner is history: all the engine reads of it is the *)
(* time of the newest start, which `since` keeps.                            *)
EXTENDS Naturals, FiniteSets

CONSTANTS Runner,        \* executions that may claim a run
          NoRunner,      \* no execution
          StaleAfter,    \* ticks without a heartbeat before a run is stale
          HourTicks,     \* ticks of the model's clock in an hour
          MaxInterval,   \* INTERVAL_MAX_HOURS
          MaxExponent,   \* BACKOFF_MAX_EXPONENT
          CapHours,      \* BACKOFF_CAP_HOURS
          MaxRequests    \* bound: requests made by people

ASSUME SyncAssumption ==
    /\ IsFiniteSet(Runner)
    /\ NoRunner \notin Runner
    /\ StaleAfter \in Nat
    /\ HourTicks \in Nat \ {0}
    /\ MaxInterval \in Nat \ {0}
    /\ MaxExponent \in Nat \ {0}
    /\ CapHours \in Nat \ {0}
    /\ MaxRequests \in Nat

VARIABLES rows,     \* extension_sync_runs: the row of each runner's last run
          task,     \* what each runner is executing
          job,      \* the singleton queue job of the pair
          tick,     \* how far the scheduling tick has come
          request,  \* how far a "Sync now" request has come
          streak,   \* extension_sync_settings.consecutive_failures
          enabled,  \* the schedule is on and the extension enabled
          interval, \* extension_sync_settings.interval_hours
          since,    \* ticks since the newest run of a status kind started
          asked     \* requests made so far, up to MaxRequests

vars == <<rows, task, job, tick, request, streak, enabled, interval,
          since, asked>>

-----------------------------------------------------------------------------
(* Values                                                                    *)

Kinds == {"manual", "scheduled", "exclusive"}

\* The kinds the due rule counts as runs (statusKinds).
StatusKinds == {"manual", "scheduled"}

RunStatuses == {"none", "started", "completed", "failed", "abandoned"}

Closed == {"completed", "failed", "abandoned"}

\* A row once it is closed: nothing reads its kind and heartbeat any more.
ClosedAs(status) == [status |-> status, kind |-> "none", beat |-> 0]

NoRow == ClosedAs("none")

\* A row: its status, the kind of run, and ticks since its heartbeat.
StartedRow == [status : {"started"}, kind : Kinds, beat : 0 .. (StaleAfter + 1)]

Row == StartedRow \cup {ClosedAs(status) : status \in RunStatuses \ {"started"}}

Phases == {"claiming", "running", "writing"}

Idle == [phase |-> "idle", kind |-> "none"]

Task == {Idle} \cup [phase : Phases, kind : Kinds]

JobStates == {"none", "waiting", "active"}

Job == [state : JobStates, kind : StatusKinds, by : Runner \cup {NoRunner},
        stalled : BOOLEAN]

NoJob == [state |-> "none", kind |-> "scheduled", by |-> NoRunner,
          stalled |-> FALSE]

NewJob(k) == [NoJob EXCEPT !.state = "waiting", !.kind = k]

Smaller(a, b) == IF a < b THEN a ELSE b

Larger(a, b) == IF a < b THEN b ELSE a

\* backoffHours: 0, then doubling from one hour, clamped by the exponent and
\* the cap.
BackoffHours(n) ==
    IF n = 0 THEN 0 ELSE Smaller(2 ^ (Smaller(n, MaxExponent) - 1), CapHours)

\* Ticks that must pass between the newest start and the next scheduled run.
WaitFor(n) == HourTicks * Larger(interval, BackoffHours(n))

\* parseIntervalHours.
Intervals == 1 .. MaxInterval

\* The longest wait there is; `since` need not count further.
MaxWait == HourTicks * Larger(MaxInterval, CapHours)

\* One more failure in the streak.  The backoff does not grow past
\* MaxExponent failures, so the model counts no further.
Failures(n, extra) == Smaller(n + extra, MaxExponent)

Started(r) == rows[r].status = "started"

\* sqlRunIsLive
Live(r) == Started(r) /\ rows[r].beat <= StaleAfter

Stale(r) == Started(r) /\ rows[r].beat > StaleAfter

\* A row share-locked by the open data transaction of its run: an UPDATE of it
\* by anyone else waits.
ShareLocked(r) == task[r].phase = "writing"


TypeOK ==
    /\ rows \in [Runner -> Row]
    /\ task \in [Runner -> Task]
    /\ job \in Job
    /\ tick \in {"idle", "swept", "due"}
    /\ request \in {"idle", "checked"}
    /\ streak \in 0 .. MaxExponent
    /\ enabled \in BOOLEAN
    /\ interval \in Intervals
    /\ since \in 0 .. MaxWait
    /\ asked \in 0 .. MaxRequests

Init ==
    /\ rows = [r \in Runner |-> NoRow]
    /\ task = [r \in Runner |-> Idle]
    /\ job = NoJob
    /\ tick = "idle"
    /\ request = "idle"
    /\ streak = 0
    /\ enabled \in BOOLEAN
    /\ interval \in Intervals
    /\ since = MaxWait
    /\ asked = 0

-----------------------------------------------------------------------------
(* The schedule and time                                                     *)

\* Five minutes pass: every heartbeat and the newest start grow older.
Pass ==
    /\ rows' = [r \in Runner |->
                  IF Started(r)
                  THEN [rows[r] EXCEPT !.beat = Smaller(@ + 1, StaleAfter + 1)]
                  ELSE rows[r]]
    /\ since' = Smaller(since + 1, MaxWait)
    /\ UNCHANGED <<task, job, tick, request, streak, enabled, interval, asked>>

\* PATCH /:key/schedule.  The streak is not touched.
SaveSchedule(on, hours) ==
    /\ asked < MaxRequests
    /\ asked' = asked + 1
    /\ enabled' = on
    /\ interval' = hours
    /\ UNCHANGED <<rows, task, job, tick, request, streak, since>>

-----------------------------------------------------------------------------
(* Closing stale rows: by the tick, and by every claim                       *)

\* The UPDATE of closeStaleRuns waits for the open data transaction of a run
\* it is about to close.
Sweepable == \A r \in Runner : Stale(r) => ~ShareLocked(r)

\* rs after closeStaleRuns.
Swept(rs) ==
    [r \in Runner |->
        IF rs[r].status = "started" /\ rs[r].beat > StaleAfter
        THEN ClosedAs("abandoned")
        ELSE rs[r]]

\* The stale rows of scheduled runs: each counts as one failure.
Abandoned == {r \in Runner : Stale(r) /\ rows[r].kind = "scheduled"}

-----------------------------------------------------------------------------
(* The tick                                                                  *)

\* closeStaleRunsForProvider, the first thing the tick does.
\* (TickSweepsNothing is a mutant: the tick leaves stale rows to the claims.)
TickSweepsNothing == tick = "idle" /\ tick' = "swept" /\ UNCHANGED <<rows, streak>>
TickSweeps ==
    /\ tick = "idle"
    /\ Sweepable
    /\ rows' = Swept(rows)
    /\ streak' = Failures(streak, Cardinality(Abandoned))
    /\ tick' = "swept"

TickSweep ==
    /\ TickSweeps
    /\ UNCHANGED <<task, job, request, enabled, interval, since, asked>>

\* The sweep throws; the tick logs it and goes on.
TickSweepFails ==
    /\ tick = "idle"
    /\ tick' = "swept"
    /\ UNCHANGED <<rows, task, job, request, streak, enabled, interval, since, asked>>

\* DUE_RUNS_SQL.
\* (DueAfterSuccess is a mutant: only a schedule without failures is due.)
DueAfterSuccess == enabled /\ streak = 0 /\ since >= WaitFor(0)
Due ==
    /\ enabled
    /\ \A r \in Runner : ~Live(r)
    /\ since >= WaitFor(streak)

TickDue ==
    /\ tick = "swept"
    /\ tick' = IF Due THEN "due" ELSE "idle"
    /\ UNCHANGED <<rows, task, job, request, streak, enabled, interval, since, asked>>

\* The due query or the provider's readiness check throws, the provider is not
\* ready, or the queue does not answer.
TickGivesUp ==
    /\ tick # "idle"
    /\ tick' = "idle"
    /\ UNCHANGED <<rows, task, job, request, streak, enabled, interval, since, asked>>

\* addSingletonJob: nothing is added while a job of the pair waits or runs.
\* Its look at the queue and its add are two calls, but an add made after the
\* job id came to exist is ignored by the queue, so they take effect as one.
Added(kind) == IF job.state = "none" THEN NewJob(kind) ELSE job

TickAdd ==
    /\ tick = "due"
    /\ job' = Added("scheduled")
    /\ tick' = "idle"
    /\ UNCHANGED <<rows, task, request, streak, enabled, interval, since, asked>>

-----------------------------------------------------------------------------
(* "Sync now"                                                                *)

\* startManualRun refuses while a run is live.
ManualCheck ==
    /\ request = "idle"
    /\ asked < MaxRequests
    /\ asked' = asked + 1
    /\ \A r \in Runner : ~Live(r)
    /\ request' = "checked"
    /\ UNCHANGED <<rows, task, job, tick, streak, enabled, interval, since>>

ManualAdd ==
    /\ request = "checked"
    /\ job' = Added("manual")
    /\ request' = "idle"
    /\ UNCHANGED <<rows, task, tick, streak, enabled, interval, since, asked>>

\* The request's process dies, or the queue does not answer.
ManualGivesUp ==
    /\ request # "idle"
    /\ request' = "idle"
    /\ UNCHANGED <<rows, task, job, tick, streak, enabled, interval, since, asked>>

-----------------------------------------------------------------------------
(* Runs                                                                      *)

\* A runner that executes nothing and whose last row is closed.
Ready(r) == task[r].phase = "idle" /\ ~Started(r)

\* A worker picks the job up.
Pickup(r) ==
    /\ Ready(r)
    /\ job.state = "waiting"
    /\ job' = [job EXCEPT !.state = "active", !.by = r]
    /\ task' = [task EXCEPT ![r] = [phase |-> "claiming", kind |-> job.kind]]
    /\ UNCHANGED <<rows, tick, request, streak, enabled, interval, since, asked>>

\* The queue loses sight of the worker: it delivers the job a second time, and
\* gives it up when that happens again.
JobStalls ==
    /\ job.state = "active"
    /\ job' = IF job.stalled
              THEN NoJob
              ELSE [job EXCEPT !.state = "waiting", !.by = NoRunner, !.stalled = TRUE]
    /\ UNCHANGED <<rows, task, tick, request, streak, enabled, interval, since, asked>>

\* The check of claimRun, after closing what is stale: no row is started.
\* (ClaimableAlways is a mutant: the check is left out.)
ClaimableAlways == TRUE
Claimable == \A r \in Runner : ~Live(r)

\* claimRun, one transaction under the pair's advisory lock.
Claims(r, kind) ==
    /\ Sweepable
    /\ Claimable
    /\ rows' = [Swept(rows) EXCEPT ![r] = [status |-> "started", kind |-> kind, beat |-> 0]]
    /\ streak' = Failures(streak, Cardinality(Abandoned))
    /\ since' = IF kind \in StatusKinds THEN 0 ELSE since
    /\ task' = [task EXCEPT ![r] = [phase |-> "running", kind |-> kind]]

Claim(r) ==
    /\ task[r].phase = "claiming"
    /\ Claims(r, task[r].kind)
    /\ UNCHANGED <<job, tick, request, enabled, interval, asked>>

\* A request claims the pair for an exclusive operation, an import or a
\* removal (withClaim).  A request that is refused leaves no trace.
ClaimForOperation(r) ==
    /\ Ready(r)
    /\ asked < MaxRequests
    /\ asked' = asked + 1
    /\ Claims(r, "exclusive")
    /\ UNCHANGED <<job, tick, request, enabled, interval>>

\* The execution of r ends; the queue drops the job it was working on.
Ends(r) ==
    /\ task' = [task EXCEPT ![r] = Idle]
    /\ job' = IF job.by = r THEN NoJob ELSE job

\* claimRun finds a live run and rolls back.  The skipped row a manual run
\* leaves is no run: nothing below reads it.
Refuse(r) ==
    /\ task[r].phase = "claiming"
    /\ ~Claimable
    /\ Ends(r)
    /\ UNCHANGED <<rows, tick, request, streak, enabled, interval, since, asked>>

\* heartbeat finds the row started.
Hears(r) ==
    /\ Started(r)
    /\ rows' = [rows EXCEPT ![r].beat = 0]

Beat(r) ==
    /\ task[r].phase = "running"
    /\ Hears(r)
    /\ UNCHANGED <<task, job, tick, request, streak, enabled, interval, since, asked>>

\* Any write of the run finds its row closed: RunSupersededError, and nothing
\* is written.
Superseded(r) ==
    /\ task[r].phase = "running"
    /\ ~Started(r)
    /\ Ends(r)
    /\ UNCHANGED <<rows, tick, request, streak, enabled, interval, since, asked>>

\* assertOwned, or a statement guarded by sqlOwnsRun: the row is share-locked
\* until the transaction ends.
\* (OwnsAnyway is a mutant: the guard does not ask for a started row.)
OwnsAnyway(r) == TRUE
Owns(r) == Started(r)

Open(r) ==
    /\ task[r].phase = "running"
    /\ Owns(r)
    /\ task' = [task EXCEPT ![r].phase = "writing"]
    /\ UNCHANGED <<rows, job, tick, request, streak, enabled, interval, since, asked>>

\* The data transaction commits or rolls back, and the run goes on.
CloseData(r) ==
    /\ task[r].phase = "writing"
    /\ task' = [task EXCEPT ![r].phase = "running"]
    /\ UNCHANGED <<rows, job, tick, request, streak, enabled, interval, since, asked>>

\* completeIn: the row, and the streak of a run of a status kind.
Completes(r) ==
    /\ Started(r)
    /\ rows' = [rows EXCEPT ![r] = ClosedAs("completed")]
    /\ streak' = IF task[r].kind \in StatusKinds THEN 0 ELSE streak

Finish(r) ==
    /\ task[r].phase = "running"
    /\ Completes(r)
    /\ Ends(r)
    /\ UNCHANGED <<tick, request, enabled, interval, since, asked>>

\* finalize inside the data transaction of an exclusive operation.
FinishInData(r) ==
    /\ task[r].phase = "writing"
    /\ task[r].kind = "exclusive"
    /\ Completes(r)
    /\ Ends(r)
    /\ UNCHANGED <<tick, request, enabled, interval, since, asked>>

\* failRun closes the row and counts a scheduled failure.
\* (CountsAnyway is a mutant: a row closed by someone else is closed again.)
CountsAnyway(r) ==
    /\ rows' = [rows EXCEPT ![r] = ClosedAs("failed")]
    /\ streak' = IF task[r].kind = "scheduled" THEN Failures(streak, 1) ELSE streak
Counts(r) ==
    /\ Started(r)
    /\ rows' = [rows EXCEPT ![r] = ClosedAs("failed")]
    /\ streak' = IF task[r].kind = "scheduled" THEN Failures(streak, 1) ELSE streak

Fail(r) ==
    /\ task[r].phase = "running"
    /\ Counts(r)
    /\ Ends(r)
    /\ UNCHANGED <<tick, request, enabled, interval, since, asked>>

\* failRun, or the release of a claim, cannot reach the database: the row
\* stays started.
EndUnrecorded(r) ==
    /\ task[r].phase = "running"
    /\ Ends(r)
    /\ UNCHANGED <<rows, tick, request, streak, enabled, interval, since, asked>>

\* withClaim deletes the row of an operation that did nothing.
Release(r) ==
    /\ task[r].phase = "running"
    /\ task[r].kind = "exclusive"
    /\ Started(r)
    /\ rows' = [rows EXCEPT ![r] = NoRow]
    /\ Ends(r)
    /\ UNCHANGED <<tick, request, streak, enabled, interval, since, asked>>

\* The process of r dies; an open transaction rolls back, and a job it worked
\* on stays active with nobody working on it.
Crash(r) ==
    /\ task[r].phase # "idle"
    /\ task' = [task EXCEPT ![r] = Idle]
    /\ job' = IF job.by = r THEN [job EXCEPT !.by = NoRunner] ELSE job
    /\ UNCHANGED <<rows, tick, request, streak, enabled, interval, since, asked>>

-----------------------------------------------------------------------------

Tick == TickSweep \/ TickSweepFails \/ TickDue \/ TickGivesUp \/ TickAdd

Request == ManualCheck \/ ManualAdd \/ ManualGivesUp

\* The ways an execution that runs comes to its end.
Stops(r) == Finish(r) \/ Fail(r) \/ Superseded(r) \/ EndUnrecorded(r) \/ Release(r)

Step(r) ==
    \/ Pickup(r)
    \/ Claim(r)
    \/ ClaimForOperation(r)
    \/ Refuse(r)
    \/ Beat(r)
    \/ Open(r)
    \/ CloseData(r)
    \/ FinishInData(r)
    \/ Stops(r)
    \/ Crash(r)

Next ==
    \/ Pass
    \/ \E on \in BOOLEAN, hours \in Intervals : SaveSchedule(on, hours)
    \/ Tick
    \/ Request
    \/ JobStalls
    \/ \E r \in Runner : Step(r)

Spec == Init /\ [][Next]_vars

(* Fairness.  Time passes.  The tick job repeats every five minutes and its  *)
(* queries and the queue do not fail every time; a worker takes a waiting    *)
(* job; executions get on: not every one dies before it claims, and a run    *)
(* ends, because its signal aborts it at the deadline and its transactions   *)
(* have timeouts; the queue notices a job whose worker died.                 *)
Orphaned == job.state = "active" /\ job.by = NoRunner

Fairness ==
    /\ WF_vars(Pass)
    /\ SF_vars(TickSweep)
    /\ SF_vars(TickDue)
    /\ SF_vars(TickAdd)
    /\ WF_vars(Orphaned /\ JobStalls)
    /\ WF_vars(\E r \in Runner : Pickup(r))
    /\ SF_vars(\E r \in Runner : Claim(r) \/ Stops(r))
    /\ WF_vars(\E r \in Runner : Refuse(r))
    /\ WF_vars(\E r \in Runner : CloseData(r))

FairSpec == Spec /\ Fairness

-----------------------------------------------------------------------------
(* Properties                                                                *)

\* The rows and executions, seen as the one claim of the pair.
HolderOf(rs) ==
    IF \E r \in Runner : rs[r].status = "started"
    THEN CHOOSE r \in Runner : rs[r].status = "started"
    ELSE NoRunner

WriterOf(ts) ==
    IF \E r \in Runner : ts[r].phase = "writing"
    THEN CHOOSE r \in Runner : ts[r].phase = "writing"
    ELSE NoRunner

HeardOf(rs) == \E r \in Runner : rs[r].status = "started" /\ rs[r].beat <= StaleAfter

Contract == INSTANCE ExclusiveClaim WITH
              Nobody <- NoRunner,
              holder <- HolderOf(rows),
              busy <- WriterOf(task),
              fresh <- HeardOf(rows)

\* Workers, requests and ticks, dying or suspended anywhere, together keep the
\* promise of RunContext: one claim per pair, only taken over once its window
\* passed, and never under a guarded data transaction of its holder.
ImplementsClaim == Contract!Spec

\* Only one row of the pair is started (the partial unique index), and an open
\* guarded transaction belongs to the run of that row.
OneClaim ==
    /\ \A r, s \in Runner : Started(r) /\ Started(s) => r = s
    /\ \A r \in Runner : task[r].phase = "writing" => Started(r)

ClosesAs(r, status) == Started(r) /\ rows'[r].status = status

\* The scheduled runs a step closes without success, and the runs of a status
\* kind it completes.
Failing == {r \in Runner : /\ rows[r].kind = "scheduled"
                           /\ ClosesAs(r, "failed") \/ ClosesAs(r, "abandoned")}

Completing == {r \in Runner : rows[r].kind \in StatusKinds /\ ClosesAs(r, "completed")}

ClosedForGood ==
    \A r \in Runner : rows[r].status \in Closed =>
        \/ rows'[r].status = rows[r].status
        \/ rows'[r].status = "started" /\ task[r].phase \in {"claiming", "idle"}

StreakFollows ==
    streak' = IF Completing # {} THEN 0 ELSE Failures(streak, Cardinality(Failing))

\* The streak and the rows tell the same story, whoever closes a row: a
\* scheduled run that failed or was abandoned counts exactly once, a manual or
\* scheduled run that completed ends the streak, nothing else moves it, and a
\* closed row is only ever replaced by a new run.
OutcomesCountOnce == [][ClosedForGood /\ StreakFollows]_vars

\* A started row is left whose run nobody executes.
Left == \E r \in Runner : Started(r) /\ task[r].phase = "idle"

\* A run whose process died, or whose end could not be recorded, does not hold
\* the claim for ever: the tick or the next claim closes its row.
CrashedRunsClose == []<>~Left

\* An enabled schedule keeps starting runs, through failures, crashes, backoff,
\* manual runs and other operations.
ScheduleGoesOn ==
    []<>(~enabled \/ \E r \in Runner : Started(r) /\ rows[r].kind = "scheduled")

=============================================================================
