# VerifyWise: a TLA+ model of its approvals, its background runs and its ledger

VerifyWise is a governance platform for AI systems: registers of use cases,
models, risks, vendors and policies; around them a machinery that makes changes
wait for people, jobs that keep the registers in step with other systems and
report on them, and a ledger that says who changed what. This directory models
that machinery, model-checks it with TLC and proves its main properties with
TLAPS. Paths below are relative to `src/Servers` unless they start with `src/`.

## 1. The system

One PostgreSQL database and one Redis are shared by several replicas of the
Express backend (`src/Servers`) and by a BullMQ worker (`jobs/worker.ts`). A
React client (`src/Clients`), an LLM gateway (`src/AIGateway`), an evaluation
server (`src/EvalServer`), agents and SDKs talk to it over HTTP. Nothing is kept
in process memory that another replica needs: components interact through rows,
and what makes the system hard is which statements share a transaction, which
rows a transaction has locked, and what was read before it had.

| Component | State | Operations | Hard behaviour | What makes it correct |
|---|---|---|---|---|
| Approval requests (`utils/approvalRequest.utils.ts`) | requests, steps, votes | open, vote, override, advance, decide, withdraw, supersede | approvers deciding at once; repeated and late calls; rules re-read from an edited template | steps in order; outcome explained by votes; votes final; nobody stuck |
| Workflow templates (`utils/approvalWorkflow.utils.ts`) | workflows, steps, approvers | create, edit, soft-delete | edit between the statements of a reader | a request is a whole copy |
| Escalation sweep (`services/automations/actions/approvalOverdueSweep.ts`) | due and escalated marks of steps | read, claim, notify | two workers, crashes, decisions in between | at most one notice, only where the request stands; every overdue step is seen |
| Use cases (`controllers/project.ctrl.ts`, `services/useCase.service.ts`, `utils/lifecycle.utils.ts`) | stage, attached workflow, queued and linked frameworks | create, edit, delete, go live, retire, link a framework | edits and framework handlers act on unlocked reads | in review means somebody can end it; the queue waits for a verdict |
| Files (`controllers/fileManager.ctrl.ts`) | review status | upload, delete | deletion with a request open | a verdict reaches its file |
| AI actions by request (`advisor/aiActions`) | proposed write, its result | file, execute | execution inside the deciding transaction | runs once, if approved |
| AI action gateway (`advisor/approval`) and workflow engine (`services/workflows`) | approvals of tool calls and gates, runs, their link | submit, approve, reject, expire, execute, start, park, resume, cancel | no transaction and no lock: reads long before the writes that rest on them; timer against approver; a call cut short while it executes | no gated write without a person; one write per decision; a run can be found by its gate; every approval is settled |
| Sync engine (`extensions/sync-engine`) | run rows with heartbeats, schedule, failure streak, one queue job per pair | claim, beat, guarded write, finish, fail, sweep, schedule, "Sync now" | replicas racing; an owner that wakes up late; a job delivered twice; a process that dies | one run at a time; a superseded run writes nothing; every outcome counts once; a crash does not stop the schedule |
| Jira incidents sync (`extensions/jira-incidents`) | links with a snapshot of both sides | import, decide, apply to either side, record | people edit both sides between a run's reads and writes; Jira has no lock; a move whose answer is lost | one incident per issue; no edit lost without a word; no echo; the sides end in step |
| Audit ledger (`utils/auditLedger*.ts`, `utils/dataRetention.utils.ts`) | hash chain, checkpoints, triggers | append, prune in batches, verify page by page | concurrent append, prune, verify; timestamps out of the order of ids; deleted accounts | the chain never forks; the verdicts mean what they say; retention is kept |
| Scheduled reports (`utils/scheduledReport.utils.ts`, `services/reporting`) | next slot, cadence, runs | tick, claim, run, create, edit, pause, delete | ticks that overlap or die; an edit between a tick's read and its claim | a slot runs once at most; no due slot is overlooked |
| Refresh tokens (`utils/refreshToken.utils.ts`) | token families | rotate, revoke, detect reuse | two tabs at once | a stolen token ends its family |
| LLM gateway budget and MCP approvals (`src/AIGateway/src/crud`) | spend, approvals | reserve, adjust, reset; create, decide, expire | monthly reset between reserve and adjust | hard limit; one use per approval |

`PROJECT.json` lists every component, also those that are not modelled, with the
reason, and under `hazards` what in this code is hard to test.

## 2. The modules

`ApprovalRequests` models the request tables, the templates and the sweep. Its
variables are the columns: `status`, `current`, `origin` are
`approval_requests`; `step`, `timer`, `overridden`, `autoApproved` are
`approval_request_steps`; `vote` is `approval_request_step_approvals`;
`template` and `active` are the workflow tables. `timer` folds `sla_hours`,
`due_at` and `escalated_at` into the five states a step can be in.

Each decision is one transaction that starts with `SELECT ... FOR UPDATE` on the
request, so `CastVote` and `OverrideStep` are single actions; `Settles` is the
rest of `processApprovalQuery` once the vote is recorded. What is not atomic is
kept apart:

* a decision is *sent* (`Submit`) from a screen that shows a pending request and
  is *processed* any number of times from then on, also never: HTTP calls are
  retried, doubled and late. The body of a plain vote names no step; that of an
  override does;
* the template is read in several statements: `ReadTemplate(w, cut)` lets one
  edit commit after the approvers of the steps before `cut` were read;
* the rule "all or any" is read from the template as it is when the vote is
  processed (`RequiresAll`);
* the sweep reads, claims one step at a time with a conditional UPDATE, and then
  notifies; its worker may die in between.

`ApprovalStages` is what a request promises to whoever only sees outcomes: it
passes its steps one at a time and in order, is granted with the last, and a
denial or recall stops it. `ApprovalRequests!Stages` is the refinement mapping.

`UseCaseApprovals` extends `ApprovalRequests` with what requests are about and
what ending them does. Each of its actions is one transaction of a handler and
conjoins the action of `ApprovalRequests` it calls with the handler's own
writes; `Decide` is `processApprovalQuery` in full. `BeginEdit` is the unlocked
read of `updateProjectById` and the `Edit...` actions its transaction, which
holds the row of the use case; `FindsNonePending` is the unlocked check of the
framework handlers and `ChangesLinks` their transaction. That a lock is held in
between is used in one way only: an edit's transaction is one action.

`ActionGateway` is about another kind of approval, one row of
`ai_action_approvals` for one call of an advisor tool or for one gate of a
workflow run. It shares no tables with the modules above, and it is written the
other way round: nothing here opens a transaction or locks a row, so what is one
action there is one action for every statement here. `call` is a handler in
progress. Its `at` is the statement it comes to next and its other fields are the
variables the code has by then: the approval it read, the run it found, the step,
`ctx.resumedApprovalId`. Which action stands for what:

| Code | Actions |
|---|---|
| `submitForApproval` | `SubmitTool`; `SubmitApproved` when the rules approve at once, which executes first and inserts after it |
| `approveAction` | `ReadsPending`, `MarksExecuting`, then for a tool `NoExecutor` or `RunsTool`, for a gate `FindsRun`, the resume and `Verifies`; `Settles` is the last statement of every branch |
| `resumeWorkflow` | `LoadsRun`, `Resumes`, then the loop |
| `startWorkflow` | `StartsRun`, then the loop |
| `executeStepLoop` | per step `OpensGate` and `Parks`, or `Writes` and `Passes`, or `Passes`, or `FailsStep`; `FinishesRun` at the end |
| `rejectAction`, `cancelRunForRejectedApproval` | `ReadsPending`, `Rejects`, `FindsParked`, `CancelsRun` |
| `expirePendingApprovals` | `Expires`, whose UPDATE has the condition in it |
| an exception, a dead process | `Throws` where the code catches it, `Crashes` where nobody does |

`writes` is a history variable, the writes made and under which approval. Left
out: what the rules say (any answer), tool names and arguments, the copy of a
pending approval in Redis, which the client polls, the log, and the deadline of an
approval: whenever it is pending it may be old enough. Branches of a workflow go
forward, as in all that are registered. A step that need not wait, as one whose
trigger came approved, is not among the `Gates`.

`WritePermits` is what the gateway promises those who approve, without handlers,
statements, runs or gates: a decision to approve is a permit for one write to its
subject, used once or lost, and no decision gives two; only what the rules let
through is written without one. In the refinement mapping, `ActionGateway!Permits`,
a permit is nowhere in the tables: it is held by an approving call that still looks
for what it approved, or stands at the step it resumed its run at (`Permitted`).

`SyncRuns` is the life of a run in the extension sync engine: the runs of one
extension in one organisation, since every query names that pair. A *runner* is
one execution that may claim a run, and its row is that of the run it last
claimed; a closed row is history, of which the engine reads only when the newest
run started (`since`), so it forgets the rest.

| Code | Actions |
|---|---|
| `claimRun` | `Claim`, `Refuse`: one transaction under the pair's advisory lock, which first closes what is stale |
| `withClaim` | `ClaimForOperation`, then as a run |
| `heartbeat`, `assertOwned`, statements guarded by `sqlOwnsRun` | `Beat`, `Open` and `CloseData`, or `Superseded`; a row is share-locked while its data transaction is open, so that whoever would close it waits |
| `completeIn`, `failRun`, `finalize` | `Finish`, `Fail`, `FinishInData`, `EndUnrecorded` |
| the tick | `TickSweep`, `TickDue`, `TickAdd`, and where it throws `TickSweepFails`, `TickGivesUp` |
| `startManualRun`, `addSingletonJob` | `ManualCheck`, `ManualAdd`; the look at the queue and the add are one step, because an add that finds the job id taken does nothing |
| BullMQ | `Pickup`, `JobStalls`: a job whose worker is lost is delivered once more; `Crash` forgets which worker had it |

`ExclusiveClaim` is what the engine promises its providers, `RunContext`, without
rows, jobs or time: one holder, taken over only when its window has lapsed, and
never while its guarded transaction is open. `SyncRuns!Claim` is the refinement
mapping, and it is also the only thing `IncidentSync` knows of the engine.

`IncidentSync` is what the Jira provider does between a claim and its end, for one
issue, its incident and the link between them; the links of others share nothing
with it but the order a run takes them in. Each statement and each answer of Jira
is an action of its own: `SearchIssues`, `CheckLinked`, `CreateIncident` and, when
the search is through, `MarkChecked` import; `ReadLink`, `FetchStatus`, `MakeDecision` and then one of `RecordUnchanged`,
`ApplyToVerifyWise`, `LeaveJira`, `CheckBeforeMove` / `Transition` /
`RecordTransition`, `MarkDeleted`, `ReportProblem` and `FailLink` keep the status in
step. `Decide` is `decideStatusAction`. People edit, archive, delete and hide in
between. A run whose claim has lapsed goes on until a statement looks, which not
all do. Change times are reduced to what the decision asks of them, which side
changed `later` and whether Jira did since the import (`moved`). `base` is a
history variable, the statuses at which the sides were last in step, and
`disturbed` marks behaviours in which two runs overlapped or a move was made and
not recorded. `quiet` is the history of one run instead of the whole behaviour: the
last run to start was alone, and nobody has edited a side and nothing has failed
since.

A run does not look at everything, and two things say what it leaves out. The search
for issues to import goes back to a cutoff, `last_checked_at` less ten minutes, as
the run loaded it (`importCutoff`); a search that came to its end moves it to the
start of the run, or to the creation of the first issue that failed (`markChecked`).
Instead of times the model keeps how the cutoff stands to the issue, `reach`:
`young`, the issue was created less than the overlap before the last run began, so
no mark made at that start shuts it out; `open`, the cutoff lies before it; `closed`,
after it. A run takes with it what it loaded (`reach`) and whether the mark it will
set still goes back to the issue (`keeps`), and a superseded run may set an old mark
late, which opens the window again. `missed` is a history variable: the issue was not
shown to a run that could still have found it. And `listSyncableLinks` leaves out a
settled link, closed on both sides and synced within `SETTLED_RECHECK_HOURS`, unless
a person asked for the run (`Settled`, `recent`, `Manual`, `Rests`); `RestPasses` is
the day going by. `resting` is the history of such a run.

`AuditLedger` is the ledger of one organisation. A digest is modelled by its
preimage: `computeEntryHash` is taken to be injective and nothing else. Appends
(`BeginAppend` to `CommitAppend`) and batches of the daily prune (`PruneLock` to
`PruneBatch`) hold the organisation's advisory lock and proceed by statements;
`occurred_at` is the time the append's transaction began, before it had waited for
the lock. A verification (`StartCheck`, `CheckPage`) reads a snapshot and walks it by
pages; there is one in a behaviour, begun at any moment, because it changes
nothing. `DeleteAccount` is the `ON DELETE SET NULL` that rewrites rows behind the
chain, which a trigger allows.

`AppendOnlyLog` is what the ledger promises whoever reads it, without locks,
transactions, batches or hashes: each writer's entry once or never, behind all the
others; no entry changes, moves or comes back; entries leave from the old end only,
when they are old enough, and never all. `AuditLedger!Log` maps the committed rows,
without their hashes and users, to the log, and the writers that are done to the
entries that were recorded or never will be.

`ScheduledReports` is the schedules, the tick that claims their slots and the people
who change them meanwhile. A slot is a value of `next_run_at`. `BeginTick` is
`new Date()`, `FindDue` the SELECT, `Claim` and `Skip` the two outcomes of the
conditional UPDATE, `InsertRun`, `InsertFails` and `Finish` the run it starts;
ticks overlap when one outlasts its quarter of an hour or is delivered again. A
PATCH computes its `next_run_at` at some time after it began and stores it later
(`Edit`). `late` is a history variable, the schedules an edit put on a slot that had
passed by the time it was stored. What a report says, to whom it goes and what
becomes of its run are left out, as are runs started by hand, which have no slot.

Each `MC...` module gives the instances of one of these for TLC, and each
`...Proofs` module holds the proofs about one. Definitions marked *mutant* in a
comment are plausible mistakes in the definition they precede; the specification
does not use them, they show which property would notice.

## 3. What the runs show

| Run | Result | Instance |
|---|---|---|
| `voting` | `TypeOK`, `StepLadder`, `SomeoneCanDecide`, `VerdictMatchesVotes`, `OverrideWasMeant`, `VotesAreFinal`, `ImplementsStages` hold | two requests on one entity, two users, one an administrator, two templates (two steps, all of two approvers and then any of one; one step), three different decisions sent |
| `sweep` | `EscalatesOnce`, `ClockFollowsStep`, and under fair sweeps `OverdueEscalates` hold | one request of two timed steps, two sweepers, one crash |
| `use_case` | `InReviewHasRequest`, `VerdictReachesEntity`, `QueueNeedsVerdict` hold | one use case, two requests, two workflows, two edits and one framework handler at once, automatic approval by risk |
| `files` | `VerdictReachesEntity` holds | a file and an AI action, two requests, two workflows |
| `gateway` | `StrandedByCrashOnly`, `ParkedAtItsGate`, `WriteWasApproved`, `OneDecisionOneWrite`, `ImplementsPermits` hold | two runs of a workflow of three steps, the last two gated; three approvals, three calls of any handlers, one cut short |
| `settles` | `ApprovalSettles` holds under fair handlers and a fair timer | one run with gates at its first two steps, two approvals, three calls, one cut short |
| `second_gate` | `GateGuardsItsStep` is violated | two people approve one gate; the second resume finds the run parked at the next one |
| `sync_runs` | `OneClaim`, `OutcomesCountOnce`, `ImplementsClaim`, and under the engine's fairness `CrashedRunsClose`, `ScheduleGoesOn` hold | two runners, one request by a person, a window of one tick, a backoff of up to two hours |
| `incidents` | `OneIncidentPerIssue`, `OneRunReconciles`, `EditsKept`, `NoEcho`, and under fair runs `Converges` hold | a scheduled and a manual run, two events out of people's edits and failures, an issue that ages out of the search window, a day that passes over a settled link; a status without a mapping, a Jira workflow with a dead end, mappings that are not inverse |
| `ledger` | `Chained`, `CompromisedByDeletionOnly`, `IntactIsComplete`, `OnlyCommitted`, `TriggerNeverRefuses`, `RetentionHonoured`, `ImplementsLog` hold | three changes, one run of the prune in batches of one, one account that may be deleted, a verification in pages of two |
| `ledger_accounts` | `NeverCompromised` is violated | an account is deleted and the chain verified |
| `reports` | `SlotRunsOnce`, `CadenceKept`, and under fair ticks `DueIsClaimed` hold | one schedule, two cadences, two ticks, one edit in progress, one crash |

Type correctness is proved of every model (section 4) and checked by a run only in
`voting`.

The two runs that end in a violation each refute a sentence of a comment or of a
page; `findings` in `PROJECT.json` quotes it. `second_gate` does not contradict
`OneDecisionOneWrite`: each person's decision makes one write, but one of the two
writes stands behind a gate nobody was asked about, while the approval of that gate
stays pending with no run to resume. `ledger_accounts` does not contradict
`CompromisedByDeletionOnly`: nothing but a deleted account makes an honest ledger
fail, but that does.

`OneRunReconciles` and `Converges` count an issue as settled out of step only when it
is `Irreconcilable`, and then the link must say so: Jira has moved to a status no
mapping covers, or the incident to one that Jira's workflow has no step to. An
excuse that is not an `error` on the link is none. Two more things they allow are
how the code is made, and each has its own condition. An issue that Jira does not
show (deleted, moved, not visible to the service account, or without the label the
search asks for) while a search that could still find it comes to its end is not
imported when it is back: the cutoff has passed it (`Imported`, which asks that the
issue was `missed` and the window is `closed`). That the window closes over no other
issue, one that failed to import or whose run was cut short or superseded, is what
the property is about. And a scheduled run may end without having read a settled link
(`resting`), so that a reopened issue waits up to a day, as the comment at
`extensions/jira-incidents/jiraIncidents.store.ts:112-118` says: one run is enough
for everything else, and a manual run for that too. `Converges` has no such
exception, because the day passes. `StrandedByCrashOnly` counts: there are
never more approvals left `executing`, with nobody at work on them, than calls that
died, so no failure the code catches leaves one behind.

### Divergences without a run

Where the code and its words part, as read while modelling. The models contain
each of the behaviours named here unless it says otherwise; no run is spent on them.

* `utils/approvalRequest.utils.ts:641-642` calls a second decision a repeat. For
  an approver of two successive steps it counts on the next step.
* A queued framework that was linked by hand meanwhile makes the approval itself
  fail (`utils/approvalRequest.utils.ts:229-231` against
  `controllers/project.ctrl.ts:487-488`).
* Frameworks of a use case change while a request is pending, when the request was
  opened after the handler looked (`controllers/framework.ctrl.ts:121`, `:140`).
* An approval that expired, or was rejected, is reopened by a call that read it
  while it was pending (`advisor/approval/stateMachine.ts:193`, `:210`, `:215`
  against `advisor/approval/approvalGateway.ts:544`).
* Two calls that approve one action at once may both run it, and a call that approves
  may run it after another has rejected it (`advisor/approval/approvalGateway.ts:544`,
  `:698`). `OneDecisionOneWrite` and `WritePermits` bound the writes by the decisions
  of people, and not by the approvals.
* The approvers of a template are read step by step while an edit may rewrite them
  (`utils/approvalWorkflow.utils.ts:70`), and a step may be opened without any.
  `SomeoneCanDecide` exempts such a step: only an override or a withdrawal ends it.
* A run whose gate is approved before it is parked stays parked
  (`advisor/approval/approvalGateway.ts:471`). `ParkedAtItsGate` is about the link
  between the two, and not about getting on.
* The timer that rejects a gate leaves its run parked
  (`advisor/approval/timeoutHandler.ts:52` against `approvalGateway.ts:893`).
* `utils/auditLedger.utils.ts:96-100` and
  `src/docs/technical/domains/ai-advisor-write-tools.md:332` speak of a serializable
  transaction and of retries of the append. There are neither: the lock gives the
  order, and an append that fails is lost (`AppendFails`).
* The ledger page shows the verdict `partial`, a chain longer than the walk, as "All
  entries verified" (`src/Clients/src/presentation/pages/SettingsPage/AuditLedger/index.tsx:143-150`).
  `IntactIsComplete` is about the verdict, not the page.
* "The next run sees both sides changed"
  (`extensions/jira-incidents/jiraIncidents.statusSync.ts:390-391`): not when the incident is put
  back to its old status before the next run.
* The statements of a status sync that do not look at the row (`RecordUnchanged`,
  `FailLink`, `RecordTransition`) turn a link that a deletion marked
  `deleted_in_verifywise` meanwhile back into `ok` or `error`. The issue is not
  imported again all the same.
* "Never silent" (`src/docs/superpowers/specs/2026-10-14-jira-incidents-design.md:14`)
  does not survive a superseded run, whose stale snapshot can make the next run
  revert an edit. That is what `disturbed` excludes.
* "So the slot is delivered exactly once"
  (`services/reporting/reportSchedulerJobs.ts:24`) is *at most once*: a crash after
  the claim or an INSERT that fails spends the slot. And it is not even that for
  an edit that spans the slot, or whose replica's clock is behind: it puts the row
  back to a slot already run (`late`).
* A tick runs a report with the recipients and the scope it read, perhaps long
  before; a run whose process dies stays `running` for good; and two PATCHes at once
  can each pass the check of scope against project
  (`controllers/scheduledReport.ctrl.ts:207-225`), made on an unlocked read, and
  break it together. The models have none of these three.

### Bounds

`Requests` bounds how many requests are ever opened: two are needed for
one to supersede the other, and a third would stand to the second as the second
to the first. Two steps give a first, a last, a next one and an advance; two
approvers on a step tell *all* from *any*. `MaxSends` bounds the different
decisions ever sent, not how often each arrives. `MaxCrashes` bounds crashes of
a sweep: one, with a second sweeper alive. One framework suffices because the
queue is created or not as a whole. In the runs of `UseCaseApprovals` one vote
decides a step, since how votes decide is the business of `voting`.

In the gateway `Approvals`, `Runs` and `Calls` bound what is ever submitted, started
and invoked: a call serves once, so three calls are a start and two deciders, which
is what it takes to resume a run twice, or a start, an approver and one who
rejects; a third approval is the gate opened by a resume, beside those of two runs;
three steps with two gates in succession give a gate, a gate after it, and the end.

Runners of `SyncRuns` serve again and again: two are an owner that sleeps and the
one that takes over. Time there is counted in five-minute ticks, with an hour and
the heartbeat's window cut to one tick each; what matters is which of them ends
first, and all orders occur. The streak is counted up to the exponent at which the
backoff stops growing. `MaxRequests` bounds what people ask, not what the schedule
does. In `IncidentSync` `MaxEvents` bounds the edits and failures of a behaviour: two
are an edit of each side, an edit and a crash, or an issue that is hidden and comes
back; runs are not bounded, and of the two one is scheduled and one manual. In
`AuditLedger` three appends and a prune's own make a chain in which a row has
neighbours on both sides, the prune takes two batches of one row, and a chain of
`MaxEntries` rows ends its walk `partial`, while a shorter one is `intact`. In
`ScheduledReports` two rows of `report_runs` are the pair `SlotRunsOnce` compares, and
an INSERT may fail at any time, so that every run may be one of the pair; cadences
of one and two units let an edit move a schedule either way.

Symmetry is used over requests, workflows and edits, over approvals, runs and calls,
and over changes, which no formula names, and in runs without liveness only.

Deadlock is not checked: a system in which every request is closed and nobody
opens another, or in which a bound is used up, is meant to stop.

### Fairness

Only liveness needs any, and nothing is ever assumed of people.

* `OverdueEscalates`: the sweep is a repeatable hourly job, and a run that is cut
  short is followed by the next, so each sweeper is weakly fair.
* `ApprovalSettles`: a handler that has begun goes on, since each of its statements
  returns or throws, unless it is cut short; and time passes and `timeoutHandler`
  looks every minute, so an approval that stays pending expires. Which branch a
  handler takes is not subject to fairness. An approval left `executing` by a call
  that was cut short stays there, and the property says so: nothing in the code looks
  for one.
* `CrashedRunsClose`, `ScheduleGoesOn`: time passes; the tick comes every five minutes
  and does not fail every time (strong fairness, since each of its stages may give
  up); an execution gets on with its run or is stopped by the deadline, a data
  transaction ends by its timeout, and the queue notices a worker that is gone. A
  run need not succeed and need not beat.
* `Converges`: time passes, so that a settled link does not stay recent; the ticks sweep lapsed claims and start runs, and some run goes on
  with its work; a run that hangs holds up no other, since its claim lapses. Which
  run starts is not subject to fairness: all of them may be scheduled.
* `DueIsClaimed`: ticks begin every quarter of an hour, and the queries of one return
  or throw.

## 4. What is proved

All proofs are checked by TLAPS down to the last leaf. They hold for every set of
requests, users, templates, entities and sweepers and every number of steps; what
they assume is `TemplatesOK` (bounds are natural numbers, templates have the shape
their form enforces, a saved step has an approver), `EntitiesOK` (use cases,
files and AI actions are different things), `WorkflowOK` (a
workflow has steps, its gates are among them, no row has the id `None`),
`SyncAssumption` (finitely many runners, an hour has a tick),
`IncidentAssumption` (the mappings are functions of the statuses, none of which is
the empty one),
`LedgerAssumption` (writers differ, no period is shorter than the trigger's) and
`CadenceAssumption` (the next slot lies ahead). The runs evaluate them.

`ApprovalRequestsProofs`:

* `TypeCorrect`. Everything else rests on it.
* `StepLadder`, `SomeoneCanDecide` and `VerdictMatchesVotes` are not inductive.
  The invariant is `RowsOK`, one conjunct per request. `LadderAt` adds to the
  ladder that an unopened request has no rows and that there are no rows past the
  last step, or opening a request could inherit some. `BallotsAt` says that
  *every* step from the current one on is still `Decidable`, because the next step
  becomes current with the votes it has; and that a rejecting vote marks its step,
  so that an open step cannot carry one. `InsertRowsOrdered` and `SettlesOrdered`
  prove it for the two transactions that write rows; every other step leaves them
  alone (`SameRows`). `LadderHolds`, `NeverStuck`, `VerdictExplained` follow.
  That the rule "all or any" is read from an edited template never matters in
  `NeverStuck`: whichever way it is read, a vote that does not satisfy it leaves a
  voter.
* `VotesFinal`, an action property, uses `RowsOK` for one thing: a request that
  is opened has no votes yet.
* `Refinement`: every step maps to a step of `ApprovalStages` or to a stutter.
  The ladder gives the set of passed steps its form `1 .. current - 1`.
* `SingleEscalation` and `ClockNeverEarly` need `ClocksOK`: a claimed step is
  escalated, its notice is still to come and nobody else has claimed it; and what a
  sweeper has read is a step its request has reached, also after the request
  moved on.
* `OverridesMeant` needs that an overridden request is never unopened, so that
  its requester does not change.

`UseCaseApprovalsProofs`:

* `ComposedImplements`: each transaction of the handlers is a step of
  `ApprovalRequests` or leaves its variables alone, so all of the above holds in
  the composed system. The proof needs that an edit in progress is one of a use
  case (`Typed`).
* `ReviewCanEnd`: `InReviewHasRequest` is inductive given types. A request is
  only ever replaced by one about the same use case, and whatever ends a request
  releases the use case in the same transaction.

* `VerdictsReach` and `QueueWaits`. Neither invariant is inductive; `ReachOK` is:
  a request is about something that exists or once did, only use cases are
  approved without a person, and nothing is queued for a use case that is absent.
  Its other conjuncts are those of the property, one for each request and each
  file. That steps decided stay decided (`StepsLast`) is why a verdict a file shows
  is never left without the request that gave it.

`ActionGatewayProofs`, for any workflow and any number of approvals, runs and
calls at once: `GatewayTypeCorrect`, `LinksHold`, `WritesApproved`,
`OneWriteEach`, `CrashesStrand` and `GatewayImplementsPermits`, all from the
invariant `Inv`.

* `CallsOK` says which variables a handler has set by the statement it stands at,
  or no statement would keep to the types.
* `LinksOK` adds to `ParkedAtItsGate` what handlers hold on to across statements
  of others: a call about to park has opened the gate of that very step, and an
  approving call acts on the run of its approval, which it found through the link.
  An approval that stands for a gate exists already, so that a new gate is nobody
  else's. None of this says that the run is still where the call found it; the
  theorems do not need it, and `second_gate` is what follows.
* `WritesOK` adds to the two properties of writes that what a call wrote was
  under its own approval and that the call may write no more. `MayWrite` is never
  regained: `PassesKeepingApproval` is the mutant that regains it.
* `StrandedOK` adds to `StrandedByCrashOnly` that what is stranded is finite, which
  a cardinality needs when there are infinitely many approvals. `EndsOrGoesOn` is the
  heart of it: an approving call either stays at work on its approval or settles it in
  the same statement, so only `Crashes` adds to `Stranded`, by one at most.

Each of the four parts is preserved by every action given the ones before it
(`CallsStep`, `LinksStep`, `WritesStep`, `StrandedStep`).

`GatewayImplementsPermits` maps each statement to a step of `WritePermits` or to none
(`PromiseStep`). `OutWhenTurns` says once and for all what becomes of the set of permits
when one call turns into another; with it, marking an approval as executing issues a
permit, the write of a tool or of a step uses the one its call holds, and every other
statement loses it or keeps it. It needs `Inv`, in that the step writes to the
run of the approval its call holds a permit for, and one invariant more: `Recorded`, a call about
to complete its approval was told to by a person or has made the write that the rules
let through, so that nothing is given after the fact. The abstract specification does
not promise one permit for an approval: two people who approve it at once hold one
each, since nothing in the code keeps the second from it, and `second_gate` shows what
the second may do.

`SyncRunsProofs`, for any number of runners: `Typing`, `ClaimIsUnique`,
`StreakCountsOutcomes` and `Refinement`. One row is started at a time because a
claim closes the stale ones and refuses over a live one; what else is needed is
`Coherent`: a runner that is about to claim has no started row, and one that runs and
still has its own records in it the kind it runs as. That an open data transaction
belongs to the started row is part of `OneClaim`; the share lock keeps it true, and
the refinement maps `busy` by it.

`IncidentSyncProofs`, for any statuses, mappings and Jira workflow and any number of
runs: `Typing`, `ImportedOnce`, `EditsAreKept`, `NothingEchoes` and
`QuietRunReconciles`. An incident is made
only where there is no link, and a link stays. For the other two `Chosen` says
what the decision a run carries owes to what it read, `Solo` that in an undisturbed
behaviour at most one run is under way, `Basis` that the link's snapshot is then what
the sides were in step on, and `Reading` that a run's reading of it is too.
`QuietRunReconciles` needs neither `Solo` nor `Basis`, since it asks nothing of the
edits that went before; its invariant is `Course`: in a quiet run there is one run, and
at each of its statements what it holds is what the tables and Jira now say
(`OnCourse`), up to the decision, which is then right about both sides; and it leaves
a link unread only if that was settled and recent when it began. Of what runs before
it have left it needs `Window`: whatever they were doing when they failed or were
superseded, the search window is closed only over an issue that has a link or was
missed, and no run carries a mark that would close it over another. It is the safety half of
`Converges`: that such a run comes at all is left to fairness. `RunsKeepClaim` closes
the composition: every step of the sync, the people and the failures around it leaves
the claim alone or is a step of `ExclusiveClaim`, so it relies on nothing of the engine
but what `SyncRunsProofs!Refinement` gives.

`AuditLedgerProofs`, for any number of changes and runs of the prune: `Typing`,
`ChainIsUnbroken`, `NoFalseAlarm`, `IntactIsWalked`, `RowsAreCommitted`,
`TriggerAgrees`, `RetentionIsHonoured` and `LedgerImplementsLog`, from the invariant `IInv` (`Inductive`): only the
holder of the lock is between its read and its commit; the hash it read is still that
of the newest row; ids and checkpoints lie below the sequence; each row's hash is
over what the row says, but for the user of a deleted account; a bound chosen under
the lock has only old rows below it; and a walk under way stands behind a row of its
snapshot and has counted the rows up to it. For `LedgerImplementsLog` only two
statements change what the log holds (`LogStep`): a commit appends, because the id
taken under the lock is above those of all rows and its writer was not done before
(`CommitAppendsToLog`); a batch prunes, because its bound lies above old rows
only and the newest row stays (`BatchPrunesLog`). Whatever rolls back or fails is an
entry given up, and a deleted account, which does rewrite rows, changes nothing that
the log is about.

`ScheduledReportsProofs`, for any cadences and any number of ticks, edits and runs:
`TypeCorrect`, `SlotOnce` and `CadenceStays` (a tick that read a row before an edit
does not put it back on its old cadence). The invariant (`Inductive`) has three
parts: `Past`, what was read, claimed or run has passed; `Ahead`, rows move only
forward, unless late; `Apart`, an insert still to come is of a slot that nobody else
runs.

`PromisesProofs` is about the four abstract specifications alone: what those who rely
on a component may conclude without its tables, and that the promises are not
empty. `GrantedInFull` (for any natural `MaxSteps`): granted is all steps passed in
order, an open request has one left, nothing passed or decided is taken back.
`PermitsSuffice`: one write for a decision, none without an approval given.
`ClaimGuards`: a guarded write belongs to the holder from beginning to end.
`NothingRewritten`: no entry twice, changed, moved or brought back. By the refinement
theorems they hold of the components, under the mappings.

With TLC only: the liveness properties `OverdueEscalates`, `ApprovalSettles`,
`CrashedRunsClose`, `ScheduleGoesOn`, `Converges` and `DueIsClaimed`. They rest on
fairness, whose meaning is `ENABLED`, and that is out of TLAPS's reach; of two of them
the safety half is proved, `CrashesStrand` for `ApprovalSettles` and
`QuietRunReconciles` for `Converges`.

## 5. What is not modelled

* Comments, names, notifications other than the escalation notice, translations
  and the read-only queries of all components.
* Aborted transactions: a deadlock that PostgreSQL breaks, or an effect of an
  approval that throws, leaves no trace, so it is a step that is not taken. A
  decision locks the request and then the use case, an edit or deletion the
  other way round, so such aborts do happen.
* The primary keys of things that do not exist yet: clients name entities that
  exist or once did (`Known`).
* Requests that the AI action gateway inserts on its own
  (`bridgeToApprovalWorkflow`), and accounts being deleted: see the plan.
* The Jira assets sync beyond its runs.
* Issues created before `import_from`, which are never imported
  (`extensions/jira-incidents/jiraIncidents.import.ts:65`), and a change of the
  project, type or label of the search. For an issue the change shuts out it is like
  not being shown; for one it lets in the window is what it was, since
  `last_checked_at` stays.
* That people move an issue between a run's read of its transitions and its own
  transition is modelled, but no property forbids it: no lock reaches into Jira.
* Several links of one run, several organisations on one ledger, and the other tables
  that the daily prune empties: they share no rows with what is modelled.
* How a report is generated and delivered, runs started by hand, and the deletion of
  runs.
* Refresh tokens, the budget and the MCP approvals of the LLM gateway, the automation
  worker's other jobs, monitoring, model risk management, the shadow AI batcher and
  the plain registers: `PROJECT.json` says why for each.
* In the gateway: several organisations, since every statement is scoped to one;
  the rule engine and confirmations in a chat; the audit log.
* The state machine of `stateMachine.ts` is no abstract specification that the
  gateway could be shown to implement: no handler runs it, and they
  leave it, since a call that read an approval before it was closed reopens it.
  `WritePermits` is what the handlers do keep to.

## 6. Plan

Done: the requests, use cases, the gateway with what it promises, the sync engine
with its promise, the incidents sync over that promise, the ledger with its promise
and scheduled reports, their runs and the proofs above. In the order of what they would add:

1. `ApprovalAccounts`: deletion of accounts over `UseCaseApprovals`, whose
   cascades remove requests, workflows and votes; `InReviewHasRequest` and
   `SomeoneCanDecide` once more.
2. `RefreshTokens`: rotation and reuse detection with two clients.
3. `GatewayBudget` and `McpApprovals`: reserve, adjust and reset; one use per approval.
4. The bridge from the AI action gateway into approval requests, as a composition
   of `ActionGateway` and `ApprovalRequests`.
5. Delivery of a report's run, the automation worker, model risk management, the
   shadow AI batcher.
