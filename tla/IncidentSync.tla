---------------------------- MODULE IncidentSync ----------------------------
(* The Jira incidents sync (Servers/extensions/jira-incidents): one Jira     *)
(* issue, the incident it is imported as, the link row between them, the     *)
(* people who move either side, and the runs that keep both in step.         *)
(* Issues share no state but the runs that read them and the window of the   *)
(* import search (last_checked_at), so one stands for all: an issue created  *)
(* since the sync was set up, for older ones are never imported.             *)
(*                                                                           *)
(* The runs work under the claim of the sync engine, which SyncRuns is shown *)
(* to implement: `Claim` below.  The sync opens no guarded data transaction: *)
(* between two heartbeats a run that was superseded works on, and only the   *)
(* row locks of stillAsRead stand between its reads and its writes.          *)
EXTENDS Naturals

CONSTANTS Run,       \* executions of a sync run
          Manual,    \* those that somebody asked for: the others are scheduled
          NoRun,     \* no run
          JStatus,   \* the statuses of the Jira workflow
          VStatus,   \* the statuses of an incident
          OpenStatus, \* the status of an incident imported in an unmapped status
          ClosedStatus, \* the status of an incident that is settled
          Unset,     \* the empty Jira snapshot, the missing mapping, no target
          MapIn,     \* statusMapIn
          MapOut,    \* statusMapOut
          Moves,     \* the transitions of the Jira workflow
          MaxEvents  \* bound: edits people make and failures of the runs

ASSUME IncidentAssumption ==
    /\ NoRun \notin Run /\ Manual \subseteq Run
    /\ OpenStatus \in VStatus /\ ClosedStatus \in VStatus
    /\ Unset \notin JStatus \cup VStatus
    /\ MapIn \in [JStatus -> VStatus \cup {Unset}]
    /\ MapOut \in [VStatus -> JStatus \cup {Unset}]
    /\ Moves \subseteq JStatus \X JStatus
    /\ MaxEvents \in Nat

VARIABLES holder, busy, fresh, \* the claim of (jira-incidents, organisation)
          jira,      \* the issue: its status, and whether Jira shows it
          vw,        \* the incident: its status, and whether it exists
          link,      \* the row of jira_incident_links
          recent,    \* its last_synced_at is within SETTLED_RECHECK_HOURS of now
          later,     \* the side whose status changed last
          moved,     \* Jira's changelog shows a move since the import
          reach,     \* how the window of the import search stands to an issue that
                     \* is not imported; of no account, and open, once it is
          work,      \* what each run has read and is about to do
          events,    \* bound: edits and failures so far
          made,      \* history: incidents created for the issue
          missed,    \* history: the issue is not imported, and Jira did not show it
                     \* to a run that began when it was not young any more
          base,      \* history: the pair of statuses that were last brought in step,
                     \* until a run is disturbed
          disturbed, \* history: a run lost its claim while it worked, or died
                     \* between a move in Jira and its record
          quiet,     \* history: the last run to start was alone, and since then
                     \* nobody edited a side and nothing failed
          resting    \* history: the last run to start was scheduled, and found the
                     \* link settled and recent

claim == <<holder, busy, fresh>>
sides == <<jira, vw, later, moved>>
row == <<link, recent>>
window == <<reach, missed>>
history == <<made, base, disturbed>>
course == <<events, quiet, resting>>
vars == <<holder, busy, fresh, jira, vw, link, recent, later, moved, reach,
          work, events, made, missed, base, disturbed, quiet, resting>>

Claim == INSTANCE ExclusiveClaim WITH Runner <- Run, Nobody <- NoRun

-----------------------------------------------------------------------------
(* Values                                                                    *)

Issue == [status : JStatus, shown : BOOLEAN]

Incident == [status : VStatus, state : {"none", "active", "archived", "deleted"}]

\* LinkState, and no link.
LinkStates == {"none", "ok", "error", "conflict", "deleted_in_jira", "deleted_in_verifywise"}

Link == [state : LinkStates, lastJ : JStatus \cup {Unset}, lastV : VStatus]

NoLink == [state |-> "none", lastJ |-> Unset, lastV |-> OpenStatus]

\* What a run decided: v the status for the incident, j the status for Jira.
Acts == {"none", "resume", "unmapped", "to_vw", "to_jira"}

Decision == [act : Acts, v : VStatus, j : JStatus \cup {Unset}, conflict : BOOLEAN]

NoDecision == [act |-> "none", v |-> OpenStatus, j |-> Unset, conflict |-> FALSE]

NoBase == [j |-> Unset, v |-> OpenStatus]

Phases == {"idle", "search", "found", "create", "beat", "mark", "read", "fetch",
           "decide", "apply", "move", "record", "ending"}

\* "young": the issue was created within IMPORT_OVERLAP_MINUTES of the start of the
\* last run; "open": after last_checked_at less the overlap; "closed": before it.
Reaches == {"young", "open", "closed"}

\* at: how far the run has come; reach: the window it loaded goes back to the
\* issue; keeps: so will the window it leaves; read, v, j: the link, the incident's
\* status and Jira's status as it read them; do: its decision.
Work == [at : Phases, reach : BOOLEAN, keeps : BOOLEAN,
         read : Link, v : VStatus, j : JStatus \cup {Unset}, do : Decision]

Resting == [at |-> "idle", reach |-> FALSE, keeps |-> FALSE,
            read |-> NoLink, v |-> OpenStatus, j |-> Unset, do |-> NoDecision]

TypeOK ==
    /\ holder \in Run \cup {NoRun} /\ busy = NoRun /\ fresh \in BOOLEAN
    /\ jira \in Issue
    /\ vw \in Incident
    /\ link \in Link
    /\ later \in {"neither", "jira", "vw"}
    /\ moved \in BOOLEAN
    /\ recent \in BOOLEAN
    /\ reach \in Reaches /\ missed \in BOOLEAN
    /\ work \in [Run -> Work]
    /\ events \in 0 .. MaxEvents
    /\ made \in Nat
    /\ base \in [j : JStatus \cup {Unset}, v : VStatus]
    /\ disturbed \in BOOLEAN /\ quiet \in BOOLEAN /\ resting \in BOOLEAN

Init ==
    /\ Claim!Init
    /\ jira \in [status : JStatus, shown : {TRUE}]
    /\ vw = [status |-> OpenStatus, state |-> "none"]
    /\ link = NoLink /\ recent = FALSE
    /\ reach = "young" /\ missed = FALSE
    /\ later \in {"neither", "jira"}
    /\ moved = FALSE
    /\ work = [r \in Run |-> Resting]
    /\ events = 0
    /\ made = 0
    /\ base = NoBase
    /\ disturbed = FALSE /\ quiet = FALSE /\ resting = FALSE

-----------------------------------------------------------------------------
(* The decision table                                                        *)

Yields(act, v, j, conflict) == [act |-> act, v |-> v, j |-> j, conflict |-> conflict]

Nothing == NoDecision

\* toVw of decide.ts.
ToVw(j, v, conflict) ==
    IF MapIn[j] = Unset THEN Yields("unmapped", OpenStatus, Unset, FALSE)
    ELSE IF ~conflict /\ MapIn[j] = v THEN Nothing
    ELSE Yields("to_vw", MapIn[j], Unset, conflict)

\* toJira of decide.ts; a missing target leaves Jira where it is.
ToJira(j, v, conflict) ==
    IF ~conflict /\ MapOut[v] = j THEN Nothing
    ELSE Yields("to_jira", OpenStatus, MapOut[v], conflict)

\* Both sides changed and disagree: the later change wins, Jira's on a tie.
Resolve(j, v) ==
    IF later = "vw"
    THEN IF MapOut[v] = j THEN Nothing ELSE ToJira(j, v, TRUE)
    ELSE ToVw(j, v, TRUE)

\* decideStatusAction, for the link l as read, with the change times of now.
Decide(l, j, v) ==
    LET vwChanged == v # l.lastV
        jiraChanged == j # l.lastJ /\ ~(l.lastJ = Unset /\ vwChanged /\ ~moved)
    IN CASE ~jiraChanged /\ ~vwChanged -> Nothing
         [] jiraChanged /\ ~vwChanged -> ToVw(j, v, FALSE)
         [] ~jiraChanged /\ vwChanged -> ToJira(j, v, FALSE)
         [] OTHER -> IF MapIn[j] = v THEN Nothing ELSE Resolve(j, v)

-----------------------------------------------------------------------------
(* People                                                                    *)

Counted ==
    /\ events < MaxEvents /\ events' = events + 1
    /\ quiet' = FALSE /\ resting' = FALSE

Edits == Counted /\ UNCHANGED <<claim, window, work, history>>

\* Somebody moves the issue along its workflow.
MoveIssue(s) ==
    /\ Edits
    /\ jira.shown /\ <<jira.status, s>> \in Moves
    /\ jira' = [jira EXCEPT !.status = s]
    /\ later' = "jira"
    /\ moved' = TRUE
    /\ UNCHANGED <<vw, row>>

\* The issue is deleted or out of reach of the service account, or back.
HideIssue ==
    /\ Edits
    /\ jira' = [jira EXCEPT !.shown = ~@]
    /\ UNCHANGED <<vw, row, later, moved>>

\* updateIncident with another status.
EditIncident(s) ==
    /\ Edits
    /\ vw.state \in {"active", "archived"} /\ s # vw.status
    /\ vw' = [vw EXCEPT !.status = s]
    /\ later' = "vw"
    /\ UNCHANGED <<jira, row, moved>>

ArchiveIncident ==
    /\ Edits
    /\ vw.state = "active"
    /\ vw' = [vw EXCEPT !.state = "archived"]
    /\ UNCHANGED <<jira, row, later, moved>>

\* deleteIncidentByIdQuery keeps the link row, so that the issue is known.
KeepsLink == [link EXCEPT !.state = "deleted_in_verifywise"]

DeleteIncident ==
    /\ Edits
    /\ vw.state \in {"active", "archived"}
    /\ vw' = [vw EXCEPT !.state = "deleted"]
    /\ link' = KeepsLink
    /\ UNCHANGED <<jira, recent, later, moved>>

-----------------------------------------------------------------------------
(* The rest of a settled link                                                *)

\* Closed, and Jira was in step when it was last read.
Settled ==
    /\ link.state = "ok"
    /\ vw.status = ClosedStatus /\ link.lastV = ClosedStatus

\* SETTLED_RECHECK_HOURS have passed since the link was synced, which matters as
\* long as it is settled.
RestPasses ==
    /\ Settled /\ recent
    /\ recent' = FALSE
    /\ UNCHANGED <<claim, window, sides, link, work, course, history>>

-----------------------------------------------------------------------------
(* A run: import                                                             *)

At(r, phase) == work[r].at = phase

Goes(r, w) == work' = [work EXCEPT ![r] = w]

GoesTo(r, phase) == Goes(r, [work[r] EXCEPT !.at = phase])

Finished == [Resting EXCEPT !.at = "ending"]

Disturbs(d) ==
    /\ disturbed' = (disturbed \/ d)
    /\ base' = IF disturbed' THEN NoBase ELSE base

HasLink == link.state # "none"

\* A run takes the claim, loads the configuration with last_checked_at, and finds
\* the project readable.  The issue may have aged since the last run.
StartRun(r) ==
    /\ At(r, "idle")
    /\ Claim!Take(r)
    /\ reach' = reach \/ (reach = "young" /\ reach' = "open")
    /\ Goes(r, [Resting EXCEPT !.at = "search", !.reach = reach # "closed",
                               !.keeps = HasLink \/ reach' = "young"])
    /\ Disturbs(\E s \in Run : ~At(s, "idle"))
    /\ quiet' = \A s \in Run : At(s, "idle")
    /\ resting' = (quiet' /\ Settled /\ recent /\ r \notin Manual)
    /\ UNCHANGED <<missed, sides, row, events, made>>

\* The run is done with the issue as an issue to import.
Passes(r, phase, keeps) == Goes(r, [Resting EXCEPT !.at = phase, !.keeps = keeps])

\* The import search lists the issue with its status, if Jira shows it and it was
\* created after importCutoff.
SearchIssues(r) ==
    /\ At(r, "search")
    /\ IF jira.shown /\ work[r].reach
       THEN Goes(r, [work[r] EXCEPT !.at = "found", !.j = jira.status])
       ELSE Passes(r, "mark", work[r].keeps)
    /\ missed' = (missed \/ (~HasLink /\ ~jira.shown /\ ~work[r].keeps))
    /\ UNCHANGED <<claim, reach, sides, row, course, history>>

\* linkExists, whatever the state of the link.
CheckLinked(r) ==
    /\ At(r, "found")
    /\ IF HasLink THEN Passes(r, "mark", TRUE) ELSE GoesTo(r, "create")
    /\ UNCHANGED <<claim, window, sides, row, course, history>>

\* insertLink finds no link of the issue (ON CONFLICT DO NOTHING).
\* (UnlinkedAlways is a mutant: the link is inserted over the old one.)
UnlinkedAlways == TRUE
Unlinked == link.state = "none"

\* The status of the imported incident.
ImportedAs(j) == IF MapIn[j] = Unset THEN OpenStatus ELSE MapIn[j]

InStep(j, v) == base' = IF disturbed THEN base ELSE [j |-> j, v |-> v]

\* importOne: the incident and its link in one transaction, which rolls back
\* when the issue has a link by now.
CreateIncident(r) ==
    /\ At(r, "create")
    /\ LET j == work[r].j
           mapped == MapIn[j] # Unset
       IN IF Unlinked
          THEN /\ vw' = [status |-> ImportedAs(j), state |-> "active"]
               /\ link' = [state |-> IF mapped THEN "ok" ELSE "error",
                           lastJ |-> IF mapped THEN j ELSE Unset,
                           lastV |-> ImportedAs(j)]
               /\ recent' = TRUE
               /\ reach' = "open" /\ missed' = FALSE
               /\ made' = made + 1
               /\ InStep(j, ImportedAs(j))
               /\ moved' \in {FALSE, later = "jira"}
          ELSE UNCHANGED <<vw, row, window, made, base, moved>>
    /\ Passes(r, "beat", TRUE)
    /\ UNCHANGED <<claim, jira, later, course, disturbed>>

\* earliestFailed: the check will be marked at the creation of the issue.
\* (KeepsStart is a mutant: it is marked at the start of the run all the same.)
KeepsStart(r) == work[r].keeps
KeepsOpen(r) == TRUE

CreateFails(r) ==
    /\ At(r, "create")
    /\ Counted
    /\ Passes(r, "beat", KeepsOpen(r))
    /\ UNCHANGED <<claim, window, sides, row, history>>

\* The heartbeat after an import ends a run that lost its claim.
Heartbeat(r) ==
    /\ At(r, "beat")
    /\ IF holder = r
       THEN Claim!Beat /\ GoesTo(r, "mark")
       ELSE UNCHANGED claim /\ Goes(r, Resting)
    /\ UNCHANGED <<window, sides, row, course, history>>

\* markChecked, whatever it held: the next search goes back to the overlap before
\* the start of this run, or before the first issue that failed, this one or another.
MarkChecked(r) ==
    /\ At(r, "mark")
    /\ IF HasLink \/ work[r].keeps
       THEN /\ reach' = IF reach = "closed" THEN "open" ELSE reach
            /\ UNCHANGED course
       ELSE \/ reach' = "closed" /\ UNCHANGED course
            \/ reach' = "open" /\ Counted
    /\ Goes(r, [Resting EXCEPT !.at = "read"])
    /\ UNCHANGED <<claim, sides, row, missed, history>>

-----------------------------------------------------------------------------
(* A run: status sync                                                        *)

\* listSyncableLinks: the links that are kept in step at all.
Syncable ==
    /\ link.state \in {"ok", "error", "conflict", "deleted_in_jira"}
    /\ vw.state = "active"

\* A settled link that was synced not long ago is left to a later run, unless
\* this run is manual (recheckSettled).
\* (RestsForGood is a mutant: scheduled runs never read a settled link.)
RestsForGood(r) == Settled /\ r \notin Manual
Rests(r) == Settled /\ recent /\ r \notin Manual

ReadLink(r) ==
    /\ At(r, "read")
    /\ \/ /\ Syncable /\ ~Rests(r)
          /\ Goes(r, [Resting EXCEPT !.at = "fetch", !.read = link, !.v = vw.status])
       \/ /\ ~Syncable \/ Rests(r)
          /\ Goes(r, Finished)
    /\ UNCHANGED <<claim, window, sides, row, course, history>>

\* The status search, or the direct read of an issue the search did not list.
FetchStatus(r) ==
    /\ At(r, "fetch")
    /\ jira.shown
    /\ Goes(r, [work[r] EXCEPT !.at = "decide", !.j = jira.status])
    /\ UNCHANGED <<claim, window, sides, row, course, history>>

\* markDeletedInJira.
MarkDeleted(r) ==
    /\ At(r, "fetch")
    /\ ~jira.shown
    /\ link' = IF work[r].read.state = "deleted_in_jira" THEN link
               ELSE [link EXCEPT !.state = "deleted_in_jira"]
    /\ Goes(r, Finished)
    /\ UNCHANGED <<claim, window, sides, recent, course, history>>

MakeDecision(r) ==
    /\ At(r, "decide")
    /\ LET w == work[r]
       IN Goes(r, [w EXCEPT !.at = "apply",
                            !.do = IF w.read.state = "deleted_in_jira"
                                   THEN Yields("resume", OpenStatus, Unset, FALSE)
                                   ELSE Decide(w.read, w.j, w.v)])
    /\ UNCHANGED <<claim, window, sides, row, course, history>>

Applies(r, act) == At(r, "apply") /\ work[r].do.act = act

\* updateLinkSnapshot.
Snapshot(j, v, state) ==
    /\ link' = [state |-> state, lastJ |-> j, lastV |-> v]
    /\ recent' = TRUE

Badge(r) == IF work[r].read.state = "conflict" THEN "conflict" ELSE "ok"

\* "none", and the return of an issue that was gone: the snapshot is written
\* without a look at what the row holds by now.
RecordUnchanged(r) ==
    /\ Applies(r, "none") \/ Applies(r, "resume")
    /\ Snapshot(work[r].j, work[r].v, Badge(r))
    /\ InStep(work[r].j, work[r].v)
    /\ Goes(r, Finished)
    /\ UNCHANGED <<claim, window, sides, course, made, disturbed>>

\* failLink keeps the snapshot, and writes nothing when the link it read shows
\* the same problem.
MarksError(r) ==
    /\ \/ link' = [link EXCEPT !.state = "error"]
       \/ work[r].read.state = "error" /\ UNCHANGED link
    /\ UNCHANGED recent

\* Jira's status is not mapped, or the workflow has no way to the target.
ReportProblem(r) ==
    /\ \/ Applies(r, "unmapped")
       \/ At(r, "move") /\ ~(jira.shown /\ <<jira.status, work[r].do.j>> \in Moves)
    /\ MarksError(r)
    /\ Goes(r, Finished)
    /\ UNCHANGED <<claim, window, sides, course, history>>

\* Jira does not answer, or updateIncident refuses the status.
FailLink(r) ==
    /\ work[r].at \in {"fetch", "decide", "move"} \/ Applies(r, "to_vw")
    /\ Counted
    /\ MarksError(r)
    /\ Goes(r, Finished)
    /\ UNCHANGED <<claim, window, sides, history>>

\* stillAsRead, under the row locks of the link and the incident.
\* (StillLinked is a mutant: the incident's status is not compared.)
StillLinked(r) == link = work[r].read /\ vw.state = "active"
StillAsRead(r) == link = work[r].read /\ vw.state = "active" /\ vw.status = work[r].v

OutcomeState(r) == IF work[r].do.conflict THEN "conflict" ELSE "ok"

ApplyToVerifyWise(r) ==
    /\ Applies(r, "to_vw")
    /\ IF StillAsRead(r)
       THEN /\ vw' = [vw EXCEPT !.status = work[r].do.v]
            /\ later' = IF vw.status # work[r].do.v THEN "vw" ELSE later
            /\ Snapshot(work[r].j, work[r].do.v, OutcomeState(r))
            /\ InStep(work[r].j, work[r].do.v)
       ELSE UNCHANGED <<vw, later, row, base>>
    /\ Goes(r, Finished)
    /\ UNCHANGED <<claim, window, jira, moved, course, made, disturbed>>

\* "Don't change Jira".
LeaveJira(r) ==
    /\ Applies(r, "to_jira") /\ work[r].do.j = Unset
    /\ IF StillAsRead(r)
       THEN /\ Snapshot(work[r].j, work[r].v, OutcomeState(r))
            /\ InStep(work[r].j, work[r].v)
       ELSE UNCHANGED <<row, base>>
    /\ Goes(r, Finished)
    /\ UNCHANGED <<claim, window, sides, course, made, disturbed>>

\* applyToJira checks, then asks Jira for the transitions.
CheckBeforeMove(r) ==
    /\ Applies(r, "to_jira") /\ work[r].do.j # Unset
    /\ Goes(r, IF StillAsRead(r) THEN [work[r] EXCEPT !.at = "move"] ELSE Finished)
    /\ UNCHANGED <<claim, window, sides, row, course, history>>

\* The transition takes the issue from wherever it is now.
JiraMoves(r) ==
    /\ At(r, "move")
    /\ jira.shown /\ <<jira.status, work[r].do.j>> \in Moves
    /\ jira' = [jira EXCEPT !.status = work[r].do.j]
    /\ later' = "jira"
    /\ moved' = TRUE

Transition(r) ==
    /\ JiraMoves(r)
    /\ InStep(work[r].do.j, work[r].v)
    /\ GoesTo(r, "record")
    /\ UNCHANGED <<claim, window, vw, row, course, made, disturbed>>

\* Jira moves the issue, and its answer is lost.
TransitionUnanswered(r) ==
    /\ JiraMoves(r)
    /\ Counted
    /\ MarksError(r)
    /\ Goes(r, Finished)
    /\ Disturbs(TRUE)
    /\ UNCHANGED <<claim, window, vw, made>>

\* recordTransition does not look either.
\* (RecordsOldStatus is a mutant: the snapshot keeps Jira's old status.)
RecordsOldStatus(r) == Snapshot(work[r].j, work[r].v, OutcomeState(r))
RecordsMove(r) == Snapshot(work[r].do.j, work[r].v, OutcomeState(r))

RecordTransition(r) ==
    /\ At(r, "record")
    /\ RecordsMove(r)
    /\ Goes(r, Finished)
    /\ UNCHANGED <<claim, window, sides, course, history>>

-----------------------------------------------------------------------------
(* A run: its end                                                            *)

\* The heartbeat after the links, and the engine's completion of the run.
EndRun(r) ==
    /\ At(r, "ending")
    /\ IF holder = r THEN Claim!Settle ELSE UNCHANGED claim
    /\ Goes(r, Resting)
    /\ UNCHANGED <<window, sides, row, course, history>>

\* A rate limit, the deadline, a rejected token, or a write that fails.
CutShort(r) ==
    /\ work[r].at \notin {"idle", "ending"}
    /\ Counted
    /\ Disturbs(At(r, "record"))
    /\ Goes(r, Finished)
    /\ UNCHANGED <<claim, window, sides, row, made>>

\* The process dies.
Crash(r) ==
    /\ ~At(r, "idle")
    /\ Counted
    /\ Disturbs(At(r, "record"))
    /\ Goes(r, Resting)
    /\ UNCHANGED <<claim, window, sides, row, made>>

\* Fifteen minutes without a heartbeat, and the sweep of the engine's tick.
ClaimLapses ==
    /\ Claim!Lapse \/ Claim!Close
    /\ UNCHANGED <<window, sides, row, work, course, history>>

-----------------------------------------------------------------------------

People ==
    \/ \E s \in JStatus : MoveIssue(s)
    \/ \E s \in VStatus : EditIncident(s)
    \/ HideIssue \/ ArchiveIncident \/ DeleteIncident

Works(r) ==
    \/ SearchIssues(r) \/ CheckLinked(r) \/ CreateIncident(r) \/ Heartbeat(r)
    \/ MarkChecked(r) \/ ReadLink(r) \/ FetchStatus(r) \/ MarkDeleted(r) \/ MakeDecision(r)
    \/ RecordUnchanged(r) \/ ApplyToVerifyWise(r) \/ LeaveJira(r)
    \/ CheckBeforeMove(r) \/ Transition(r) \/ RecordTransition(r) \/ ReportProblem(r)
    \/ EndRun(r)

GoesWrong(r) ==
    CreateFails(r) \/ FailLink(r) \/ TransitionUnanswered(r) \/ CutShort(r) \/ Crash(r)

Next ==
    \/ People
    \/ RestPasses
    \/ ClaimLapses
    \/ \E r \in Run : StartRun(r) \/ Works(r) \/ GoesWrong(r)

Spec == Init /\ [][Next]_vars

\* Time passes, the ticks sweep lapsed claims and start runs, and some run goes on with its
\* work: a run that hangs holds up no other, for its claim lapses.
FairSpec ==
    /\ Spec
    /\ WF_vars(RestPasses)
    /\ WF_vars(ClaimLapses)
    /\ WF_vars(\E r \in Run : StartRun(r))
    /\ WF_vars(\E r \in Run : Works(r))

-----------------------------------------------------------------------------
(* Properties                                                                *)

\* An issue becomes an incident once, however many runs search it at a time,
\* and is not imported again when somebody deletes the incident: the claim
\* does not hold a superseded run back, the unique link does.
OneIncidentPerIssue == made <= 1

\* No edit of the incident is lost without a word: when a run sets the status,
\* the incident either still has the status both sides were last in step on,
\* or the link shows a conflict (stillAsRead, decide.ts).  A run that lost its
\* claim, or died before it recorded a move, is what this does not survive.
EditsKept ==
    [][events' = events /\ vw.state = "active" /\ vw'.status # vw.status /\ ~disturbed
       => vw.status = base.v \/ link'.state = "conflict"]_vars

\* A run passes on news only: it sets the incident's status because Jira left the
\* status both sides were last in step on, and moves the issue because the
\* incident did, so what a run did to one side never comes back as a change of
\* that side (the snapshots of updateLinkSnapshot).
NoEcho ==
    [][events' = events /\ ~disturbed =>
         /\ vw.state = "active" /\ vw'.status # vw.status => link'.lastJ # base.j
         /\ jira'.status # jira.status => base'.v # base.v]_vars

InStepNow == link.lastJ = jira.status /\ link.lastV = vw.status

\* News no run can pass on: Jira moved to a status without a mapping, or the
\* incident to one the workflow has no way to.
Irreconcilable ==
    \/ jira.status # link.lastJ /\ MapIn[jira.status] = Unset
    \/ /\ vw.status # link.lastV
       /\ MapOut[vw.status] \notin {Unset, jira.status}
       /\ <<jira.status, MapOut[vw.status]>> \notin Moves

\* The issue has its incident, or a run that was the last to search as far back
\* was not shown it.
Imported == HasLink \/ (missed /\ reach = "closed")

\* The link records the statuses both sides have, or says that it could not be done.
Reconciled == Syncable => InStepNow \/ (Irreconcilable /\ link.state = "error")

\* One run is enough: when nobody interferes and nothing fails, it ends with an
\* issue Jira shows imported and reconciled, whatever the edits, failed runs, lost
\* answers and superseded runs before it have left (the snapshots are taken from
\* what the run itself read and did, and the window of the import search closes
\* over no issue that a run found and did not import).  What a scheduled run may
\* leave is a settled link that was synced less than SETTLED_RECHECK_HOURS before
\* it began; a manual run leaves nothing.
OneRunReconciles ==
    \A r \in Run : At(r, "ending") /\ quiet /\ jira.shown =>
        Imported /\ (Reconciled \/ (resting /\ Settled))

\* Once people leave both sides alone an issue Jira shows is imported, unless its
\* time was missed, and stays reconciled: runs do not answer each other's changes
\* for ever, and a settled link does not rest for ever.
Converges == <>[](jira.shown => Imported /\ Reconciled)
=============================================================================
