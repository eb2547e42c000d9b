------------------------- MODULE IncidentSyncProofs -------------------------
(* Proofs about IncidentSync, for any number of runs, any statuses, mappings *)
(* and Jira workflow: its types, one incident per issue, the two things a    *)
(* run that kept its claim never does, which are to drop an edit and to echo *)
(* its own move, and what a run that nobody interferes with leaves.          *)
(*                                                                           *)
(* None of these is inductive.  Edits and echoes need what a decision says   *)
(* of the values it was made from (Chosen), that an undisturbed run is alone *)
(* (Solo), and that the snapshot of the link, as it is and as such a run     *)
(* read it, is the pair both sides were last in step on (Basis, Reading).    *)
(* What a quiet run leaves needs that the window of the import search closes *)
(* over no issue that was found (Window), and what such a run knows at each  *)
(* of its phases of the sides, the link and its rest (Course).               *)
EXTENDS IncidentSync, TLAPS

USE DEF row, window, course, HasLink

Deciding == {"decide", "apply", "move", "record"}

Reconciling == Deciding \cup {"fetch"}

\* A run past a read of Jira knows one of its statuses.
Known ==
    \A r \in Run : work[r].at \in Deciding \cup {"found", "create"} => work[r].j \in JStatus

\* The link is there from the import on, and counts the imports.
Linked ==
    /\ made = IF link.state = "none" THEN 0 ELSE 1
    /\ \A r \in Run : work[r].at \in Reconciling => link.state # "none"
    /\ vw.state # "none" => link.state # "none"

\* What a decision says of the values it was made from.
Follows(w) ==
    /\ w.do.act = "to_vw" =>
          /\ w.do.v = MapIn[w.j] /\ w.do.v \in VStatus
          /\ w.j # w.read.lastJ
          /\ w.do.conflict \/ w.v = w.read.lastV
    /\ w.do.act = "to_jira" => w.v # w.read.lastV

Chosen ==
    \A r \in Run :
        /\ work[r].at \in {"apply", "move", "record"} => Follows(work[r])
        /\ work[r].at \in {"move", "record"} =>
              work[r].do.act = "to_jira" /\ work[r].do.j \in JStatus

Solo ==
    ~disturbed =>
        \A r, s \in Run : work[r].at # "idle" /\ work[s].at # "idle" => r = s

Agreed(b, l) ==
    /\ b.v = l.lastV
    /\ b.j = l.lastJ \/ (l.lastJ = Unset /\ MapIn[b.j] = Unset)

Basis ==
    ~disturbed /\ link.state # "none" =>
        /\ base.j \in JStatus
        /\ (\A r \in Run : work[r].at # "record") => Agreed(base, link)
        /\ \A r \in Run : work[r].at = "record" =>
              base = [j |-> work[r].do.j, v |-> work[r].v]

Reading ==
    ~disturbed =>
        \A r \in Run : work[r].at \in {"fetch", "decide", "apply", "move"} =>
            work[r].read.lastJ = link.lastJ /\ work[r].read.lastV = link.lastV

\* A decision that changes nothing, or sends Jira somewhere, has a reason in the
\* values it was made from.
Reasoned(w) ==
    /\ w.do.act = "unmapped" => MapIn[w.j] = Unset /\ w.j # w.read.lastJ
    /\ w.do.act = "to_jira" => /\ w.do.j = MapOut[w.v] /\ w.do.j # w.j
                              /\ w.v # w.read.lastV

\* The window of the import search closes over an issue without a link only if
\* Jira did not show it when it could still be found.
Found == HasLink \/ missed

Window ==
    /\ reach = "closed" => Found
    /\ \A r \in Run :
          /\ work[r].at = "search" /\ ~work[r].reach => Found
          /\ work[r].at \in {"beat", "mark"} => Found \/ work[r].keeps

\* A run that left the link now would leave it to its rest.
Skips(r) == Settled /\ recent /\ r \notin Manual

\* While it is quiet what a run has read is what is there, and what it has done
\* so far holds.
OnCourse(r) ==
    /\ At(r, "search") /\ ~work[r].reach => reach = "closed" /\ (HasLink \/ ~work[r].keeps)
    /\ work[r].at \in {"found", "create"} => work[r].j = jira.status
    /\ work[r].at \in {"search", "found", "create"} => (Skips(r) => resting)
    /\ At(r, "beat") => HasLink
    /\ At(r, "mark") => (jira.shown => HasLink \/ ~work[r].keeps)
    /\ work[r].at \in {"beat", "mark", "read"} => (Skips(r) => resting \/ InStepNow)
    /\ work[r].at \in {"read", "ending"} => (jira.shown => Imported)
    /\ work[r].at \in {"fetch", "decide", "apply", "move"} =>
          work[r].read = link /\ work[r].v = vw.status /\ vw.state = "active"
    /\ work[r].at \in {"decide", "apply", "move"} => jira.shown /\ work[r].j = jira.status
    /\ work[r].at \in {"apply", "move"} => Reasoned(work[r])
    /\ At(r, "record") => jira.status = work[r].do.j /\ vw.status = work[r].v
    /\ At(r, "ending") => (jira.shown => Reconciled \/ (resting /\ Settled))

Course ==
    quiet => /\ \A r, s \in Run : ~At(r, "idle") /\ ~At(s, "idle") => r = s
             /\ \A r \in Run : OnCourse(r)

IInv ==
    TypeOK /\ Known /\ Linked /\ Chosen /\ Solo /\ Basis /\ Reading /\ Window /\ Course

-----------------------------------------------------------------------------
(* Types                                                                     *)

LEMMA MapsTyped ==
    /\ \A j \in JStatus : MapIn[j] \in VStatus \cup {Unset}
    /\ \A v \in VStatus : MapOut[v] \in JStatus \cup {Unset}
    /\ OpenStatus \in VStatus
BY IncidentAssumption

LEMMA RestingTyped == Resting \in Work /\ Finished \in Work /\ NoLink \in Link
BY MapsTyped DEF Resting, Finished, NoLink, NoDecision, Work, Link, LinkStates, Decision,
   Acts, Phases

LEMMA YieldsTyped ==
    ASSUME NEW a \in Acts, NEW v \in VStatus, NEW j \in JStatus \cup {Unset}, NEW c \in BOOLEAN
    PROVE  Yields(a, v, j, c) \in Decision
BY DEF Yields, Decision

LEMMA DecideTyped ==
    ASSUME NEW l \in Link, NEW j \in JStatus, NEW v \in VStatus
    PROVE  Decide(l, j, v) \in Decision
<1>1. Nothing \in Decision
  BY MapsTyped DEF Nothing, NoDecision, Decision, Acts
<1>2. ASSUME NEW c \in BOOLEAN
      PROVE  ToVw(j, v, c) \in Decision /\ ToJira(j, v, c) \in Decision
  BY <1>1, MapsTyped, YieldsTyped DEF ToVw, ToJira, Acts
<1>3. Resolve(j, v) \in Decision
  BY <1>1, <1>2 DEF Resolve
<1> QED BY <1>1, <1>2, <1>3 DEF Decide

\* The next value of a run's work, whichever way it goes on.
LEMMA GoesTyped ==
    ASSUME work \in [Run -> Work], NEW r \in Run, NEW w \in Work, Goes(r, w)
    PROVE  work' \in [Run -> Work]
BY DEF Goes

LEMMA GoesToTyped ==
    ASSUME work \in [Run -> Work], NEW r \in Run, NEW p \in Phases, GoesTo(r, p)
    PROVE  work' \in [Run -> Work]
BY DEF GoesTo, Goes, Work

LEMMA PassesTyped ==
    ASSUME work \in [Run -> Work], NEW r \in Run, NEW p \in Phases, NEW k \in BOOLEAN,
           Passes(r, p, k)
    PROVE  work' \in [Run -> Work]
<1>1. [Resting EXCEPT !.at = p, !.keeps = k] \in Work
  BY RestingTyped DEF Work
<1> QED BY <1>1, GoesTyped DEF Passes

LEMMA SnapshotTyped ==
    ASSUME NEW j \in JStatus \cup {Unset}, NEW v \in VStatus, NEW s \in LinkStates,
           Snapshot(j, v, s)
    PROVE  link' \in Link /\ recent' \in BOOLEAN
BY DEF Snapshot, Link

LEMMA InStepTyped ==
    ASSUME base \in [j : JStatus \cup {Unset}, v : VStatus],
           NEW j \in JStatus \cup {Unset}, NEW v \in VStatus, InStep(j, v)
    PROVE  base' \in [j : JStatus \cup {Unset}, v : VStatus]
BY DEF InStep

LEMMA DisturbsTyped ==
    ASSUME base \in [j : JStatus \cup {Unset}, v : VStatus], NEW d, Disturbs(d)
    PROVE  disturbed' \in BOOLEAN /\ base' \in [j : JStatus \cup {Unset}, v : VStatus]
BY MapsTyped DEF Disturbs, NoBase

LEMMA CountedTyped ==
    ASSUME TypeOK, Counted
    PROVE  events' \in 0 .. MaxEvents /\ quiet' \in BOOLEAN /\ resting' \in BOOLEAN
<1>1. events' \in 0 .. MaxEvents
  BY IncidentAssumption DEF Counted, TypeOK
<1> QED BY <1>1 DEF Counted

LEMMA WorkParts ==
    ASSUME TypeOK, NEW r \in Run
    PROVE  /\ work[r] \in Work /\ work[r].v \in VStatus /\ work[r].j \in JStatus \cup {Unset}
           /\ work[r].read \in Link /\ work[r].do \in Decision
           /\ work[r].do.v \in VStatus /\ work[r].do.j \in JStatus \cup {Unset}
BY DEF TypeOK, Work, Decision

LEMMA StatesTyped ==
    ASSUME NEW r \in Run
    PROVE  Badge(r) \in LinkStates /\ OutcomeState(r) \in LinkStates
BY DEF Badge, OutcomeState, LinkStates

LEMMA MarksTyped ==
    ASSUME link \in Link, NEW r \in Run, MarksError(r)
    PROVE  link' \in Link /\ UNCHANGED recent
BY DEF MarksError, Link, LinkStates

LEMMA ClaimTyped ==
    ASSUME TypeOK, \/ \E r \in Run : Claim!Take(r)
                   \/ Claim!Beat \/ Claim!Settle \/ Claim!Lapse \/ Claim!Close
                   \/ UNCHANGED claim
    PROVE  holder' \in Run \cup {NoRun} /\ busy' = NoRun /\ fresh' \in BOOLEAN
BY DEF TypeOK, Claim!Take, Claim!Beat, Claim!Settle, Claim!Lapse, Claim!Close, claim

\* The steps of people.
LEMMA PeopleTyped ==
    ASSUME TypeOK, People
    PROVE  TypeOK'
<1>1. Counted /\ UNCHANGED <<claim, window, work, recent, history>>
  BY DEF People, Edits, MoveIssue, HideIssue, EditIncident, ArchiveIncident, DeleteIncident
<1>2. events' \in 0 .. MaxEvents /\ quiet' \in BOOLEAN /\ resting' \in BOOLEAN
  BY <1>1, CountedTyped
<1> DEFINE Typed ==
      /\ jira' \in Issue /\ vw' \in Incident /\ link' \in Link
      /\ later' \in {"neither", "jira", "vw"} /\ moved' \in BOOLEAN
<1>3. Typed
  <2>1. ASSUME NEW s \in JStatus, MoveIssue(s)
        PROVE  Typed
    BY <2>1 DEF MoveIssue, TypeOK, Issue
  <2>2. ASSUME NEW s \in VStatus, EditIncident(s)
        PROVE  Typed
    BY <2>2 DEF EditIncident, TypeOK, Incident
  <2>3. CASE HideIssue
    BY <2>3 DEF HideIssue, TypeOK, Issue
  <2>4. CASE ArchiveIncident
    BY <2>4 DEF ArchiveIncident, TypeOK, Incident
  <2>5. CASE DeleteIncident
    BY <2>5 DEF DeleteIncident, KeepsLink, TypeOK, Incident, Link, LinkStates
  <2> QED BY <2>1, <2>2, <2>3, <2>4, <2>5 DEF People
<1> QED BY <1>1, <1>2, <1>3 DEF TypeOK, claim, history

\* The steps of a run: what each leaves of the data it writes.
LEMMA StartTyped ==
    ASSUME TypeOK, NEW r \in Run, StartRun(r)
    PROVE  TypeOK'
<1>1. holder' \in Run \cup {NoRun} /\ busy' = NoRun /\ fresh' \in BOOLEAN
  BY ClaimTyped DEF StartRun
<1>2. work' \in [Run -> Work]
  <2>1. [Resting EXCEPT !.at = "search", !.reach = reach # "closed",
                        !.keeps = HasLink \/ reach' = "young"] \in Work
    BY RestingTyped DEF Work, Phases
  <2> QED BY <2>1, GoesTyped DEF StartRun, TypeOK
<1>3. disturbed' \in BOOLEAN /\ base' \in [j : JStatus \cup {Unset}, v : VStatus]
  BY DisturbsTyped DEF StartRun, TypeOK
<1>4. quiet' \in BOOLEAN /\ resting' \in BOOLEAN
  BY DEF StartRun
<1>5. reach' \in Reaches
  BY DEF StartRun, TypeOK, Reaches
<1> QED BY <1>1, <1>2, <1>3, <1>4, <1>5 DEF StartRun, TypeOK, sides

LEMMA ImportTyped ==
    ASSUME TypeOK, Known, NEW r \in Run,
           \/ SearchIssues(r) \/ CheckLinked(r) \/ CreateIncident(r) \/ Heartbeat(r)
           \/ MarkChecked(r)
    PROVE  TypeOK'
<1> USE DEF TypeOK
<1>w. work[r] \in Work /\ Resting \in Work
  BY WorkParts, RestingTyped
<1>1. CASE SearchIssues(r)
  <2>1. [work[r] EXCEPT !.at = "found", !.j = jira.status] \in Work
    BY <1>w DEF Work, Issue, Phases
  <2>2. work[r].keeps \in BOOLEAN
    BY <1>w DEF Work
  <2>3. work' \in [Run -> Work]
    BY <1>1, <2>1, <2>2, GoesTyped, PassesTyped DEF SearchIssues, Phases
  <2>4. missed' \in BOOLEAN
    BY <1>1 DEF SearchIssues
  <2> QED BY <1>1, <2>3, <2>4 DEF SearchIssues, claim, sides, history
<1>2. CASE CheckLinked(r)
  <2>1. work' \in [Run -> Work]
    BY <1>2, GoesToTyped, PassesTyped DEF CheckLinked, Phases
  <2> QED BY <1>2, <2>1 DEF CheckLinked, claim, sides, history
<1>3. CASE CreateIncident(r)
  <2>1. work[r].j \in JStatus
    BY <1>3 DEF Known, CreateIncident, At
  <2>2. ImportedAs(work[r].j) \in VStatus
    BY <2>1, MapsTyped DEF ImportedAs
  <2>3. work' \in [Run -> Work]
    BY <1>3, PassesTyped DEF CreateIncident, Phases
  <2>4. CASE Unlinked
    <3>1. /\ vw' = [status |-> ImportedAs(work[r].j), state |-> "active"]
          /\ link' = [state |-> IF MapIn[work[r].j] # Unset THEN "ok" ELSE "error",
                      lastJ |-> IF MapIn[work[r].j] # Unset THEN work[r].j ELSE Unset,
                      lastV |-> ImportedAs(work[r].j)]
          /\ made' = made + 1 /\ recent' = TRUE /\ reach' = "open" /\ missed' = FALSE
          /\ InStep(work[r].j, ImportedAs(work[r].j))
          /\ moved' \in {FALSE, later = "jira"}
      BY <1>3, <2>4 DEF CreateIncident
    <3>2. vw' \in Incident /\ link' \in Link /\ moved' \in BOOLEAN
      BY <3>1, <2>1, <2>2 DEF Incident, Link, LinkStates
    <3>3. made' \in Nat /\ base' \in [j : JStatus \cup {Unset}, v : VStatus]
      BY <3>1, <2>1, <2>2, InStepTyped
    <3>4. recent' \in BOOLEAN /\ reach' \in Reaches /\ missed' \in BOOLEAN
      BY <3>1 DEF Reaches
    <3> QED BY <1>3, <2>3, <3>2, <3>3, <3>4 DEF CreateIncident, claim
  <2>5. CASE ~Unlinked
    BY <1>3, <2>3, <2>5 DEF CreateIncident, claim
  <2> QED BY <2>4, <2>5
<1>4. CASE Heartbeat(r)
  <2>1. holder' \in Run \cup {NoRun} /\ busy' = NoRun /\ fresh' \in BOOLEAN
    BY <1>4, ClaimTyped DEF Heartbeat
  <2>2. work' \in [Run -> Work]
    BY <1>4, <1>w, GoesTyped, GoesToTyped DEF Heartbeat, Phases
  <2> QED BY <1>4, <2>1, <2>2 DEF Heartbeat, sides, history
<1>5. CASE MarkChecked(r)
  <2>1. work' \in [Run -> Work]
    <3>1. [Resting EXCEPT !.at = "read"] \in Work
      BY <1>w DEF Work, Phases
    <3> QED BY <1>5, <3>1, GoesTyped DEF MarkChecked
  <2>2. reach' \in Reaches
    BY <1>5 DEF MarkChecked, Reaches
  <2>3. events' \in 0 .. MaxEvents /\ quiet' \in BOOLEAN /\ resting' \in BOOLEAN
    BY <1>5, CountedTyped DEF MarkChecked
  <2> QED BY <1>5, <2>1, <2>2, <2>3 DEF MarkChecked, claim, sides, history
<1> QED BY <1>1, <1>2, <1>3, <1>4, <1>5

LEMMA ReadingTyped ==
    ASSUME TypeOK, Known, NEW r \in Run,
           ReadLink(r) \/ FetchStatus(r) \/ MarkDeleted(r) \/ MakeDecision(r)
    PROVE  TypeOK'
<1> USE DEF TypeOK
<1>w. work[r] \in Work /\ Resting \in Work /\ Finished \in Work
  BY WorkParts, RestingTyped
<1>1. CASE ReadLink(r)
  <2>1. [Resting EXCEPT !.at = "fetch", !.read = link, !.v = vw.status] \in Work
    BY <1>w DEF Work, Incident, Phases
  <2>2. work' \in [Run -> Work]
    BY <1>1, <1>w, <2>1, GoesTyped DEF ReadLink
  <2> QED BY <1>1, <2>2 DEF ReadLink, claim, sides, history
<1>2. CASE FetchStatus(r)
  <2>1. [work[r] EXCEPT !.at = "decide", !.j = jira.status] \in Work
    BY <1>w DEF Work, Issue, Phases
  <2>2. work' \in [Run -> Work]
    BY <1>2, <2>1, GoesTyped DEF FetchStatus
  <2> QED BY <1>2, <2>2 DEF FetchStatus, claim, sides, history
<1>3. CASE MarkDeleted(r)
  <2>1. link' \in Link
    BY <1>3 DEF MarkDeleted, Link, LinkStates
  <2>2. work' \in [Run -> Work]
    BY <1>3, <1>w, GoesTyped DEF MarkDeleted
  <2> QED BY <1>3, <2>1, <2>2 DEF MarkDeleted, claim, sides, history
<1>4. CASE MakeDecision(r)
  <2>1. work[r].j \in JStatus
    BY <1>4 DEF Known, MakeDecision, At, Deciding
  <2>2. Decide(work[r].read, work[r].j, work[r].v) \in Decision
    BY <2>1, WorkParts, DecideTyped
  <2>3. Yields("resume", OpenStatus, Unset, FALSE) \in Decision
    BY MapsTyped, YieldsTyped DEF Acts
  <2>4. \A d \in Decision : [work[r] EXCEPT !.at = "apply", !.do = d] \in Work
    BY <1>w DEF Work, Phases
  <2>5. work' \in [Run -> Work]
    BY <1>4, <2>2, <2>3, <2>4, GoesTyped DEF MakeDecision
  <2> QED BY <1>4, <2>5 DEF MakeDecision, claim, sides, history
<1> QED BY <1>1, <1>2, <1>3, <1>4

LEMMA ApplyTyped ==
    ASSUME TypeOK, Known, NEW r \in Run,
           RecordUnchanged(r) \/ ApplyToVerifyWise(r) \/ LeaveJira(r) \/ CheckBeforeMove(r)
    PROVE  TypeOK'
<1> USE DEF TypeOK
<1>w. work[r] \in Work /\ Finished \in Work
  BY WorkParts, RestingTyped
<1>p. /\ work[r].v \in VStatus /\ work[r].j \in JStatus \cup {Unset}
      /\ work[r].do.v \in VStatus
  BY WorkParts
<1>s. Badge(r) \in LinkStates /\ OutcomeState(r) \in LinkStates
  BY StatesTyped
<1>1. CASE RecordUnchanged(r)
  <2>1. link' \in Link /\ recent' \in BOOLEAN
    BY <1>1, <1>p, <1>s, SnapshotTyped DEF RecordUnchanged
  <2>b. base' \in [j : JStatus \cup {Unset}, v : VStatus]
    BY <1>1, <1>p, InStepTyped DEF RecordUnchanged
  <2>2. work' \in [Run -> Work]
    BY <1>1, <1>w, GoesTyped DEF RecordUnchanged
  <2> QED BY <1>1, <2>1, <2>b, <2>2 DEF RecordUnchanged, claim, sides
<1>2. CASE ApplyToVerifyWise(r)
  <2>1. link' \in Link /\ recent' \in BOOLEAN
    BY <1>2, <1>p, <1>s, SnapshotTyped DEF ApplyToVerifyWise
  <2>b. base' \in [j : JStatus \cup {Unset}, v : VStatus]
    BY <1>2, <1>p, InStepTyped DEF ApplyToVerifyWise
  <2>2. vw' \in Incident /\ later' \in {"neither", "jira", "vw"}
    BY <1>2, <1>p DEF ApplyToVerifyWise, Incident
  <2>3. work' \in [Run -> Work]
    BY <1>2, <1>w, GoesTyped DEF ApplyToVerifyWise
  <2> QED BY <1>2, <2>1, <2>b, <2>2, <2>3 DEF ApplyToVerifyWise, claim
<1>3. CASE LeaveJira(r)
  <2>1. link' \in Link /\ recent' \in BOOLEAN
    BY <1>3, <1>p, <1>s, SnapshotTyped DEF LeaveJira
  <2>b. base' \in [j : JStatus \cup {Unset}, v : VStatus]
    BY <1>3, <1>p, InStepTyped DEF LeaveJira
  <2>2. work' \in [Run -> Work]
    BY <1>3, <1>w, GoesTyped DEF LeaveJira
  <2> QED BY <1>3, <2>1, <2>b, <2>2 DEF LeaveJira, claim, sides
<1>4. CASE CheckBeforeMove(r)
  <2>1. [work[r] EXCEPT !.at = "move"] \in Work
    BY <1>w DEF Work, Phases
  <2>2. work' \in [Run -> Work]
    BY <1>4, <1>w, <2>1, GoesTyped DEF CheckBeforeMove
  <2> QED BY <1>4, <2>2 DEF CheckBeforeMove, claim, sides, history
<1> QED BY <1>1, <1>2, <1>3, <1>4

LEMMA MoveTyped ==
    ASSUME TypeOK, Chosen, NEW r \in Run,
           Transition(r) \/ TransitionUnanswered(r) \/ RecordTransition(r)
    PROVE  TypeOK'
<1> USE DEF TypeOK
<1>w. work[r] \in Work /\ Finished \in Work
  BY WorkParts, RestingTyped
<1>p. work[r].v \in VStatus /\ work[r].do.j \in JStatus /\ OutcomeState(r) \in LinkStates
  BY WorkParts, StatesTyped
     DEF Chosen, Transition, TransitionUnanswered, JiraMoves, RecordTransition, At
<1>j. ASSUME JiraMoves(r)
      PROVE  jira' \in Issue /\ later' = "jira" /\ moved' = TRUE
  BY <1>j, <1>p DEF JiraMoves, Issue
<1>1. CASE Transition(r)
  <2>1. work' \in [Run -> Work]
    BY <1>1, GoesToTyped DEF Transition, Phases
  <2>2. base' \in [j : JStatus \cup {Unset}, v : VStatus]
    BY <1>1, <1>p, InStepTyped DEF Transition
  <2> QED BY <1>1, <1>j, <2>1, <2>2 DEF Transition, claim
<1>2. CASE TransitionUnanswered(r)
  <2>1. work' \in [Run -> Work]
    BY <1>2, <1>w, GoesTyped DEF TransitionUnanswered
  <2>2. link' \in Link /\ UNCHANGED recent
    BY <1>2, MarksTyped DEF TransitionUnanswered
  <2>3. events' \in 0 .. MaxEvents /\ quiet' \in BOOLEAN /\ resting' \in BOOLEAN
    BY <1>2, CountedTyped DEF TransitionUnanswered
  <2>4. disturbed' \in BOOLEAN /\ base' \in [j : JStatus \cup {Unset}, v : VStatus]
    BY <1>2, DisturbsTyped DEF TransitionUnanswered
  <2> QED BY <1>2, <1>j, <2>1, <2>2, <2>3, <2>4 DEF TransitionUnanswered, claim
<1>3. CASE RecordTransition(r)
  <2>1. link' \in Link /\ recent' \in BOOLEAN
    BY <1>3, <1>p, SnapshotTyped DEF RecordTransition, RecordsMove
  <2>2. work' \in [Run -> Work]
    BY <1>3, <1>w, GoesTyped DEF RecordTransition
  <2> QED BY <1>3, <2>1, <2>2 DEF RecordTransition, claim, sides, history
<1> QED BY <1>1, <1>2, <1>3

LEMMA RestTyped ==
    ASSUME TypeOK, NEW r \in Run,
           \/ ReportProblem(r) \/ EndRun(r) \/ CreateFails(r)
           \/ FailLink(r) \/ CutShort(r) \/ Crash(r)
    PROVE  TypeOK'
<1> USE DEF TypeOK
<1>w. Resting \in Work /\ Finished \in Work
  BY RestingTyped
<1>e. Counted => /\ events' \in 0 .. MaxEvents
                 /\ quiet' \in BOOLEAN /\ resting' \in BOOLEAN
  BY CountedTyped
<1>d. \A d : Disturbs(d) => /\ disturbed' \in BOOLEAN
                            /\ base' \in [j : JStatus \cup {Unset}, v : VStatus]
  BY DisturbsTyped
<1>1. CASE ReportProblem(r)
  <2>1. work' \in [Run -> Work] /\ link' \in Link /\ UNCHANGED recent
    BY <1>1, <1>w, GoesTyped, MarksTyped DEF ReportProblem
  <2> QED BY <1>1, <2>1 DEF ReportProblem, claim, sides, history
<1>2. CASE EndRun(r)
  <2>1. holder' \in Run \cup {NoRun} /\ busy' = NoRun /\ fresh' \in BOOLEAN
    BY <1>2, ClaimTyped DEF EndRun
  <2> QED BY <1>2, <1>w, <2>1, GoesTyped DEF EndRun, sides, history
<1>3. CASE CreateFails(r)
  <2>1. work' \in [Run -> Work]
    BY <1>3, PassesTyped DEF CreateFails, KeepsOpen, Phases
  <2> QED BY <1>3, <1>e, <2>1 DEF CreateFails, claim, sides, history
<1>4. CASE FailLink(r)
  <2>1. work' \in [Run -> Work] /\ link' \in Link /\ UNCHANGED recent
    BY <1>4, <1>w, GoesTyped, MarksTyped DEF FailLink
  <2> QED BY <1>4, <1>e, <2>1 DEF FailLink, claim, sides, history
<1>5. CASE CutShort(r)
  <2>1. work' \in [Run -> Work]
    BY <1>5, <1>w, GoesTyped DEF CutShort
  <2>2. disturbed' \in BOOLEAN /\ base' \in [j : JStatus \cup {Unset}, v : VStatus]
    BY <1>5, <1>d DEF CutShort
  <2> QED BY <1>5, <1>e, <2>1, <2>2 DEF CutShort, claim, sides
<1>6. CASE Crash(r)
  <2>1. work' \in [Run -> Work]
    BY <1>6, <1>w, GoesTyped DEF Crash
  <2>2. disturbed' \in BOOLEAN /\ base' \in [j : JStatus \cup {Unset}, v : VStatus]
    BY <1>6, <1>d DEF Crash
  <2> QED BY <1>6, <1>e, <2>1, <2>2 DEF Crash, claim, sides
<1> QED BY <1>1, <1>2, <1>3, <1>4, <1>5, <1>6

LEMMA TypeStep ==
    ASSUME TypeOK, Known, Chosen, [Next]_vars
    PROVE  TypeOK'
<1>1. CASE UNCHANGED vars
  BY <1>1 DEF vars, TypeOK
<1>2. ASSUME NEW r \in Run, Works(r)
      PROVE  TypeOK'
  BY <1>2, ImportTyped, ReadingTyped, ApplyTyped, MoveTyped, RestTyped DEF Works
<1>3. ASSUME NEW r \in Run, GoesWrong(r)
      PROVE  TypeOK'
  BY <1>3, MoveTyped, RestTyped DEF GoesWrong
<1>4. CASE ClaimLapses
  <2>1. holder' \in Run \cup {NoRun} /\ busy' = NoRun /\ fresh' \in BOOLEAN
    BY <1>4, ClaimTyped DEF ClaimLapses
  <2> QED BY <1>4, <2>1 DEF ClaimLapses, TypeOK, sides, history
<1>5. CASE RestPasses
  BY <1>5 DEF RestPasses, TypeOK, claim, sides, history
<1> QED BY <1>1, <1>2, <1>3, <1>4, <1>5, PeopleTyped, StartTyped DEF Next

-----------------------------------------------------------------------------
(* What a step leaves of the work of the runs                                *)

RunStep(r) == StartRun(r) \/ Works(r) \/ GoesWrong(r)

LEMMA GoesAt ==
    ASSUME work \in [Run -> Work], NEW r \in Run, NEW w, Goes(r, w)
    PROVE  work'[r] = w /\ \A s \in Run \ {r} : work'[s] = work[s]
BY DEF Goes

LEMMA GoesToAt ==
    ASSUME work \in [Run -> Work], NEW r \in Run, NEW p, GoesTo(r, p)
    PROVE  /\ work'[r] = [work[r] EXCEPT !.at = p]
           /\ \A s \in Run \ {r} : work'[s] = work[s]
BY DEF GoesTo, Goes

LEMMA PassesAt ==
    ASSUME work \in [Run -> Work], NEW r \in Run, NEW p, NEW k, Passes(r, p, k)
    PROVE  /\ work'[r] = [Resting EXCEPT !.at = p, !.keeps = k]
           /\ work'[r].at = p /\ work'[r].keeps = k
           /\ \A s \in Run \ {r} : work'[s] = work[s]
<1>1. work'[r] = [Resting EXCEPT !.at = p, !.keeps = k]
  BY GoesAt DEF Passes
<1>2. work'[r].at = p /\ work'[r].keeps = k
  BY <1>1 DEF Resting
<1> QED BY <1>1, <1>2, GoesAt DEF Passes

\* A run changes its own work only.
LEMMA OthersStay ==
    ASSUME TypeOK, NEW r \in Run, RunStep(r)
    PROVE  \A s \in Run \ {r} : work'[s] = work[s]
<1>1. (\E w : Goes(r, w)) \/ (\E p : GoesTo(r, p)) \/ (\E p, k : Passes(r, p, k))
  <2>1. CASE StartRun(r)
    BY <2>1 DEF StartRun
  <2>2. CASE Works(r)
    BY <2>2 DEF Works, SearchIssues, CheckLinked, CreateIncident, Heartbeat, MarkChecked, ReadLink,
       FetchStatus, MarkDeleted, MakeDecision, RecordUnchanged, ApplyToVerifyWise, LeaveJira,
       CheckBeforeMove, Transition, RecordTransition, ReportProblem, EndRun
  <2>3. CASE GoesWrong(r)
    BY <2>3 DEF GoesWrong, CreateFails, FailLink, TransitionUnanswered, CutShort, Crash
  <2> QED BY <2>1, <2>2, <2>3 DEF RunStep
<1> QED BY <1>1, GoesAt, GoesToAt, PassesAt DEF TypeOK

\* The steps of nobody's run.
Elsewhere == People \/ RestPasses \/ ClaimLapses \/ UNCHANGED vars

LEMMA StepCases ==
    ASSUME [Next]_vars
    PROVE  Elsewhere \/ \E r \in Run : RunStep(r)
BY DEF Next, Elsewhere, RunStep

LEMMA ElsewhereStays ==
    ASSUME Elsewhere
    PROVE  UNCHANGED <<work, made, base, disturbed, reach, missed>>
BY DEF Elsewhere, People, Edits, MoveIssue, HideIssue, EditIncident, ArchiveIncident,
   DeleteIncident, RestPasses, ClaimLapses, history, vars

\* A run that has nothing left to do, or has done something of its own.
Idling(w) == w.at \notin Reconciling \cup {"found", "create"}

\* Where each step takes the run.
LEMMA WhereNext ==
    ASSUME TypeOK, NEW r \in Run, RunStep(r)
    PROVE  \/ Idling(work'[r])
           \/ SearchIssues(r) \/ CheckLinked(r) \/ ReadLink(r) \/ FetchStatus(r)
           \/ MakeDecision(r) \/ CheckBeforeMove(r) \/ Transition(r)
<1> USE DEF TypeOK, Idling, Reconciling, Deciding
<1>w. work[r] \in Work /\ Finished.at = "ending" /\ Resting.at = "idle"
  BY WorkParts DEF Finished, Resting
<1>g. ASSUME NEW p, GoesTo(r, p)
      PROVE  work'[r].at = p
  <2>1. work'[r] = [work[r] EXCEPT !.at = p]
    BY <1>g, GoesToAt
  <2> QED BY <2>1, <1>w DEF Work
<1>h. \A w : Goes(r, w) => work'[r] = w
  BY GoesAt
<1>1. CASE StartRun(r) \/ CreateIncident(r) \/ Heartbeat(r) \/ CreateFails(r) \/ MarkChecked(r)
  <2>1. StartRun(r) => work'[r].at = "search"
    BY <1>h DEF StartRun, Resting
  <2>2. CreateIncident(r) \/ CreateFails(r) => work'[r].at = "beat"
    BY PassesAt DEF CreateIncident, CreateFails
  <2>3. Heartbeat(r) => work'[r].at \in {"mark", "idle"}
    BY <1>w, <1>g, <1>h DEF Heartbeat
  <2>4. MarkChecked(r) => work'[r].at = "read"
    BY <1>h DEF MarkChecked, Resting
  <2> QED BY <1>1, <2>1, <2>2, <2>3, <2>4
<1>2. CASE \/ MarkDeleted(r) \/ RecordUnchanged(r) \/ ApplyToVerifyWise(r) \/ LeaveJira(r)
           \/ RecordTransition(r) \/ ReportProblem(r) \/ FailLink(r) \/ CutShort(r)
           \/ TransitionUnanswered(r)
  <2>1. Goes(r, Finished)
    BY <1>2 DEF MarkDeleted, RecordUnchanged, ApplyToVerifyWise, LeaveJira,
       RecordTransition, ReportProblem, FailLink, CutShort, TransitionUnanswered
  <2> QED BY <2>1, <1>h, <1>w
<1>3. CASE EndRun(r) \/ Crash(r)
  <2>1. Goes(r, Resting)
    BY <1>3 DEF EndRun, Crash
  <2> QED BY <2>1, <1>h, <1>w
<1> QED BY <1>1, <1>2, <1>3 DEF RunStep, Works, GoesWrong

LEMMA ImportGoesOn ==
    ASSUME TypeOK, NEW r \in Run, SearchIssues(r) \/ CheckLinked(r)
    PROVE  work'[r].at \in {"found", "create", "mark"}
<1>w. work[r] \in Work
  BY WorkParts
<1>1. ASSUME NEW k, Passes(r, "mark", k)
      PROVE  work'[r].at = "mark"
  BY <1>1, PassesAt DEF TypeOK
<1>2. CASE SearchIssues(r)
  <2>1. ASSUME Goes(r, [work[r] EXCEPT !.at = "found", !.j = jira.status])
        PROVE  work'[r].at = "found"
    <3>1. work'[r] = [work[r] EXCEPT !.at = "found", !.j = jira.status]
      BY <2>1, GoesAt DEF TypeOK
    <3> QED BY <3>1, <1>w DEF Work
  <2> QED BY <1>1, <1>2, <2>1 DEF SearchIssues
<1>3. CASE CheckLinked(r)
  <2>1. ASSUME GoesTo(r, "create")
        PROVE  work'[r].at = "create"
    <3>1. work'[r] = [work[r] EXCEPT !.at = "create"]
      BY <2>1, GoesToAt DEF TypeOK
    <3> QED BY <3>1, <1>w DEF Work
  <2> QED BY <1>1, <1>3, <2>1 DEF CheckLinked
<1> QED BY <1>2, <1>3

-----------------------------------------------------------------------------
(* One incident                                                              *)

LEMMA KnownStep ==
    ASSUME TypeOK, Known, [Next]_vars
    PROVE  Known'
<1> DEFINE K(w) == w.at \in Deciding \cup {"found", "create"} => w.j \in JStatus
<1>1. CASE Elsewhere
  BY <1>1, ElsewhereStays DEF Known
<1>2. ASSUME NEW r \in Run, RunStep(r)
      PROVE  Known'
  <2>w. work[r] \in Work /\ K(work[r]) /\ jira.status \in JStatus
    BY WorkParts DEF Known, TypeOK, Issue
  <2>2. ASSUME SearchIssues(r) \/ CheckLinked(r)
        PROVE  K(work'[r])
    <3>0. ASSUME NEW k, Passes(r, "mark", k)
          PROVE  K(work'[r])
      <4>1. work'[r].at = "mark"
        BY <3>0, PassesAt DEF TypeOK
      <4> QED BY <4>1 DEF Deciding
    <3>1. CASE SearchIssues(r)
      <4>1. ASSUME work'[r] = [work[r] EXCEPT !.at = "found", !.j = jira.status]
            PROVE  K(work'[r])
        BY <4>1, <2>w DEF Work
      <4> QED BY <3>0, <3>1, <4>1, GoesAt DEF SearchIssues, TypeOK
    <3>2. CASE CheckLinked(r)
      <4>1. CASE GoesTo(r, "create")
        <5>1. work'[r] = [work[r] EXCEPT !.at = "create"]
          BY <4>1, GoesToAt DEF TypeOK
        <5> QED BY <3>2, <5>1, <2>w DEF CheckLinked, At, Work, Deciding
      <4> QED BY <3>0, <3>2, <4>1 DEF CheckLinked
    <3> QED BY <2>2, <3>1, <3>2
  <2>3. ASSUME ReadLink(r)
        PROVE  K(work'[r])
    <3>0. \/ work'[r] = [Resting EXCEPT !.at = "fetch", !.read = link, !.v = vw.status]
          \/ work'[r] = Finished
      BY <2>3, GoesAt DEF ReadLink, TypeOK
    <3>1. work'[r].at \in {"fetch", "ending"}
      BY <3>0 DEF Finished, Resting
    <3> QED BY <3>1 DEF Deciding
  <2>4. ASSUME FetchStatus(r) \/ MakeDecision(r)
        PROVE  K(work'[r])
    <3>1. CASE FetchStatus(r)
      <4>1. work'[r] = [work[r] EXCEPT !.at = "decide", !.j = jira.status]
        BY <3>1, GoesAt DEF FetchStatus, TypeOK
      <4> QED BY <4>1, <2>w DEF Work
    <3>2. CASE MakeDecision(r)
      <4>1. \E d : work'[r] = [work[r] EXCEPT !.at = "apply", !.do = d]
        BY <3>2, GoesAt DEF MakeDecision, TypeOK
      <4>2. work[r].at = "decide"
        BY <3>2 DEF MakeDecision, At
      <4> QED BY <4>1, <4>2, <2>w DEF Work, Deciding
    <3> QED BY <2>4, <3>1, <3>2
  <2>5. ASSUME CheckBeforeMove(r) \/ Transition(r)
        PROVE  K(work'[r])
    <3>1. \/ work'[r] = [work[r] EXCEPT !.at = "move"]
          \/ work'[r] = [work[r] EXCEPT !.at = "record"]
          \/ work'[r] = Finished
      BY <2>5, GoesAt, GoesToAt DEF CheckBeforeMove, Transition, TypeOK
    <3>2. work[r].at \in {"apply", "move"}
      BY <2>5 DEF CheckBeforeMove, Transition, JiraMoves, Applies, At
    <3> QED BY <3>1, <3>2, <2>w DEF Work, Finished, Resting, Deciding
  <2>6. K(work'[r])
    BY <1>2, <2>2, <2>3, <2>4, <2>5, WhereNext DEF Idling, Reconciling
  <2> QED BY <1>2, <2>6, OthersStay DEF Known
<1> QED BY <1>1, <1>2, StepCases

\* What a step makes of the link: it is there for good once it is there, and
\* there with the incident.
LEMMA LinkStays ==
    ASSUME TypeOK, Linked, [Next]_vars
    PROVE  /\ link.state # "none" => link'.state # "none"
           /\ made' = IF link'.state = "none" THEN 0 ELSE 1
           /\ vw'.state # "none" => link'.state # "none"
<1> USE DEF TypeOK
<1>s. \A r \in Run : Badge(r) # "none" /\ OutcomeState(r) # "none"
  BY DEF Badge, OutcomeState
<1>1. ASSUME UNCHANGED <<link, made>>, vw'.state # "none" => vw.state # "none"
      PROVE  /\ link.state # "none" => link'.state # "none"
             /\ made' = IF link'.state = "none" THEN 0 ELSE 1
             /\ vw'.state # "none" => link'.state # "none"
  BY <1>1 DEF Linked
<1>2. ASSUME link.state # "none", link'.state # "none", UNCHANGED made
      PROVE  /\ link.state # "none" => link'.state # "none"
             /\ made' = IF link'.state = "none" THEN 0 ELSE 1
             /\ vw'.state # "none" => link'.state # "none"
  BY <1>2 DEF Linked
<1>3. CASE Elsewhere
  <2>1. CASE DeleteIncident
    <3>1. link.state # "none" /\ link'.state # "none" /\ UNCHANGED made
      BY <2>1 DEF DeleteIncident, KeepsLink, Link, Linked, Edits, history
    <3> QED BY <3>1, <1>2
  <2>2. ASSUME NEW s \in VStatus, EditIncident(s)
        PROVE  UNCHANGED <<link, made>> /\ vw'.state = vw.state
    BY <2>2 DEF EditIncident, Incident, Edits, history
  <2>3. CASE ArchiveIncident
    BY <2>3, <1>1 DEF ArchiveIncident, Incident, Edits, history
  <2>4. ASSUME NEW s \in JStatus, MoveIssue(s)
        PROVE  UNCHANGED <<link, made, vw>>
    BY <2>4 DEF MoveIssue, Edits, history
  <2>5. CASE HideIssue
    BY <2>5, <1>1 DEF HideIssue, Edits, history
  <2>6. CASE ClaimLapses
    BY <2>6, <1>1 DEF ClaimLapses, sides, history
  <2>7. CASE RestPasses \/ UNCHANGED vars
    BY <2>7, <1>1 DEF RestPasses, sides, history, vars
  <2> QED BY <1>3, <1>1, <2>1, <2>2, <2>3, <2>4, <2>5, <2>6, <2>7 DEF Elsewhere, People
<1>4. ASSUME NEW r \in Run, RunStep(r)
      PROVE  /\ link.state # "none" => link'.state # "none"
             /\ made' = IF link'.state = "none" THEN 0 ELSE 1
             /\ vw'.state # "none" => link'.state # "none"
  <2>1. CASE CreateIncident(r)
    <3>1. CASE Unlinked
      <4>1. made = 0 /\ made' = 1 /\ link'.state \in {"ok", "error"}
        BY <2>1, <3>1 DEF CreateIncident, Unlinked, Linked
      <4> QED BY <4>1
    <3>2. CASE ~Unlinked
      BY <2>1, <3>2, <1>1 DEF CreateIncident
    <3> QED BY <3>1, <3>2
  <2>2. CASE \/ MarkDeleted(r) \/ RecordUnchanged(r) \/ ApplyToVerifyWise(r) \/ LeaveJira(r)
             \/ RecordTransition(r) \/ ReportProblem(r) \/ FailLink(r)
             \/ TransitionUnanswered(r)
    <3>1. link.state # "none"
      BY <2>2 DEF MarkDeleted, RecordUnchanged, ApplyToVerifyWise, LeaveJira,
         RecordTransition, ReportProblem, FailLink, TransitionUnanswered, JiraMoves,
         Applies, At, Linked, Reconciling, Deciding
    <3>2. MarksError(r) => link'.state # "none"
      BY <3>1 DEF MarksError, Link
    <3>5. \A j, v, st : Snapshot(j, v, st) => link'.state = st
      BY DEF Snapshot
    <3>6. ASSUME \/ RecordUnchanged(r) \/ ApplyToVerifyWise(r) \/ LeaveJira(r)
                 \/ RecordTransition(r)
          PROVE  link'.state # "none"
      BY <3>1, <3>5, <3>6, <1>s DEF RecordUnchanged, ApplyToVerifyWise, LeaveJira,
         RecordTransition, RecordsMove
    <3>7. ASSUME MarkDeleted(r)
          PROVE  link'.state # "none"
      BY <3>1, <3>7 DEF MarkDeleted, Link
    <3>3. link'.state # "none"
      BY <2>2, <3>2, <3>6, <3>7 DEF ReportProblem, FailLink, TransitionUnanswered
    <3>4. UNCHANGED made
      BY <2>2 DEF MarkDeleted, RecordUnchanged, ApplyToVerifyWise, LeaveJira,
         RecordTransition, ReportProblem, FailLink, TransitionUnanswered, history
    <3> QED BY <3>1, <3>3, <3>4, <1>2
  <2>3. CASE \/ StartRun(r) \/ SearchIssues(r) \/ CheckLinked(r) \/ Heartbeat(r)
             \/ MarkChecked(r) \/ ReadLink(r) \/ FetchStatus(r) \/ MakeDecision(r)
             \/ CheckBeforeMove(r) \/ Transition(r) \/ EndRun(r) \/ CreateFails(r) \/ CutShort(r) \/ Crash(r)
    <3>1. UNCHANGED <<link, made, vw>>
      BY <2>3 DEF StartRun, SearchIssues, CheckLinked, Heartbeat, MarkChecked, ReadLink,
         FetchStatus, MakeDecision, CheckBeforeMove, Transition, JiraMoves, EndRun, CreateFails,
         CutShort, Crash, sides, history
    <3> QED BY <3>1, <1>1
  <2> QED BY <1>4, <2>1, <2>2, <2>3 DEF RunStep, Works, GoesWrong
<1> QED BY <1>3, <1>4, StepCases

LEMMA LinkedStep ==
    ASSUME TypeOK, Linked, [Next]_vars
    PROVE  Linked'
<1>1. \A s \in Run : work'[s].at \in Reconciling => link'.state # "none"
  <2>1. CASE Elsewhere
    BY <2>1, LinkStays, ElsewhereStays DEF Linked
  <2>2. ASSUME NEW r \in Run, RunStep(r)
        PROVE  \A s \in Run : work'[s].at \in Reconciling => link'.state # "none"
    <3>w. work[r] \in Work
      BY WorkParts
    <3>1. ASSUME SearchIssues(r) \/ CheckLinked(r)
          PROVE  work'[r].at \notin Reconciling
      <4>1. work'[r].at \in {"found", "create", "mark"}
        BY <3>1, ImportGoesOn
      <4> QED BY <4>1 DEF Reconciling, Deciding
    <3>2. ASSUME ReadLink(r), work'[r].at \in Reconciling
          PROVE  link.state # "none"
      <4>1. Goes(r, Finished) => work'[r].at = "ending"
        BY GoesAt DEF Finished, Resting, TypeOK
      <4> QED BY <3>2, <4>1 DEF ReadLink, Syncable, Reconciling, Deciding
    <3>3. ASSUME FetchStatus(r) \/ MakeDecision(r) \/ CheckBeforeMove(r) \/ Transition(r)
          PROVE  link.state # "none"
      BY <3>3 DEF FetchStatus, MakeDecision, CheckBeforeMove, Transition, JiraMoves, Applies,
         At, Linked, Reconciling, Deciding
    <3>4. work'[r].at \in Reconciling => link'.state # "none"
      BY <2>2, <3>1, <3>2, <3>3, WhereNext, LinkStays DEF Idling
    <3> QED BY <2>2, <3>4, OthersStay, LinkStays DEF Linked
  <2> QED BY <2>1, <2>2, StepCases
<1> QED BY <1>1, LinkStays DEF Linked

-----------------------------------------------------------------------------
(* Decisions                                                                 *)

\* Only Jira having left the snapshot moves the incident, only the incident
\* having left it moves the issue, and both having left it is a conflict.
LEMMA DecideFollows ==
    ASSUME NEW l \in Link, NEW j \in JStatus, NEW v \in VStatus,
           NEW d, d = Decide(l, j, v)
    PROVE  /\ d.act = "to_vw" => /\ d.v = MapIn[j] /\ d.v \in VStatus
                                 /\ j # l.lastJ
                                 /\ d.conflict \/ v = l.lastV
           /\ d.act = "to_jira" => v # l.lastV
<1> DEFINE A(x) == x.act
           In(x, c) == x.act = "to_vw" => x.v = MapIn[j] /\ x.v \in VStatus /\ x.conflict = c
<1>1. A(Nothing) = "none"
  BY DEF Nothing, NoDecision
<1>2. ASSUME NEW c \in BOOLEAN
      PROVE  In(ToVw(j, v, c), c) /\ A(ToVw(j, v, c)) # "to_jira"
  BY <1>1, MapsTyped DEF ToVw, Yields
<1>3. ASSUME NEW c \in BOOLEAN
      PROVE  A(ToJira(j, v, c)) # "to_vw"
  BY <1>1 DEF ToJira, Yields
<1>4. CASE j = l.lastJ /\ v = l.lastV
  BY <1>1, <1>4 DEF Decide
<1>5. CASE j # l.lastJ /\ v = l.lastV
  <2>1. d = ToVw(j, v, FALSE)
    BY <1>5 DEF Decide
  <2> QED BY <2>1, <1>2, <1>5
<1>6. CASE j = l.lastJ /\ v # l.lastV
  <2>1. d = ToJira(j, v, FALSE)
    BY <1>6 DEF Decide
  <2> QED BY <2>1, <1>3, <1>6
<1>7. CASE j # l.lastJ /\ v # l.lastV
  <2>1. \/ d = ToJira(j, v, FALSE) \/ d = Nothing
        \/ d = ToJira(j, v, TRUE) \/ d = ToVw(j, v, TRUE)
    BY <1>7 DEF Decide, Resolve
  <2>2. CASE d = ToVw(j, v, TRUE)
    BY <2>2, <1>2, <1>7
  <2>3. CASE d = ToJira(j, v, FALSE) \/ d = ToJira(j, v, TRUE)
    BY <2>3, <1>3, <1>7
  <2> QED BY <2>1, <2>2, <2>3, <1>1
<1> QED BY <1>4, <1>5, <1>6, <1>7

\* What the steps that go on with a link leave of the run's work.
LEMMA NextWork ==
    ASSUME TypeOK, NEW r \in Run
    PROVE  /\ SearchIssues(r) \/ CheckLinked(r) =>
                work'[r].at \in {"found", "create", "mark"}
           /\ ReadLink(r) =>
                \/ work'[r] = [Resting EXCEPT !.at = "fetch", !.read = link, !.v = vw.status]
                \/ work'[r] = Finished
           /\ FetchStatus(r) =>
                work'[r] = [work[r] EXCEPT !.at = "decide", !.j = jira.status]
           /\ MakeDecision(r) =>
                \/ work'[r] = [work[r] EXCEPT !.at = "apply",
                                 !.do = Yields("resume", OpenStatus, Unset, FALSE)]
                \/ work'[r] = [work[r] EXCEPT !.at = "apply",
                                 !.do = Decide(work[r].read, work[r].j, work[r].v)]
           /\ CheckBeforeMove(r) =>
                \/ work'[r] = [work[r] EXCEPT !.at = "move"]
                \/ work'[r] = Finished
           /\ Transition(r) => work'[r] = [work[r] EXCEPT !.at = "record"]
<1>w. work[r] \in Work
  BY WorkParts
<1>2. ASSUME ReadLink(r)
      PROVE  \/ work'[r] = [Resting EXCEPT !.at = "fetch", !.read = link, !.v = vw.status]
             \/ work'[r] = Finished
  BY <1>2, GoesAt DEF ReadLink, TypeOK
<1>3. ASSUME FetchStatus(r)
      PROVE  work'[r] = [work[r] EXCEPT !.at = "decide", !.j = jira.status]
  BY <1>3, GoesAt DEF FetchStatus, TypeOK
<1>4. ASSUME MakeDecision(r)
      PROVE  \/ work'[r] = [work[r] EXCEPT !.at = "apply",
                              !.do = Yields("resume", OpenStatus, Unset, FALSE)]
             \/ work'[r] = [work[r] EXCEPT !.at = "apply",
                              !.do = Decide(work[r].read, work[r].j, work[r].v)]
  BY <1>4, GoesAt DEF MakeDecision, TypeOK
<1>5. ASSUME CheckBeforeMove(r)
      PROVE  \/ work'[r] = [work[r] EXCEPT !.at = "move"]
             \/ work'[r] = Finished
  BY <1>5, GoesAt DEF CheckBeforeMove, TypeOK
<1>6. ASSUME Transition(r)
      PROVE  work'[r] = [work[r] EXCEPT !.at = "record"]
  BY <1>6, GoesToAt DEF Transition, TypeOK
<1> QED BY <1>2, <1>3, <1>4, <1>5, <1>6, ImportGoesOn

LEMMA ChosenStep ==
    ASSUME TypeOK, Known, Chosen, [Next]_vars
    PROVE  Chosen'
<1> DEFINE C(w) == /\ w.at \in {"apply", "move", "record"} => Follows(w)
                   /\ w.at \in {"move", "record"} =>
                        w.do.act = "to_jira" /\ w.do.j \in JStatus
<1>1. CASE Elsewhere
  BY <1>1, ElsewhereStays DEF Chosen
<1>2. ASSUME NEW r \in Run, RunStep(r)
      PROVE  Chosen'
  <2>w. work[r] \in Work /\ work[r].do \in Decision /\ C(work[r])
    BY WorkParts DEF Chosen
  <2>1. ASSUME Idling(work'[r])
        PROVE  C(work'[r])
    BY <2>1 DEF Idling, Reconciling, Deciding
  <2>2. ASSUME SearchIssues(r) \/ CheckLinked(r)
        PROVE  C(work'[r])
    BY <2>2, NextWork
  <2>3. ASSUME ReadLink(r)
        PROVE  C(work'[r])
    <3>1. work'[r].at \in {"fetch", "ending"}
      BY <2>3, NextWork DEF Finished, Resting
    <3> QED BY <3>1
  <2>4. ASSUME FetchStatus(r)
        PROVE  C(work'[r])
    <3>1. work'[r].at = "decide"
      BY <2>4, <2>w, NextWork DEF Work
    <3> QED BY <3>1
  <2>5. ASSUME MakeDecision(r)
        PROVE  C(work'[r])
    <3>1. work[r].j \in JStatus /\ work[r].v \in VStatus /\ work[r].read \in Link
      BY <2>5, WorkParts DEF Known, MakeDecision, At, Deciding
    <3>2. CASE work'[r] = [work[r] EXCEPT !.at = "apply",
                             !.do = Yields("resume", OpenStatus, Unset, FALSE)]
      BY <3>2, <2>w DEF Work, Yields, Follows
    <3>3. CASE work'[r] = [work[r] EXCEPT !.at = "apply",
                             !.do = Decide(work[r].read, work[r].j, work[r].v)]
      <4>1. PICK d : d = Decide(work[r].read, work[r].j, work[r].v)
        OBVIOUS
      <4>2. /\ work'[r].at = "apply" /\ work'[r].do = d /\ work'[r].j = work[r].j
            /\ work'[r].v = work[r].v /\ work'[r].read = work[r].read
        BY <3>3, <4>1, <2>w DEF Work
      <4>3. Follows(work'[r])
        BY <3>1, <4>1, <4>2, DecideFollows DEF Follows
      <4> QED BY <4>2, <4>3
    <3> QED BY <2>5, <3>2, <3>3, NextWork
  <2>6. ASSUME CheckBeforeMove(r)
        PROVE  C(work'[r])
    <3>1. /\ work[r].at = "apply" /\ work[r].do.act = "to_jira" /\ work[r].do.j \in JStatus
      BY <2>6, WorkParts DEF CheckBeforeMove, Applies, At
    <3>2. CASE work'[r] = [work[r] EXCEPT !.at = "move"]
      BY <3>1, <3>2, <2>w DEF Work, Follows
    <3>3. CASE work'[r] = Finished
      BY <3>3 DEF Finished, Resting
    <3> QED BY <2>6, <3>2, <3>3, NextWork
  <2>7. ASSUME Transition(r)
        PROVE  C(work'[r])
    <3>1. work[r].at = "move"
      BY <2>7 DEF Transition, JiraMoves, At
    <3>2. work'[r] = [work[r] EXCEPT !.at = "record"]
      BY <2>7, NextWork
    <3> QED BY <3>1, <3>2, <2>w DEF Work, Follows
  <2>8. C(work'[r])
    BY <1>2, <2>1, <2>2, <2>3, <2>4, <2>5, <2>6, <2>7, WhereNext
  <2> QED BY <1>2, <2>8, OthersStay DEF Chosen
<1> QED BY <1>1, <1>2, StepCases

-----------------------------------------------------------------------------
(* Undisturbed runs                                                          *)

LEMMA DisturbedStays ==
    ASSUME TypeOK, [Next]_vars, disturbed
    PROVE  disturbed'
<1>1. CASE Elsewhere
  BY <1>1, ElsewhereStays
<1>2. ASSUME NEW r \in Run, RunStep(r)
      PROVE  disturbed'
  <2>1. CASE StartRun(r) \/ CutShort(r) \/ Crash(r) \/ TransitionUnanswered(r)
    BY <2>1 DEF StartRun, CutShort, Crash, TransitionUnanswered, Disturbs
  <2>2. CASE Works(r) \/ CreateFails(r) \/ FailLink(r)
    <3>1. UNCHANGED disturbed
      BY <2>2 DEF Works, SearchIssues, CheckLinked, CreateIncident, Heartbeat, MarkChecked, ReadLink,
         FetchStatus, MarkDeleted, MakeDecision, RecordUnchanged, ApplyToVerifyWise,
         LeaveJira, CheckBeforeMove, Transition, RecordTransition, ReportProblem, EndRun,
         CreateFails, FailLink, history
    <3> QED BY <3>1
  <2> QED BY <1>2, <2>1, <2>2 DEF RunStep, GoesWrong
<1> QED BY <1>1, <1>2, StepCases

\* A run takes a step in the middle of its work, or it starts.
LEMMA Busy ==
    ASSUME NEW r \in Run, RunStep(r)
    PROVE  work[r].at # "idle" \/ StartRun(r)
BY DEF RunStep, Works, GoesWrong, SearchIssues, CheckLinked, CreateIncident, Heartbeat,
   MarkChecked, ReadLink, FetchStatus, MarkDeleted, MakeDecision, RecordUnchanged, ApplyToVerifyWise,
   LeaveJira, CheckBeforeMove, Transition, TransitionUnanswered, RecordTransition,
   ReportProblem, EndRun, CreateFails, FailLink, CutShort, Crash, JiraMoves, Applies, At

\* The run that takes an undisturbed step is alone.
LEMMA Alone ==
    ASSUME TypeOK, Solo, [Next]_vars, NEW r \in Run, RunStep(r), ~disturbed'
    PROVE  \A s \in Run \ {r} : work[s].at = "idle" /\ work'[s].at = "idle"
<1>1. ~disturbed
  BY DisturbedStays
<1>2. CASE StartRun(r)
  <2>1. \A s \in Run : work[s].at = "idle"
    BY <1>2 DEF StartRun, Disturbs, At
  <2> QED BY <2>1, OthersStay
<1>3. CASE work[r].at # "idle"
  BY <1>1, <1>3, OthersStay DEF Solo
<1> QED BY <1>2, <1>3, Busy

LEMMA SoloStep ==
    ASSUME TypeOK, Solo, [Next]_vars
    PROVE  Solo'
<1>1. CASE Elsewhere
  BY <1>1, ElsewhereStays DEF Solo
<1>2. ASSUME NEW r \in Run, RunStep(r), ~disturbed'
      PROVE  \A s, q \in Run : work'[s].at # "idle" /\ work'[q].at # "idle" => s = q
  BY <1>2, Alone
<1> QED BY <1>1, <1>2, StepCases DEF Solo

\* Nobody but a run writes the snapshot.
LEMMA SnapshotStays ==
    ASSUME TypeOK, Elsewhere
    PROVE  link'.lastJ = link.lastJ /\ link'.lastV = link.lastV
BY DEF Elsewhere, People, MoveIssue, HideIssue, EditIncident, ArchiveIncident,
   DeleteIncident, KeepsLink, RestPasses, ClaimLapses, sides, vars, TypeOK, Link

LEMMA ReadingStep ==
    ASSUME TypeOK, Solo, Reading, [Next]_vars
    PROVE  Reading'
<1> DEFINE R(w, l) == w.at \in {"fetch", "decide", "apply", "move"} =>
                        w.read.lastJ = l.lastJ /\ w.read.lastV = l.lastV
<1>1. CASE Elsewhere
  BY <1>1, ElsewhereStays, SnapshotStays DEF Reading
<1>2. ASSUME NEW r \in Run, RunStep(r), ~disturbed'
      PROVE  \A s \in Run : R(work'[s], link')
  <2>0. \A s \in Run \ {r} : R(work'[s], link')
    BY <1>2, Alone
  <2>w. work[r] \in Work /\ R(work[r], link)
    BY <1>2, DisturbedStays, WorkParts DEF Reading
  <2>1. ASSUME Idling(work'[r])
        PROVE  R(work'[r], link')
    BY <2>1 DEF Idling, Reconciling, Deciding
  <2>2. ASSUME SearchIssues(r) \/ CheckLinked(r)
        PROVE  R(work'[r], link')
    BY <2>2, NextWork
  <2>3. ASSUME ReadLink(r)
        PROVE  R(work'[r], link')
    <3>1. link' = link
      BY <2>3 DEF ReadLink
    <3>2. \/ work'[r].at = "fetch" /\ work'[r].read = link
          \/ work'[r].at = "ending"
      BY <2>3, NextWork DEF Finished, Resting
    <3> QED BY <3>1, <3>2
  <2>4. ASSUME FetchStatus(r) \/ MakeDecision(r) \/ CheckBeforeMove(r)
        PROVE  R(work'[r], link')
    <3>1. link' = link /\ work[r].at \in {"fetch", "decide", "apply"}
      BY <2>4 DEF FetchStatus, MakeDecision, CheckBeforeMove, Applies, At
    <3>2. work'[r].read = work[r].read \/ work'[r].at = "ending"
      BY <2>4, <2>w, NextWork DEF Work, Finished, Resting
    <3> QED BY <3>1, <3>2, <2>w
  <2>5. ASSUME Transition(r)
        PROVE  R(work'[r], link')
    <3>1. work'[r].at = "record"
      BY <2>5, <2>w, NextWork DEF Work
    <3> QED BY <3>1
  <2>6. R(work'[r], link')
    BY <1>2, <2>1, <2>2, <2>3, <2>4, <2>5, WhereNext
  <2> QED BY <2>0, <2>6
<1> QED BY <1>1, <1>2, StepCases DEF Reading

\* The steps that leave the pair last in step, the snapshot and the moves that
\* are not recorded yet alone.
LEMMA BasisStays ==
    ASSUME Basis, TypeOK, UNCHANGED base,
           disturbed => disturbed',
           link'.lastJ = link.lastJ, link'.lastV = link.lastV,
           link'.state # "none" => link.state # "none",
           ~disturbed' => \A s \in Run : \/ work'[s] = work[s]
                                         \/ work[s].at # "record" /\ work'[s].at # "record"
    PROVE  Basis'
BY DEF Basis, Agreed

LEMMA BasisStep ==
    ASSUME TypeOK, Known, Linked, Chosen, Solo, Basis, [Next]_vars
    PROVE  Basis'
<1>d. disturbed => disturbed'
  BY DisturbedStays
<1>1. CASE Elsewhere
  <2>1. UNCHANGED <<base, work>>
    BY <1>1, ElsewhereStays
  <2>2. link'.state # "none" => link.state # "none"
    BY <1>1 DEF Elsewhere, People, MoveIssue, HideIssue, EditIncident, ArchiveIncident,
       DeleteIncident, RestPasses, ClaimLapses, sides, vars, Linked
  <2> QED BY <1>1, <1>d, <2>1, <2>2, SnapshotStays, BasisStays
<1>2. ASSUME NEW r \in Run, RunStep(r), ~disturbed'
      PROVE  Basis'
  <2>u. ~disturbed
    BY <1>2, <1>d
  <2>w. work[r] \in Work
    BY WorkParts
  <2>o. \A s \in Run \ {r} : work[s].at = "idle" /\ work'[s].at = "idle" /\ work'[s] = work[s]
    BY <1>2, Alone, OthersStay
  <2>q. ASSUME work[r].at # "record", work'[r].at # "record", UNCHANGED base,
               link'.lastJ = link.lastJ, link'.lastV = link.lastV,
               link'.state # "none" => link.state # "none"
        PROVE  Basis'
    BY <2>q, <1>d, <2>o, BasisStays
  <2>n. \A w : Goes(r, w) => work'[r] = w
    BY GoesAt DEF TypeOK
  <2>f. Finished.at = "ending" /\ Resting.at = "idle"
    BY DEF Finished, Resting
  \* Both sides are in step, and the link says so.
  <2>s. ASSUME NEW j \in JStatus, base'.j = j, base'.v = link'.lastV,
               link'.lastJ = j \/ (link'.lastJ = Unset /\ MapIn[j] = Unset),
               work'[r].at # "record"
        PROVE  Basis'
    BY <2>s, <2>o DEF Basis, Agreed
  <2>1. CASE CreateIncident(r)
    <3>1. work[r].at = "create" /\ work[r].j \in JStatus
      BY <2>1 DEF CreateIncident, At, Known
    <3>2. work'[r].at = "beat"
      BY <2>1, PassesAt DEF CreateIncident, TypeOK
    <3>3. CASE Unlinked
      BY <2>1, <2>u, <3>1, <3>2, <3>3, <2>s DEF CreateIncident, InStep
    <3>4. CASE ~Unlinked
      BY <2>1, <3>1, <3>2, <3>4, <2>q DEF CreateIncident
    <3> QED BY <3>3, <3>4
  <2>2. CASE RecordUnchanged(r) \/ ApplyToVerifyWise(r) \/ LeaveJira(r)
    <3>1. work[r].at = "apply" /\ work[r].j \in JStatus
      BY <2>2 DEF RecordUnchanged, ApplyToVerifyWise, LeaveJira, Applies, At, Known, Deciding
    <3>2. work'[r].at = "ending"
      BY <2>2, <2>n, <2>f DEF RecordUnchanged, ApplyToVerifyWise, LeaveJira
    <3>3. \/ \E v \in VStatus, st \in LinkStates : Snapshot(work[r].j, v, st)
                                                   /\ InStep(work[r].j, v)
          \/ UNCHANGED <<link, base>>
      BY <2>2, WorkParts, StatesTyped
         DEF RecordUnchanged, ApplyToVerifyWise, LeaveJira
    <3>4. CASE UNCHANGED <<link, base>>
      BY <3>1, <3>2, <3>4, <2>q
    <3>5. ASSUME NEW v \in VStatus, NEW st \in LinkStates, Snapshot(work[r].j, v, st),
                 InStep(work[r].j, v)
          PROVE  Basis'
      BY <2>u, <3>1, <3>2, <3>5, <2>s DEF Snapshot, InStep
    <3> QED BY <3>3, <3>4, <3>5
  <2>3. CASE Transition(r)
    <3>1. work'[r] = [work[r] EXCEPT !.at = "record"]
      BY <2>3, NextWork
    <3>2. work'[r].at = "record" /\ work'[r].do = work[r].do /\ work'[r].v = work[r].v
      BY <3>1, <2>w DEF Work
    <3>3. base' = [j |-> work[r].do.j, v |-> work[r].v] /\ work[r].do.j \in JStatus
      BY <2>3, <2>u DEF Transition, JiraMoves, InStep, At, Chosen
    <3> QED BY <3>2, <3>3, <2>o DEF Basis
  <2>4. CASE RecordTransition(r)
    <3>1. work[r].at = "record" /\ link.state # "none" /\ work[r].do.j \in JStatus
      BY <2>4 DEF RecordTransition, At, Linked, Reconciling, Deciding, Chosen
    <3>2. base = [j |-> work[r].do.j, v |-> work[r].v] /\ UNCHANGED base
      BY <2>4, <2>u, <3>1 DEF Basis, RecordTransition, history
    <3>3. link'.lastJ = work[r].do.j /\ link'.lastV = work[r].v
      BY <2>4 DEF RecordTransition, RecordsMove, Snapshot
    <3>4. work'[r].at = "ending"
      BY <2>4, <2>n, <2>f DEF RecordTransition
    <3> QED BY <3>1, <3>2, <3>3, <3>4, <2>s
  <2>5. CASE TransitionUnanswered(r)
    BY <1>2, <2>5 DEF TransitionUnanswered, Disturbs
  <2>6. CASE MarkDeleted(r) \/ ReportProblem(r) \/ FailLink(r)
    <3>1. work[r].at \in Reconciling \ {"record"}
      BY <2>6 DEF MarkDeleted, ReportProblem, FailLink, Applies, At, Reconciling, Deciding
    <3>2. link.state # "none" /\ UNCHANGED base
      BY <2>6, <3>1 DEF Linked, MarkDeleted, ReportProblem, FailLink, history
    <3>3. link'.lastJ = link.lastJ /\ link'.lastV = link.lastV
      BY <2>6 DEF MarkDeleted, ReportProblem, FailLink, MarksError, TypeOK, Link
    <3>4. work'[r].at = "ending"
      BY <2>6, <2>n, <2>f DEF MarkDeleted, ReportProblem, FailLink
    <3> QED BY <3>1, <3>2, <3>3, <3>4, <2>q
  <2>7. CASE CutShort(r) \/ Crash(r)
    <3>1. UNCHANGED <<link, base>> /\ work[r].at # "record"
      BY <1>2, <2>7 DEF CutShort, Crash, Disturbs, At
    <3>2. work'[r].at # "record"
      BY <2>7, <2>n, <2>f DEF CutShort, Crash
    <3> QED BY <3>1, <3>2, <2>q
  <2>8. CASE \/ StartRun(r) \/ SearchIssues(r) \/ CheckLinked(r) \/ Heartbeat(r)
             \/ MarkChecked(r) \/ ReadLink(r) \/ FetchStatus(r) \/ MakeDecision(r)
             \/ CheckBeforeMove(r) \/ EndRun(r) \/ CreateFails(r)
    <3>1. UNCHANGED <<link, base>> /\ work[r].at # "record"
      BY <1>2, <2>8 DEF StartRun, SearchIssues, CheckLinked, Heartbeat, MarkChecked, ReadLink,
         FetchStatus, MakeDecision, CheckBeforeMove, EndRun, CreateFails, Disturbs, history,
         Applies, At
    <3>2. work'[r].at # "record"
      <4>1. CASE SearchIssues(r) \/ CheckLinked(r)
        BY <4>1, NextWork
      <4>2. CASE ReadLink(r) \/ FetchStatus(r) \/ MakeDecision(r) \/ CheckBeforeMove(r)
        <5>1. work'[r].at \in {"fetch", "ending", "decide", "apply", "move"}
          BY <4>2, <2>w, NextWork DEF Work, Finished, Resting
        <5> QED BY <5>1
      <4>3. CASE EndRun(r)
        BY <4>3, <2>n, <2>f DEF EndRun
      <4>4. CASE StartRun(r) \/ Heartbeat(r) \/ MarkChecked(r) \/ CreateFails(r)
        BY <4>4, <1>2, WhereNext DEF Idling, Reconciling, Deciding, StartRun, Heartbeat,
           MarkChecked, CreateFails, SearchIssues, CheckLinked, ReadLink, FetchStatus,
           MakeDecision, CheckBeforeMove, Transition, JiraMoves, Applies, At
      <4> QED BY <2>8, <4>1, <4>2, <4>3, <4>4
    <3> QED BY <3>1, <3>2, <2>q
  <2> QED BY <1>2, <2>1, <2>2, <2>3, <2>4, <2>5, <2>6, <2>7, <2>8
      DEF RunStep, Works, GoesWrong
<1>3. CASE disturbed'
  BY <1>3 DEF Basis
<1> QED BY <1>1, <1>2, <1>3, StepCases

-----------------------------------------------------------------------------
(* The window of the import search                                           *)

\* An issue that was found, or missed for good, stays so.
LEMMA FoundStays ==
    ASSUME TypeOK, Linked, [Next]_vars, Found
    PROVE  Found'
<1>1. link.state # "none" => link'.state # "none"
  BY LinkStays
<1>2. missed => missed' \/ link'.state # "none"
  <2> SUFFICES ASSUME missed
               PROVE  missed' \/ link'.state # "none"
    OBVIOUS
  <2>1. CASE Elsewhere
    BY <2>1, ElsewhereStays
  <2>2. ASSUME NEW r \in Run, RunStep(r)
        PROVE  missed' \/ link'.state # "none"
    <3>1. CASE CreateIncident(r)
      <4>1. CASE Unlinked
        <5>1. link'.state \in {"ok", "error"}
          BY <3>1, <4>1 DEF CreateIncident
        <5> QED BY <5>1
      <4>2. CASE ~Unlinked
        BY <3>1, <4>2 DEF CreateIncident
      <4> QED BY <4>1, <4>2
    <3>2. CASE SearchIssues(r)
      BY <3>2 DEF SearchIssues
    <3>3. CASE ~CreateIncident(r) /\ ~SearchIssues(r)
      <4>1. UNCHANGED missed
        BY <2>2, <3>3 DEF RunStep, Works, GoesWrong, StartRun, CheckLinked, Heartbeat,
           MarkChecked, ReadLink, FetchStatus, MarkDeleted, MakeDecision, RecordUnchanged,
           ApplyToVerifyWise, LeaveJira, CheckBeforeMove, Transition, RecordTransition,
           ReportProblem, EndRun, CreateFails, FailLink, TransitionUnanswered, CutShort,
           Crash
      <4> QED BY <4>1
    <3> QED BY <3>1, <3>2, <3>3
  <2> QED BY <2>1, <2>2, StepCases
<1> QED BY <1>1, <1>2 DEF Found

\* The steps that leave a run in its import.
LEMMA ImportPhases ==
    ASSUME TypeOK, NEW r \in Run, RunStep(r), work'[r].at \in {"search", "beat", "mark"}
    PROVE  \/ StartRun(r) \/ SearchIssues(r) \/ CheckLinked(r) \/ CreateIncident(r)
           \/ CreateFails(r) \/ Heartbeat(r)
<1>w. work[r] \in Work
  BY WorkParts
<1>n. \A w : Goes(r, w) => work'[r] = w
  BY GoesAt DEF TypeOK
<1>f. Finished.at = "ending" /\ Resting.at = "idle"
  BY DEF Finished, Resting
<1>1. ~MarkChecked(r)
  <2>1. MarkChecked(r) => work'[r].at = "read"
    BY <1>n DEF MarkChecked, Resting
  <2> QED BY <2>1
<1>2. ~(ReadLink(r) \/ FetchStatus(r) \/ MakeDecision(r) \/ CheckBeforeMove(r)
        \/ Transition(r))
  <2>1. ReadLink(r) \/ FetchStatus(r) \/ MakeDecision(r) \/ CheckBeforeMove(r) \/ Transition(r)
        => work'[r].at \in {"fetch", "ending", "decide", "apply", "move", "record"}
    BY <1>w, NextWork DEF Work, Finished, Resting
  <2> QED BY <2>1
<1>3. ~Goes(r, Finished) /\ ~Goes(r, Resting)
  BY <1>n, <1>f
<1> QED BY <1>1, <1>2, <1>3
    DEF RunStep, Works, GoesWrong, MarkDeleted, RecordUnchanged, ApplyToVerifyWise, LeaveJira,
        RecordTransition, ReportProblem, EndRun, FailLink, TransitionUnanswered, CutShort, Crash

\* The window closes when a check is marked, and never while a run still has
\* the issue to import or a link to wait for.
LEMMA ReachStep ==
    ASSUME TypeOK, Linked, Window, [Next]_vars, reach' = "closed"
    PROVE  Found'
<1>1. CASE reach = "closed"
  BY <1>1, FoundStays DEF Window
<1>2. CASE reach # "closed"
  <2>1. PICK r \in Run : RunStep(r)
    BY <1>2, StepCases, ElsewhereStays
  <2>2. MarkChecked(r)
    BY <1>2, <2>1 DEF RunStep, Works, GoesWrong, StartRun, SearchIssues, CheckLinked,
       CreateIncident, Heartbeat, ReadLink, FetchStatus, MarkDeleted, MakeDecision,
       RecordUnchanged, ApplyToVerifyWise, LeaveJira, CheckBeforeMove, Transition,
       RecordTransition, ReportProblem, EndRun, CreateFails, FailLink, TransitionUnanswered,
       CutShort, Crash
  <2>3. work[r].at = "mark" /\ ~work[r].keeps
    BY <1>2, <2>2 DEF MarkChecked, At
  <2>4. Found
    BY <2>3 DEF Window
  <2> QED BY <2>4, FoundStays
<1> QED BY <1>1, <1>2

LEMMA WindowStep ==
    ASSUME TypeOK, Linked, Window, [Next]_vars
    PROVE  Window'
<1> DEFINE Looks(w, found) ==
      /\ w.at = "search" /\ ~w.reach => found
      /\ w.at \in {"beat", "mark"} => found \/ w.keeps
<1>1. reach' = "closed" => Found'
  BY ReachStep
<1>2. \A s \in Run : Looks(work[s], Found')
  BY FoundStays DEF Window
<1>3. CASE Elsewhere
  BY <1>1, <1>2, <1>3, ElsewhereStays DEF Window
<1>4. ASSUME NEW r \in Run, RunStep(r)
      PROVE  Window'
  <2>w. work[r] \in Work
    BY WorkParts
  <2>k. ASSUME NEW p, Passes(r, p, TRUE), p # "search"
        PROVE  Looks(work'[r], Found')
    BY <2>k, PassesAt DEF TypeOK
  <2>1. ASSUME StartRun(r)
        PROVE  Looks(work'[r], Found')
    <3>1. work'[r].at = "search" /\ work'[r].reach = (reach # "closed")
      <4>1. work'[r] = [Resting EXCEPT !.at = "search", !.reach = reach # "closed",
                                       !.keeps = HasLink \/ reach' = "young"]
        BY <2>1, GoesAt DEF StartRun, TypeOK
      <4> QED BY <4>1 DEF Resting
    <3>2. reach = "closed" => Found'
      BY FoundStays DEF Window
    <3> QED BY <3>1, <3>2
  <2>2. ASSUME SearchIssues(r)
        PROVE  Looks(work'[r], Found')
    <3>1. CASE jira.shown /\ work[r].reach
      <4>1. work'[r] = [work[r] EXCEPT !.at = "found", !.j = jira.status]
        BY <2>2, <3>1, GoesAt DEF SearchIssues, TypeOK
      <4>2. work'[r].at = "found"
        BY <4>1, <2>w DEF Work
      <4> QED BY <4>2
    <3>2. CASE ~(jira.shown /\ work[r].reach)
      <4>1. work'[r].at = "mark" /\ work'[r].keeps = work[r].keeps
        BY <2>2, <3>2, PassesAt DEF SearchIssues, TypeOK
      <4>2. CASE ~work[r].reach
        BY <2>2, <4>1, <4>2, <1>2 DEF SearchIssues, At
      <4>3. CASE ~jira.shown
        BY <2>2, <4>1, <4>3 DEF SearchIssues, Found
      <4> QED BY <3>2, <4>2, <4>3
    <3> QED BY <3>1, <3>2
  <2>3. ASSUME CheckLinked(r)
        PROVE  Looks(work'[r], Found')
    <3>1. CASE HasLink
      BY <2>3, <3>1, <2>k DEF CheckLinked
    <3>2. CASE ~HasLink
      <4>1. work'[r] = [work[r] EXCEPT !.at = "create"]
        BY <2>3, <3>2, GoesToAt DEF CheckLinked, TypeOK
      <4>2. work'[r].at = "create"
        BY <4>1, <2>w DEF Work
      <4> QED BY <4>2
    <3> QED BY <3>1, <3>2
  <2>4. ASSUME CreateIncident(r) \/ CreateFails(r)
        PROVE  Looks(work'[r], Found')
    BY <2>4, <2>k DEF CreateIncident, CreateFails, KeepsOpen
  <2>5. ASSUME Heartbeat(r)
        PROVE  Looks(work'[r], Found')
    <3>1. CASE GoesTo(r, "mark")
      <4>1. work'[r] = [work[r] EXCEPT !.at = "mark"]
        BY <3>1, GoesToAt DEF TypeOK
      <4>2. work'[r].at = "mark" /\ work'[r].keeps = work[r].keeps
        BY <4>1, <2>w DEF Work
      <4> QED BY <2>5, <4>2, <1>2 DEF Heartbeat, At
    <3>2. CASE Goes(r, Resting)
      <4>1. work'[r].at = "idle"
        BY <3>2, GoesAt DEF Resting, TypeOK
      <4> QED BY <4>1
    <3> QED BY <2>5, <3>1, <3>2 DEF Heartbeat
  <2>6. Looks(work'[r], Found')
    BY <1>4, <2>1, <2>2, <2>3, <2>4, <2>5, ImportPhases
  <2> QED BY <1>1, <1>2, <1>4, <2>6, OthersStay DEF Window
<1> QED BY <1>3, <1>4, StepCases

-----------------------------------------------------------------------------
(* Quiet runs                                                                *)

\* Why a decision leaves both sides alone or moves the issue.
LEMMA DecideReasons ==
    ASSUME NEW l \in Link, NEW j \in JStatus, NEW v \in VStatus,
           NEW d, d = Decide(l, j, v)
    PROVE  /\ d.act = "unmapped" => MapIn[j] = Unset /\ j # l.lastJ
           /\ d.act = "to_jira" => d.j = MapOut[v] /\ d.j # j /\ v # l.lastV
<1> DEFINE A(x) == x.act
           Un(x) == x.act = "unmapped" => MapIn[j] = Unset
           To(x) == x.act = "to_jira" => x.j = MapOut[v]
<1>1. A(Nothing) = "none"
  BY DEF Nothing, NoDecision
<1>2. ASSUME NEW c \in BOOLEAN
      PROVE  Un(ToVw(j, v, c)) /\ A(ToVw(j, v, c)) # "to_jira"
  BY <1>1 DEF ToVw, Yields
<1>3. ASSUME NEW c \in BOOLEAN
      PROVE  /\ A(ToJira(j, v, c)) # "unmapped" /\ To(ToJira(j, v, c))
             /\ ~c /\ MapOut[v] = j => ToJira(j, v, c) = Nothing
  BY <1>1 DEF ToJira, Yields
<1>4. CASE j = l.lastJ /\ v = l.lastV
  BY <1>1, <1>4 DEF Decide
<1>5. CASE j # l.lastJ /\ v = l.lastV
  <2>1. d = ToVw(j, v, FALSE)
    BY <1>5 DEF Decide
  <2> QED BY <2>1, <1>2, <1>5
<1>6. CASE j = l.lastJ /\ v # l.lastV
  <2>1. d = ToJira(j, v, FALSE)
    BY <1>6 DEF Decide
  <2> QED BY <2>1, <1>1, <1>3, <1>6
<1>7. CASE j # l.lastJ /\ v # l.lastV
  <2>1. \/ d = ToJira(j, v, FALSE) \/ d = Nothing
        \/ d = ToJira(j, v, TRUE) /\ MapOut[v] # j
        \/ d = ToVw(j, v, TRUE)
    BY <1>7 DEF Decide, Resolve
  <2>2. CASE d = ToVw(j, v, TRUE)
    BY <2>2, <1>2, <1>7
  <2>3. CASE d = ToJira(j, v, FALSE)
    BY <2>3, <1>1, <1>3, <1>7
  <2>4. CASE d = ToJira(j, v, TRUE) /\ MapOut[v] # j
    BY <2>4, <1>3, <1>7
  <2> QED BY <2>1, <2>2, <2>3, <2>4, <1>1
<1> QED BY <1>4, <1>5, <1>6, <1>7

\* What interferes or goes wrong is an event, and it is not quiet after it.
LEMMA QuietSteps ==
    ASSUME [Next]_vars, quiet'
    PROVE  \/ /\ UNCHANGED <<jira, vw, link, reach, missed, work, quiet, resting>>
              /\ recent' => recent
           \/ \E r \in Run : StartRun(r)
           \/ quiet /\ \E r \in Run : Works(r)
<1>c. ~Counted
  BY DEF Counted
<1>1. ~People
  BY <1>c DEF People, MoveIssue, HideIssue, EditIncident, ArchiveIncident, DeleteIncident,
     Edits
<1>2. \A r \in Run : ~GoesWrong(r)
  BY <1>c DEF GoesWrong, CreateFails, FailLink, TransitionUnanswered, CutShort, Crash
<1>3. ASSUME NEW r \in Run, Works(r)
      PROVE  quiet
  BY <1>3, <1>c DEF Works, SearchIssues, CheckLinked, CreateIncident, Heartbeat, MarkChecked, ReadLink,
     FetchStatus, MarkDeleted, MakeDecision, RecordUnchanged, ApplyToVerifyWise, LeaveJira,
     CheckBeforeMove, Transition, RecordTransition, ReportProblem, EndRun
<1>4. CASE RestPasses \/ ClaimLapses \/ UNCHANGED vars
  BY <1>4 DEF RestPasses, ClaimLapses, sides, vars
<1> QED BY <1>1, <1>2, <1>3, <1>4 DEF Next

\* A run that is done with both sides in step.
LEMMA EndsInStep ==
    ASSUME NEW r \in Run, Snapshot(jira'.status, vw'.status, link'.state),
           link'.state # "none", work'[r] = Finished
    PROVE  OnCourse(r)'
<1>1. link'.lastJ = jira'.status /\ link'.lastV = vw'.status
  BY DEF Snapshot
<1>2. Reconciled'
  BY <1>1 DEF Reconciled, InStepNow
<1>3. work'[r].at = "ending"
  BY DEF Finished, Resting
<1>4. Imported'
  BY DEF Imported
<1> QED BY <1>2, <1>3, <1>4 DEF OnCourse, At

\* A quiet run keeps its course, whatever it does next.
LEMMA WorkKeepsCourse ==
    ASSUME TypeOK, Known, Linked, Chosen, Window,
           NEW r \in Run, OnCourse(r), Works(r), quiet'
    PROVE  OnCourse(r)'
<1>w. work[r] \in Work /\ link \in Link /\ vw \in Incident /\ jira \in Issue
  BY WorkParts DEF TypeOK
<1>n. \A w : Goes(r, w) => work'[r] = w
  BY GoesAt DEF TypeOK
<1>p. \A p : GoesTo(r, p) => work'[r] = [work[r] EXCEPT !.at = p]
  BY GoesToAt DEF TypeOK
<1>f. /\ Finished.at = "ending" /\ Resting.at = "idle"
  BY DEF Finished, Resting
<1>s. Badge(r) # "none" /\ OutcomeState(r) # "none"
  BY DEF Badge, OutcomeState
<1>q. \A p, k : Passes(r, p, k) => work'[r].at = p /\ work'[r].keeps = k
  BY PassesAt DEF TypeOK
<1>k. UNCHANGED <<link, recent, jira, vw, resting>> =>
        /\ Skips(r)' <=> Skips(r)
        /\ InStepNow' <=> InStepNow
  BY DEF Skips, Settled, InStepNow
<1>1. CASE SearchIssues(r)
  <2>0. UNCHANGED <<link, recent, jira, vw, resting>>
    BY <1>1 DEF SearchIssues, sides
  <2>1. Skips(r) => resting
    BY <1>1 DEF SearchIssues, OnCourse, At
  <2>2. CASE jira.shown /\ work[r].reach
    <3>1. work'[r].at = "found" /\ work'[r].j = jira.status
      BY <1>1, <1>w, <1>n, <2>2 DEF SearchIssues, Work
    <3> QED BY <2>0, <2>1, <3>1, <1>k DEF OnCourse, At
  <2>3. CASE ~(jira.shown /\ work[r].reach)
    <3>1. work'[r].at = "mark" /\ work'[r].keeps = work[r].keeps
      BY <1>1, <1>q, <2>3 DEF SearchIssues
    <3>2. jira.shown => HasLink \/ ~work[r].keeps
      BY <1>1, <2>3 DEF SearchIssues, OnCourse
    <3> QED BY <2>0, <2>1, <3>1, <3>2, <1>k DEF OnCourse, At
  <2> QED BY <2>2, <2>3
<1>2. CASE CheckLinked(r)
  <2>0. UNCHANGED <<link, recent, jira, vw, resting>>
    BY <1>2 DEF CheckLinked, sides
  <2>1. (Skips(r) => resting) /\ work[r].j = jira.status
    BY <1>2 DEF CheckLinked, OnCourse, At
  <2>2. CASE HasLink
    <3>1. work'[r].at = "mark"
      BY <1>2, <1>q, <2>2 DEF CheckLinked
    <3> QED BY <2>0, <2>1, <2>2, <3>1, <1>k DEF OnCourse, At
  <2>3. CASE ~HasLink
    <3>0. work'[r] = [work[r] EXCEPT !.at = "create"]
      BY <1>2, <1>p, <2>3 DEF CheckLinked
    <3>1. work'[r].at = "create" /\ work'[r].j = work[r].j
      BY <1>w, <3>0 DEF Work
    <3> QED BY <2>0, <2>1, <3>1, <1>k DEF OnCourse, At
  <2> QED BY <2>2, <2>3
<1>3. CASE CreateIncident(r)
  <2>1. work'[r].at = "beat"
    BY <1>3, <1>q DEF CreateIncident
  <2>2. (Skips(r) => resting) /\ work[r].j = jira.status /\ UNCHANGED <<jira, resting>>
    BY <1>3 DEF CreateIncident, OnCourse, At
  <2>3. CASE Unlinked
    <3>1. link'.state \in {"ok", "error"} /\ (link'.state = "ok" => link'.lastJ = work[r].j)
      BY <1>3, <2>3 DEF CreateIncident
    <3>2. link'.lastV = vw'.status
      BY <1>3, <2>3 DEF CreateIncident
    <3>3. link'.state # "none"
      BY <3>1
    <3>4. Skips(r)' => InStepNow'
      BY <2>2, <3>1, <3>2 DEF Skips, Settled, InStepNow
    <3> QED BY <2>1, <3>3, <3>4 DEF OnCourse, At
  <2>4. CASE ~Unlinked
    <3>1. UNCHANGED <<link, recent, vw>> /\ link.state # "none"
      BY <1>3, <2>4 DEF CreateIncident, Unlinked
    <3> QED BY <2>1, <2>2, <3>1, <1>k DEF OnCourse, At
  <2> QED BY <2>3, <2>4
<1>4. CASE Heartbeat(r)
  <2>0. UNCHANGED <<link, recent, jira, vw, resting>>
    BY <1>4 DEF Heartbeat, sides
  <2>3. work'[r] = [work[r] EXCEPT !.at = "mark"] \/ work'[r] = Resting
    BY <1>4, <1>n, <1>p DEF Heartbeat
  <2>1. work'[r].at \in {"mark", "idle"}
    BY <1>w, <1>f, <2>3 DEF Work
  <2>2. HasLink /\ (Skips(r) => resting \/ InStepNow)
    BY <1>4 DEF Heartbeat, OnCourse, At
  <2> QED BY <2>0, <2>1, <2>2, <1>k DEF OnCourse, At
<1>17. CASE MarkChecked(r)
  <2>0. UNCHANGED <<link, recent, jira, vw, missed>> /\ work[r].at = "mark"
    BY <1>17 DEF MarkChecked, sides, At
  <2>1. work'[r].at = "read"
    BY <1>17, <1>n DEF MarkChecked, Resting
  <2>2. /\ jira.shown => HasLink \/ ~work[r].keeps
        /\ Skips(r) => resting \/ InStepNow
    BY <2>0 DEF OnCourse, At
  <2>3. /\ UNCHANGED resting
        /\ HasLink \/ work[r].keeps \/ reach' = "closed"
    BY <1>17 DEF MarkChecked, Counted
  <2>4. jira'.shown => Imported'
    <3>1. Found \/ work[r].keeps
      BY <2>0 DEF Window
    <3> QED BY <2>0, <2>2, <2>3, <3>1 DEF Imported, Found
  <2> QED BY <2>0, <2>1, <2>2, <2>3, <2>4, <1>k DEF OnCourse, At
<1>5. CASE ReadLink(r)
  <2>0. link' = link /\ vw' = vw /\ jira' = jira
    BY <1>5 DEF ReadLink, sides
  <2>1. CASE Syncable /\ Goes(r, [Resting EXCEPT !.at = "fetch", !.read = link,
                                               !.v = vw.status])
    <3>1. work'[r].at = "fetch" /\ work'[r].read = link /\ work'[r].v = vw.status
      BY <2>1, <1>n DEF Resting
    <3> QED BY <2>0, <2>1, <3>1 DEF OnCourse, At, Syncable
  <2>2. CASE (~Syncable \/ Rests(r)) /\ Goes(r, Finished)
    <3>1. work'[r].at = "ending"
      BY <2>2, <1>n, <1>f
    <3>2. /\ jira.shown => Imported
          /\ Skips(r) => resting \/ InStepNow
      BY <1>5 DEF ReadLink, OnCourse, At
    <3>3. Rests(r) => Skips(r) /\ Settled
      BY <1>5 DEF Rests, Skips
    <3>4. Reconciled \/ (resting /\ Settled)
      BY <2>2, <3>2, <3>3 DEF Reconciled
    <3>5. /\ Imported' <=> Imported
          /\ Reconciled' <=> Reconciled
          /\ resting' = resting /\ (Settled' <=> Settled)
      BY <1>5, <2>0 DEF ReadLink, Imported, Reconciled, Syncable, InStepNow, Irreconcilable,
         Settled
    <3> QED BY <2>0, <3>1, <3>2, <3>4, <3>5 DEF OnCourse, At
  <2> QED BY <1>5, <2>1, <2>2 DEF ReadLink
<1>6. CASE FetchStatus(r)
  <2>1. /\ work'[r].at = "decide" /\ work'[r].j = jira.status
        /\ work'[r].read = work[r].read /\ work'[r].v = work[r].v
    BY <1>6, <1>w, <1>n DEF FetchStatus, Work
  <2> QED BY <1>6, <2>1 DEF FetchStatus, sides, OnCourse, At
<1>7. CASE MarkDeleted(r)
  <2>1. work'[r].at = "ending" /\ ~jira'.shown
    BY <1>7, <1>n, <1>f DEF MarkDeleted, sides
  <2> QED BY <2>1 DEF OnCourse, At
<1>8. CASE MakeDecision(r)
  <2> DEFINE Says(d) ==
        /\ d.act = "unmapped" => MapIn[work[r].j] = Unset /\ work[r].j # work[r].read.lastJ
        /\ d.act = "to_jira" => /\ d.j = MapOut[work[r].v] /\ d.j # work[r].j
                               /\ work[r].v # work[r].read.lastV
  <2>3. work[r].j \in JStatus /\ work[r].v \in VStatus /\ work[r].read \in Link
    BY <1>8, WorkParts DEF Known, MakeDecision, At, Deciding
  <2>4. /\ Says(Yields("resume", OpenStatus, Unset, FALSE))
        /\ Says(Decide(work[r].read, work[r].j, work[r].v))
    <3>1. Yields("resume", OpenStatus, Unset, FALSE).act = "resume"
      BY DEF Yields
    <3>2. Says(Yields("resume", OpenStatus, Unset, FALSE))
      BY <3>1
    <3>3. Says(Decide(work[r].read, work[r].j, work[r].v))
      BY <2>3, DecideReasons
    <3> QED BY <3>2, <3>3
  <2>1. PICK d : work'[r] = [work[r] EXCEPT !.at = "apply", !.do = d] /\ Says(d)
    <3> HIDE DEF Says
    <3> QED BY <1>8, <2>4, NextWork
  <2>2. /\ work'[r].at = "apply" /\ work'[r].do = d /\ work'[r].j = work[r].j
        /\ work'[r].read = work[r].read /\ work'[r].v = work[r].v
    BY <2>1, <1>w DEF Work
  <2>5. Reasoned(work'[r])
    BY <2>1, <2>2 DEF Reasoned
  <2>6. jira.shown
    BY <1>8 DEF MakeDecision, OnCourse, At
  <2> QED BY <1>8, <2>2, <2>5, <2>6 DEF MakeDecision, sides, OnCourse, At
<1>9. CASE RecordUnchanged(r)
  <2>1. work[r].j = jira.status /\ work[r].v = vw.status
    BY <1>9 DEF RecordUnchanged, Applies, At, OnCourse
  <2>2. /\ link' = [state |-> Badge(r), lastJ |-> jira'.status, lastV |-> vw'.status]
        /\ recent' = TRUE
    BY <1>9, <2>1 DEF RecordUnchanged, Snapshot, sides
  <2> QED BY <1>9, <1>n, <1>s, <2>2, EndsInStep DEF RecordUnchanged, Snapshot
<1>10. CASE ApplyToVerifyWise(r)
  <2>1. work[r].j = jira.status /\ StillAsRead(r)
    BY <1>10 DEF ApplyToVerifyWise, Applies, At, OnCourse, StillAsRead
  <2>2. /\ link' = [state |-> OutcomeState(r), lastJ |-> jira'.status, lastV |-> vw'.status]
        /\ recent' = TRUE
    BY <1>10, <1>w, <2>1 DEF ApplyToVerifyWise, Snapshot, Incident
  <2> QED BY <1>10, <1>n, <1>s, <2>2, EndsInStep DEF ApplyToVerifyWise, Snapshot
<1>11. CASE LeaveJira(r)
  <2>1. work[r].j = jira.status /\ work[r].v = vw.status /\ StillAsRead(r)
    BY <1>11 DEF LeaveJira, Applies, At, OnCourse, StillAsRead
  <2>2. /\ link' = [state |-> OutcomeState(r), lastJ |-> jira'.status, lastV |-> vw'.status]
        /\ recent' = TRUE
    BY <1>11, <2>1 DEF LeaveJira, Snapshot, sides
  <2> QED BY <1>11, <1>n, <1>s, <2>2, EndsInStep DEF LeaveJira, Snapshot
<1>12. CASE CheckBeforeMove(r)
  <2>1. StillAsRead(r)
    BY <1>12 DEF CheckBeforeMove, Applies, At, OnCourse, StillAsRead
  <2>2. work'[r] = [work[r] EXCEPT !.at = "move"]
    BY <1>12, <1>n, <2>1 DEF CheckBeforeMove
  <2>3. /\ work'[r].at = "move" /\ work'[r].do = work[r].do /\ work'[r].j = work[r].j
        /\ work'[r].read = work[r].read /\ work'[r].v = work[r].v
    BY <2>2, <1>w DEF Work
  <2>4. Reasoned(work'[r])
    BY <1>12, <2>3 DEF CheckBeforeMove, Applies, At, OnCourse, Reasoned
  <2> QED BY <1>12, <2>3, <2>4 DEF CheckBeforeMove, Applies, At, sides, OnCourse
<1>13. CASE Transition(r)
  <2>1. /\ work'[r].at = "record" /\ work'[r].do = work[r].do /\ work'[r].v = work[r].v
    BY <1>13, <1>w, <1>p DEF Transition, Work
  <2>2. jira'.status = work[r].do.j /\ vw' = vw
    BY <1>13, <1>w DEF Transition, JiraMoves, Issue
  <2>3. work[r].v = vw.status
    BY <1>13 DEF Transition, JiraMoves, At, OnCourse
  <2> QED BY <2>1, <2>2, <2>3 DEF OnCourse, At
<1>14. CASE RecordTransition(r)
  <2>1. jira.status = work[r].do.j /\ vw.status = work[r].v
    BY <1>14 DEF RecordTransition, OnCourse
  <2>2. /\ link' = [state |-> OutcomeState(r), lastJ |-> jira'.status, lastV |-> vw'.status]
        /\ recent' = TRUE
    BY <1>14, <2>1 DEF RecordTransition, RecordsMove, Snapshot, sides
  <2> QED BY <1>14, <1>n, <1>s, <2>2, EndsInStep DEF RecordTransition, Snapshot
<1>15. CASE ReportProblem(r)
  <2>0. jira' = jira /\ vw' = vw
    BY <1>15 DEF ReportProblem, sides
  <2>1. /\ work[r].read = link /\ work[r].v = vw.status /\ work[r].j = jira.status
        /\ jira.shown /\ Reasoned(work[r])
    BY <1>15 DEF ReportProblem, Applies, At, OnCourse
  <2>2. link'.state = "error" /\ link'.lastJ = link.lastJ /\ link'.lastV = link.lastV
    BY <1>15, <1>w, <2>1 DEF ReportProblem, MarksError, Link
  <2>3. Irreconcilable
    <3>1. CASE Applies(r, "unmapped")
      BY <2>1, <3>1 DEF Irreconcilable, Applies, Reasoned
    <3>2. CASE At(r, "move") /\ ~(jira.shown /\ <<jira.status, work[r].do.j>> \in Moves)
      <4>1. work[r].do.act = "to_jira" /\ work[r].do.j \in JStatus
        BY <3>2 DEF Chosen, At
      <4>2. work[r].do.j # Unset
        BY <4>1, IncidentAssumption
      <4> QED BY <2>1, <3>2, <4>1, <4>2 DEF Irreconcilable, Reasoned
    <3> QED BY <1>15, <3>1, <3>2 DEF ReportProblem
  <2>4. Reconciled' /\ Imported'
    BY <2>0, <2>2, <2>3 DEF Reconciled, Irreconcilable, Imported
  <2>5. work'[r].at = "ending"
    BY <1>15, <1>n, <1>f DEF ReportProblem
  <2> QED BY <2>4, <2>5 DEF OnCourse, At
<1>16. CASE EndRun(r)
  <2>1. work'[r].at = "idle"
    BY <1>16, <1>n, <1>f DEF EndRun
  <2> QED BY <2>1 DEF OnCourse, At
<1> QED BY <1>1, <1>2, <1>3, <1>4, <1>5, <1>6, <1>7, <1>8, <1>9, <1>10, <1>11, <1>12,
           <1>13, <1>14, <1>15, <1>16, <1>17
        DEF Works

LEMMA CourseStep ==
    ASSUME TypeOK, Known, Linked, Chosen, Window, Course, [Next]_vars
    PROVE  Course'
<1> SUFFICES ASSUME quiet'
             PROVE  /\ \A r, s \in Run : work'[r].at # "idle" /\ work'[s].at # "idle" => r = s
                    /\ \A r \in Run : OnCourse(r)'
  BY DEF Course, At
<1>i. ASSUME NEW s \in Run, work'[s].at = "idle"
      PROVE  OnCourse(s)'
  BY <1>i DEF OnCourse, At
<1>1. CASE /\ UNCHANGED <<jira, vw, link, reach, missed, work, quiet, resting>>
           /\ recent' => recent
  <2>1. \A s \in Run : Skips(s)' => Skips(s)
    BY <1>1 DEF Skips, Settled
  <2>2. /\ Imported' <=> Imported
        /\ Reconciled' <=> Reconciled
        /\ InStepNow' <=> InStepNow
        /\ Settled' <=> Settled
    BY <1>1 DEF Imported, Reconciled, Syncable, InStepNow, Irreconcilable, Settled
  <2>3. \A s \in Run : OnCourse(s) => OnCourse(s)'
    BY <1>1, <2>1, <2>2 DEF OnCourse, At, Reasoned
  <2> QED BY <1>1, <2>3 DEF Course, At
<1>2. ASSUME NEW r \in Run, StartRun(r)
      PROVE  /\ \A q, s \in Run : work'[q].at # "idle" /\ work'[s].at # "idle" => q = s
             /\ \A s \in Run : OnCourse(s)'
  <2>1. \A s \in Run : work[s].at = "idle"
    BY <1>2 DEF StartRun, At
  <2>2. \A s \in Run \ {r} : work'[s].at = "idle"
    BY <1>2, <2>1, OthersStay DEF RunStep
  <2>3. work'[r].at = "search"
    <3>1. work'[r] = [Resting EXCEPT !.at = "search", !.reach = reach # "closed",
                                     !.keeps = HasLink \/ reach' = "young"]
      BY <1>2, GoesAt DEF StartRun, TypeOK
    <3> QED BY <3>1 DEF Resting
  <2>5. ~work'[r].reach => reach' = "closed" /\ (link'.state # "none" \/ ~work'[r].keeps)
    <3>1. /\ work'[r].reach = (reach # "closed")
          /\ work'[r].keeps = (HasLink \/ reach' = "young")
      <4>1. work'[r] = [Resting EXCEPT !.at = "search", !.reach = reach # "closed",
                                       !.keeps = HasLink \/ reach' = "young"]
        BY <1>2, GoesAt DEF StartRun, TypeOK
      <4> QED BY <4>1 DEF Resting
    <3> QED BY <1>2, <3>1 DEF StartRun
  <2>6. Skips(r)' => resting'
    BY <1>2 DEF StartRun, Skips, Settled, sides
  <2>4. OnCourse(r)'
    BY <2>3, <2>5, <2>6 DEF OnCourse, At
  <2> QED BY <1>i, <2>2, <2>4
<1>3. ASSUME NEW r \in Run, quiet, Works(r)
      PROVE  /\ \A q, s \in Run : work'[q].at # "idle" /\ work'[s].at # "idle" => q = s
             /\ \A s \in Run : OnCourse(s)'
  <2>1. work[r].at # "idle"
    <3>1. ~StartRun(r) \/ work[r].at # "idle"
      BY <1>3 DEF Works, SearchIssues, CheckLinked, CreateIncident, Heartbeat, MarkChecked, ReadLink,
         FetchStatus, MarkDeleted, MakeDecision, RecordUnchanged, ApplyToVerifyWise,
         LeaveJira, CheckBeforeMove, Transition, RecordTransition, ReportProblem, EndRun,
         JiraMoves, Applies, At
    <3> QED BY <1>3, <3>1, Busy DEF RunStep
  <2>2. \A s \in Run \ {r} : work'[s].at = "idle"
    BY <1>3, <2>1, OthersStay DEF Course, At, RunStep
  <2>3. OnCourse(r)'
    BY <1>3, WorkKeepsCourse DEF Course
  <2> QED BY <1>i, <2>2, <2>3
<1> QED BY <1>1, <1>2, <1>3, QuietSteps

-----------------------------------------------------------------------------
(* The theorems                                                              *)

LEMMA Inductive == Spec => []IInv
<1>1. Init => IInv
  <2> SUFFICES ASSUME Init PROVE IInv
    OBVIOUS
  <2> USE DEF Init
  <2>1. TypeOK
    <3>1. holder \in Run \cup {NoRun} /\ busy = NoRun /\ fresh \in BOOLEAN
      BY DEF Claim!Init
    <3>2. jira \in Issue /\ vw \in Incident /\ link \in Link
      BY RestingTyped, MapsTyped DEF Issue, Incident
    <3>3. work \in [Run -> Work]
      BY RestingTyped
    <3>4. events \in 0 .. MaxEvents /\ made \in Nat
      BY IncidentAssumption
    <3>5. base \in [j : JStatus \cup {Unset}, v : VStatus]
      BY MapsTyped DEF NoBase
    <3> QED BY <3>1, <3>2, <3>3, <3>4, <3>5 DEF TypeOK, Reaches
  <2>2. \A r \in Run : work[r].at = "idle"
    BY DEF Resting
  <2>3. link.state = "none"
    BY DEF NoLink
  <2> QED BY <2>1, <2>2, <2>3 DEF IInv, Known, Linked, Chosen, Solo, Basis, Reading,
      Window, Course, Deciding, Reconciling
<1>2. IInv /\ [Next]_vars => IInv'
  BY TypeStep, KnownStep, LinkedStep, ChosenStep, SoloStep, BasisStep, ReadingStep, WindowStep,
     CourseStep
     DEF IInv
<1> QED BY <1>1, <1>2, PTL DEF Spec

\* Every variable keeps its type.
THEOREM Typing == Spec => []TypeOK
BY Inductive, PTL DEF IInv

\* However many runs import at a time, and whatever people delete, an issue
\* becomes an incident at most once.
THEOREM ImportedOnce == Spec => []OneIncidentPerIssue
<1>1. IInv => OneIncidentPerIssue
  BY DEF IInv, Linked, OneIncidentPerIssue
<1> QED BY <1>1, Inductive, PTL

\* A run that nobody interferes with and nothing fails in ends with an issue Jira
\* shows imported, unless a run before it was the last that searched as far back and
\* was not shown it, and reconciled, or with a reported problem; only a scheduled run
\* leaves a settled link to its rest.
THEOREM QuietRunReconciles == Spec => []OneRunReconciles
<1>1. IInv => OneRunReconciles
  BY DEF IInv, Course, OnCourse, OneRunReconciles, At
<1> QED BY <1>1, Inductive, PTL

\* The only step of a run that sets the status of an incident that is there.
LEMMA StatusSetBy ==
    ASSUME TypeOK, Linked, [Next]_vars, events' = events,
           vw.state = "active", vw'.status # vw.status
    PROVE  \E r \in Run : ApplyToVerifyWise(r) /\ StillAsRead(r)
<1>0. events \in Nat
  BY IncidentAssumption DEF TypeOK
<1>c. ~Counted
  BY <1>0 DEF Counted
<1>1. ~People
  BY <1>c DEF People, MoveIssue, HideIssue, EditIncident, ArchiveIncident, DeleteIncident,
     Edits
<1>2. ~UNCHANGED vw
  OBVIOUS
<1>3. ~RestPasses /\ ~ClaimLapses /\ ~UNCHANGED vars
  BY <1>2 DEF RestPasses, ClaimLapses, sides, vars
<1>4. PICK r \in Run : RunStep(r)
  BY <1>1, <1>3, StepCases DEF Elsewhere
<1>5. ~CreateIncident(r)
  BY <1>2 DEF CreateIncident, Unlinked, Linked
<1>6. CASE \/ StartRun(r) \/ SearchIssues(r) \/ CheckLinked(r) \/ Heartbeat(r)
           \/ MarkChecked(r) \/ ReadLink(r) \/ FetchStatus(r) \/ MarkDeleted(r)
           \/ MakeDecision(r) \/ RecordUnchanged(r) \/ LeaveJira(r) \/ CheckBeforeMove(r)
  BY <1>2, <1>6 DEF StartRun, SearchIssues, CheckLinked, Heartbeat, MarkChecked, ReadLink,
     FetchStatus, MarkDeleted, MakeDecision, RecordUnchanged, LeaveJira, CheckBeforeMove, sides
<1>7. CASE \/ Transition(r) \/ TransitionUnanswered(r) \/ RecordTransition(r)
           \/ ReportProblem(r) \/ EndRun(r) \/ CreateFails(r) \/ FailLink(r)
           \/ CutShort(r) \/ Crash(r)
  BY <1>2, <1>7 DEF Transition, TransitionUnanswered, RecordTransition, ReportProblem,
     EndRun, CreateFails, FailLink, CutShort, Crash, sides
<1>8. CASE ApplyToVerifyWise(r)
  BY <1>2, <1>8 DEF ApplyToVerifyWise
<1> QED BY <1>4, <1>5, <1>6, <1>7, <1>8 DEF RunStep, Works, GoesWrong

\* The only step of a run that moves the issue and knows that it did.
LEMMA IssueMovedBy ==
    ASSUME TypeOK, [Next]_vars, events' = events, jira'.status # jira.status
    PROVE  \E r \in Run : Transition(r)
<1>0. events \in Nat
  BY IncidentAssumption DEF TypeOK
<1>c. ~Counted
  BY <1>0 DEF Counted
<1>1. ~People
  BY <1>c DEF People, MoveIssue, HideIssue, EditIncident, ArchiveIncident, DeleteIncident,
     Edits
<1>2. ~UNCHANGED jira
  OBVIOUS
<1>3. ~RestPasses /\ ~ClaimLapses /\ ~UNCHANGED vars
  BY <1>2 DEF RestPasses, ClaimLapses, sides, vars
<1>4. PICK r \in Run : RunStep(r)
  BY <1>1, <1>3, StepCases DEF Elsewhere
<1>5. ~TransitionUnanswered(r)
  BY <1>c DEF TransitionUnanswered
<1>6. CASE \/ StartRun(r) \/ SearchIssues(r) \/ CheckLinked(r) \/ CreateIncident(r)
           \/ Heartbeat(r) \/ MarkChecked(r) \/ ReadLink(r) \/ FetchStatus(r)
           \/ MarkDeleted(r) \/ MakeDecision(r) \/ RecordUnchanged(r) \/ ApplyToVerifyWise(r)
           \/ LeaveJira(r)
  BY <1>2, <1>6 DEF StartRun, SearchIssues, CheckLinked, CreateIncident, Heartbeat, MarkChecked,
     ReadLink, FetchStatus, MarkDeleted, MakeDecision, RecordUnchanged, ApplyToVerifyWise,
     LeaveJira, sides
<1>7. CASE \/ CheckBeforeMove(r) \/ RecordTransition(r) \/ ReportProblem(r) \/ EndRun(r)
           \/ CreateFails(r) \/ FailLink(r) \/ CutShort(r) \/ Crash(r)
  BY <1>2, <1>7 DEF CheckBeforeMove, RecordTransition, ReportProblem, EndRun, CreateFails,
     FailLink, CutShort, Crash, sides
<1> QED BY <1>4, <1>5, <1>6, <1>7 DEF RunStep, Works, GoesWrong

\* What an undisturbed run decided on is what both sides were last in step on.
LEMMA ReadIsBase ==
    ASSUME IInv, ~disturbed, NEW r \in Run, work[r].at \in {"apply", "move"}
    PROVE  /\ Agreed(base, link)
           /\ work[r].read.lastJ = link.lastJ /\ work[r].read.lastV = link.lastV
           /\ Follows(work[r])
<1>1. \A s \in Run \ {r} : work[s].at = "idle"
  BY DEF IInv, Solo
<1>2. link.state # "none"
  BY DEF IInv, Linked, Reconciling, Deciding
<1>3. Agreed(base, link)
  BY <1>1, <1>2 DEF IInv, Basis
<1> QED BY <1>3 DEF IInv, Reading, Chosen

LEMMA NewsStep ==
    ASSUME IInv, [Next]_vars, events' = events, ~disturbed
    PROVE  /\ vw.state = "active" /\ vw'.status # vw.status =>
                /\ vw.status = base.v \/ link'.state = "conflict"
                /\ link'.lastJ # base.j
           /\ jira'.status # jira.status => base'.v # base.v
<1>1. ASSUME vw.state = "active", vw'.status # vw.status
      PROVE  (vw.status = base.v \/ link'.state = "conflict") /\ link'.lastJ # base.j
  <2>1. PICK r \in Run : ApplyToVerifyWise(r) /\ StillAsRead(r)
    BY <1>1, StatusSetBy DEF IInv
  <2>2. work[r].at = "apply" /\ work[r].do.act = "to_vw"
    BY <2>1 DEF ApplyToVerifyWise, Applies, At
  <2>3. /\ Agreed(base, link) /\ Follows(work[r])
        /\ work[r].read.lastJ = link.lastJ /\ work[r].read.lastV = link.lastV
    BY <2>2, ReadIsBase
  <2>4. /\ vw.status = work[r].v
        /\ link'.lastJ = work[r].j
        /\ link'.state = IF work[r].do.conflict THEN "conflict" ELSE "ok"
    BY <2>1 DEF ApplyToVerifyWise, StillAsRead, Snapshot, OutcomeState
  <2>5. vw.status = base.v \/ link'.state = "conflict"
    BY <2>2, <2>3, <2>4 DEF Follows, Agreed
  <2>6. work[r].j # link.lastJ /\ MapIn[work[r].j] # Unset
    BY <2>2, <2>3, IncidentAssumption DEF Follows
  <2>7. link'.lastJ # base.j
    BY <2>3, <2>4, <2>6 DEF Agreed
  <2> QED BY <2>5, <2>7
<1>2. ASSUME jira'.status # jira.status
      PROVE  base'.v # base.v
  <2>1. PICK r \in Run : Transition(r)
    BY <1>2, IssueMovedBy DEF IInv
  <2>2. work[r].at = "move" /\ base'.v = work[r].v
    BY <2>1 DEF Transition, JiraMoves, At, InStep
  <2>3. work[r].do.act = "to_jira"
    BY <2>2 DEF IInv, Chosen
  <2>4. Agreed(base, link) /\ Follows(work[r]) /\ work[r].read.lastV = link.lastV
    BY <2>2, ReadIsBase
  <2> QED BY <2>2, <2>3, <2>4 DEF Follows, Agreed
<1> QED BY <1>1, <1>2

\* No run that kept its claim sets the status of an incident over an edit made
\* since both sides were last in step, unless the link shows the conflict.
THEOREM EditsAreKept == Spec => EditsKept
<1>1. IInv /\ [Next]_vars =>
        [events' = events /\ vw.state = "active" /\ vw'.status # vw.status /\ ~disturbed
         => vw.status = base.v \/ link'.state = "conflict"]_vars
  BY NewsStep
<1> QED BY <1>1, Inductive, PTL DEF Spec, EditsKept

\* No run that kept its claim answers what a run did: it changes one side only
\* if the other left the status both sides were last in step on.
THEOREM NothingEchoes == Spec => NoEcho
<1>1. IInv /\ [Next]_vars =>
        [events' = events /\ ~disturbed =>
           /\ vw.state = "active" /\ vw'.status # vw.status => link'.lastJ # base.j
           /\ jira'.status # jira.status => base'.v # base.v]_vars
  BY NewsStep
<1> QED BY <1>1, Inductive, PTL DEF Spec, NoEcho

-----------------------------------------------------------------------------
(* The claim                                                                 *)

\* Every step leaves the claim alone or is one that its contract knows.
LEMMA ClaimStep == [Next]_vars => [Claim!Next]_(Claim!vars)
<1> SUFFICES ASSUME [Next]_vars PROVE [Claim!Next]_(Claim!vars)
  OBVIOUS
<1>1. ASSUME UNCHANGED claim PROVE [Claim!Next]_(Claim!vars)
  BY <1>1 DEF claim, Claim!vars
<1>2. ASSUME NEW r \in Run, Claim!Take(r) PROVE [Claim!Next]_(Claim!vars)
  BY <1>2 DEF Claim!Next
<1>3. ASSUME Claim!Beat \/ Claim!Settle \/ Claim!Lapse \/ Claim!Close
      PROVE  [Claim!Next]_(Claim!vars)
  BY <1>3 DEF Claim!Next
<1>4. CASE Elsewhere
  BY <1>1, <1>3, <1>4
  DEF Elsewhere, People, Edits, MoveIssue, HideIssue, EditIncident, ArchiveIncident,
      DeleteIncident, RestPasses, ClaimLapses, vars, claim
<1>5. ASSUME NEW r \in Run, StartRun(r) \/ Heartbeat(r) \/ EndRun(r)
      PROVE  [Claim!Next]_(Claim!vars)
  BY <1>1, <1>2, <1>3, <1>5 DEF StartRun, Heartbeat, EndRun
<1>6. ASSUME NEW r \in Run, RunStep(r), ~(StartRun(r) \/ Heartbeat(r) \/ EndRun(r))
      PROVE  UNCHANGED claim
  BY <1>6
  DEF RunStep, Works, GoesWrong, SearchIssues, CheckLinked, CreateIncident, CreateFails,
      MarkChecked, ReadLink, FetchStatus, MarkDeleted, MakeDecision, RecordUnchanged, ApplyToVerifyWise,
      LeaveJira, CheckBeforeMove, Transition, RecordTransition, ReportProblem, FailLink,
      CutShort, TransitionUnanswered, Crash
<1> QED BY <1>1, <1>4, <1>5, <1>6, StepCases

\* Runs, crashes and the people around them use the claim only as ExclusiveClaim
\* allows: what SyncRuns is proved to provide is all that the sync relies on.
THEOREM RunsKeepClaim == Spec => Claim!Spec
<1>1. Init => Claim!Init
  BY DEF Init
<1> QED BY <1>1, ClaimStep, PTL DEF Spec, Claim!Spec

=============================================================================
