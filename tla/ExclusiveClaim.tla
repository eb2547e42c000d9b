--------------------------- MODULE ExclusiveClaim ---------------------------
(* What the extension sync engine promises its providers: at any time at     *)
(* most one run holds the claim of an (extension, organisation) pair, the    *)
(* claim is only ever taken from a run that let its heartbeat window pass,   *)
(* and never while that run has a guarded data transaction open.  This is    *)
(* the contract of RunContext (sync-engine/types.ts) with nothing said of    *)
(* rows, jobs, ticks or time; SyncRuns implements it.                        *)
CONSTANTS Runner,   \* the executions that may claim a run
          Nobody    \* no run

VARIABLES holder,   \* the run that holds the claim
          busy,     \* the run whose guarded data transaction is open
          fresh     \* the holder was heard of within the window

vars == <<holder, busy, fresh>>

TypeOK ==
    /\ holder \in Runner \cup {Nobody}
    /\ busy \in {Nobody, holder}
    /\ fresh \in BOOLEAN

Init ==
    /\ holder = Nobody
    /\ busy = Nobody
    /\ fresh = FALSE

\* A run takes a claim nobody holds, or that its holder let lapse.
Take(r) ==
    /\ ~fresh
    /\ busy = Nobody
    /\ holder' = r
    /\ fresh' = TRUE
    /\ UNCHANGED busy

\* A lapsed claim is closed, and nobody holds it until the next run takes it.
Close ==
    /\ holder # Nobody
    /\ ~fresh
    /\ busy = Nobody
    /\ holder' = Nobody
    /\ UNCHANGED <<busy, fresh>>

\* The holder is heard of.
Beat ==
    /\ holder # Nobody
    /\ fresh' = TRUE
    /\ UNCHANGED <<holder, busy>>

\* The window passes without a heartbeat.
Lapse ==
    /\ fresh
    /\ fresh' = FALSE
    /\ UNCHANGED <<holder, busy>>

\* Only the holder opens a guarded data transaction.
Open(r) ==
    /\ holder = r
    /\ busy = Nobody
    /\ busy' = r
    /\ UNCHANGED <<holder, fresh>>

\* The data transaction ends, committed or rolled back, still under the claim.
End ==
    /\ busy # Nobody
    /\ busy' = Nobody
    /\ UNCHANGED <<holder, fresh>>

\* The holder gives the claim up: it completed, failed or released its run,
\* in its data transaction or outside one.
Settle ==
    /\ holder # Nobody
    /\ holder' = Nobody
    /\ busy' = Nobody
    /\ fresh' = FALSE

Next ==
    \/ \E r \in Runner : Take(r) \/ Open(r)
    \/ Close
    \/ Beat
    \/ Lapse
    \/ End
    \/ Settle

Spec == Init /\ [][Next]_vars

=============================================================================
