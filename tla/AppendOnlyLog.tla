---------------------------- MODULE AppendOnlyLog ----------------------------
(* What the audit ledger promises whoever reads it: a log to which every     *)
(* writer adds one entry at most, behind all the others; in which no entry   *)
(* ever changes, moves or is written again; and which loses entries only     *)
(* from its old end, when they are older than the shortest retention period, *)
(* and never all of them.  Nothing is said of locks, transactions, batches,  *)
(* hashes or accounts; AuditLedger implements it.                            *)
EXTENDS Integers

CONSTANTS Entry,     \* what may be recorded, each at most once
          Shortest   \* no entry this young or younger is ever removed

VARIABLES log,    \* the entries, by position
          spent,  \* what was recorded, or never will be
          now     \* the time

vars == <<log, spent, now>>

Positions == DOMAIN log

Init ==
    /\ Positions = {}
    /\ spent = {}
    /\ now = 0

\* An entry is recorded, behind all the others.
Append(e) ==
    /\ e \notin spent
    /\ spent' = spent \cup {e}
    /\ \E p \in Positions' \ Positions :
         /\ \A i \in Positions : i < p
         /\ log'[p].what = e
         /\ log'[p].at <= now
         /\ log' = [i \in Positions \cup {p} |-> IF i = p THEN log'[p] ELSE log[i]]
    /\ UNCHANGED now

\* An entry will never be recorded: what it is about was undone, or its writer
\* failed and does not try again.
GiveUp(e) ==
    /\ e \notin spent
    /\ spent' = spent \cup {e}
    /\ UNCHANGED <<log, now>>

\* The entries up to some position are removed: all are old, and one remains.
Prune ==
    /\ \E last \in Positions :
         /\ \A i \in Positions : i <= last => log[i].at < now - Shortest
         /\ \E i \in Positions : last < i
         /\ log' = [i \in {k \in Positions : last < k} |-> log[i]]
    /\ UNCHANGED <<spent, now>>

Tick ==
    /\ now' = now + 1
    /\ UNCHANGED <<log, spent>>

Next ==
    \/ \E e \in Entry : Append(e) \/ GiveUp(e)
    \/ Prune
    \/ Tick

Spec == Init /\ [][Next]_vars

=============================================================================
