---------------------------- MODULE WritePermits ----------------------------
(* What the approval gateway promises those who approve: a write of the AI is *)
(* made under a permit.  A decision to approve issues one permit, for the    *)
(* subject of the approval; the permit is used for one write at most, on that*)
(* subject, or is lost; and a decision never issues a second one.  Only what *)
(* the rules let through is written without a permit.  Nothing is said of    *)
(* runs, gates, steps or the order in which rows are read and written;       *)
(* ActionGateway implements it.                                              *)
CONSTANTS Decision,  \* what may decide, each once
          Approval,  \* what may be decided
          Subject,   \* what an approval may be about
          Nothing    \* of an approval that is about no subject

VARIABLES decided,   \* the decisions taken
          given,     \* the approvals that were given
          permits,   \* the permits that were issued and not used or lost yet
          made       \* the writes, each with the permit or the rule that let it

vars == <<decided, given, permits, made>>

Permit(d, a, x) == [decision |-> d, approval |-> a, subject |-> x]

Init ==
    /\ decided = {}
    /\ given = {}
    /\ permits = {}
    /\ made = {}

\* Somebody approves.
Issue(d, a, x) ==
    /\ d \notin decided
    /\ decided' = decided \cup {d}
    /\ given' = given \cup {a}
    /\ permits' = permits \cup {Permit(d, a, x)}
    /\ UNCHANGED made

\* The one write a permit is good for.
Use(p) ==
    /\ p \in permits
    /\ permits' = permits \ {p}
    /\ made' = made \cup {p}
    /\ UNCHANGED <<decided, given>>

\* What was approved fails, is not there, or needs no write.
Lose(p) ==
    /\ p \in permits
    /\ permits' = permits \ {p}
    /\ UNCHANGED <<decided, given, made>>

\* The rules let a write through that is about no subject, ...
LetThrough(d, a) ==
    /\ d \notin decided
    /\ decided' = decided \cup {d}
    /\ made' = made \cup {Permit(d, a, Nothing)}
    /\ UNCHANGED <<given, permits>>

\* ... which is recorded as approved when it has been made.
Record(a) ==
    /\ \E w \in made : w.approval = a
    /\ given' = given \cup {a}
    /\ UNCHANGED <<decided, permits, made>>

\* Whoever decides takes another decision, or none.
Abstain(d) ==
    /\ d \notin decided
    /\ decided' = decided \cup {d}
    /\ UNCHANGED <<given, permits, made>>

Next ==
    \/ \E d \in Decision, a \in Approval :
         \/ \E x \in Subject \cup {Nothing} : Issue(d, a, x)
         \/ LetThrough(d, a)
    \/ \E p \in permits : Use(p) \/ Lose(p)
    \/ \E a \in Approval : Record(a)
    \/ \E d \in Decision : Abstain(d)

Spec == Init /\ [][Next]_vars

=============================================================================
