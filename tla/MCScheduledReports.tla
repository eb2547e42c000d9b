------------------------- MODULE MCScheduledReports -------------------------
(* An instance of ScheduledReports for TLC: one schedule, two ticks and one  *)
(* edit in progress; a cadence is a period.                                  *)
EXTENDS ScheduledReports

\* The first multiple of the period after t.
Periodic == [c \in Cadences |-> [t \in Times |-> c * ((t \div c) + 1)]]
=============================================================================
