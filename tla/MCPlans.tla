------------------------------- MODULE MCPlans -------------------------------
(* An instance of PlanLife for TLC. *)
EXTENDS PlanLife

CONSTANTS s1, s2, s3, b1, b2, p1, p2

MCMinimum == -1

DoseEntry(s, goal) == [sample |-> s, mode |-> "dose", target |-> goal]
TimeEntry(s, goal) == [sample |-> s, mode |-> "time", target |-> goal]

Outcome(dose, runtime) == [dose |-> dose, runtime |-> runtime, snapshots |-> TRUE]

\* Two planned samples and a stray one, a dose and a time entry, and run
\* outcomes on every side of the checks.
MCPlannedSamples == { << DoseEntry(s1, 10), TimeEntry(s2, 20) >> }

MCOutcomes ==
  { Outcome(10, 20), Outcome(4, 7), Outcome(0, 12), Outcome(NonFinite, 5) }

\* A timed item, a dosed one, and one that asks for both.
MCItems ==
  {[name |-> "a", time |-> 2, dose |-> 0],
   [name |-> "b", time |-> 0, dose |-> 2],
   [name |-> "c", time |-> 1, dose |-> 2]}
=============================================================================
