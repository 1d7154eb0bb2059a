------------------------- MODULE MCBatchController -------------------------
(* Instances of BatchController for TLC. *)
EXTENDS BatchController, TLC

CONSTANTS b1, b2, s1, s2

Entry(s, target) == [sample |-> s, mode |-> "dose", target |-> target]

MCMinimum == -1

\* A target that takes one run, or two, or three.
MCOneSample == { << Entry(s1, 3) >> }

MCTwoSamples == { << Entry(s1, 2), Entry(s2, 1) >> }

Ended(status, dose) == [status |-> status, dose |-> dose, runtime |-> 1]

\* The whole dose, a part of it, no dose (which no repair improves), or an
\* abort half-way.
MCOutcomes ==
  { Ended("STOPPED", 3), Ended("STOPPED", 1), Ended("STOPPED", 0), Ended("ABORTED", 1) }

MCFullOrAbort == { Ended("STOPPED", 3), Ended("ABORTED", 1) }

MCFullAbortBlank == { Ended("STOPPED", 3), Ended("ABORTED", 1), Ended("STOPPED", 0) }

\* Batches are interchangeable in the runs that check no liveness.
BatchSymmetry == Permutations(Batches)

=============================================================================
