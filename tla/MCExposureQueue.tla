-------------------------- MODULE MCExposureQueue --------------------------
(* Instances of ExposureQueue for TLC. *)
EXTENDS ExposureQueue

\* No two items are alike, or all are.
MCContents == {[i \in 1..MaxItems |-> i], [i \in 1..MaxItems |-> 1]}

MCAlike == {[i \in 1..MaxItems |-> 1]}

=============================================================================
