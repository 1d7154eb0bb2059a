----------------------------- MODULE MCSampleStage -----------------------------
(* The sample stage with two slots, for TLC. *)
EXTENDS SampleStage
=============================================================================
