---------------------------- MODULE MCInterlocks ----------------------------
(* Instances of Interlocks for TLC. *)
EXTENDS Interlocks

=============================================================================
