------------------------------ MODULE MCRecords ------------------------------
(* An instance of Records for TLC. *)
EXTENDS Records

\* Two rolling windows, of half a period and of one.
MCWindows == <<1, 2>>
=============================================================================
