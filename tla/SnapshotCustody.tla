--------------------------- MODULE SnapshotCustody ---------------------------
(***************************************************************************)
(* What an acquisition service promises about the snapshots of exposures:  *)
(* a snapshot is spooled by the digitizer, copied into the record of its   *)
(* run, and leaves the spool only when the copy exists; a spool is given   *)
(* up as a whole only when the record is complete and analysed.            *)
(***************************************************************************)
EXTENDS FiniteSets

CONSTANTS Snapshots,  \* <<run, final sequence>>
          Runs

VARIABLES spool,     \* snapshots that only the digitizer answers for
          kept,      \* snapshots in the records of their runs
          analysed   \* runs with a final dose analysis

custody == <<spool, kept, analysed>>

Init == spool = {} /\ kept = {} /\ analysed = {}

\* The digitizer closes segments.
Spool(s) ==
  /\ s \notin spool \cup kept
  /\ spool' = spool \cup {s}
  /\ UNCHANGED <<kept, analysed>>

\* A snapshot is copied, and may then be acknowledged.
Copy(s, acknowledge) ==
  /\ s \in spool
  /\ kept' = kept \cup {s}
  /\ spool' = IF acknowledge THEN spool \ {s} ELSE spool
  /\ UNCHANGED analysed

Acknowledge(s) ==
  /\ s \in spool \cap kept
  /\ spool' = spool \ {s}
  /\ UNCHANGED <<kept, analysed>>

\* A run is analysed when everything spooled for it is in its record.
Analyse(r) ==
  /\ \A s \in spool \cup kept : s[1] = r => s \in kept
  /\ analysed' = analysed \cup {r}
  /\ UNCHANGED <<spool, kept>>

\* The spool of a run is given up.
Release(r) ==
  /\ r \in analysed
  /\ \A s \in spool : s[1] = r => s \in kept
  /\ spool' = {s \in spool : s[1] # r}
  /\ UNCHANGED <<kept, analysed>>

Next ==
  \/ \E s \in Snapshots : Spool(s) \/ Acknowledge(s)
  \/ \E s \in Snapshots, a \in BOOLEAN : Copy(s, a)
  \/ \E r \in Runs : Analyse(r) \/ Release(r)

Spec == Init /\ [][Next]_custody
=============================================================================
