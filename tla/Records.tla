------------------------------- MODULE Records -------------------------------
(***************************************************************************)
(* What is kept of an exposure beside its pulses: the observer, the        *)
(* capture cadence, the saved states and the timing events.  These parts   *)
(* share no state, so a behaviour exercises one of them, chosen at the     *)
(* start, and leaves the others as they are: the states of the parts add   *)
(* up instead of multiplying.                                              *)
(***************************************************************************)
EXTENDS SiglentObserver

\* How the captures are paced (CaptureCadence).
CONSTANTS Period, Windows, DisplayHorizon, SampleInterval, MaxMarkers,
          MaxDelay, MaxTime, MaxPulses, MaxSwitches

\* Bounds on the saved states: changes, requests, failures, restarts.
CONSTANTS MaxEdits, MaxRequests, MaxTroubles, MaxRestarts

\* Bounds on the timing events: exposures, changes, reports, messages.
CONSTANTS MaxTimed, MaxTurns, MaxReports, MaxOnWire

ASSUME RecordsAssumption ==
  /\ MaxEdits \in Nat /\ MaxRequests \in Nat
  /\ MaxTroubles \in Nat /\ MaxRestarts \in Nat
  /\ MaxTimed \in Nat /\ MaxTurns \in Nat
  /\ MaxReports \in Nat /\ MaxOnWire \in Nat

\* Durations are positive, and the rolling windows increase.
ASSUME CadenceAssumption ==
  /\ Period \in Nat \ {0} /\ SampleInterval \in Nat \ {0}
  /\ DisplayHorizon \in Nat \ {0} /\ MaxMarkers \in Nat \ {0}
  /\ MaxDelay \in Nat /\ MaxTime \in Nat /\ MaxPulses \in Nat /\ MaxSwitches \in Nat
  /\ Windows \in Seq(Nat \ {0}) /\ Windows # <<>>
  /\ \A j, k \in DOMAIN Windows : j < k => Windows[j] < Windows[k]

VARIABLE part

VARIABLES clock, tracker, marks, whole, pulses, switches

Cadence == INSTANCE CaptureCadence WITH
  MaxChanges <- MaxSwitches, changes <- switches

VARIABLES owner, live, held, queue, saver, saving, file, closing, asked,
          newest, faulted, requests, edits, troubles, restarts

Saver == INSTANCE StateSaver WITH
  MaxChanges <- MaxEdits, MaxFaults <- MaxTroubles,
  disk <- file, changes <- edits, faults <- troubles

VARIABLES timing, wire, stored, thread, timed, count

Timing == INSTANCE TimingEvents WITH
  MaxExposures <- MaxTimed, exposure <- timed

-----------------------------------------------------------------------------
cadenceVars == <<clock, tracker, marks, whole, pulses, switches>>
saverVars == <<owner, live, held, queue, saver, saving, file, closing, asked,
  newest, faulted, requests, edits, troubles, restarts>>
timingVars == <<timing, wire, stored, thread, timed, count>>
recordsVars == <<part, vars, cadenceVars, saverVars, timingVars>>

\* A part that starts in more than one way starts in one of them while it is
\* not the part of the behaviour.
RecordsInit ==
  /\ part \in {"observer", "cadence", "saver", "timing"}
  /\ Init /\ Cadence!Init /\ Saver!Init /\ Timing!Init
  /\ part # "saver" => owner = "target"
  /\ part # "timing" => \A kind \in DOMAIN timing : timing[kind]

RecordsNext ==
  /\ UNCHANGED part
  /\ \/ /\ part = "observer" /\ Next
        /\ UNCHANGED <<cadenceVars, saverVars, timingVars>>
     \/ /\ part = "cadence" /\ Cadence!Next
        /\ UNCHANGED <<vars, saverVars, timingVars>>
     \/ /\ part = "saver" /\ Saver!Next
        /\ UNCHANGED <<vars, cadenceVars, timingVars>>
     \/ /\ part = "timing" /\ Timing!Next
        /\ UNCHANGED <<vars, cadenceVars, saverVars>>

RecordsSpec == RecordsInit /\ [][RecordsNext]_recordsVars

-----------------------------------------------------------------------------
(* The properties of the parts.                                             *)

\* The cadence shown is that of all pulses, its gaps are marked over snapshot
\* boundaries, and what is sent can be decoded (CaptureCadence).
CadenceIsSound == /\ Cadence!WindowsAreExact /\ Cadence!BoundariesAreMarked
                  /\ Cadence!TelemetryIsDecodable

\* A process closed in order leaves its last state in its file (StateSaver).
LastStateIsSaved == Saver!LastStateIsSaved

\* The timing events of a run tell the timing received (TimingEvents).
EventsTellTheTiming == Timing!EventsTellTheTiming
=============================================================================
