-------------------------------- MODULE Devices --------------------------------
(***************************************************************************)
(* The laser controller, the target controller and the oscilloscope side   *)
(* by side.  Each of them answers to the exposure controller alone here    *)
(* (Interlocks lets the first two act on each other) and they share no     *)
(* state, so a behaviour exercises one of them, chosen at the start, and   *)
(* leaves the others as they are: their states add up instead of           *)
(* multiplying.                                                            *)
(***************************************************************************)
EXTENDS Naturals

CONSTANTS
  MaxOps,       \* bound on the calls of operators
  MaxFaults,    \* bound on the faults of one behaviour
  MaxRuns,      \* exposures of the oscilloscope
  MaxSegments,  \* its segments that see light
  TargetDose    \* segments that its exposures with a target ask for

ASSUME DevicesAssumption ==
  /\ MaxOps \in Nat /\ MaxFaults \in Nat
  /\ MaxRuns \in Nat /\ MaxSegments \in Nat /\ TargetDose \in Nat \ {0}

VARIABLES
  part,        \* the device of this behaviour
  hw, handle, jobs, shot, active, test, reached, lock, seen, exposure,    \* laser
  overtaken,
  motion, drive, pass, calls, pause, turn, heard, mode, raced,            \* target
  ops, faults,
  run, scope, reads, out, main, sub, step, writer, files, tags,           \* oscilloscope
  shots, used, failed, past

Laser == INSTANCE LaserController
Target == INSTANCE TargetController
Scope == INSTANCE Oscilloscope

---------------------------------------------------------------------------
laserVars == <<hw, handle, jobs, shot, active, test, reached, lock, seen, exposure,
               overtaken>>
targetVars == <<motion, drive, pass, calls, pause, turn, heard, mode, raced>>
scopeVars == <<run, scope, reads, out, main, sub, step, writer, files, tags,
               shots, used, failed, past>>
counters == <<ops, faults>>
targetState == <<targetVars, counters>>
vars == <<part, laserVars, targetVars, scopeVars, counters>>

Init == Laser!Init /\ Target!Init /\ Scope!Init

\* Bound: a loss or a recovery is heard of during runs only.
NewsInRuns == heard' # heard /\ heard'.health # "ok" => mode = "running"

Next ==
  /\ UNCHANGED part
  /\ \/ part = "laser" /\ Laser!Next /\ UNCHANGED <<targetVars, scopeVars>>
     \/ part = "target" /\ Target!Next /\ NewsInRuns /\ UNCHANGED <<laserVars, scopeVars>>
     \/ part = "scope" /\ Scope!Next /\ UNCHANGED <<laserVars, targetVars, counters>>

LaserInit == part = "laser" /\ Init
OthersInit == part \in {"target", "scope"} /\ Init

\* The laser alone, under its own fairness.
LaserSpec == LaserInit /\ [][Next]_vars /\ Laser!FairThreads

\* The others, with the fairness of each for the part exercised.
OthersSpec ==
  /\ OthersInit /\ [][Next]_vars
  /\ WF_targetState(part = "target" /\ Target!MoveThread)
  /\ WF_targetState(part = "target" /\ Target!RotationArrives)
  /\ WF_targetState(part = "target" /\ Target!LinearMoves)
  /\ WF_targetState(part = "target" /\ Target!HomingEnds)
  /\ WF_targetState(part = "target" /\ Target!DidStop)
  /\ WF_targetState(part = "target" /\ (Target!PauseForLoss \/ Target!Resume))
  /\ WF_scopeVars(part = "scope" /\ Scope!Capture)
  /\ WF_scopeVars(part = "scope" /\ Scope!Decode)
  /\ WF_scopeVars(part = "scope" /\ Scope!Answer)
  /\ WF_scopeVars(part = "scope" /\ Scope!Taking)
  /\ WF_scopeVars(part = "scope" /\ Scope!Closing)
  /\ WF_scopeVars(part = "scope" /\ Scope!Writing)
  /\ WF_scopeVars(part = "scope" /\ Scope!Stepping)

---------------------------------------------------------------------------
(* The properties of the parts; what they except is stated there. *)

\* Between runs the laser is dark unless a test holds it, and the stop of a run
\* is answered (subsystems/laser.py; see LaserController).
StoppedLaserStaysOff == Laser!StoppedLaserStaysOff
StopIsAnswered == Laser!StopIsAnswered

\* A stopped target does not turn, and its stop is answered
\* (subsystems/target_controller.py; see TargetController).
StoppedTargetRests == Target!StoppedTargetRests
TargetStopIsAnswered == Target!TargetStopIsAnswered

\* The recorded dose of a run is that of its own segments, and a stopped run is
\* closed (oscilloscope.py; see Oscilloscope).
RecordIsWhole == Scope!RecordIsWhole
StoppedRunIsClosed == Scope!StoppedRunIsClosed
=============================================================================
