------------------------------ MODULE Interlocks ------------------------------
(***************************************************************************)
(* The acquisition interlock: the laser controller, the target controller  *)
(* and the pulse health of the acquisition controller                      *)
(* (subsystems/euv_acquisition_controller.py), during exposures.           *)
(*                                                                         *)
(* Each of the three publishes a value and keeps its own copy of the       *)
(* values of the others; a value is seen late, and one that is replaced    *)
(* before it was seen is never seen.  Pulse loss closes the sample, the    *)
(* closed sample lets the target pause, an operator authorizes recovery    *)
(* after ten stable pulses, the target resumes, and only then is the       *)
(* sample opened again.                                                    *)
(***************************************************************************)
EXTENDS Integers, Sequences

CONSTANTS
  MaxOps,     \* bound on the calls of operators to the target
  MaxFaults,  \* bound on the faults of one behaviour
  MaxLosses   \* bound on the pulse losses, calls and stop of one behaviour, together

ASSUME InterlockAssumption == MaxOps \in Nat /\ MaxFaults \in Nat /\ MaxLosses \in Nat

VARIABLES
  hw, handle, jobs, shot, active, test, reached, lock, seen, exposure,    \* laser
  overtaken,
  motion, drive, pass, calls, pause, turn, heard, mode, raced,            \* target
  ops, faults,
  pulses,   \* the acquisition: pulse_loss_active, recovery_ready, ...
  posted,   \* the newest published pulse health
  losses,   \* pulse losses so far
  owed,     \* history: the laser heard of a loss, and no authorization followed
  crossed   \* history: a loss was published while the sample was being opened,
            \* an operator started the paused target, or the pause fell between the
            \* two steps of a pass that starts it

L == INSTANCE LaserController WITH MaxOps <- 0
T == INSTANCE TargetController

acquisitionVars == <<pulses, posted, losses, owed, crossed>>
laserState == <<hw, handle, jobs, shot, active, test, reached, lock, seen, exposure,
                overtaken>>
targetState == <<motion, drive, pass, calls, pause, turn, heard, mode, raced>>
vars == <<laserState, targetState, ops, faults, acquisitionVars>>

LaserOnly == UNCHANGED <<targetState, acquisitionVars>>
TargetOnly == UNCHANGED <<laserState, acquisitionVars>>
AcquisitionOnly == UNCHANGED <<laserState, targetState, ops, faults>>

---------------------------------------------------------------------------
(* The exposure controller stops both; a run is joined when it is running. *)

NoPulses == [lost |-> FALSE, active |-> FALSE, ready |-> FALSE, auth |-> FALSE]

Stop == L!Stop /\ T!Stop /\ losses + ops < MaxLosses /\ UNCHANGED acquisitionVars

---------------------------------------------------------------------------
(* The pulse health of the acquisition. *)

\* Pulses are expected: the run counts dose and the laser enables its triggers.
Expected == exposure = "running" /\ mode = "running" /\ L!LaserOn

PulsesStop ==
  /\ Expected /\ ~pulses.lost /\ losses + ops < MaxLosses
  /\ pulses' = [pulses EXCEPT !.lost = TRUE] /\ losses' = losses + 1
  /\ UNCHANGED <<posted, owed, crossed>> /\ AcquisitionOnly

PulsesReturn ==
  /\ pulses.lost /\ pulses' = [pulses EXCEPT !.lost = FALSE]
  /\ UNCHANGED <<posted, losses, owed, crossed>> /\ AcquisitionOnly

\* `_ingest_report`: ten pulses in time after a loss.
TenPulses ==
  /\ pulses.active /\ ~pulses.lost /\ ~pulses.ready
  /\ pulses' = [pulses EXCEPT !.ready = TRUE]
  /\ UNCHANGED <<posted, losses, owed, crossed>> /\ AcquisitionOnly

\* A published loss.  Mutant: an authorization survives the next loss.
RevokedNever(p) == [p EXCEPT !.active = TRUE]

Revoked(p) == [p EXCEPT !.active = TRUE, !.ready = FALSE, !.auth = FALSE]

\* Recovery is authorized, and the sample is not open yet for laser and target.
Opened == lock = L!OpenLock /\ hw.phase = "target" /\ ~heard.closed
Opening == pulses.auth /\ ~Opened

\* `_publish_values`.
PublishHealth ==
  LET loss == pulses.lost /\ Expected
      now == IF loss THEN Revoked(pulses) ELSE pulses
  IN  /\ pulses' = now
      /\ posted' =
           CASE loss -> "loss" [] ~loss /\ now.ready /\ now.auth -> "resume" [] OTHER -> "ok"
      /\ crossed' = (crossed \/ (loss /\ Opening))
      /\ UNCHANGED <<losses, owed>> /\ AcquisitionOnly

\* `_on_resume_interlock`.  An operator sees `recovery_ready` published and is
\* slower than the copies, the loops and the worker.
Settled == /\ posted = "ok" /\ seen.health = "ok" /\ heard.health = "ok"
           /\ seen.moving = drive.running /\ heard.closed = (hw.phase = "preinit")
           /\ turn = "none" /\ jobs = << >> /\ ~lock.closing /\ ~lock.opening /\ hw.phase = hw.want

Authorize ==
  /\ pulses.active /\ pulses.ready /\ ~pulses.auth /\ Settled
  /\ pulses' = [pulses EXCEPT !.auth = TRUE] /\ owed' = FALSE
  /\ UNCHANGED <<posted, losses, crossed>> /\ AcquisitionOnly

Acquisition == PulsesStop \/ PulsesReturn \/ TenPulses \/ PublishHealth \/ Authorize

---------------------------------------------------------------------------
(* The values of the others. *)

\* The laser: `__on_acquisition_health`, `__on_target_status`.
LaserHears ==
  /\ \/ /\ seen' = [seen EXCEPT !.health = posted, !.stale = FALSE]
        /\ owed' = (owed \/ posted = "loss")
     \/ seen' = [seen EXCEPT !.moving = drive.running] /\ UNCHANGED owed
  /\ UNCHANGED <<hw, handle, jobs, shot, active, test, reached, lock, exposure, overtaken,
                 ops, faults>>
  /\ UNCHANGED <<targetState, pulses, posted, losses, crossed>>

\* The target: `__on_acquisition_health`, `__on_laser_status`.
TargetFrame == /\ UNCHANGED <<motion, drive, pass, calls, pause, turn, mode, raced, ops, faults>>
               /\ TargetOnly

TargetHearsHealth ==
  heard' = [heard EXCEPT !.health = posted, !.fresh = TRUE] /\ TargetFrame

TargetHearsLaser ==
  heard' = [heard EXCEPT !.closed = (hw.phase = "preinit")] /\ TargetFrame

Network == LaserHears \/ TargetHearsHealth \/ TargetHearsLaser

---------------------------------------------------------------------------
\* A run is running: the sample is open and the target moves.
Init ==
  /\ hw = [laser |-> "on", wave |-> TRUE, spin |-> TRUE, sync |-> TRUE,
           want |-> "target", phase |-> "target"]
  /\ handle = [c \in L!Slots |-> "none"] /\ jobs = << >> /\ shot = "no"
  /\ active = TRUE /\ test = FALSE /\ reached = "no" /\ lock = L!OpenLock
  /\ seen = [health |-> "ok", stale |-> FALSE, moving |-> TRUE]
  /\ exposure = "running" /\ overtaken = FALSE
  /\ motion = [aim |-> "segment", rot |-> "ahead", lin |-> "moving", go |-> TRUE,
               jog |-> FALSE, home |-> FALSE, fault |-> FALSE]
  /\ drive = [running |-> TRUE, starting |-> FALSE, jogging |-> FALSE]
  /\ pass = "none" /\ calls = {} /\ pause = "no" /\ turn = "none"
  /\ heard = [health |-> "ok", fresh |-> TRUE, closed |-> FALSE]
  /\ mode = "running" /\ raced = FALSE /\ ops = 0 /\ faults = 0
  /\ pulses = NoPulses
  /\ posted = "ok"
  /\ losses = 0 /\ owed = FALSE /\ crossed = FALSE

LaserStep == (L!Worker \/ L!MainLoop \/ L!Instruments \/ L!HealthIsLate) /\ LaserOnly

PauseTarget == /\ T!PauseForLoss /\ crossed' = (crossed \/ pass = "start")
               /\ UNCHANGED <<laserState, pulses, posted, losses, owed>>

\* The start of an operator does not look at the pause, and leaves it as it is.
\* What operators do between runs is in TargetController alone.
TargetStep ==
  \/ (T!MoveThread \/ T!Provider) /\ TargetOnly
  \/ turn # "pause" /\ T!MainLoop /\ TargetOnly
  \/ PauseTarget
  \/ /\ T!Operator /\ mode = "running" /\ losses + ops < MaxLosses
     /\ crossed' = (crossed \/ (pause = "paused" /\ drive'.starting))
     /\ UNCHANGED <<laserState, pulses, posted, losses, owed>>

Next == Stop \/ Acquisition \/ Network \/ LaserStep \/ TargetStep

Spec == Init /\ [][Next]_vars

\* The threads of the target run, and the health is published and heard.
FairSpec ==
  /\ Spec
  /\ WF_vars(PublishHealth) /\ WF_vars(TargetHearsHealth)
  /\ WF_vars(T!MoveThread /\ TargetOnly) /\ WF_vars(T!RotationArrives /\ TargetOnly)
  /\ WF_vars(T!LinearMoves /\ TargetOnly) /\ WF_vars(T!TakeTurn /\ TargetOnly)
  /\ WF_vars(PauseTarget) /\ WF_vars(T!Resume /\ TargetOnly)

---------------------------------------------------------------------------
(* Properties. *)

\* The sample is not open while the target is paused, unless the next loss met an
\* opening that was under way, an operator started the paused target, or the pause
\* fell between the two steps of a pass that starts it.
SampleWaitsForTarget ==
  pause = "paused" /\ ~drive.running /\ L!SampleOpen => crossed

\* The laser asks to reopen only after an authorization.
ReopenIsAuthorized == [][L!AskReopen => ~owed]_vars

\* An authorized recovery makes the paused target move again, unless the pause
\* left it past its aim or an operator jogged or homed it: `is_moving` or
\* `can_modify` then keeps `continue_move` from starting.
PauseEnds ==
  (pause = "paused" /\ pulses.auth)
    ~> (drive.running \/ pause = "no" \/ ~pulses.auth
          \/ T!PastItsAim \/ motion.jog \/ motion.home)
=============================================================================
