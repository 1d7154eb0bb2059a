--------------------------- MODULE TargetController ---------------------------
(***************************************************************************)
(* The target controller (subsystems/target_controller.py) over its motion *)
(* provider (subsystems/ljs_target_motion.py) and the path of              *)
(* subsystems/target_motion.py.                                            *)
(*                                                                         *)
(* The move thread looks at the flags of the controller, then acts on what *)
(* it saw; the callbacks and the main loop change the same flags and the   *)
(* same provider without a lock, so a pass of the move thread is two       *)
(* steps, and so is what the main loop does about a loss or a recovery.    *)
(* The path is kept as far as the rest depends on it: whether the  *)
(* motion is aimed at the path position or at the end of a segment, and    *)
(* where the axes are relative to that aim.                                *)
(***************************************************************************)
EXTENDS Integers

CONSTANTS
  MaxOps,     \* bound on the calls of operators
  MaxFaults   \* bound on the faults of one behaviour

VARIABLES
  motion,  \* the provider: its aim, its axes, its speed and its flags
  drive,   \* __is_running, __should_start, __jog_speed
  pass,    \* what the move thread decided to do in this pass
  calls,   \* the handles that wait for their answer
  pause,   \* __interlock_paused, __interlock_resume_pending: "resuming" is both,
           \* "pending" the second alone
  turn,    \* what the main loop decided to do about a loss or a recovery
  heard,   \* the newest acquisition health and laser status received
  mode,    \* the exposure controller's view of the target
  ops,     \* calls of operators so far
  faults,  \* faults so far
  raced    \* history: a stop came between the two steps of a pass or of the
           \* main loop, or an operator moved the target

targetVars == <<motion, drive, pass, calls, pause, turn, heard, mode, raced>>
vars == <<targetVars, ops, faults>>

---------------------------------------------------------------------------
(* The motion provider.  The rotation is "behind" when it is past its aim, *)
(* which is the only thing `is_moving` tells of it; the linear axis is     *)
(* "due" while its command was not given or was stopped.                   *)

Motion == [aim : {"none", "path", "segment"}, rot : {"at", "ahead", "behind"},
           lin : {"at", "due", "moving"}, go : BOOLEAN,
           jog : BOOLEAN, home : BOOLEAN, fault : BOOLEAN]

\* `is_moving`.  Mutant: the distance to the aim counts in both directions.
IsMovingEither(m) == m.aim # "none" /\ (m.rot # "at" \/ m.lin = "moving")

IsMoving(m) == m.aim # "none" /\ (m.rot = "behind" \/ m.lin = "moving")

\* `at_path_position`.
AtPath(m) == m.aim = "path" /\ m.rot = "at" /\ m.lin = "at"

\* The sample's target turns or slides.
Turning == motion.go /\ motion.rot # "at"
Sliding == motion.lin = "moving"

\* `move_to_position`: a new aim is anywhere relative to the axes.
Aim(m, kind) ==
  IF m.aim = kind THEN {[m EXCEPT !.go = TRUE]}
  ELSE {[m EXCEPT !.aim = kind, !.go = TRUE, !.rot = r,
                  !.lin = IF m.lin = "moving" THEN "moving" ELSE l] :
          r \in {"at", "ahead", "behind"}, l \in {"at", "due"}}

\* `LJSerialTargetMotion.stop`: the aim stays.
Halt(m) == [m EXCEPT !.go = FALSE]

---------------------------------------------------------------------------
(* TargetMotionController. *)

Rest == [running |-> FALSE, starting |-> FALSE, jogging |-> FALSE]

Busy == drive.running \/ drive.starting

\* `can_modify`, `can_jog`, `can_home`.
CanModify == ~Busy /\ ~motion.jog /\ ~motion.home /\ ~IsMoving(motion)
CanJog == ~Busy /\ ~motion.home
CanHome == ~Busy /\ ~IsMoving(motion)

\* `continue_move`.
ContinueMove == drive' = IF CanModify THEN [drive EXCEPT !.starting = TRUE] ELSE drive

\* `stop`.  Mutant: only the flags are cleared.
HaltFlags == drive' = [drive EXCEPT !.running = FALSE, !.starting = FALSE] /\ UNCHANGED motion

HaltDrive == /\ motion' = Halt(motion)
             /\ drive' = [drive EXCEPT !.running = FALSE, !.starting = FALSE]

\* What the move thread and the main loop have decided may undo a stop.
MidPass == pass \in {"run", "start"}
Undecided == ~MidPass /\ turn = "none"

\* `__move_thread` looks at the flags.
Decide ==
  /\ pass = "none"
  /\ pass' = CASE drive.running -> "run"
               [] ~drive.running /\ drive.starting -> "start"
               [] ~Busy /\ IsMoving(motion) /\ ~drive.jogging -> "stop"
               [] ~Busy /\ drive.jogging -> "jog"
               [] OTHER -> "look"
  /\ UNCHANGED <<motion, drive, calls, pause, turn, heard, mode, ops, faults, raced>>

\* `run_profile`: the aim is the end of the current segment; at the end of a
\* segment the next one is aimed at, after the last repetition the run ends.
RunProfile(m) ==
  LET on == Aim(m, "segment")
      turned == IF m.aim = "segment" /\ m.rot = "at" /\ m.lin = "at"
                THEN Aim([m EXCEPT !.aim = "none"], "segment") ELSE {}
  IN  {<<n, drive>> : n \in on \cup turned}
      \cup {<<n, [drive EXCEPT !.running = FALSE]>> : n \in {n \in on : n.rot = "at" /\ n.lin = "at"}}

\* The branch for `__should_start`.
MoveToPath(m) ==
  {<<n, IF ~IsMoving(n) /\ AtPath(n)
        THEN [drive EXCEPT !.starting = FALSE, !.running = TRUE] ELSE drive>> :
     n \in Aim(m, "path")}

\* `LJSerialTargetMotion.jog`: its jog speeds are never cleared again, and the
\* rotation leaves the aim that was taken when the jog began.
Jog(m) == {[m EXCEPT !.jog = TRUE, !.go = TRUE, !.rot = r,
                     !.aim = IF m.aim = "none" THEN "none" ELSE "segment"] : r \in {"at", "behind"}}

\* The pass acts on what it saw, then looks for a fault.
Act ==
  /\ pass # "none" /\ pass' = "none"
  /\ \E r \in CASE pass = "run" -> RunProfile(motion)
                [] pass = "start" -> MoveToPath(motion)
                [] pass = "stop" -> {<<Halt(motion), [drive EXCEPT !.running = FALSE, !.starting = FALSE]>>}
                [] pass = "jog" -> {<<m, drive>> : m \in Jog(motion)}
                [] pass = "look" -> {<<motion, drive>>} :
       IF motion.fault THEN motion' = Halt(r[1]) /\ drive' = Rest
                       ELSE motion' = r[1] /\ drive' = r[2]
  /\ UNCHANGED <<calls, pause, turn, heard, mode, ops, faults, raced>>

MoveThread == Decide \/ Act

---------------------------------------------------------------------------
(* The provider's threads. *)

ProviderFrame == UNCHANGED <<drive, pass, calls, pause, turn, heard, mode, ops, raced>>

RotationArrives ==
  /\ Turning /\ ~motion.jog /\ motion' = [motion EXCEPT !.rot = "at"]
  /\ UNCHANGED faults /\ ProviderFrame

\* `__update_l`, while the linear axis is neither homing nor in fault.
LinearMoves ==
  /\ ~motion.fault /\ ~motion.home
  /\ \/ motion.lin = "due" /\ motion.go /\ motion' = [motion EXCEPT !.lin = "moving"]
     \/ motion.lin = "moving" /\ motion.go /\ motion' = [motion EXCEPT !.lin = "at"]
     \/ motion.lin = "moving" /\ ~motion.go /\ motion' = [motion EXCEPT !.lin = "due"]
  /\ UNCHANGED faults /\ ProviderFrame

HomingEnds ==
  /\ motion.home /\ ~motion.fault
  /\ motion' = [motion EXCEPT !.home = FALSE, !.lin = "due"]
  /\ UNCHANGED faults /\ ProviderFrame

\* A failed command of the linear axis: its thread waits for `reset`.
AxisFails ==
  /\ ~motion.fault /\ motion' = [motion EXCEPT !.fault = TRUE]
  /\ faults < MaxFaults /\ faults' = faults + 1 /\ ProviderFrame

Provider == RotationArrives \/ LinearMoves \/ HomingEnds \/ AxisFails

---------------------------------------------------------------------------
(* Callbacks of the exposure controller. *)

\* `_can_start` (which also asks for enough motion time) and `_on_preinit`.
CanStart == (CanModify \/ Busy) /\ ~motion.fault

Preinit ==
  /\ mode = "idle" /\ CanStart /\ mode' = "preinit"
  /\ pause' = "no" /\ calls' = calls \cup {"preinit"}
  /\ raced' = (drive.jogging \/ pass = "jog" \/ turn # "none")
  /\ ContinueMove
  /\ UNCHANGED <<motion, pass, turn, heard, ops, faults>>

\* `_on_start`.
Start ==
  /\ mode = "ready" /\ mode' = "start" /\ calls' = calls \cup {"start"}
  /\ UNCHANGED <<motion, drive, pass, pause, turn, heard, ops, faults, raced>>

\* `_on_stop`, at any time: an operator, another subsystem, or this one, whose
\* `_on_continue_state` ends a run on a fault that no pause explains.
Stop ==
  /\ mode \notin {"idle", "stop"} /\ mode' = "stop"
  /\ pause' = "no" /\ calls' = calls \cup {"stop"} /\ HaltDrive
  /\ raced' = (raced \/ ~Undecided)
  /\ UNCHANGED <<pass, turn, heard, ops, faults>>

Exposure == Preinit \/ Start \/ Stop

---------------------------------------------------------------------------
(* Callbacks of operators. *)

OneOp == ops < MaxOps /\ ops' = ops + 1
OpFrame == UNCHANGED <<pass, pause, turn, heard, mode, faults>>

\* `__on_start_move_event`.
StartMove == /\ OneOp /\ CanModify /\ ContinueMove /\ raced' = TRUE
             /\ UNCHANGED <<motion, calls>> /\ OpFrame

\* `__on_stop_move_event`.
StopMove == /\ OneOp /\ Busy /\ HaltDrive /\ raced' = (raced \/ ~Undecided)
            /\ UNCHANGED calls /\ OpFrame

\* The start, the offset, the path or the time on it are set, or reset.  Only
\* the time may be set while the target still moves.
SetPath == /\ OneOp /\ (CanModify \/ ~Busy)
           /\ motion' = [motion EXCEPT !.aim = IF @ = "path" THEN "segment" ELSE @]
           /\ UNCHANGED <<drive, calls, raced>> /\ OpFrame

\* `__on_clear_error_event`.
ClearError == /\ OneOp /\ CanModify /\ motion' = [motion EXCEPT !.fault = FALSE]
              /\ UNCHANGED <<drive, calls, raced>> /\ OpFrame

\* `__on_home_event`.
Home == /\ OneOp /\ CanHome /\ motion' = [motion EXCEPT !.home = TRUE]
        /\ calls' = calls \cup {"home"}
        /\ UNCHANGED <<drive, raced>> /\ OpFrame

\* `__on_jog_write`.
JogWrite == /\ OneOp /\ CanJog /\ drive' = [drive EXCEPT !.jogging = TRUE]
            /\ raced' = TRUE /\ UNCHANGED <<motion, calls>> /\ OpFrame

Operator == StartMove \/ StopMove \/ SetPath \/ ClearError \/ Home \/ JogWrite

---------------------------------------------------------------------------
(* The main loop: what it decided comes before anything else. *)

LoopFrame == turn = "none" /\ UNCHANGED <<pass, turn, heard, ops, faults, raced>>

Answer(call, next) == /\ calls' = calls \ {call}
                      /\ mode' = IF mode = call THEN next ELSE mode

DidPreinit == /\ "preinit" \in calls /\ drive.running /\ Answer("preinit", "ready")
              /\ UNCHANGED <<motion, drive, pause>> /\ LoopFrame

DidStart == /\ "start" \in calls /\ Answer("start", "running")
            /\ UNCHANGED <<motion, drive, pause>> /\ LoopFrame

\* Mutant: the stop is answered only once the target could be started again.
StoppedFully == CanModify

Stopped == ~IsMoving(motion)

DidStop == /\ "stop" \in calls /\ Stopped /\ Answer("stop", "idle")
           /\ UNCHANGED <<motion, drive, pause>> /\ LoopFrame

DidHome == /\ "home" \in calls /\ ~motion.home /\ calls' = calls \ {"home"}
           /\ UNCHANGED <<motion, drive, pause, mode>> /\ LoopFrame

\* The jog ends half a second after the last write of its value.
JogExpires == /\ drive.jogging /\ CanJog /\ drive' = [drive EXCEPT !.jogging = FALSE]
              /\ UNCHANGED <<motion, calls, pause, mode>> /\ LoopFrame

\* `__update_acquisition_interlock`.  Mutant: the pause does not wait for the laser.
MayPauseAtOnce == heard.health = "loss" /\ drive.running

MayPause == heard.health = "loss" /\ heard.closed /\ drive.running

MayResume == heard.health = "resume" /\ pause \in {"paused", "resuming"} /\ CanModify

TakeTurn ==
  /\ turn = "none" /\ heard.fresh
  /\ \/ pause = "no" /\ MayPause /\ turn' = "pause"
     \/ MayResume /\ turn' = "resume"
  /\ UNCHANGED <<motion, drive, pass, calls, pause, heard, mode, ops, faults, raced>>

TurnFrame == turn' = "none" /\ UNCHANGED <<pass, calls, heard, mode, ops, faults>>

PauseForLoss == /\ turn = "pause" /\ HaltDrive /\ pause' = "paused"
                /\ raced' = (raced \/ MidPass) /\ TurnFrame

\* The rest of `continue_move`: a stop in between is undone.
Resume == /\ turn = "resume" /\ drive' = [drive EXCEPT !.starting = TRUE]
          /\ pause' = IF pause = "no" THEN "pending" ELSE "resuming"
          /\ UNCHANGED <<motion, raced>> /\ TurnFrame

Resumed ==
  /\ heard.fresh /\ pause \in {"resuming", "pending"} /\ drive.running /\ pause' = "no"
  /\ UNCHANGED <<motion, drive, calls, mode>> /\ LoopFrame

MainLoop == \/ DidPreinit \/ DidStart \/ DidStop \/ DidHome \/ JogExpires
            \/ TakeTurn \/ PauseForLoss \/ Resume \/ Resumed

---------------------------------------------------------------------------
(* What the target hears of the acquisition and of the laser. *)

HearsFrame == UNCHANGED <<motion, drive, pass, calls, pause, turn, mode, ops, faults, raced>>

\* The phase counts in a loss only; a loss that comes later hears of it again.
HealthArrives ==
  /\ \E h \in {"ok", "loss", "resume"} :
       heard' = [health |-> h, fresh |-> TRUE, closed |-> heard.closed /\ h = "loss"]
  /\ HearsFrame

\* Health that is late counts for nothing.
HealthIsLate == heard' = [health |-> "ok", fresh |-> FALSE, closed |-> FALSE] /\ HearsFrame

PhaseArrives == /\ heard.health = "loss" /\ heard' = [heard EXCEPT !.closed = ~@]
                /\ HearsFrame

Hears == HealthArrives \/ HealthIsLate \/ PhaseArrives

---------------------------------------------------------------------------
Init ==
  /\ motion = [aim |-> "none", rot |-> "at", lin |-> "at", go |-> FALSE,
               jog |-> FALSE, home |-> FALSE, fault |-> FALSE]
  /\ drive = Rest /\ pass = "none" /\ calls = {} /\ pause = "no" /\ turn = "none"
  /\ heard = [health |-> "ok", fresh |-> FALSE, closed |-> FALSE]
  /\ mode = "idle" /\ ops = 0 /\ faults = 0 /\ raced = FALSE

Next == MoveThread \/ Provider \/ Exposure \/ Operator \/ MainLoop \/ Hears

Spec == Init /\ [][Next]_vars

FairSpec ==
  /\ Spec
  /\ WF_vars(MoveThread) /\ WF_vars(RotationArrives) /\ WF_vars(LinearMoves)
  /\ WF_vars(HomingEnds) /\ WF_vars(DidStop)
  /\ WF_vars(PauseForLoss) /\ WF_vars(Resume)

---------------------------------------------------------------------------
(* Properties. *)

TypeOK ==
  /\ motion \in Motion
  /\ drive \in [running : BOOLEAN, starting : BOOLEAN, jogging : BOOLEAN]
  /\ pass \in {"none", "run", "start", "stop", "jog", "look"}
  /\ calls \subseteq {"preinit", "start", "stop", "home"}
  /\ pause \in {"no", "paused", "resuming", "pending"} /\ turn \in {"none", "pause", "resume"}
  /\ mode \in {"idle", "preinit", "ready", "start", "running", "stop"}

\* A stopped target does not turn, unless the stop fell between the two steps
\* of a pass of the move thread or of the main loop's pause or resume, or an
\* operator moved it.
StoppedTargetRests ==
  mode = "idle" /\ ~raced => ~Turning /\ ~Busy

\* `stop` keeps the aim, and with it what `is_moving` looks at: the rotation of
\* a stopped target stays past its aim, and a faulty axis stays "moving".
PastItsAim == motion.rot = "behind" /\ ~motion.go
FrozenAxis == motion.fault /\ motion.lin = "moving"

\* The stop of a run is answered, unless it leaves the target past its aim, a
\* faulty axis was moving, or the target was moved again.
TargetStopIsAnswered ==
  "stop" \in calls ~> ("stop" \notin calls \/ PastItsAim \/ FrozenAxis \/ Busy \/ motion.jog)
=============================================================================
