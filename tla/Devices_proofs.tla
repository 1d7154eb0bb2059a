---------------------------- MODULE Devices_proofs ----------------------------
(***************************************************************************)
(* Proofs about the devices of an exposure, each by itself: the target is  *)
(* at rest after a stop, the laser is dark, and the oscilloscope records   *)
(* the dose of the run's own light, for every bound on calls, runs,        *)
(* segments and faults.                                                    *)
(***************************************************************************)
EXTENDS Devices, SequenceTheorems, TLAPS

-----------------------------------------------------------------------------
(* The target.  What turns it is a pass of the move thread that saw a run, a *)
(* start or a jog, the flags that let it see one, and a resume that the main *)
(* loop has decided.  A stop that meets none of these under way clears the   *)
(* flags, and nothing but an operator or the next preinit sets them again.   *)

TargetQuiet ==
  /\ ~drive.running /\ ~drive.starting /\ ~motion.go
  /\ pause = "no" /\ turn = "none" /\ pass \notin {"run", "start"}

TargetInv ==
  /\ motion \in Target!Motion
  /\ drive \in [running : BOOLEAN, starting : BOOLEAN, jogging : BOOLEAN]
  /\ raced \in BOOLEAN
  /\ pass \in {"none", "run", "start", "stop", "jog", "look"}
  /\ turn \in {"none", "pause", "resume"}
  /\ ~raced => /\ ~drive.jogging /\ pass # "jog"
               /\ mode \in {"idle", "stop"} => TargetQuiet

LEMMA TargetInvInit == Target!Init => TargetInv
<1> SUFFICES ASSUME Target!Init PROVE TargetInv
  OBVIOUS
<1>1. motion \in Target!Motion
  BY DEF Target!Init, Target!Motion
<1>2. drive = [running |-> FALSE, starting |-> FALSE, jogging |-> FALSE]
  BY DEF Target!Init, Target!Rest
<1>3. /\ ~motion.go /\ pause = "no" /\ pass = "none" /\ turn = "none"
      /\ ~raced /\ raced \in BOOLEAN
  BY DEF Target!Init
<1> QED BY <1>1, <1>2, <1>3 DEF TargetInv, TargetQuiet

\* A stop halts the provider and clears the flags.
LEMMA HaltRests ==
  ASSUME TargetInv, Target!HaltDrive
  PROVE  /\ motion' \in Target!Motion /\ ~motion'.go
         /\ drive' \in [running : BOOLEAN, starting : BOOLEAN, jogging : BOOLEAN]
         /\ ~drive'.running /\ ~drive'.starting /\ drive'.jogging = drive.jogging
BY DEF TargetInv, Target!HaltDrive, Target!Halt, Target!Motion

LEMMA ContinueTyped ==
  ASSUME TargetInv, Target!ContinueMove
  PROVE  /\ drive' \in [running : BOOLEAN, starting : BOOLEAN, jogging : BOOLEAN]
         /\ drive'.jogging = drive.jogging
BY DEF TargetInv, Target!ContinueMove

\* Wherever a pass aims at, the provider keeps its type.
LEMMA AimTyped ==
  ASSUME NEW m \in Target!Motion, NEW kind \in {"path", "segment"}, NEW n \in Target!Aim(m, kind)
  PROVE  n \in Target!Motion
<1>1. CASE m.aim = kind
  <2>1. n = [m EXCEPT !.go = TRUE]
    BY <1>1 DEF Target!Aim
  <2> QED BY <2>1 DEF Target!Motion
<1>2. CASE m.aim # kind
  <2>1. PICK r \in {"at", "ahead", "behind"}, l \in {"at", "due"} :
          n = [m EXCEPT !.aim = kind, !.go = TRUE, !.rot = r,
                        !.lin = IF m.lin = "moving" THEN "moving" ELSE l]
    BY <1>2 DEF Target!Aim
  <2> DEFINE where == IF m.lin = "moving" THEN "moving" ELSE l
  <2>2. where \in {"at", "due", "moving"}
    OBVIOUS
  <2>3. n = [m EXCEPT !.aim = kind, !.go = TRUE, !.rot = r, !.lin = where]
    BY <2>1
  <2> QED
    <3> HIDE DEF where
    <3> QED BY <2>2, <2>3 DEF Target!Motion
<1> QED BY <1>1, <1>2

\* The move thread looks, and acts on what it saw.
LEMMA MoveThreadStep ==
  ASSUME TargetInv, Target!MoveThread
  PROVE  TargetInv'
<1>1. CASE Target!Decide
  <2>1. UNCHANGED <<motion, drive, pause, turn, mode, raced>>
    BY <1>1 DEF Target!Decide
  <2>2. drive.running \in BOOLEAN /\ drive.starting \in BOOLEAN /\ drive.jogging \in BOOLEAN
    BY DEF TargetInv
  <2>3. /\ pass' = "run" => drive.running
        /\ pass' = "start" => drive.starting
        /\ pass' = "jog" => drive.jogging
    BY <1>1, <2>2 DEF Target!Decide, Target!Busy
  <2>4. pass' \in {"run", "start", "stop", "jog", "look"}
    BY <1>1, Zenon DEF Target!Decide
  <2> QED BY <2>1, <2>3, <2>4 DEF TargetInv, TargetQuiet
<1>2. CASE Target!Act
  <2> DEFINE D == [running : BOOLEAN, starting : BOOLEAN, jogging : BOOLEAN]
             still == [drive EXCEPT !.running = FALSE, !.starting = FALSE]
             results == CASE pass = "run" -> Target!RunProfile(motion)
                          [] pass = "start" -> Target!MoveToPath(motion)
                          [] pass = "stop" -> {<<Target!Halt(motion), still>>}
                          [] pass = "jog" -> {<<m, drive>> : m \in Target!Jog(motion)}
                          [] pass = "look" -> {<<motion, drive>>}
  <2>1. /\ pass # "none" /\ pass' = "none"
        /\ UNCHANGED <<pause, turn, mode, raced>>
    BY <1>2 DEF Target!Act
  <2>2. PICK r \in results : IF motion.fault THEN motion' = Target!Halt(r[1]) /\ drive' = Target!Rest
                                             ELSE motion' = r[1] /\ drive' = r[2]
    BY <1>2 DEF Target!Act
  <2>3. /\ motion \in Target!Motion /\ drive \in D /\ still \in D
        /\ still.jogging = drive.jogging /\ ~still.running /\ ~still.starting
        /\ pass \in {"none", "run", "start", "stop", "jog", "look"}
        /\ raced \in BOOLEAN /\ turn \in {"none", "pause", "resume"}
    BY DEF TargetInv
  <2>q. ~raced => /\ ~drive.jogging /\ pass # "jog"
                  /\ mode \in {"idle", "stop"} =>
                       /\ ~drive.running /\ ~drive.starting /\ ~motion.go
                       /\ pause = "no" /\ turn = "none" /\ pass \notin {"run", "start"}
    BY DEF TargetInv, TargetQuiet
  <2>4. ASSUME r[1] \in Target!Motion, r[2] \in D, r[2].jogging = drive.jogging,
               ~raced /\ mode \in {"idle", "stop"} =>
                 ~r[1].go /\ ~r[2].running /\ ~r[2].starting
        PROVE  TargetInv'
    <3>1. CASE motion.fault
      <4>1. motion' = [r[1] EXCEPT !.go = FALSE] /\ drive' = Target!Rest
        BY <2>2, <3>1 DEF Target!Halt
      <4>2. motion' \in Target!Motion /\ ~motion'.go
        BY <4>1, <2>4 DEF Target!Motion
      <4>3. /\ drive' \in D /\ ~drive'.running /\ ~drive'.starting /\ ~drive'.jogging
        BY <4>1 DEF Target!Rest
      <4> QED BY <4>2, <4>3, <2>1, <2>3, <2>q DEF TargetInv, TargetQuiet
    <3>2. CASE ~motion.fault
      <4>1. motion' = r[1] /\ drive' = r[2]
        BY <2>2, <3>2
      <4> QED BY <4>1, <2>4, <2>1, <2>3, <2>q DEF TargetInv, TargetQuiet
    <3> QED BY <3>1, <3>2
  <2>5. CASE pass = "run"
    <3>1. r \in Target!RunProfile(motion)
      BY <2>2, <2>5
    <3>2. PICK n \in Target!Motion :
            r = <<n, drive>> \/ r = <<n, [drive EXCEPT !.running = FALSE]>>
      <4> DEFINE on == Target!Aim(motion, "segment")
                 off == [motion EXCEPT !.aim = "none"]
                 turned == IF motion.aim = "segment" /\ motion.rot = "at" /\ motion.lin = "at"
                           THEN Target!Aim(off, "segment") ELSE {}
      <4>1. off \in Target!Motion
        BY <2>3 DEF Target!Motion
      <4>2. on \cup turned \subseteq Target!Motion
        BY <4>1, <2>3, AimTyped
      <4>3. \E n \in on \cup turned : r = <<n, drive>> \/ r = <<n, [drive EXCEPT !.running = FALSE]>>
        BY <3>1, Zenon DEF Target!RunProfile
      <4> QED BY <4>2, <4>3
    <3>d. [drive EXCEPT !.running = FALSE] \in D /\ [drive EXCEPT !.running = FALSE].jogging = drive.jogging
      BY <2>3
    <3>3. r[1] \in Target!Motion /\ r[2] \in D /\ r[2].jogging = drive.jogging
      <4>1. CASE r = <<n, drive>>
        BY <4>1, <2>3
      <4>2. CASE r = <<n, [drive EXCEPT !.running = FALSE]>>
        BY <4>2, <3>d
      <4> QED BY <3>2, <4>1, <4>2
    <3> QED BY <3>3, <2>q, <2>4, <2>5
  <2>6. CASE pass = "start"
    <3>1. r \in Target!MoveToPath(motion)
      BY <2>2, <2>6
    <3>2. PICK n \in Target!Aim(motion, "path") :
            r = <<n, drive>> \/ r = <<n, [drive EXCEPT !.starting = FALSE, !.running = TRUE]>>
      BY <3>1, Zenon DEF Target!MoveToPath
    <3>3. n \in Target!Motion
      BY <2>3, AimTyped
    <3>d. /\ [drive EXCEPT !.starting = FALSE, !.running = TRUE] \in D
          /\ [drive EXCEPT !.starting = FALSE, !.running = TRUE].jogging = drive.jogging
      BY <2>3
    <3>4. r[1] \in Target!Motion /\ r[2] \in D /\ r[2].jogging = drive.jogging
      <4>1. CASE r = <<n, drive>>
        BY <4>1, <3>3, <2>3
      <4>2. CASE r = <<n, [drive EXCEPT !.starting = FALSE, !.running = TRUE]>>
        BY <4>2, <3>3, <3>d
      <4> QED BY <3>2, <4>1, <4>2
    <3> QED BY <3>4, <2>q, <2>4, <2>6
  <2>7. CASE pass = "stop"
    <3>1. r = <<[motion EXCEPT !.go = FALSE], still>>
      BY <2>2, <2>7 DEF Target!Halt
    <3>2. [motion EXCEPT !.go = FALSE] \in Target!Motion
      BY <2>3 DEF Target!Motion
    <3>3. /\ r[1] \in Target!Motion /\ r[2] = still
          /\ ~r[1].go
      BY <3>1, <3>2, <2>3 DEF Target!Motion
    <3> QED
      <4> HIDE DEF still
      <4> QED BY <3>3, <2>3, <2>4
  <2>8. CASE pass = "jog"
    <3>1. PICK m \in Target!Jog(motion) : r = <<m, drive>>
      BY <2>2, <2>8
    <3>2. m \in Target!Motion
      <4>1. PICK t \in {"at", "behind"}, a \in {"none", "segment"} :
              m = [motion EXCEPT !.jog = TRUE, !.go = TRUE, !.rot = t, !.aim = a]
        BY <3>1, <2>3 DEF Target!Jog, Target!Motion
      <4> QED BY <4>1, <2>3 DEF Target!Motion
    <3> QED BY <3>1, <3>2, <2>3, <2>q, <2>4, <2>8
  <2>9. CASE pass = "look"
    <3>1. r = <<motion, drive>>
      BY <2>2, <2>9
    <3> QED BY <3>1, <2>3, <2>q, <2>4
  <2> QED BY <2>1, <2>3, <2>5, <2>6, <2>7, <2>8, <2>9
<1> QED BY <1>1, <1>2 DEF Target!MoveThread

\* What leaves the flags alone and does not start the rotation.
LEMMA GoKept ==
  ASSUME TargetInv, motion' \in Target!Motion, motion'.go => motion.go,
         UNCHANGED <<drive, pass, pause, turn, mode, raced>>
  PROVE  TargetInv'
BY DEF TargetInv, TargetQuiet

LEMMA ProviderStep ==
  ASSUME TargetInv, Target!Provider
  PROVE  TargetInv'
<1>1. motion \in Target!Motion
  BY DEF TargetInv
<1>2. UNCHANGED <<drive, pass, pause, turn, mode, raced>>
  BY DEF Target!Provider, Target!RotationArrives, Target!LinearMoves, Target!HomingEnds,
         Target!AxisFails, Target!ProviderFrame
<1>3. \/ motion' = [motion EXCEPT !.rot = "at"]
      \/ motion' = [motion EXCEPT !.lin = "moving"]
      \/ motion' = [motion EXCEPT !.lin = "at"]
      \/ motion' = [motion EXCEPT !.lin = "due"]
      \/ motion' = [motion EXCEPT !.home = FALSE, !.lin = "due"]
      \/ motion' = [motion EXCEPT !.fault = TRUE]
  BY DEF Target!Provider, Target!RotationArrives, Target!LinearMoves, Target!HomingEnds,
         Target!AxisFails
<1>4. motion' \in Target!Motion /\ motion'.go = motion.go
  BY <1>1, <1>3 DEF Target!Motion
<1> QED BY <1>2, <1>4, GoKept

LEMMA TargetExposureStep ==
  ASSUME TargetInv, Target!Exposure
  PROVE  TargetInv'
<1>1. CASE Target!Preinit
  <2>1. /\ mode' = "preinit" /\ raced' = (drive.jogging \/ pass = "jog" \/ turn # "none")
        /\ UNCHANGED <<motion, pass, turn>> /\ Target!ContinueMove
    BY <1>1 DEF Target!Preinit
  <2>2. /\ drive' \in [running : BOOLEAN, starting : BOOLEAN, jogging : BOOLEAN]
        /\ drive'.jogging = drive.jogging
    BY <2>1, ContinueTyped
  <2>3. raced' \in BOOLEAN
    BY <2>1 DEF TargetInv
  <2> QED BY <2>1, <2>2, <2>3 DEF TargetInv
<1>2. CASE Target!Start
  BY <1>2 DEF Target!Start, TargetInv
<1>3. CASE Target!Stop
  <2>1. /\ pause' = "no" /\ UNCHANGED <<pass, turn>> /\ Target!HaltDrive
        /\ raced' = (raced \/ ~Target!Undecided)
    BY <1>3 DEF Target!Stop
  <2> QED BY <2>1, HaltRests DEF TargetInv, TargetQuiet, Target!Undecided, Target!MidPass
<1> QED BY <1>1, <1>2, <1>3 DEF Target!Exposure

LEMMA OperatorStep ==
  ASSUME TargetInv, Target!Operator
  PROVE  TargetInv'
<1> USE DEF Target!OpFrame
<1>0. motion \in Target!Motion
  BY DEF TargetInv
<1>1. CASE Target!StartMove
  <2>1. /\ raced' = TRUE /\ Target!ContinueMove /\ UNCHANGED <<motion, pass, mode, pause, turn>>
    BY <1>1 DEF Target!StartMove
  <2> QED BY <2>1, ContinueTyped DEF TargetInv
<1>2. CASE Target!StopMove
  <2>1. Target!HaltDrive /\ raced' = (raced \/ ~Target!Undecided) /\ UNCHANGED <<pass, mode, pause, turn>>
    BY <1>2 DEF Target!StopMove
  <2> QED BY <2>1, HaltRests DEF TargetInv, TargetQuiet, Target!Undecided, Target!MidPass
<1>3. CASE Target!SetPath
  <2>1. /\ motion' = [motion EXCEPT !.aim = IF motion.aim = "path" THEN "segment" ELSE motion.aim]
        /\ UNCHANGED <<drive, pass, pause, turn, mode, raced>>
    BY <1>3 DEF Target!SetPath
  <2>2. motion' \in Target!Motion /\ motion'.go = motion.go
    BY <2>1, <1>0 DEF Target!Motion
  <2> QED BY <2>1, <2>2, GoKept
<1>4. CASE Target!ClearError \/ Target!Home
  <2>1. /\ motion' = [motion EXCEPT !.fault = FALSE] \/ motion' = [motion EXCEPT !.home = TRUE]
        /\ UNCHANGED <<drive, pass, pause, turn, mode, raced>>
    BY <1>4 DEF Target!ClearError, Target!Home
  <2>2. motion' \in Target!Motion /\ motion'.go = motion.go
    BY <2>1, <1>0 DEF Target!Motion
  <2> QED BY <2>1, <2>2, GoKept
<1>5. CASE Target!JogWrite
  <2>1. /\ raced' = TRUE /\ drive' = [drive EXCEPT !.jogging = TRUE]
        /\ UNCHANGED <<motion, pass, mode, pause, turn>>
    BY <1>5 DEF Target!JogWrite
  <2> QED BY <2>1 DEF TargetInv
<1> QED BY <1>1, <1>2, <1>3, <1>4, <1>5 DEF Target!Operator

\* An answer changes the mode of a run to its next one, and to idle only from stop.
LEMMA TargetLoopStep ==
  ASSUME TargetInv, Target!MainLoop
  PROVE  TargetInv'
<1> USE DEF Target!LoopFrame
<1>1. CASE Target!DidPreinit \/ Target!DidStart \/ Target!DidStop \/ Target!DidHome
  <2>1. /\ UNCHANGED <<motion, drive, pause, turn, pass, raced>>
        /\ mode' \in {"idle", "stop"} => mode \in {"idle", "stop"}
    BY <1>1 DEF Target!DidPreinit, Target!DidStart, Target!DidStop, Target!DidHome, Target!Answer
  <2> QED BY <2>1 DEF TargetInv, TargetQuiet
<1>2. CASE Target!JogExpires
  <2>1. /\ drive' = [drive EXCEPT !.jogging = FALSE]
        /\ UNCHANGED <<motion, pause, turn, pass, mode, raced>>
    BY <1>2 DEF Target!JogExpires
  <2> QED BY <2>1 DEF TargetInv, TargetQuiet
<1>3. CASE Target!PauseForLoss
  <2>1. /\ Target!HaltDrive /\ turn = "pause" /\ turn' = "none" /\ UNCHANGED <<pass, mode>>
        /\ raced' = (raced \/ Target!MidPass)
    BY <1>3 DEF Target!PauseForLoss, Target!TurnFrame
  <2> QED BY <2>1, HaltRests DEF TargetInv, TargetQuiet, Target!MidPass
<1>4. CASE Target!Resume
  <2>1. /\ drive' = [drive EXCEPT !.starting = TRUE]
        /\ turn = "resume" /\ turn' = "none" /\ UNCHANGED <<motion, pass, mode, raced>>
    BY <1>4 DEF Target!Resume, Target!TurnFrame
  <2> QED BY <2>1 DEF TargetInv, TargetQuiet
<1>5. CASE Target!Resumed
  BY <1>5 DEF Target!Resumed, TargetInv, TargetQuiet
<1>6. CASE Target!TakeTurn
  <2>1. /\ UNCHANGED <<motion, drive, pause, pass, mode, raced>>
        /\ turn' \in {"pause", "resume"} /\ (drive.running \/ pause # "no")
    BY <1>6 DEF Target!TakeTurn, Target!MayPause, Target!MayResume
  <2> QED BY <2>1 DEF TargetInv, TargetQuiet
<1> QED BY <1>1, <1>2, <1>3, <1>4, <1>5, <1>6 DEF Target!MainLoop

LEMMA TargetStep ==
  ASSUME TargetInv, [Target!Next]_Target!vars
  PROVE  TargetInv'
<1>1. CASE Target!Hears
  BY <1>1 DEF Target!Hears, Target!HealthArrives, Target!HealthIsLate, Target!PhaseArrives,
              Target!HearsFrame, TargetInv, TargetQuiet
<1>2. CASE UNCHANGED Target!vars
  BY <1>2 DEF Target!vars, Target!targetVars, TargetInv, TargetQuiet
<1> QED BY <1>1, <1>2, MoveThreadStep, ProviderStep, TargetExposureStep, OperatorStep,
           TargetLoopStep DEF Target!Next

\* Once the stop of a run is answered the target does not turn, and no run or
\* start is under way, unless the stop fell between the two steps of a pass of
\* the move thread or of the main loop's pause or resume, or an operator moved it
\* (TargetMotionController.stop, `__move_thread`, `__update_acquisition_interlock`).
THEOREM StoppedTargetStaysStill == Target!Spec => []StoppedTargetRests
<1>1. TargetInv => StoppedTargetRests
  BY DEF TargetInv, TargetQuiet, StoppedTargetRests, Target!StoppedTargetRests,
         Target!Turning, Target!Busy
<1> QED BY <1>1, TargetInvInit, TargetStep, PTL DEF Target!Spec

-----------------------------------------------------------------------------
(* The laser.  Only three jobs switch it on: the second half of a preinit,   *)
(* which a stopped run no longer waits for; the second half of a test        *)
(* preinit, whose handle waits only while the test is active; and the manual *)
(* switch, after which `__refresh_test_active` sees the light.  What the     *)
(* main loop found dark stays dark until it has answered.                    *)

Lighting == {"preinit_laser", "test_preinit_laser", "laser_on"}

LaserJobs ==
  Laser!Slots \cup {"preinit_laser", "test_preinit_laser", "interlock_close", "interlock_reopen"}

LaserTypes ==
  /\ hw \in Laser!Provider
  /\ handle \in [Laser!Slots -> {"none", "setup", "set"}]
  /\ jobs \in Seq(LaserJobs)
  /\ active \in BOOLEAN /\ test \in BOOLEAN /\ overtaken \in BOOLEAN
  /\ reached \in {"no", "stop", "test_stop"}
  /\ exposure \in {"idle", "preinit", "ready", "start", "running", "stop", "failed"}

ManualCalls == Laser!TestSteps \cup Laser!Switches

LaserHeld ==
  /\ exposure \in {"idle", "stop"} => ~Laser!Waits("preinit")
  /\ \A c, d \in ManualCalls : (Laser!Waits(c) /\ Laser!Waits(d)) => c = d
  /\ Laser!Waits("test_preinit") => test
  /\ (exposure = "idle" /\ hw.laser # "off") => test
  /\ reached # "no" => hw.laser = "off"
  /\ reached = "test_stop" => \A c \in ManualCalls : Laser!Waits(c) => c = "test_stop"

LaserInv ==
  /\ LaserTypes
  /\ exposure = "idle" => ~active
  /\ ~overtaken => LaserHeld

\* What a call of `set_laser_on` may leave.
LEMMA LaserSwitchLeaves ==
  ASSUME NEW h \in Laser!Provider, NEW on \in BOOLEAN, NEW r \in Laser!LaserSwitch(h, on)
  PROVE  \E ok \in BOOLEAN, g \in Laser!Provider :
            r = <<ok, g>> /\ (g.laser \in {h.laser, "off"} \/ (on /\ ok))
<1> DEFINE dark == [h EXCEPT !.laser = "off"]
           lit == [h EXCEPT !.laser = "warming", !.wave = TRUE]
           cut == [dark EXCEPT !.wave = FALSE]
<1>1. dark \in Laser!Provider /\ lit \in Laser!Provider /\ dark.laser = "off"
  BY DEF Laser!Provider
<1>2. cut \in Laser!Provider /\ cut.laser = "off"
  <2> HIDE DEF dark
  <2> QED BY <1>1 DEF Laser!Provider
<1>3. r \in {<<FALSE, h>>, <<TRUE, dark>>, <<FALSE, dark>>, <<FALSE, cut>>} \/ (on /\ r = <<TRUE, lit>>)
  <2>1. CASE on /\ ~h.sync
    BY <2>1 DEF Laser!LaserSwitch
  <2>2. CASE on /\ h.sync
    <3>1. r \in {<<TRUE, lit>>} \cup IF h.wave THEN {} ELSE {<<FALSE, dark>>}
      BY <2>2 DEF Laser!LaserSwitch
    <3> QED BY <3>1, <2>2
  <2>3. CASE ~on
    <3>1. r \in {<<TRUE, dark>>} \cup IF h.wave /\ faults < MaxFaults THEN {<<FALSE, cut>>} ELSE {}
      BY <2>3 DEF Laser!LaserSwitch
    <3> QED BY <3>1
  <2>4. h.sync \in BOOLEAN
    BY DEF Laser!Provider
  <2> QED BY <2>1, <2>2, <2>3, <2>4
<1> HIDE DEF dark, lit, cut
<1> QED BY <1>1, <1>2, <1>3

\* What a call of `set_chopper_on` may leave, the phase that is wanted next,
\* and the frequency that is set: none of them switches the laser.
LEMMA ChopperSwitchLeaves ==
  ASSUME NEW h \in Laser!Provider, NEW on \in BOOLEAN, NEW r \in Laser!ChopperSwitch(h, on)
  PROVE  \E ok \in BOOLEAN, g \in Laser!Provider : r = <<ok, g>> /\ g.laser = h.laser
<1> DEFINE spun == [h EXCEPT !.spin = TRUE, !.sync = FALSE]
           halted == [h EXCEPT !.spin = FALSE, !.sync = FALSE]
<1>1. /\ spun \in Laser!Provider /\ halted \in Laser!Provider
      /\ spun.laser = h.laser /\ halted.laser = h.laser
  BY DEF Laser!Provider
<1>2. r \in {<<TRUE, spun>>, <<FALSE, spun>>, <<TRUE, halted>>}
  <2>1. CASE on
    <3>1. r \in {<<ok, spun>> : ok \in BOOLEAN}
      BY <2>1 DEF Laser!ChopperSwitch
    <3> QED BY <3>1
  <2>2. CASE ~on
    BY <2>2 DEF Laser!ChopperSwitch
  <2> QED BY <2>1, <2>2
<1> HIDE DEF spun, halted
<1> QED BY <1>1, <1>2

LEMMA PhaseKeepsTheLaser ==
  ASSUME NEW h \in Laser!Provider, NEW p \in Laser!Phases
  PROVE  /\ Laser!WithPhase(h, p) \in Laser!Provider /\ Laser!WithPhase(h, p).laser = h.laser
         /\ Laser!ResetPhase(h) \in Laser!Provider /\ Laser!ResetPhase(h).laser = h.laser
BY DEF Laser!WithPhase, Laser!ResetPhase, Laser!Provider, Laser!Phases

LEMMA FrequencyKeepsTheLaser ==
  ASSUME NEW h \in Laser!Provider, NEW g \in Laser!FrequencySet(h)
  PROVE  g \in Laser!Provider /\ g.laser = h.laser
<1>1. PICK s \in {FALSE, h.sync} : g = [h EXCEPT !.sync = s]
  BY DEF Laser!FrequencySet
<1>2. s \in BOOLEAN
  BY DEF Laser!Provider
<1> QED BY <1>1, <1>2 DEF Laser!Provider

\* `set_laser_on`, and the phase that is wanted after it.
PhaseAfter(q, r) ==
  \/ r = (IF q[1] THEN <<TRUE, Laser!WithPhase(q[2], "preinit")>> ELSE q)
  \/ r = (IF q[1] THEN <<TRUE, Laser!ResetPhase(q[2])>> ELSE q)

LEMMA SwitchAndPhaseLeaves ==
  ASSUME NEW h \in Laser!Provider, NEW on \in BOOLEAN, NEW q \in Laser!LaserSwitch(h, on),
         NEW r, PhaseAfter(q, r)
  PROVE  \E ok \in BOOLEAN, g \in Laser!Provider :
            r = <<ok, g>> /\ (g.laser \in {h.laser, "off"} \/ (on /\ ok))
<1>2. PICK ok \in BOOLEAN, g \in Laser!Provider :
        q = <<ok, g>> /\ (g.laser \in {h.laser, "off"} \/ (on /\ ok))
  BY LaserSwitchLeaves
<1>3. "preinit" \in Laser!Phases
  BY DEF Laser!Phases
<1> QED BY <1>2, <1>3, PhaseKeepsTheLaser DEF PhaseAfter

\* A job leaves the laser as it was, or dark, unless it is one of the three that
\* switch it on and it did not fail.
LEMMA JobLeaves ==
  ASSUME LaserTypes, NEW job \in LaserJobs \ {"interlock_close", "interlock_reopen"},
         NEW r \in Laser!Results(job)
  PROVE  \E ok \in BOOLEAN, g \in Laser!Provider :
            r = <<ok, g>> /\ (g.laser \in {hw.laser, "off"} \/ (job \in Lighting /\ ok))
<1> DEFINE Goal == \E ok \in BOOLEAN, g \in Laser!Provider :
            r = <<ok, g>> /\ (g.laser \in {hw.laser, "off"} \/ (job \in Lighting /\ ok))
<1> SUFFICES Goal
  OBVIOUS
<1>0. hw \in Laser!Provider
  BY DEF LaserTypes
<1>a. ASSUME NEW on \in BOOLEAN, on => job \in Lighting, r \in Laser!LaserSwitch(hw, on)
      PROVE  Goal
  BY <1>0, <1>a, LaserSwitchLeaves
<1>1. ASSUME NEW on \in BOOLEAN, on => job \in Lighting, NEW q \in Laser!LaserSwitch(hw, on),
             PhaseAfter(q, r)
      PROVE  Goal
  <2>1. \E ok \in BOOLEAN, g \in Laser!Provider :
          r = <<ok, g>> /\ (g.laser \in {hw.laser, "off"} \/ (on /\ ok))
    BY <1>0, <1>1, SwitchAndPhaseLeaves
  <2> QED BY <2>1, <1>1
<1>2. ASSUME NEW on \in BOOLEAN, NEW h \in Laser!Provider, h.laser = hw.laser,
             r \in Laser!ChopperSwitch(h, on)
      PROVE  Goal
  BY <1>0, <1>2, ChopperSwitchLeaves
<1>3. ASSUME NEW p \in Laser!Phases, r = <<TRUE, Laser!WithPhase(hw, p)>>
      PROVE  Goal
  BY <1>0, <1>3, PhaseKeepsTheLaser
<1>4. {"preinit", "target"} \subseteq Laser!Phases
  BY DEF Laser!Phases
<1> HIDE DEF Goal
<1> USE DEF Laser!Results, Laser!Served, Lighting, Laser!Lifecycle, Laser!TestSteps, Laser!Switches
<1>5. CASE job = "preinit"
  <2>1. r \in UNION {Laser!ChopperSwitch(g, TRUE) : g \in Laser!FrequencySet(hw)}
    BY <1>5 DEF Laser!LifecycleJob, Laser!Then, PhaseAfter
  <2>2. PICK g \in Laser!FrequencySet(hw) : r \in Laser!ChopperSwitch(g, TRUE)
    BY <2>1
  <2> QED BY <2>2, <1>0, <1>2, FrequencyKeepsTheLaser
<1>6. CASE job \in {"preinit_laser", "start", "stop"}
  <2>1. \/ \E q \in Laser!LaserSwitch(hw, TRUE) :
             PhaseAfter(q, r) /\ job = "preinit_laser"
        \/ r = <<TRUE, Laser!WithPhase(hw, "target")>>
        \/ \E q \in Laser!LaserSwitch(hw, FALSE) :
             PhaseAfter(q, r)
    BY <1>6 DEF Laser!LifecycleJob, Laser!Then, PhaseAfter
  <2> QED BY <2>1, <1>1, <1>3, <1>4
<1>7. CASE job \in {"test_preinit", "test_preinit_laser", "test_init", "test_stop"}
  <2>1. \/ r \in Laser!ChopperSwitch(hw, TRUE)
        \/ \E q \in Laser!LaserSwitch(hw, TRUE) :
             PhaseAfter(q, r) /\ job = "test_preinit_laser"
        \/ r = <<TRUE, Laser!WithPhase(hw, "target")>>
        \/ \E q \in Laser!LaserSwitch(hw, FALSE) :
             PhaseAfter(q, r)
    BY <1>7 DEF Laser!TestStepJob, Laser!Then, PhaseAfter
  <2> QED BY <2>1, <1>0, <1>1, <1>2, <1>3, <1>4 DEF Lighting
<1>8. CASE job \in Laser!Switches
  <2>1. \/ r \in Laser!LaserSwitch(hw, TRUE) /\ job = "laser_on"
        \/ \E q \in Laser!LaserSwitch(hw, FALSE) :
             PhaseAfter(q, r)
        \/ r \in Laser!ChopperSwitch(hw, TRUE)
        \/ r \in Laser!ChopperSwitch(hw, FALSE)
        \/ \E p \in Laser!Phases : r = <<TRUE, Laser!WithPhase(hw, p)>>
    BY <1>8 DEF Laser!SwitchJob, Laser!Then, PhaseAfter
  <2> QED BY <2>1, <1>0, <1>a, <1>1, <1>2, <1>3
<1>9. CASE job \in Laser!Exposures
  <2>1. r = <<TRUE, Laser!WithPhase(hw, "target")>> \/ r = <<TRUE, Laser!WithPhase(hw, "preinit")>>
    BY <1>9 DEF Laser!Exposures, Laser!ControlJob
  <2> QED BY <2>1, <1>3, <1>4
<1> QED BY <1>5, <1>6, <1>7, <1>8, <1>9 DEF Goal, LaserJobs, Laser!Slots

LEMMA LaserInvInit == Laser!Init => LaserInv
<1> SUFFICES ASSUME Laser!Init PROVE LaserInv
  OBVIOUS
<1>1. hw \in Laser!Provider /\ hw.laser = "off"
  BY DEF Laser!Init, Laser!Provider, Laser!Phases
<1>2. /\ handle \in [Laser!Slots -> {"none", "setup", "set"}]
      /\ \A c \in Laser!Slots : handle[c] = "none"
  BY DEF Laser!Init
<1>3. jobs \in Seq(LaserJobs)
  BY DEF Laser!Init
<1>4. active = FALSE /\ test = FALSE /\ overtaken = FALSE /\ exposure = "idle" /\ reached = "no"
  BY DEF Laser!Init
<1>5. "preinit" \in Laser!Slots /\ "test_preinit" \in ManualCalls /\ ManualCalls \subseteq Laser!Slots
  BY DEF Laser!Slots, Laser!Lifecycle, ManualCalls, Laser!TestSteps
<1> QED BY <1>1, <1>2, <1>3, <1>4, <1>5 DEF LaserInv, LaserTypes, LaserHeld, Laser!Waits

LEMMA SlotNames ==
  /\ "preinit" \in Laser!Slots /\ "test_preinit" \in ManualCalls
  /\ ManualCalls \subseteq Laser!Slots /\ "preinit" \notin ManualCalls
  /\ ManualCalls \cap (Laser!Lifecycle \cup Laser!Exposures) = {}
BY DEF Laser!Slots, Laser!Lifecycle, ManualCalls, Laser!TestSteps, Laser!Switches, Laser!Exposures

\* What asks for nothing new and leaves a dark laser dark.
LEMMA LightKept ==
  ASSUME LaserInv, LaserTypes', UNCHANGED <<active, test, reached, overtaken, exposure>>,
         \A c \in Laser!Slots : handle'[c] # "none" => handle[c] # "none",
         hw'.laser # "off" => hw.laser # "off"
  PROVE  LaserInv'
BY SlotNames DEF LaserInv, LaserHeld, Laser!Waits

LEMMA JobsTyped ==
  /\ jobs \in Seq(LaserJobs) /\ jobs # << >>
       => Tail(jobs) \in Seq(LaserJobs) /\ Head(jobs) \in LaserJobs
  /\ \A j \in LaserJobs : jobs \in Seq(LaserJobs) => Append(jobs, j) \in Seq(LaserJobs)
BY HeadTailProperties, AppendProperties

LEMMA InstrumentsStep ==
  ASSUME LaserInv, Laser!Instruments
  PROVE  LaserInv'
<1>1. hw \in Laser!Provider
  BY DEF LaserInv, LaserTypes
<1>2. UNCHANGED <<handle, jobs, active, test, reached, overtaken, exposure>>
  BY DEF Laser!Instruments, Laser!Shutdown, Laser!Reconnect, Laser!WarmedUp, Laser!PhaseMoves,
         Laser!ChopperLocks, Laser!ChopperFails, Laser!GeneratorFails, Laser!ProviderFrame
<1>3. \/ hw' = [hw EXCEPT !.laser = "off"]
      \/ hw' = [hw EXCEPT !.wave = TRUE]
      \/ hw' = [hw EXCEPT !.laser = "on"] /\ hw.laser = "warming"
      \/ hw' = [hw EXCEPT !.phase = hw.want]
      \/ hw' = [hw EXCEPT !.sync = TRUE]
      \/ hw' = [hw EXCEPT !.sync = FALSE]
      \/ hw' = [hw EXCEPT !.wave = FALSE, !.laser = "off"]
  BY DEF Laser!Instruments, Laser!Shutdown, Laser!Reconnect, Laser!WarmedUp, Laser!PhaseMoves,
         Laser!ChopperLocks, Laser!ChopperFails, Laser!GeneratorFails
<1>4. hw' \in Laser!Provider /\ (hw'.laser # "off" => hw.laser # "off")
  BY <1>1, <1>3 DEF Laser!Provider
<1>5. LaserTypes'
  BY <1>2, <1>4 DEF LaserInv, LaserTypes
<1> QED BY <1>2, <1>4, <1>5, LightKept

LEMMA RunCallJobStep ==
  ASSUME LaserInv, Laser!RunCallJob
  PROVE  LaserInv'
<1> DEFINE job == Head(jobs)
           c == Laser!Served(job)
<1>1. /\ job \in LaserJobs \ {"timed", "interlock_close", "interlock_reopen"}
      /\ jobs' = Tail(jobs) /\ jobs' \in Seq(LaserJobs)
  BY JobsTyped DEF Laser!RunCallJob, LaserInv, LaserTypes
<1>2. /\ c \in Laser!Slots
      /\ job = "preinit_laser" => c = "preinit"
      /\ job = "test_preinit_laser" => c = "test_preinit"
      /\ job = "laser_on" => c = "laser_on"
  BY <1>1 DEF Laser!Served, LaserJobs, Laser!Slots, Laser!Lifecycle, Laser!TestSteps
<1>3. CASE ~Laser!Waits(c)
  <2>1. UNCHANGED <<hw, handle, active, test, reached, exposure, overtaken>>
    BY <1>3 DEF Laser!RunCallJob
  <2>2. LaserTypes'
    BY <2>1, <1>1 DEF LaserInv, LaserTypes
  <2> QED BY <2>1, <2>2, LightKept
<1>4. CASE Laser!Waits(c)
  <2>1. PICK r \in Laser!Results(job) :
          /\ hw' = r[2]
          /\ handle' = [handle EXCEPT ![c] =
               IF r[1] /\ c \in Laser!Lifecycle \cup Laser!TestSteps THEN "set" ELSE "none"]
          /\ active' = (active /\ (r[1] \/ c # "preinit"))
          /\ test' = CASE r[1] /\ c \in Laser!Switches -> Laser!StillTesting(hw', handle')
                       [] ~r[1] /\ c \in {"test_preinit", "test_init"} -> FALSE
                       [] OTHER -> test
          /\ exposure' = IF ~r[1] /\ c = exposure THEN "failed" ELSE exposure
          /\ overtaken' = \/ overtaken
                          \/ ~r[1] /\ c \in Laser!TestSteps /\ hw'.laser # "off"
                          \/ reached # "no" /\ ~Laser!LaserOn /\ hw'.laser # "off"
    BY <1>4, Zenon DEF Laser!RunCallJob
  <2>2. PICK ok \in BOOLEAN, g \in Laser!Provider :
          r = <<ok, g>> /\ (g.laser \in {hw.laser, "off"} \/ (job \in Lighting /\ ok))
    BY <1>1, <2>1, JobLeaves DEF LaserInv
  <2>3. PICK v \in {"none", "set"} : handle' = [handle EXCEPT ![c] = v]
    BY <2>1
  <2>4. /\ handle' \in [Laser!Slots -> {"none", "setup", "set"}]
        /\ \A d \in Laser!Slots : handle'[d] # "none" => handle[d] # "none"
    BY <2>3, <1>2, <1>4 DEF LaserInv, LaserTypes, Laser!Waits
  <2>5. /\ hw' = g /\ active' = (active /\ (ok \/ c # "preinit"))
        /\ exposure' = IF ~ok /\ c = exposure THEN "failed" ELSE exposure
        /\ overtaken' = \/ overtaken
                        \/ ~ok /\ c \in Laser!TestSteps /\ hw'.laser # "off"
                        \/ reached # "no" /\ ~Laser!LaserOn /\ hw'.laser # "off"
        /\ UNCHANGED reached
    BY <2>1, <2>2 DEF Laser!RunCallJob
  <2>6. /\ (ok /\ c \in Laser!Switches) => test' = Laser!StillTesting(hw', handle')
        /\ (~ok /\ c \in {"test_preinit", "test_init"}) => test' = FALSE
        /\ (~(ok /\ c \in Laser!Switches) /\ ~(~ok /\ c \in {"test_preinit", "test_init"}))
              => test' = test
    <3>1. r[1] = ok
      BY <2>2
    <3>2. c \in Laser!Switches => c \notin {"test_preinit", "test_init"}
      BY DEF Laser!Switches
    <3>3. test' = CASE ok /\ c \in Laser!Switches -> Laser!StillTesting(hw', handle')
                    [] ~ok /\ c \in {"test_preinit", "test_init"} -> FALSE
                    [] OTHER -> test
      BY <2>1, <3>1
    <3> HIDE DEF c
    <3> QED BY <3>2, <3>3
  <2>7. test' \in BOOLEAN
    BY <2>6 DEF LaserInv, LaserTypes, Laser!StillTesting
  <2>8. LaserTypes'
    BY <1>1, <2>4, <2>5, <2>7 DEF LaserInv, LaserTypes
  <2>9. exposure' = "idle" => exposure = "idle" /\ ~active'
    BY <2>5 DEF LaserInv
  <2>10. ASSUME ~overtaken'
         PROVE  LaserHeld'
    <3>1. ~overtaken /\ LaserHeld
      BY <2>10, <2>5 DEF LaserInv, LaserTypes
    <3>2. exposure' \in {"idle", "stop"} => handle'["preinit"] = "none"
      BY <3>1, <2>4, <2>5, SlotNames DEF LaserHeld, Laser!Waits
    <3>3. \A d, e \in ManualCalls : (handle'[d] # "none" /\ handle'[e] # "none") => d = e
      BY <3>1, <2>4, SlotNames DEF LaserHeld, Laser!Waits
    <3>4. ASSUME handle'["test_preinit"] # "none" PROVE test'
      <4>1. handle["test_preinit"] # "none" /\ test
        BY <3>1, <3>4, <2>4, SlotNames DEF LaserHeld, Laser!Waits
      <4>2. c \in ManualCalls => c = "test_preinit"
        BY <3>1, <4>1, <1>4, SlotNames DEF LaserHeld, Laser!Waits
      <4>3. c # "test_preinit" \/ ok
        <5>1. ASSUME c = "test_preinit", ~ok PROVE FALSE
          <6>1. handle' = [handle EXCEPT ![c] = "none"]
            BY <2>1, <2>2, <5>1
          <6> QED BY <6>1, <5>1, <3>4, <1>2 DEF LaserInv, LaserTypes
        <5> QED BY <5>1
      <4>4. c \notin Laser!Switches /\ c # "test_init"
        BY <4>2 DEF ManualCalls, Laser!Switches, Laser!TestSteps
      <4> QED BY <2>6, <4>1, <4>3, <4>4
    <3>5. ASSUME exposure' = "idle", hw'.laser # "off" PROVE test'
      <4>1. exposure = "idle" /\ ~active /\ ~active'
        BY <3>5, <2>9 DEF LaserInv
      <4>2. CASE ok /\ c \in Laser!Switches
        BY <4>1, <4>2, <2>6, <3>5 DEF Laser!StillTesting
      <4>3. CASE ~ok /\ c \in {"test_preinit", "test_init"}
        BY <4>3, <2>5, <2>10, <3>5 DEF Laser!TestSteps
      <4>4. CASE ~(ok /\ c \in Laser!Switches) /\ ~(~ok /\ c \in {"test_preinit", "test_init"})
        <5>1. test' = test
          BY <4>4, <2>6
        <5>2. CASE g.laser \in {hw.laser, "off"}
          BY <5>1, <5>2, <2>5, <3>1, <3>5, <4>1 DEF LaserHeld
        <5>3. CASE job \in Lighting /\ ok
          <6>1. c # "preinit"
            BY <1>4, <3>1, <4>1 DEF LaserHeld
          <6>2. c \notin Laser!Switches
            BY <4>4, <5>3
          <6>3. c = "test_preinit"
            BY <5>3, <6>1, <6>2, <1>2 DEF Lighting, Laser!Switches
          <6> QED BY <6>3, <1>4, <3>1, <5>1 DEF LaserHeld
        <5> QED BY <5>2, <5>3, <2>2
      <4> QED BY <4>2, <4>3, <4>4
    <3>6. reached' # "no" => hw'.laser = "off"
      BY <2>5, <2>10, <3>1 DEF LaserHeld, Laser!LaserOn
    <3>7. reached' = "test_stop" => \A d \in ManualCalls : handle'[d] # "none" => d = "test_stop"
      BY <2>4, <2>5, <3>1, SlotNames DEF LaserHeld, Laser!Waits
    <3> QED BY <3>2, <3>3, <3>4, <3>5, <3>6, <3>7 DEF LaserHeld, Laser!Waits
  <2> QED BY <2>8, <2>9, <2>10 DEF LaserInv
<1> QED BY <1>3, <1>4

\* The other steps of the worker only move the phase.
LEMMA OtherWorkStep ==
  ASSUME LaserInv,
         Laser!BeginShot \/ Laser!AdvanceShot \/ Laser!InterlockClose \/ Laser!InterlockReopen
  PROVE  LaserInv'
<1>1. UNCHANGED <<active, test, reached, overtaken, exposure>>
  BY DEF Laser!BeginShot, Laser!AdvanceShot, Laser!InterlockClose, Laser!InterlockReopen
<1>2. hw' = hw \/ \E p \in Laser!Phases : hw' = Laser!WithPhase(hw, p)
  BY DEF Laser!BeginShot, Laser!AdvanceShot, Laser!InterlockClose, Laser!InterlockReopen, Laser!Phases
<1>3. hw' \in Laser!Provider /\ hw'.laser = hw.laser
  BY <1>2, PhaseKeepsTheLaser DEF LaserInv, LaserTypes
<1>4. handle' = handle \/ handle' = [handle EXCEPT !["timed"] = "none"]
  BY DEF Laser!BeginShot, Laser!AdvanceShot, Laser!InterlockClose, Laser!InterlockReopen
<1>5. /\ handle' \in [Laser!Slots -> {"none", "setup", "set"}]
      /\ \A d \in Laser!Slots : handle'[d] # "none" => handle[d] # "none"
  BY <1>4 DEF LaserInv, LaserTypes
<1>6. jobs' = jobs \/ (jobs # << >> /\ jobs' = Tail(jobs))
  BY DEF Laser!BeginShot, Laser!AdvanceShot, Laser!InterlockClose, Laser!InterlockReopen
<1>7. LaserTypes'
  BY <1>1, <1>3, <1>5, <1>6, JobsTyped DEF LaserInv, LaserTypes
<1> QED BY <1>1, <1>3, <1>5, <1>7, LightKept

\* An answer clears a handle; the stop is answered in the dark.
LEMMA LaserLoopStep ==
  ASSUME LaserInv, Laser!MainLoop
  PROVE  LaserInv'
<1> USE DEF Laser!Enqueue
<1>1. /\ jobs \in Seq(LaserJobs) /\ hw \in Laser!Provider
      /\ handle \in [Laser!Slots -> {"none", "setup", "set"}]
  BY DEF LaserInv, LaserTypes
<1>2. CASE Laser!AskClose \/ Laser!AskReopen
  <2>1. /\ UNCHANGED <<hw, handle, active, test, reached, exposure, overtaken>>
        /\ jobs' = Append(jobs, "interlock_close") \/ jobs' = Append(jobs, "interlock_reopen")
    BY <1>2 DEF Laser!AskClose, Laser!AskReopen
  <2>2. jobs' \in Seq(LaserJobs)
    BY <1>1, <2>1, JobsTyped DEF LaserJobs
  <2>3. LaserTypes'
    BY <2>1, <2>2 DEF LaserInv, LaserTypes
  <2> QED BY <2>1, <2>3, LightKept
<1>3. ASSUME NEW c \in Laser!Slots, handle' = [handle EXCEPT ![c] = "none"]
      PROVE  /\ handle' \in [Laser!Slots -> {"none", "setup", "set"}]
             /\ \A d \in Laser!Slots : handle'[d] # "none" => handle[d] # "none"
             /\ handle'[c] = "none"
  BY <1>1, <1>3
<1>4. ASSUME NEW c \in {"preinit", "test_preinit"}, NEW j \in {"preinit_laser", "test_preinit_laser"},
             Laser!AdvancePreinit(c, j)
      PROVE  LaserInv'
  <2>1. c \in Laser!Slots /\ j \in LaserJobs
    BY DEF Laser!Slots, Laser!Lifecycle, Laser!TestSteps, LaserJobs
  <2>2. UNCHANGED <<hw, active, test, reached, overtaken>> /\ handle[c] = "set"
    BY <1>4 DEF Laser!AdvancePreinit
  <2>3. CASE handle' = [handle EXCEPT ![c] = "setup"] /\ jobs' = Append(jobs, j) /\ UNCHANGED exposure
    <3>1. /\ handle' \in [Laser!Slots -> {"none", "setup", "set"}]
          /\ \A d \in Laser!Slots : handle'[d] # "none" => handle[d] # "none"
      BY <1>1, <2>1, <2>2, <2>3
    <3>2. jobs' \in Seq(LaserJobs)
      BY <1>1, <2>1, <2>3, JobsTyped
    <3>3. LaserTypes'
      BY <2>2, <2>3, <3>1, <3>2 DEF LaserInv, LaserTypes
    <3> QED BY <2>2, <2>3, <3>1, <3>3, LightKept
  <2>4. CASE /\ handle' = [handle EXCEPT ![c] = "none"] /\ UNCHANGED jobs
             /\ exposure' = IF exposure = c THEN "ready" ELSE exposure
    <3>1. /\ handle' \in [Laser!Slots -> {"none", "setup", "set"}]
          /\ \A d \in Laser!Slots : handle'[d] # "none" => handle[d] # "none"
      BY <1>3, <2>1, <2>4
    <3>2. LaserTypes'
      BY <2>2, <2>4, <3>1 DEF LaserInv, LaserTypes
    <3>3. exposure' \in {"idle", "stop"} => exposure = exposure'
      BY <2>4
    <3> QED BY <2>2, <3>1, <3>2, <3>3, SlotNames DEF LaserInv, LaserHeld, Laser!Waits
  <2> QED BY <1>4, <2>3, <2>4 DEF Laser!AdvancePreinit, Laser!Answered
<1>5. ASSUME NEW c \in {"start", "test_init"}, Laser!AdvanceStart(c)
      PROVE  LaserInv'
  <2>1. c \in Laser!Slots
    BY DEF Laser!Slots, Laser!Lifecycle, Laser!TestSteps
  <2>2. /\ UNCHANGED <<hw, jobs, active, test, reached, overtaken>>
        /\ handle' = [handle EXCEPT ![c] = "none"]
        /\ exposure' = IF exposure = c THEN "running" ELSE exposure
    BY <1>5 DEF Laser!AdvanceStart, Laser!Answered
  <2>3. /\ handle' \in [Laser!Slots -> {"none", "setup", "set"}]
        /\ \A d \in Laser!Slots : handle'[d] # "none" => handle[d] # "none"
    BY <1>3, <2>1, <2>2
  <2>4. LaserTypes'
    BY <2>2, <2>3 DEF LaserInv, LaserTypes
  <2>5. exposure' \in {"idle", "stop"} => exposure = exposure'
    BY <2>2
  <2> QED BY <2>2, <2>3, <2>4, <2>5, SlotNames DEF LaserInv, LaserHeld, Laser!Waits
<1>6. CASE Laser!AdvanceStop
  <2>1. /\ UNCHANGED <<hw, jobs, test, overtaken>> /\ active' = FALSE
        /\ reached = "stop" /\ reached' = "no"
        /\ handle' = [handle EXCEPT !["stop"] = "none"]
        /\ exposure' = IF exposure = "stop" THEN "idle" ELSE exposure
    BY <1>6 DEF Laser!AdvanceStop, Laser!Answered
  <2>2. "stop" \in Laser!Slots
    BY DEF Laser!Slots, Laser!Lifecycle
  <2>3. /\ handle' \in [Laser!Slots -> {"none", "setup", "set"}]
        /\ \A d \in Laser!Slots : handle'[d] # "none" => handle[d] # "none"
    BY <1>3, <2>1, <2>2
  <2>4. LaserTypes'
    BY <2>1, <2>3 DEF LaserInv, LaserTypes
  <2>5. exposure' \in {"idle", "stop"} => exposure \in {"idle", "stop"}
    BY <2>1
  <2> QED BY <2>1, <2>3, <2>4, <2>5, SlotNames DEF LaserInv, LaserHeld, Laser!Waits
<1>7. CASE Laser!AdvanceTestStop
  <2>1. /\ UNCHANGED <<hw, jobs, active, overtaken>> /\ test' = FALSE
        /\ reached = "test_stop" /\ reached' = "no"
        /\ handle' = [handle EXCEPT !["test_stop"] = "none"]
        /\ exposure' = IF exposure = "test_stop" THEN "idle" ELSE exposure
    BY <1>7 DEF Laser!AdvanceTestStop, Laser!Answered
  <2>2. "test_stop" \in Laser!Slots /\ "test_stop" \in ManualCalls
    BY DEF Laser!Slots, Laser!TestSteps, ManualCalls
  <2>3. /\ handle' \in [Laser!Slots -> {"none", "setup", "set"}]
        /\ \A d \in Laser!Slots : handle'[d] # "none" => handle[d] # "none"
    BY <1>3, <2>1, <2>2
  <2>4. exposure' = exposure
    BY <2>1 DEF LaserInv, LaserTypes
  <2>5. LaserTypes'
    BY <2>1, <2>3, <2>4 DEF LaserInv, LaserTypes
  <2>6. ~overtaken => handle["test_preinit"] = "none"
    BY <2>1, <2>2, SlotNames DEF LaserInv, LaserHeld, Laser!Waits
  <2> QED BY <2>1, <2>3, <2>4, <2>5, <2>6, SlotNames DEF LaserInv, LaserHeld, Laser!Waits
<1>8. ASSUME NEW c \in {"stop", "test_stop"}, Laser!SeeStopped(c)
      PROVE  LaserInv'
  <2>1. /\ UNCHANGED <<hw, handle, jobs, active, test, exposure, overtaken>>
        /\ reached' = c /\ hw.laser = "off" /\ handle[c] = "set"
    BY <1>8 DEF Laser!SeeStopped, Laser!StopReached, Laser!LaserOn
  <2>2. LaserTypes'
    BY <2>1 DEF LaserInv, LaserTypes
  <2>3. "test_stop" \in ManualCalls
    BY DEF ManualCalls, Laser!TestSteps
  <2>4. ~overtaken' => LaserHeld'
    BY <2>1, <2>3, Zenon DEF LaserInv, LaserHeld, Laser!Waits
  <2> QED BY <2>1, <2>2, <2>4 DEF LaserInv
<1> QED BY <1>2, <1>4, <1>5, <1>6, <1>7, <1>8 DEF Laser!MainLoop

\* A callback stores a handle and queues a job.
LEMMA AskTyped ==
  ASSUME LaserInv, NEW c \in Laser!Slots, Laser!Ask(c)
  PROVE  /\ handle' \in [Laser!Slots -> {"none", "setup", "set"}] /\ jobs' \in Seq(LaserJobs)
         /\ \A d \in Laser!Slots : d # c => handle'[d] = handle[d]
<1>1. /\ handle' = [handle EXCEPT ![c] = "setup"] /\ jobs' = Append(jobs, c)
      /\ c \in LaserJobs
  BY DEF Laser!Ask, Laser!Enqueue, LaserJobs
<1> QED BY <1>1, JobsTyped DEF LaserInv, LaserTypes

LEMMA CallbacksStep ==
  ASSUME LaserInv, Laser!Callbacks
  PROVE  LaserInv'
<1> USE DEF Laser!Waits
<1>0. hw \in Laser!Provider
  BY DEF LaserInv, LaserTypes
<1>1. CASE Laser!Preinit
  <2>1. /\ exposure' = "preinit" /\ active' = TRUE /\ Laser!Ask("preinit")
        /\ overtaken' = (overtaken /\ reached # "no")
        /\ UNCHANGED <<hw, test, reached>>
        /\ \A c \in ManualCalls : handle[c] = "none"
    BY <1>1 DEF Laser!Preinit, Laser!TestInProgress, ManualCalls
  <2>2. LaserTypes'
    BY <2>1, AskTyped, SlotNames DEF LaserInv, LaserTypes
  <2>3. \A c \in ManualCalls : handle'[c] = "none"
    BY <2>1, AskTyped, SlotNames
  <2> QED BY <2>1, <2>2, <2>3, SlotNames DEF LaserInv, LaserHeld
<1>2. CASE Laser!Start
  <2>1. /\ exposure' = "start" /\ Laser!Ask("start")
        /\ UNCHANGED <<hw, active, test, reached, overtaken>>
        /\ "start" \in Laser!Slots /\ "start" \notin ManualCalls
    BY <1>2 DEF Laser!Start, Laser!Slots, Laser!Lifecycle, ManualCalls, Laser!TestSteps, Laser!Switches
  <2>2. LaserTypes'
    BY <2>1, AskTyped DEF LaserInv, LaserTypes
  <2>3. \A c \in ManualCalls : handle'[c] = handle[c]
    BY <2>1, AskTyped, SlotNames
  <2> QED BY <2>1, <2>2, <2>3, SlotNames DEF LaserInv, LaserHeld
<1>3. CASE Laser!Stop
  <2>1. /\ exposure' = "stop" /\ Laser!Ask("stop") /\ UNCHANGED <<hw, active, test, reached>>
        /\ overtaken' = (overtaken \/ handle["preinit"] # "none")
        /\ "stop" \in Laser!Slots /\ "stop" \notin ManualCalls
    BY <1>3 DEF Laser!Stop, Laser!Slots, Laser!Lifecycle, ManualCalls, Laser!TestSteps, Laser!Switches
  <2>2. overtaken' \in BOOLEAN
    BY <2>1 DEF LaserInv, LaserTypes
  <2>3. LaserTypes'
    BY <2>1, <2>2, AskTyped DEF LaserInv, LaserTypes
  <2>4. /\ \A c \in ManualCalls : handle'[c] = handle[c]
        /\ handle'["preinit"] = handle["preinit"]
    BY <2>1, AskTyped, SlotNames
  <2> QED BY <2>1, <2>2, <2>3, <2>4, SlotNames DEF LaserInv, LaserHeld
<1>4. ASSUME NEW c \in Laser!Slots, Laser!TestCall(c)
      PROVE  LaserInv'
  <2>1. /\ c \in ManualCalls /\ Laser!Ask(c) /\ UNCHANGED <<hw, active, reached, exposure>>
        /\ test' = (test \/ c \in {"test_preinit", "test_init"})
        /\ overtaken' = \/ overtaken \/ reached = "test_stop"
                        \/ \E d \in ManualCalls : handle[d] # "none"
    BY <1>4 DEF Laser!TestCall, ManualCalls, Laser!TestInProgress
  <2>2. overtaken' \in BOOLEAN /\ test' \in BOOLEAN
    BY <2>1 DEF LaserInv, LaserTypes
  <2>3. LaserTypes'
    BY <2>1, <2>2, AskTyped DEF LaserInv, LaserTypes
  <2>4. \A d \in Laser!Slots : d # c => handle'[d] = handle[d]
    BY <2>1, AskTyped
  <2>5. ASSUME ~overtaken'
        PROVE  LaserHeld'
    <3>1. LaserHeld /\ \A d \in ManualCalls : handle[d] = "none"
      BY <2>1, <2>5 DEF LaserInv
    <3>2. \A d \in ManualCalls : d # c => handle'[d] = "none"
      BY <3>1, <2>4, SlotNames
    <3>3. handle'["preinit"] = handle["preinit"]
      BY <2>1, <2>4, SlotNames
    <3>4. handle'["test_preinit"] # "none" => test'
      BY <3>2, <2>1, SlotNames
    <3>5. test => test'
      BY <2>1
    <3>6. reached' # "test_stop"
      BY <2>1, <2>5
    <3> QED BY <2>1, <3>1, <3>2, <3>3, <3>4, <3>5, <3>6 DEF LaserHeld
  <2> QED BY <2>1, <2>3, <2>5 DEF LaserInv
<1>5. ASSUME NEW c \in Laser!Slots, Laser!ExposureCall(c)
      PROVE  LaserInv'
  <2>1. /\ c \in Laser!Exposures /\ Laser!Ask(c)
        /\ UNCHANGED <<hw, active, test, reached, exposure, overtaken>>
    BY <1>5 DEF Laser!ExposureCall
  <2>2. LaserTypes'
    BY <2>1, AskTyped DEF LaserInv, LaserTypes
  <2>3. c \notin ManualCalls /\ c # "preinit"
    BY <2>1, SlotNames DEF Laser!Exposures
  <2>4. /\ \A d \in ManualCalls : handle'[d] = handle[d]
        /\ handle'["preinit"] = handle["preinit"]
    BY <2>1, <2>3, AskTyped, SlotNames
  <2> QED BY <2>1, <2>2, <2>4, SlotNames DEF LaserInv, LaserHeld
<1>6. ASSUME UNCHANGED <<handle, jobs, active, test, reached, exposure, overtaken>>,
             hw' \in Laser!Provider, hw'.laser = hw.laser
      PROVE  LaserInv'
  <2>1. LaserTypes'
    BY <1>6 DEF LaserInv, LaserTypes
  <2> QED BY <1>6, <2>1, LightKept
<1>7. ASSUME NEW p \in Laser!Phases, Laser!ConfigurePhase(p)
      PROVE  LaserInv'
  <2>1. PICK q \in Laser!Phases, f \in Laser!Phases : hw' = [hw EXCEPT !.want = q, !.phase = f]
    BY <1>7, <1>0 DEF Laser!ConfigurePhase, Laser!Provider, Laser!Phases
  <2>2. hw' \in Laser!Provider /\ hw'.laser = hw.laser
    BY <2>1, <1>0 DEF Laser!Provider
  <2>3. UNCHANGED <<handle, jobs, active, test, reached, exposure, overtaken>>
    BY <1>7 DEF Laser!ConfigurePhase
  <2> QED BY <2>2, <2>3, <1>6
<1>8. CASE Laser!ConfigureInitialPhase \/ Laser!ConfigureFrequency
  <2>1. hw' = Laser!ResetPhase(hw) \/ hw' \in Laser!FrequencySet(hw)
    BY <1>8 DEF Laser!ConfigureInitialPhase, Laser!ConfigureFrequency
  <2>2. "initial" \in Laser!Phases
    BY DEF Laser!Phases
  <2>3. hw' \in Laser!Provider /\ hw'.laser = hw.laser
    BY <2>1, <2>2, <1>0, PhaseKeepsTheLaser, FrequencyKeepsTheLaser
  <2>4. UNCHANGED <<handle, jobs, active, test, reached, exposure, overtaken>>
    BY <1>8 DEF Laser!ConfigureInitialPhase, Laser!ConfigureFrequency
  <2> QED BY <2>3, <2>4, <1>6
<1> QED BY <1>1, <1>2, <1>3, <1>4, <1>5, <1>7, <1>8 DEF Laser!Callbacks

LEMMA LaserStep ==
  ASSUME LaserInv, [Laser!Next]_Laser!vars
  PROVE  LaserInv'
<1>1. CASE Laser!HealthArrives \/ Laser!HealthIsLate \/ UNCHANGED Laser!vars
  <2>1. UNCHANGED <<hw, handle, jobs, active, test, reached, exposure, overtaken>>
    BY <1>1 DEF Laser!HealthArrives, Laser!HealthIsLate, Laser!vars, Laser!laserVars
  <2>2. LaserTypes'
    BY <2>1 DEF LaserInv, LaserTypes
  <2> QED BY <2>1, <2>2, LightKept
<1> QED BY <1>1, CallbacksStep, RunCallJobStep, OtherWorkStep, LaserLoopStep, InstrumentsStep
        DEF Laser!Next, Laser!Worker

\* Between runs the laser is dark unless a test holds it, as long as no stop
\* overtook a preinit, no test calls overlapped, no test step failed with the
\* laser on and no job lit it between the main loop's look at it and the answer
\* of the stop (Laser.__on_stop, `__thread`, `__refresh_test_active` and the
\* setter worker).
THEOREM StoppedLaserIsDark == Laser!Spec => []StoppedLaserStaysOff
<1>1. LaserInv => StoppedLaserStaysOff
  BY DEF LaserInv, LaserHeld, LaserTypes, StoppedLaserStaysOff, Laser!StoppedLaserStaysOff, Laser!LaserOn
<1> QED BY <1>1, LaserInvInit, LaserStep, PTL DEF Laser!Spec

-----------------------------------------------------------------------------
(* The oscilloscope.  A segment goes from the burst through two queues to    *)
(* the main thread and through a third to the record of its run.  Wherever   *)
(* it is, it is in one place only; and while a run is open whose record is   *)
(* not spoilt, what saw its light is what is in its record or on its way     *)
(* there.  A run closes with nothing on its way, and the next one begins     *)
(* with nothing on its way, unless the record of that one is spoilt.         *)

In(s) == {s[i] : i \in DOMAIN s}

LEMMA InOne == In(<< >>) = {} /\ \A x : In(<<x>>) = {x}
BY DEF In

LEMMA InAppend ==
  ASSUME NEW s \in Seq(Nat), NEW x \in Nat
  PROVE  /\ Append(s, x) \in Seq(Nat) /\ In(Append(s, x)) = In(s) \cup {x}
         /\ Append(s, x) # << >> /\ s \o <<x>> = Append(s, x)
<1> DEFINE t == Append(s, x)
<1>1. /\ t \in Seq(Nat) /\ t # << >> /\ Len(t) = Len(s) + 1 /\ t[Len(s) + 1] = x
      /\ \A i \in 1..Len(s) : t[i] = s[i]
      /\ s \o <<x>> = t
  BY AppendProperties
<1>2. DOMAIN t = 1..(Len(s) + 1) /\ DOMAIN s = 1..Len(s) /\ Len(s) \in Nat
  BY <1>1
<1> HIDE DEF t
<1>3. In(t) \subseteq In(s) \cup {x}
  <2> SUFFICES ASSUME NEW i \in 1..(Len(s) + 1) PROVE t[i] \in In(s) \cup {x}
    BY <1>2 DEF In
  <2>1. CASE i \in 1..Len(s)
    BY <2>1, <1>1, <1>2 DEF In
  <2>2. CASE i = Len(s) + 1
    BY <2>2, <1>1
  <2> QED BY <2>1, <2>2, <1>2
<1>4. In(s) \subseteq In(t)
  <2> SUFFICES ASSUME NEW i \in 1..Len(s) PROVE s[i] \in In(t)
    BY <1>2 DEF In
  <2>1. i \in DOMAIN t /\ s[i] = t[i]
    BY <1>1, <1>2
  <2> QED BY <2>1 DEF In
<1>5. x \in In(t)
  <2>1. Len(s) + 1 \in DOMAIN t /\ x = t[Len(s) + 1]
    BY <1>1, <1>2
  <2> QED BY <2>1 DEF In
<1> QED BY <1>1, <1>3, <1>4, <1>5 DEF t

\* Distinct members stay distinct when a new one is appended.
LEMMA AppendApart ==
  ASSUME NEW s \in Seq(Nat), NEW x \in Nat, x \notin In(s),
         \A i, j \in DOMAIN s : s[i] = s[j] => i = j
  PROVE  \A i, j \in DOMAIN Append(s, x) : Append(s, x)[i] = Append(s, x)[j] => i = j
BY AppendProperties DEF In

LEMMA InTail ==
  ASSUME NEW s \in Seq(Nat), s # << >>
  PROVE  /\ Tail(s) \in Seq(Nat) /\ Head(s) \in Nat /\ In(s) = {Head(s)} \cup In(Tail(s))
<1>1. /\ Tail(s) \in Seq(Nat) /\ Head(s) \in Nat /\ Head(s) = s[1]
      /\ Len(Tail(s)) = Len(s) - 1 /\ Len(s) \in Nat \ {0}
      /\ \A i \in 1..Len(Tail(s)) : Tail(s)[i] = s[i + 1]
  BY HeadTailProperties
<1>2. In(s) \subseteq {Head(s)} \cup In(Tail(s))
  <2>1. SUFFICES ASSUME NEW i \in 1..Len(s) PROVE s[i] \in {Head(s)} \cup In(Tail(s))
    BY DEF In
  <2>2. CASE i = 1
    BY <2>2, <1>1
  <2>3. CASE i # 1
    <3>1. i - 1 \in 1..Len(Tail(s)) /\ Tail(s)[i - 1] = s[i]
      BY <2>3, <1>1
    <3>2. i - 1 \in DOMAIN Tail(s)
      BY <3>1, <1>1
    <3>3. Tail(s)[i - 1] \in In(Tail(s))
      BY <3>2, Zenon DEF In
    <3> QED BY <3>1, <3>3
  <2> QED BY <2>2, <2>3
<1>3. {Head(s)} \cup In(Tail(s)) \subseteq In(s)
  <2>1. ASSUME NEW i \in 1..Len(Tail(s)) PROVE Tail(s)[i] \in In(s)
    <3>1. i + 1 \in 1..Len(s)
      BY <1>1
    <3> QED BY <3>1, <1>1 DEF In
  <2>2. Head(s) \in In(s)
    BY <1>1 DEF In
  <2> QED BY <2>1, <2>2, <1>1 DEF In
<1> QED BY <1>1, <1>2, <1>3

LEMMA TailApart ==
  ASSUME NEW s \in Seq(Nat), s # << >>, \A i, j \in DOMAIN s : s[i] = s[j] => i = j
  PROVE  /\ Head(s) \notin In(Tail(s))
         /\ \A i, j \in DOMAIN Tail(s) : Tail(s)[i] = Tail(s)[j] => i = j
<1>1. /\ Tail(s) \in Seq(Nat) /\ Head(s) = s[1]
      /\ Len(Tail(s)) = Len(s) - 1 /\ Len(s) \in Nat \ {0}
      /\ \A i \in 1..Len(Tail(s)) : Tail(s)[i] = s[i + 1]
  BY HeadTailProperties
<1>2. \A i \in 1..Len(Tail(s)) : i + 1 \in DOMAIN s /\ i + 1 # 1
  BY <1>1
<1>3. 1 \in DOMAIN s
  BY <1>1
<1>4. \A i \in DOMAIN Tail(s) : Head(s) # Tail(s)[i]
  BY <1>1, <1>2, <1>3
<1>5. \A i, j \in DOMAIN Tail(s) : Tail(s)[i] = Tail(s)[j] => i = j
  <2> SUFFICES ASSUME NEW i \in 1..Len(Tail(s)), NEW j \in 1..Len(Tail(s)),
                      Tail(s)[i] = Tail(s)[j]
               PROVE  i = j
    BY <1>1, SMTT(30)
  <2>1. i + 1 = j + 1
    BY <1>1, <1>2
  <2> QED BY <2>1, <1>1
<1> QED BY <1>4, <1>5 DEF In

-----------------------------------------------------------------------------
RunOver == run.phase \in {"stopping", "idle"}

\* Nothing is on its way, and nothing will be before the next run.
ScopeQuiet ==
  /\ RunOver /\ scope.pc = "top" /\ ~scope.active /\ ~scope.once /\ ~sub.doRun
  /\ step \notin {"drain", "arm"} /\ reads = << >> /\ out = << >>

Lit == {scope.lit} \ {0}
Read == In(reads) \ {0}
Filed == UNION {files[r] : r \in Scope!Runs}

ScopeTypes ==
  /\ run \in [id : 0..MaxRuns, asked : SUBSET {"preinit", "start", "stop"},
              phase : {"idle", "accepted", "preinit", "running", "stopping"}]
  /\ scope \in [pc : {"top", "armed", "capturing", "gap", "reading"}, lit : Nat,
                active : BOOLEAN, once : BOOLEAN, capturing : BOOLEAN,
                processing : BOOLEAN, halted : BOOLEAN]
  /\ reads \in Seq(Nat) /\ out \in Seq(Nat) /\ used \in Nat
  /\ main \in [pc : {"top", "flush", "forget", "dose"}, item : Nat]
  /\ sub \in [exp : Nat, target : Nat, dose : Nat, doRun : BOOLEAN, finalizing : Nat]
  /\ writer \in [exp : Nat, record : Nat, queue : Seq(Nat)]
  /\ files \in [Scope!Runs -> SUBSET Nat] /\ shots \in [Scope!Runs -> SUBSET Nat]
  /\ DOMAIN tags = Scope!Runs
  /\ past \in [spoilt : SUBSET Nat, missed : SUBSET Nat]

\* Who holds which run, and what the scope's flags say of its thread.
ScopeControl ==
  /\ sub.exp \in {0, run.id} /\ writer.exp \in {0, run.id} /\ writer.record \in {0, writer.exp}
  /\ sub.finalizing <= run.id
  /\ main.pc = "flush" => sub.finalizing # 0
  /\ main.pc \in {"forget", "dose"} => main.item \in 1..run.id
  /\ (main.pc = "forget" /\ main.item # run.id) => run.id \in past.spoilt
  /\ (main.pc = "forget" /\ main.item = run.id) => (sub.finalizing = 0 /\ RunOver /\ sub.exp = run.id)
  /\ (main.pc = "dose" /\ main.item = run.id) => sub.exp = 0
  /\ (sub.finalizing # 0 /\ sub.finalizing = run.id) => (RunOver /\ sub.exp = run.id)
  /\ sub.finalizing \notin {0, run.id} => (sub.finalizing \in past.spoilt /\ run.id \in past.spoilt)
  /\ ~RunOver => sub.exp = run.id
  /\ run.phase # "idle" => run.id # 0
  /\ "stop" \in run.asked => run.phase = "stopping"
  /\ (sub.exp # 0 /\ RunOver) =>
       (sub.finalizing = run.id \/ (main.pc = "forget" /\ main.item = run.id))
  /\ sub.exp = 0 => sub.finalizing = 0
  /\ scope.pc = "top" => scope.lit = 0
  /\ scope.capturing <=> scope.pc = "capturing"
  /\ (RunOver \/ run.phase = "accepted") => (~scope.active /\ ~sub.doRun)

\* Only the newest run and the one after it can still be spoilt, and the newest
\* one with the one after it.
Spoiling ==
  /\ \A r \in past.spoilt : r <= run.id + 1
  /\ run.id + 1 \in past.spoilt => run.id \in past.spoilt

\* A segment is in one place.
Apart ==
  /\ Lit \cup Read \cup In(out) \cup In(writer.queue) \cup Filed \subseteq 1..used
  /\ \A i, j \in DOMAIN out : out[i] = out[j] => i = j
  /\ Lit \cap (Read \cup In(out) \cup In(writer.queue) \cup Filed) = {}
  /\ Read \cap (In(out) \cup In(writer.queue) \cup Filed) = {}
  /\ In(out) \cap (In(writer.queue) \cup Filed) = {}
  /\ reads = << >> \/ \E x \in Nat : reads = <<x>>

\* What the next run finds, unless it is spoilt.
Clean ==
  run.id + 1 \notin past.spoilt =>
    /\ (main.pc = "flush" /\ sub.finalizing = run.id) => ScopeQuiet
    /\ (main.pc = "forget" /\ main.item = run.id) => (ScopeQuiet /\ writer.queue = << >>)
    /\ sub.exp = 0 => /\ ScopeQuiet /\ writer.queue = << >> /\ writer.exp = 0
                      /\ main.pc \in {"top", "dose"}

\* The newest run: what saw its light is filed or on its way.
Counted ==
  (run.id # 0 /\ run.id \notin past.spoilt) =>
    IF sub.exp = run.id
    THEN /\ shots[run.id] = files[run.id] \cup In(writer.queue) \cup In(out) \cup Read \cup Lit
         /\ writer.exp = run.id
         /\ writer.queue # << >> => writer.record = run.id
    ELSE files[run.id] = shots[run.id]

\* The runs before it, and those to come.
Closed ==
  /\ \A r \in Scope!Runs \ past.spoilt :
       /\ r < run.id => files[r] = shots[r]
       /\ tags[r] # << >> => /\ tags[r] \in Scope!DosesOf(shots[r]) /\ files[r] = shots[r]
                             /\ (r < run.id \/ sub.exp = 0)
  /\ \A r \in Scope!Runs : r > run.id => (files[r] = {} /\ shots[r] = {} /\ tags[r] = << >>)

ScopeInv ==
  ScopeTypes /\ ScopeControl /\ Spoiling /\ Apart /\ Clean /\ Counted /\ Closed

LEMMA ScopeInvInit == Scope!Init => ScopeInv
<1> SUFFICES ASSUME Scope!Init PROVE ScopeInv
  OBVIOUS
<1> USE DEF Scope!None
<1>1. /\ run = [id |-> 0, phase |-> "idle", asked |-> {}]
      /\ scope = [pc |-> "top", active |-> FALSE, once |-> FALSE,
                  capturing |-> FALSE, processing |-> FALSE, halted |-> TRUE, lit |-> 0]
      /\ main = [pc |-> "top", item |-> 0]
      /\ sub = [exp |-> 0, target |-> 0, dose |-> 0, doRun |-> FALSE, finalizing |-> 0]
      /\ writer = [exp |-> 0, record |-> 0, queue |-> << >>]
      /\ past = [spoilt |-> {}, missed |-> {}]
      /\ reads = << >> /\ out = << >> /\ step = "watch" /\ used = 0
      /\ files = [r \in Scope!Runs |-> {}] /\ shots = [r \in Scope!Runs |-> {}]
      /\ tags = [r \in Scope!Runs |-> << >>]
  BY DEF Scope!Init
<1>2. ScopeTypes
  BY <1>1, DevicesAssumption DEF ScopeTypes
<1>3. ScopeQuiet
  BY <1>1 DEF ScopeQuiet, RunOver
<1>4. ScopeControl
  <2>1. /\ run.id = 0 /\ run.phase = "idle" /\ run.asked = {} /\ sub.exp = 0 /\ sub.finalizing = 0 /\ ~sub.doRun
        /\ writer.exp = 0 /\ writer.record = 0 /\ main.pc = "top"
        /\ scope.pc = "top" /\ scope.lit = 0 /\ scope.capturing = FALSE /\ ~scope.active
    BY <1>1
  <2> QED BY <2>1 DEF ScopeControl, RunOver
<1>5. Filed = {} /\ Lit = {} /\ Read = {} /\ In(out) = {} /\ In(writer.queue) = {}
  BY <1>1, InOne DEF Filed, Lit, Read
<1>6. Apart
  BY <1>1, <1>5 DEF Apart
<1>7. Spoiling /\ Clean /\ Counted /\ Closed
  BY <1>1, <1>3 DEF Spoiling, Clean, Counted, Closed
<1> QED BY <1>2, <1>4, <1>6, <1>7 DEF ScopeInv

\* What leaves the segments, the records and the closing alone.
LEMMA ScopeFrame ==
  ASSUME ScopeInv, ScopeTypes',
         UNCHANGED <<reads, out, main, writer, files, tags, shots, used, past>>,
         run'.id = run.id, sub'.exp = sub.exp, sub'.finalizing = sub.finalizing,
         scope'.lit = scope.lit, RunOver' <=> RunOver, run'.phase # "idle" => run.phase # "idle",
         ScopeQuiet => ScopeQuiet',
         scope'.pc = "top" => scope'.lit = 0, scope'.capturing <=> scope'.pc = "capturing",
         (RunOver' \/ run'.phase = "accepted") => (~scope'.active /\ ~sub'.doRun),
         "stop" \in run'.asked => run'.phase = "stopping"
  PROVE  ScopeInv'
<1>1. ScopeControl'
  BY DEF ScopeInv, ScopeControl
<1>2. Lit' = Lit /\ Read' = Read /\ Filed' = Filed
  BY DEF Lit, Read, Filed
<1>3. Apart'
  BY <1>2 DEF ScopeInv, Apart
<1>4. Spoiling' /\ Clean' /\ Counted' /\ Closed'
  BY <1>2 DEF ScopeInv, Spoiling, Clean, Counted, Closed
<1> QED BY <1>1, <1>3, <1>4 DEF ScopeInv

\* The capture thread and the instrument, up to the hand-over of a burst.
LEMMA CapturingStep ==
  ASSUME ScopeInv,
         Scope!Begin \/ Scope!Flag \/ Scope!Fill \/ Scope!Stopped \/ Scope!ReadOut
  PROVE  ScopeInv'
<1> USE DEF Scope!Begin, Scope!Flag, Scope!Fill, Scope!Stopped, Scope!ReadOut, Scope!None
<1>1. UNCHANGED <<run, reads, out, main, sub, step, writer, files, tags, shots, used, past>>
  OBVIOUS
<1>2. \/ scope' = [scope EXCEPT !.pc = "armed", !.once = FALSE, !.halted = FALSE, !.lit = 0]
           /\ scope.pc = "top" /\ (scope.active \/ scope.once)
      \/ scope' = [scope EXCEPT !.pc = "capturing", !.capturing = TRUE] /\ scope.pc = "armed"
      \/ scope' = [scope EXCEPT !.halted = TRUE]
      \/ scope' = [scope EXCEPT !.pc = "gap", !.capturing = FALSE] /\ scope.pc = "capturing"
      \/ scope' = [scope EXCEPT !.pc = "reading", !.processing = TRUE] /\ scope.pc = "gap"
  OBVIOUS
<1> HIDE DEF Scope!Begin, Scope!Flag, Scope!Fill, Scope!Stopped, Scope!ReadOut
<1>3. /\ scope \in [pc : {"top", "armed", "capturing", "gap", "reading"}, lit : Nat,
                    active : BOOLEAN, once : BOOLEAN, capturing : BOOLEAN,
                    processing : BOOLEAN, halted : BOOLEAN]
      /\ scope.pc = "top" => scope.lit = 0
      /\ scope.capturing <=> scope.pc = "capturing"
  BY DEF ScopeInv, ScopeTypes, ScopeControl
<1>4. /\ scope' \in [pc : {"top", "armed", "capturing", "gap", "reading"}, lit : Nat,
                     active : BOOLEAN, once : BOOLEAN, capturing : BOOLEAN,
                     processing : BOOLEAN, halted : BOOLEAN]
      /\ scope'.lit = scope.lit /\ scope'.active = scope.active
      /\ scope'.pc = "top" => scope.pc = "top" /\ scope'.once = scope.once
      /\ scope'.capturing <=> scope'.pc = "capturing"
      /\ (scope.pc = "top" /\ ~scope.active /\ ~scope.once) =>
           (scope'.pc = "top" /\ ~scope'.active /\ ~scope'.once)
  BY <1>2, <1>3
<1>5. ScopeTypes'
  BY <1>1, <1>4 DEF ScopeInv, ScopeTypes
<1>6. ScopeQuiet => ScopeQuiet'
  BY <1>1, <1>4 DEF ScopeQuiet, RunOver
<1>7. /\ RunOver' <=> RunOver
      /\ (RunOver' \/ run'.phase = "accepted") => (~scope'.active /\ ~sub'.doRun)
      /\ "stop" \in run'.asked => run'.phase = "stopping"
  BY <1>1, <1>4 DEF RunOver, ScopeInv, ScopeControl
<1> QED BY <1>1, <1>3, <1>4, <1>5, <1>6, <1>7, ScopeFrame

\* The thread of the step exposures.
LEMMA SteppingStep ==
  ASSUME ScopeInv, Scope!Stepping
  PROVE  ScopeInv'
<1> USE DEF Scope!Stepping, Scope!StepBegins, Scope!StepDrained, Scope!StepAsks,
            Scope!StepCaptures, Scope!StepEnds, Scope!NearTarget, Scope!Silenced
<1>1. UNCHANGED <<run, reads, out, main, sub, writer, files, tags, shots, used, past>>
  OBVIOUS
<1>2. /\ \/ scope' = scope
         \/ scope' = [scope EXCEPT !.active = FALSE, !.halted = scope.halted \/ scope.capturing]
         \/ scope' = [scope EXCEPT !.once = TRUE] /\ step = "arm"
      /\ \/ step' = step
         \/ step' = "drain" /\ sub.doRun
         \/ step' = "arm" /\ step = "drain"
         \/ step' \in {"shot", "watch"}
  OBVIOUS
<1> HIDE DEF Scope!Stepping, Scope!StepBegins, Scope!StepDrained, Scope!StepAsks,
             Scope!StepCaptures, Scope!StepEnds, Scope!NearTarget, Scope!Silenced
<1>3. /\ scope \in [pc : {"top", "armed", "capturing", "gap", "reading"}, lit : Nat,
                    active : BOOLEAN, once : BOOLEAN, capturing : BOOLEAN,
                    processing : BOOLEAN, halted : BOOLEAN]
      /\ scope.pc = "top" => scope.lit = 0
      /\ scope.capturing <=> scope.pc = "capturing"
  BY DEF ScopeInv, ScopeTypes, ScopeControl
<1>4. /\ scope' \in [pc : {"top", "armed", "capturing", "gap", "reading"}, lit : Nat,
                     active : BOOLEAN, once : BOOLEAN, capturing : BOOLEAN,
                     processing : BOOLEAN, halted : BOOLEAN]
      /\ scope'.lit = scope.lit /\ scope'.pc = scope.pc
      /\ scope'.active => scope.active
      /\ scope'.capturing <=> scope'.pc = "capturing"
      /\ (step # "arm" /\ ~scope.once) => ~scope'.once
  BY <1>2, <1>3
<1>5. ScopeTypes'
  BY <1>1, <1>4 DEF ScopeInv, ScopeTypes
<1>6. ScopeQuiet => ScopeQuiet'
  BY <1>1, <1>2, <1>4 DEF ScopeQuiet, RunOver
<1>7. /\ RunOver' <=> RunOver
      /\ (RunOver' \/ run'.phase = "accepted") => (~scope'.active /\ ~sub'.doRun)
      /\ "stop" \in run'.asked => run'.phase = "stopping"
  BY <1>1, <1>4 DEF RunOver, ScopeInv, ScopeControl
<1> QED BY <1>1, <1>3, <1>4, <1>5, <1>6, <1>7, ScopeFrame

\* The calls that begin a run, and their answers.
LEMMA CalledStep ==
  ASSUME ScopeInv, Scope!PreinitCalled \/ Scope!StartCalled \/ Scope!Answer
  PROVE  ScopeInv'
<1> USE DEF Scope!PreinitCalled, Scope!StartCalled, Scope!Answer
<1>1. UNCHANGED <<reads, out, main, step, writer, files, tags, shots, used, past>>
  OBVIOUS
<1>2. \/ /\ run' = [run EXCEPT !.phase = "preinit", !.asked = {"preinit"}] /\ run.phase = "accepted"
         /\ scope' = [scope EXCEPT !.active = TRUE] /\ sub' = sub
      \/ /\ run' = [run EXCEPT !.phase = "running", !.asked = {"start"}] /\ run.phase = "preinit"
         /\ sub' = [sub EXCEPT !.doRun = TRUE] /\ scope' = scope
      \/ /\ run' = [run EXCEPT !.asked = {},
                               !.phase = IF "stop" \in run.asked THEN "idle" ELSE run.phase]
         /\ scope' = scope /\ sub' = sub
  OBVIOUS
<1> HIDE DEF Scope!PreinitCalled, Scope!StartCalled, Scope!Answer
<1>3. /\ run \in [id : 0..MaxRuns, asked : SUBSET {"preinit", "start", "stop"},
                  phase : {"idle", "accepted", "preinit", "running", "stopping"}]
      /\ scope \in [pc : {"top", "armed", "capturing", "gap", "reading"}, lit : Nat,
                    active : BOOLEAN, once : BOOLEAN, capturing : BOOLEAN,
                    processing : BOOLEAN, halted : BOOLEAN]
      /\ sub \in [exp : Nat, target : Nat, dose : Nat, doRun : BOOLEAN, finalizing : Nat]
      /\ "stop" \in run.asked => run.phase = "stopping"
  BY DEF ScopeInv, ScopeTypes, ScopeControl
<1>4. /\ run' \in [id : 0..MaxRuns, asked : SUBSET {"preinit", "start", "stop"},
                   phase : {"idle", "accepted", "preinit", "running", "stopping"}]
      /\ run'.id = run.id /\ "stop" \notin run'.asked
      /\ run'.phase # "idle" => run.phase # "idle"
      /\ run'.phase \in {"stopping", "idle"} <=> run.phase \in {"stopping", "idle"}
      /\ run'.phase = "accepted" => run.phase = "accepted"
  <2>1. PICK ph \in {"idle", "accepted", "preinit", "running", "stopping"},
             as \in {{}, {"preinit"}, {"start"}} :
          /\ run' = [run EXCEPT !.phase = ph, !.asked = as]
          /\ ph # "idle" => run.phase # "idle"
          /\ ph \in {"stopping", "idle"} <=> run.phase \in {"stopping", "idle"}
          /\ ph = "accepted" => run.phase = "accepted"
    <3>1. CASE run' = [run EXCEPT !.phase = "preinit", !.asked = {"preinit"}] /\ run.phase = "accepted"
      BY <3>1
    <3>2. CASE run' = [run EXCEPT !.phase = "running", !.asked = {"start"}] /\ run.phase = "preinit"
      BY <3>2
    <3>3. CASE run' = [run EXCEPT !.asked = {},
                                  !.phase = IF "stop" \in run.asked THEN "idle" ELSE run.phase]
      <4>1. CASE "stop" \in run.asked
        <5>1. run' = [run EXCEPT !.phase = "idle", !.asked = {}]
          BY <3>3, <4>1, <1>3
        <5> QED BY <5>1, <4>1, <1>3
      <4>2. CASE "stop" \notin run.asked
        <5>1. run' = [run EXCEPT !.phase = run.phase, !.asked = {}] /\ run.phase \in {"idle", "accepted", "preinit", "running", "stopping"}
          BY <3>3, <4>2, <1>3
        <5> QED BY <5>1
      <4> QED BY <4>1, <4>2
    <3> QED BY <1>2, <3>1, <3>2, <3>3
  <2> QED BY <2>1, <1>3
<1>5. /\ scope' \in [pc : {"top", "armed", "capturing", "gap", "reading"}, lit : Nat,
                     active : BOOLEAN, once : BOOLEAN, capturing : BOOLEAN,
                     processing : BOOLEAN, halted : BOOLEAN]
      /\ scope'.lit = scope.lit /\ scope'.pc = scope.pc /\ scope'.once = scope.once
      /\ scope'.capturing = scope.capturing
      /\ sub' \in [exp : Nat, target : Nat, dose : Nat, doRun : BOOLEAN, finalizing : Nat]
      /\ sub'.exp = sub.exp /\ sub'.finalizing = sub.finalizing
  <2>1. scope' = scope \/ scope' = [scope EXCEPT !.active = TRUE]
    BY <1>2
  <2>2. sub' = sub \/ sub' = [sub EXCEPT !.doRun = TRUE]
    BY <1>2
  <2> QED BY <2>1, <2>2, <1>3
<1>6. run'.phase \in {"stopping", "idle", "accepted"} =>
        (scope'.active = scope.active /\ sub'.doRun = sub.doRun)
  BY <1>2, <1>3
<1>7. ScopeTypes'
  BY <1>1, <1>4, <1>5 DEF ScopeInv, ScopeTypes
<1>8. RunOver' <=> RunOver
  BY <1>4 DEF RunOver
<1>9. ScopeQuiet => ScopeQuiet'
  BY <1>1, <1>4, <1>5, <1>6, <1>8 DEF ScopeQuiet, RunOver
<1>10. (RunOver' \/ run'.phase = "accepted") => (~scope'.active /\ ~sub'.doRun)
  BY <1>4, <1>6, <1>8 DEF RunOver, ScopeInv, ScopeControl
<1>11. /\ scope'.pc = "top" => scope'.lit = 0
       /\ scope'.capturing <=> scope'.pc = "capturing"
  BY <1>5 DEF ScopeInv, ScopeControl
<1> QED BY <1>1, <1>4, <1>5, <1>7, <1>8, <1>9, <1>10, <1>11, ScopeFrame

LEMMA ApartFrame ==
  ASSUME Apart, UNCHANGED <<reads, out, files, used>>,
         writer'.queue = writer.queue, scope'.lit = scope.lit
  PROVE  Apart' /\ Lit' = Lit /\ Read' = Read /\ Filed' = Filed
<1>1. Lit' = Lit /\ Read' = Read /\ Filed' = Filed
  BY DEF Lit, Read, Filed
<1> QED BY <1>1 DEF Apart

\* The newest run has nothing on its way once it is forgotten, unless it is spoilt.
LEMMA ForgottenIsQuiet ==
  ASSUME ScopeInv, run.id # 0, run.id \notin past.spoilt, sub.exp # run.id
  PROVE  ScopeQuiet /\ writer.queue = << >> /\ sub.exp = 0 /\ files[run.id] = shots[run.id]
BY DEF ScopeInv, ScopeControl, Spoiling, Clean, Counted

LEMMA LightStep ==
  ASSUME ScopeInv, Scope!Light
  PROVE  ScopeInv'
<1> USE DEF Scope!None
<1>1. /\ scope.pc \in {"armed", "capturing"} /\ scope.lit = 0 /\ run.phase # "idle"
      /\ used' = used + 1 /\ scope' = [scope EXCEPT !.lit = used + 1]
      /\ shots' = [shots EXCEPT ![run.id] = shots[run.id] \cup {used + 1}]
      /\ UNCHANGED <<run, reads, out, main, sub, step, writer, files, tags, past>>
  BY DEF Scope!Light
<1>2. /\ run.id \in Scope!Runs /\ run.id # 0 /\ used \in Nat
      /\ shots \in [Scope!Runs -> SUBSET Nat]
  <2>1. run.id \in 0..MaxRuns /\ used \in Nat /\ shots \in [Scope!Runs -> SUBSET Nat]
    BY DEF ScopeInv, ScopeTypes
  <2>2. run.id # 0
    BY <1>1 DEF ScopeInv, ScopeControl
  <2> QED BY <2>1, <2>2, DevicesAssumption DEF Scope!Runs
<1>a. used + 1 \in Nat
  BY <1>2
<1>b. scope \in [pc : {"top", "armed", "capturing", "gap", "reading"}, lit : Nat,
                active : BOOLEAN, once : BOOLEAN, capturing : BOOLEAN,
                processing : BOOLEAN, halted : BOOLEAN]
  BY DEF ScopeInv, ScopeTypes
<1>3. /\ scope' \in [pc : {"top", "armed", "capturing", "gap", "reading"}, lit : Nat,
                     active : BOOLEAN, once : BOOLEAN, capturing : BOOLEAN,
                     processing : BOOLEAN, halted : BOOLEAN]
      /\ scope'.lit = used + 1 /\ scope'.pc = scope.pc /\ scope'.active = scope.active
      /\ scope'.capturing = scope.capturing
  BY <1>1, <1>a, <1>b
<1>4. /\ shots' \in [Scope!Runs -> SUBSET Nat]
      /\ shots'[run.id] = shots[run.id] \cup {used + 1}
      /\ \A r \in Scope!Runs : r # run.id => shots'[r] = shots[r]
  BY <1>1, <1>2
<1>5. ~ScopeQuiet
  BY <1>1 DEF ScopeQuiet
<1>6. sub.exp = run.id \/ run.id \in past.spoilt
  BY <1>2, <1>5, ForgottenIsQuiet
<1>7. ScopeTypes'
  BY <1>1, <1>2, <1>3, <1>4 DEF ScopeInv, ScopeTypes
<1>8. ScopeControl'
  BY <1>1, <1>3 DEF ScopeInv, ScopeControl, RunOver
<1>9. /\ Lit = {} /\ Lit' = {used + 1} /\ Read' = Read /\ Filed' = Filed
  BY <1>1, <1>2, <1>3 DEF Lit, Read, Filed
<1>10. Apart'
  <2>1. used + 1 \notin 1..used /\ 1..used \subseteq 1..used' /\ used + 1 \in 1..used'
    BY <1>1, <1>2
  <2> QED BY <1>1, <1>9, <2>1 DEF ScopeInv, Apart
<1>11. Spoiling' /\ Clean'
  BY <1>1, <1>5 DEF ScopeInv, Spoiling, Clean
<1>12. Counted'
  BY <1>1, <1>4, <1>6, <1>9 DEF ScopeInv, Counted
<1>13. Closed'
  BY <1>1, <1>2, <1>4, <1>6 DEF ScopeInv, Closed, Scope!Runs
<1> QED BY <1>7, <1>8, <1>10, <1>11, <1>12, <1>13 DEF ScopeInv

\* The burst goes to the decoding thread, which has none.
LEMMA HandOverStep ==
  ASSUME ScopeInv, Scope!HandOver
  PROVE  ScopeInv'
<1> USE DEF Scope!None
<1>1. /\ scope.pc = "reading" /\ reads = << >> /\ reads' = <<scope.lit>>
      /\ scope' = [scope EXCEPT !.pc = "top", !.lit = 0]
      /\ UNCHANGED <<run, out, main, sub, step, writer, files, tags, shots, used, past>>
  BY DEF Scope!HandOver
<1>2. /\ scope' \in [pc : {"top", "armed", "capturing", "gap", "reading"}, lit : Nat,
                     active : BOOLEAN, once : BOOLEAN, capturing : BOOLEAN,
                     processing : BOOLEAN, halted : BOOLEAN]
      /\ scope.lit \in Nat /\ scope'.lit = 0 /\ scope'.pc = "top" /\ scope'.active = scope.active
      /\ scope'.capturing = scope.capturing
  BY <1>1 DEF ScopeInv, ScopeTypes
<1>3. reads' \in Seq(Nat)
  BY <1>1, <1>2
<1>4. ~ScopeQuiet
  BY <1>1 DEF ScopeQuiet
<1>5. ScopeTypes'
  BY <1>1, <1>2, <1>3 DEF ScopeInv, ScopeTypes
<1>6. ScopeControl'
  BY <1>1, <1>2 DEF ScopeInv, ScopeControl, RunOver
<1>7. Lit' = {} /\ Read = {} /\ Read' = Lit /\ Filed' = Filed
  BY <1>1, <1>2, InOne DEF Lit, Read, Filed
<1>8. Apart'
  BY <1>1, <1>2, <1>7 DEF ScopeInv, Apart
<1>9. Spoiling' /\ Clean'
  BY <1>1, <1>4 DEF ScopeInv, Spoiling, Clean
<1>10. Counted' /\ Closed'
  BY <1>1, <1>7 DEF ScopeInv, Counted, Closed
<1> QED BY <1>5, <1>6, <1>8, <1>9, <1>10 DEF ScopeInv

\* The segment of a burst goes to the main thread.
LEMMA DecodeStep ==
  ASSUME ScopeInv, Scope!Decode
  PROVE  ScopeInv'
<1> USE DEF Scope!None
<1>1. /\ reads # << >> /\ reads' = << >>
      /\ out' = IF Head(reads) = 0 THEN out ELSE out \o reads
      /\ scope' = [scope EXCEPT !.processing = FALSE]
      /\ UNCHANGED <<run, main, sub, step, writer, files, tags, shots, used, past>>
  BY DEF Scope!Decode
<1>2. /\ scope' \in [pc : {"top", "armed", "capturing", "gap", "reading"}, lit : Nat,
                     active : BOOLEAN, once : BOOLEAN, capturing : BOOLEAN,
                     processing : BOOLEAN, halted : BOOLEAN]
      /\ scope'.lit = scope.lit /\ scope'.pc = scope.pc /\ scope'.active = scope.active
      /\ scope'.capturing = scope.capturing
  BY <1>1 DEF ScopeInv, ScopeTypes
<1>3. PICK x \in Nat : reads = <<x>>
  BY <1>1 DEF ScopeInv, Apart
<1>4. Read = {x} \ {0} /\ Read' = {} /\ Lit' = Lit /\ Filed' = Filed
  BY <1>1, <1>2, <1>3, InOne DEF Lit, Read, Filed
<1>5. out \in Seq(Nat) /\ (x # 0 => x \notin In(out)) /\ Head(reads) = x
  BY <1>3, <1>4 DEF ScopeInv, ScopeTypes, Apart
<1>6. /\ out' \in Seq(Nat) /\ In(out') = In(out) \cup Read
      /\ \A i, j \in DOMAIN out' : out'[i] = out'[j] => i = j
  <2>1. CASE x = 0
    BY <2>1, <1>1, <1>4, <1>5 DEF ScopeInv, Apart
  <2>2. CASE x # 0
    <3>1. out' = Append(out, x)
      BY <2>2, <1>1, <1>3, <1>5, InAppend
    <3>2. \A i, j \in DOMAIN out : out[i] = out[j] => i = j
      BY DEF ScopeInv, Apart
    <3> QED BY <3>1, <3>2, <2>2, <1>4, <1>5, InAppend, AppendApart, SMTT(30)
  <2> QED BY <2>1, <2>2
<1>7. ~ScopeQuiet
  BY <1>1 DEF ScopeQuiet
<1>8. ScopeTypes'
  BY <1>1, <1>2, <1>6, SMTT(30) DEF ScopeInv, ScopeTypes
<1>9. ScopeControl'
  BY <1>1, <1>2 DEF ScopeInv, ScopeControl, RunOver
<1>10. Apart'
  BY <1>1, <1>4, <1>6 DEF ScopeInv, Apart
<1>11. Spoiling' /\ Clean'
  BY <1>1, <1>7 DEF ScopeInv, Spoiling, Clean
<1>12. Counted'
  BY <1>1, <1>4, <1>6 DEF ScopeInv, Counted
<1>13. Closed'
  BY <1>1 DEF ScopeInv, Closed
<1> QED BY <1>8, <1>9, <1>10, <1>11, <1>12, <1>13 DEF ScopeInv

\* The main thread skips the first segment of its queue.
LEMMA SkipSegmentStep ==
  ASSUME ScopeInv, Scope!SkipSegment
  PROVE  ScopeInv'
<1> DEFINE h == Head(out)
<1>1. /\ out # << >> /\ out' = Tail(out) /\ sub.exp # 0
      /\ shots' = [r \in Scope!Runs |-> shots[r] \ {h}]
      /\ UNCHANGED <<run, scope, reads, main, sub, step, writer, files, tags, used, past>>
  BY DEF Scope!SkipSegment, Scope!MayTake, Scope!None
<1>2. /\ out \in Seq(Nat) /\ shots \in [Scope!Runs -> SUBSET Nat]
      /\ \A i, j \in DOMAIN out : out[i] = out[j] => i = j
  BY DEF ScopeInv, ScopeTypes, Apart
<1>3. /\ out' \in Seq(Nat) /\ In(out) = {h} \cup In(out') /\ h \notin In(out')
      /\ \A i, j \in DOMAIN out' : out'[i] = out'[j] => i = j
  BY <1>1, <1>2, InTail, TailApart
<1>4. Lit' = Lit /\ Read' = Read /\ Filed' = Filed
  BY <1>1 DEF Lit, Read, Filed
<1>5. h \notin Lit /\ h \notin Read /\ h \notin In(writer.queue) /\ h \notin Filed
  BY <1>3 DEF ScopeInv, Apart
<1> HIDE DEF h
<1>6. /\ \A r \in Scope!Runs : h \notin files[r]
      /\ \A r \in Scope!Runs : shots'[r] = shots[r] \ {h}
      /\ shots' \in [Scope!Runs -> SUBSET Nat]
  BY <1>1, <1>2, <1>5 DEF Filed
<1>7. ~ScopeQuiet
  BY <1>1 DEF ScopeQuiet
<1>8. ScopeTypes' /\ ScopeControl'
  BY <1>1, <1>3, <1>6 DEF ScopeInv, ScopeTypes, ScopeControl, RunOver
<1>9. Apart'
  BY <1>1, <1>3, <1>4 DEF ScopeInv, Apart
<1>10. Spoiling' /\ Clean'
  BY <1>1, <1>7 DEF ScopeInv, Spoiling, Clean
<1>11. run.id # 0 => run.id \in Scope!Runs
  BY DevicesAssumption DEF ScopeInv, ScopeTypes, Scope!Runs
<1>12. Counted'
  <2> SUFFICES ASSUME run.id # 0, run.id \notin past.spoilt, sub.exp = run.id
               PROVE  Counted'
    <3>1. CASE (run.id # 0 /\ run.id \notin past.spoilt) /\ sub.exp # run.id
      BY <3>1, <1>7, ForgottenIsQuiet
    <3>2. CASE ~(run.id # 0 /\ run.id \notin past.spoilt)
      BY <3>2, <1>1 DEF Counted
    <3> QED BY <3>1, <3>2
  <2>1. /\ shots[run.id] = files[run.id] \cup In(writer.queue) \cup In(out) \cup Read \cup Lit
        /\ writer.exp = run.id
        /\ writer.queue # << >> => writer.record = run.id
    BY DEF ScopeInv, Counted
  <2>2. shots'[run.id] = files[run.id] \cup In(writer.queue) \cup In(out') \cup Read \cup Lit
    BY <2>1, <1>3, <1>5, <1>6, <1>11
  <2>3. /\ run' = run /\ sub' = sub /\ writer' = writer /\ files' = files
    BY <1>1
  <2> QED BY <2>1, <2>2, <2>3, <1>4 DEF Counted
<1>13. Closed'
  <2>1. ASSUME NEW r \in Scope!Runs, files[r] = shots[r] PROVE shots'[r] = shots[r]
    BY <2>1, <1>6
  <2> QED BY <2>1, <1>1, <1>6 DEF ScopeInv, Closed
<1> QED BY <1>8, <1>9, <1>10, <1>12, <1>13 DEF ScopeInv

\* It counts the segment and gives it to the writer, if there is a record.
LEMMA TakeSegmentStep ==
  ASSUME ScopeInv, Scope!TakeSegment
  PROVE  ScopeInv'
<1> DEFINE h == Head(out)
<1>1. /\ out # << >> /\ out' = Tail(out) /\ sub.exp # 0 /\ main.pc = "top"
      /\ sub' = [sub EXCEPT !.dose = sub.dose + 1]
      /\ UNCHANGED <<run, scope, reads, main, step, files, tags, shots, used>>
  BY DEF Scope!TakeSegment, Scope!MayTake, Scope!None
<1>2. /\ out \in Seq(Nat) /\ \A i, j \in DOMAIN out : out[i] = out[j] => i = j
      /\ sub \in [exp : Nat, target : Nat, dose : Nat, doRun : BOOLEAN, finalizing : Nat]
      /\ writer \in [exp : Nat, record : Nat, queue : Seq(Nat)]
      /\ past \in [spoilt : SUBSET Nat, missed : SUBSET Nat]
      /\ sub.exp = run.id /\ run.id \in Nat
  BY <1>1 DEF ScopeInv, ScopeTypes, Apart, ScopeControl
<1>3. /\ out' \in Seq(Nat) /\ h \in Nat /\ In(out) = {h} \cup In(out') /\ h \notin In(out')
      /\ \A i, j \in DOMAIN out' : out'[i] = out'[j] => i = j
  BY <1>1, <1>2, InTail, TailApart
<1>4. Lit' = Lit /\ Read' = Read /\ Filed' = Filed
  BY <1>1 DEF Lit, Read, Filed
<1>5. /\ sub' \in [exp : Nat, target : Nat, dose : Nat, doRun : BOOLEAN, finalizing : Nat]
      /\ sub'.exp = sub.exp /\ sub'.finalizing = sub.finalizing /\ sub'.doRun = sub.doRun
  <2>1. sub.dose + 1 \in Nat
    BY <1>2
  <2> QED BY <2>1, <1>1, <1>2
<1>6. CASE writer.record = 0
  <2>1. past' = [past EXCEPT !.spoilt = past.spoilt \cup {sub.exp}] /\ UNCHANGED writer
    BY <1>6 DEF Scope!TakeSegment, Scope!None
  <2>2. /\ past' \in [spoilt : SUBSET Nat, missed : SUBSET Nat]
        /\ past'.spoilt = past.spoilt \cup {run.id}
    BY <2>1, <1>2
  <2>3. ~ScopeQuiet
    BY <1>1 DEF ScopeQuiet
  <2>4. ScopeTypes'
    BY <1>1, <1>3, <1>5, <2>1, <2>2 DEF ScopeInv, ScopeTypes
  <2>5. ScopeControl'
    BY <1>1, <1>5, <2>1, <2>2 DEF ScopeInv, ScopeControl, RunOver
  <2>6. Apart'
    BY <1>1, <1>3, <1>4, <2>1 DEF ScopeInv, Apart
  <2>7. Spoiling' /\ Clean' /\ Counted'
    BY <1>1, <1>2, <1>5, <2>1, <2>2, <2>3, SMTT(30) DEF ScopeInv, Spoiling, Clean, Counted
  <2>8. Closed'
    BY <1>1, <1>5, <2>1, <2>2 DEF ScopeInv, Closed
  <2> QED BY <2>4, <2>5, <2>6, <2>7, <2>8 DEF ScopeInv
<1>7. CASE writer.record # 0
  <2>1. writer' = [writer EXCEPT !.queue = Append(writer.queue, h)] /\ UNCHANGED past
    BY <1>7 DEF Scope!TakeSegment, Scope!None
  <2>2. writer.queue \in Seq(Nat)
    BY <1>2
  <2>3. /\ writer' \in [exp : Nat, record : Nat, queue : Seq(Nat)]
        /\ writer'.exp = writer.exp /\ writer'.record = writer.record
        /\ In(writer'.queue) = In(writer.queue) \cup {h} /\ writer'.queue # << >>
    <3>1. writer'.queue = Append(writer.queue, h)
      BY <2>1, <1>2
    <3>2. Append(writer.queue, h) \in Seq(Nat) /\ Append(writer.queue, h) # << >>
      BY <2>2, <1>3, InAppend
    <3> QED BY <2>1, <2>2, <3>1, <3>2, <1>2, <1>3, InAppend
  <2>4. writer.record = run.id
    BY <1>7 DEF ScopeInv, ScopeControl
  <2>5. ~ScopeQuiet
    BY <1>1 DEF ScopeQuiet
  <2> HIDE DEF h
  <2>6. ScopeTypes'
    BY <1>1, <1>3, <1>5, <2>1, <2>3 DEF ScopeInv, ScopeTypes
  <2>7. ScopeControl'
    BY <1>1, <1>5, <2>1, <2>3 DEF ScopeInv, ScopeControl, RunOver
  <2>8. Apart'
    BY <1>1, <1>3, <1>4, <2>3 DEF ScopeInv, Apart
  <2>9. Spoiling' /\ Clean'
    BY <1>1, <1>5, <2>1, <2>5 DEF ScopeInv, Spoiling, Clean
  <2>10. Counted'
    BY <1>1, <1>2, <1>3, <1>4, <1>5, <2>1, <2>3, <2>4 DEF ScopeInv, Counted
  <2>11. Closed'
    BY <1>1, <1>5, <2>1 DEF ScopeInv, Closed
  <2> QED BY <2>6, <2>7, <2>8, <2>9, <2>10, <2>11 DEF ScopeInv
<1> QED BY <1>6, <1>7

\* The writer writes the first segment of its queue, or fails to.
LEMMA WriteSegmentStep ==
  ASSUME ScopeInv, Scope!WriteSegment
  PROVE  ScopeInv'
<1> DEFINE h == Head(writer.queue)
<1>1. /\ writer.queue # << >> /\ writer' = [writer EXCEPT !.queue = Tail(writer.queue)]
      /\ UNCHANGED <<run, scope, reads, out, main, sub, step, tags, shots, used>>
  BY DEF Scope!WriteSegment
<1>2. /\ writer \in [exp : Nat, record : Nat, queue : Seq(Nat)] /\ writer.queue \in Seq(Nat)
      /\ past \in [spoilt : SUBSET Nat, missed : SUBSET Nat]
      /\ files \in [Scope!Runs -> SUBSET Nat]
      /\ run.id \in Nat /\ writer.record \in {0, run.id}
  <2>1. writer \in [exp : Nat, record : Nat, queue : Seq(Nat)]
    BY DEF ScopeInv, ScopeTypes
  <2>2. writer.queue \in Seq(Nat)
    BY <2>1
  <2> QED BY <2>1, <2>2 DEF ScopeInv, ScopeTypes, ScopeControl
<1>3. Tail(writer.queue) \in Seq(Nat) /\ h \in Nat
      /\ In(writer.queue) = {h} \cup In(Tail(writer.queue))
  BY <1>1, <1>2, InTail
<1>4. /\ writer' \in [exp : Nat, record : Nat, queue : Seq(Nat)]
      /\ writer'.exp = writer.exp /\ writer'.record = writer.record
      /\ In(writer.queue) = {h} \cup In(writer'.queue)
  <2>1. writer'.queue = Tail(writer.queue)
    BY <1>1, <1>2
  <2> QED BY <2>1, <1>1, <1>2, <1>3
<1> HIDE DEF h
<1>5. Lit' = Lit /\ Read' = Read
  BY <1>1 DEF Lit, Read
<1>6. (run.id # 0 /\ run.id \notin past.spoilt) =>
        (sub.exp = run.id /\ writer.record = run.id /\ writer.exp = run.id)
  BY <1>1, ForgottenIsQuiet DEF ScopeInv, Counted
<1>7. run.id # 0 => run.id \in Scope!Runs
  BY DevicesAssumption DEF ScopeInv, ScopeTypes, Scope!Runs
<1>8. CASE /\ files' = [r \in Scope!Runs |-> files[r] \cup IF r = writer.record THEN {h} ELSE {}]
           /\ UNCHANGED past
  <2>1. /\ files' \in [Scope!Runs -> SUBSET Nat]
        /\ \A r \in Scope!Runs : r # run.id => files'[r] = files[r]
        /\ \A r \in Scope!Runs : files'[r] \subseteq files[r] \cup {h}
        /\ (run.id # 0 /\ writer.record = run.id) => files'[run.id] = files[run.id] \cup {h}
    <3>1. \A r \in Scope!Runs : files'[r] = files[r] \cup IF r = writer.record THEN {h} ELSE {}
      BY <1>8
    <3>2. files' \in [Scope!Runs -> SUBSET Nat]
      BY <1>8, <1>2, <1>3
    <3>3. 0 \notin Scope!Runs
      BY DevicesAssumption DEF Scope!Runs
    <3> QED BY <3>1, <3>2, <3>3, <1>2, <1>7
  <2>2. Filed' \subseteq Filed \cup {h}
    BY <2>1 DEF Filed
  <2>0. /\ past' = past /\ run' = run /\ scope' = scope /\ reads' = reads /\ out' = out
        /\ used' = used /\ main' = main /\ sub' = sub /\ shots' = shots /\ tags' = tags
    BY <1>1, <1>8
  <2>3a. ScopeTypes'
    <3>1. writer' \in [exp : Nat, record : Nat, queue : Seq(Nat)]
      BY <1>4
    <3>2. files' \in [Scope!Runs -> SUBSET Nat]
      BY <2>1
    <3> QED BY <2>0, <3>1, <3>2 DEF ScopeInv, ScopeTypes
  <2>3b. ScopeControl'
    BY <2>0, <1>4 DEF ScopeInv, ScopeControl, RunOver
  <2>3. ScopeTypes' /\ ScopeControl'
    BY <2>3a, <2>3b
  <2>4. Apart'
    BY <1>1, <1>4, <1>5, <2>2 DEF ScopeInv, Apart
  <2>5. Spoiling'
    BY <1>1, <1>8 DEF ScopeInv, Spoiling
  <2>6. Clean'
    BY <1>1, <1>4, <1>8 DEF ScopeInv, Clean, ScopeQuiet, RunOver
  <2>7. Counted'
    <3> SUFFICES ASSUME run.id # 0, run.id \notin past.spoilt PROVE Counted'
      BY <2>0 DEF Counted
    <3>1. sub.exp = run.id /\ writer.record = run.id /\ writer.exp = run.id
      BY <1>6
    <3>2. files'[run.id] = files[run.id] \cup {h}
      BY <2>1, <3>1
    <3>3. shots[run.id] = files[run.id] \cup In(writer.queue) \cup In(out) \cup Read \cup Lit
      BY <3>1 DEF ScopeInv, Counted
    <3>4. shots[run.id] = files'[run.id] \cup In(writer'.queue) \cup In(out) \cup Read \cup Lit
      BY <3>2, <3>3, <1>4
    <3> QED BY <3>1, <3>4, <2>0, <1>4, <1>5 DEF Counted
  <2>8. Closed'
    BY <1>1, <1>6, <1>8, <2>1, <1>7, <1>2, DevicesAssumption DEF ScopeInv, Closed, Scope!Runs
  <2> QED BY <2>3, <2>4, <2>5, <2>6, <2>7, <2>8 DEF ScopeInv
<1>9. CASE past' = [past EXCEPT !.spoilt = past.spoilt \cup {writer.record}] /\ UNCHANGED files
  <2>1. /\ past' \in [spoilt : SUBSET Nat, missed : SUBSET Nat]
        /\ past'.spoilt = past.spoilt \cup {writer.record}
    BY <1>9, <1>2
  <2>2. Filed' = Filed
    BY <1>9 DEF Filed
  <2>0. /\ files' = files /\ run' = run /\ scope' = scope /\ reads' = reads /\ out' = out
        /\ used' = used /\ main' = main /\ sub' = sub /\ shots' = shots /\ tags' = tags
    BY <1>1, <1>9
  <2>3a. ScopeTypes'
    <3>1. writer' \in [exp : Nat, record : Nat, queue : Seq(Nat)]
      BY <1>4
    <3>2. past' \in [spoilt : SUBSET Nat, missed : SUBSET Nat]
      BY <2>1
    <3> QED BY <2>0, <3>1, <3>2 DEF ScopeInv, ScopeTypes
  <2>3. ScopeTypes' /\ ScopeControl'
    BY <2>3a, <1>1, <1>4, <2>1 DEF ScopeInv, ScopeControl, RunOver
  <2>4. Apart'
    BY <1>1, <1>4, <1>5, <1>9, <2>2 DEF ScopeInv, Apart
  <2>5. Spoiling'
    BY <1>1, <1>2, <1>6, <2>1 DEF ScopeInv, Spoiling
  <2>6. Clean'
    BY <1>1, <1>4, <2>1 DEF ScopeInv, Clean, ScopeQuiet, RunOver
  <2>7. Counted'
    BY <1>1, <1>6, <2>1 DEF ScopeInv, Counted
  <2>8. Closed'
    BY <1>1, <1>9, <2>1 DEF ScopeInv, Closed
  <2> QED BY <2>3, <2>4, <2>5, <2>6, <2>7, <2>8 DEF ScopeInv
<1> QED BY <1>8, <1>9 DEF Scope!WriteSegment, h

\* A run begins: the one before it is closed, or both are spoilt.
LEMMA RunAcceptedStep ==
  ASSUME ScopeInv, Scope!RunAccepted
  PROVE  ScopeInv'
<1> DEFINE n == run.id
<1> USE DEF Scope!None
<1>1. /\ run.phase = "idle" /\ n < MaxRuns
      /\ run' = [id |-> n + 1, phase |-> "accepted", asked |-> {}]
      /\ \E target \in {0, TargetDose} :
           sub' = [sub EXCEPT !.exp = n + 1, !.dose = 0, !.target = target]
      /\ writer' = [writer EXCEPT !.exp = n + 1, !.record = 0]
      /\ past' = [past EXCEPT !.spoilt = past.spoilt \cup
                    IF sub.finalizing # 0 \/ main.pc = "forget" THEN {n, n + 1} ELSE {}]
      /\ UNCHANGED <<scope, reads, out, main, step, files, tags, shots, used>>
  BY DEF Scope!RunAccepted
<1>2. /\ n \in 0..MaxRuns /\ n \in Nat /\ n + 1 \in 0..MaxRuns /\ n + 1 \in Nat
      /\ sub \in [exp : Nat, target : Nat, dose : Nat, doRun : BOOLEAN, finalizing : Nat]
      /\ writer \in [exp : Nat, record : Nat, queue : Seq(Nat)]
      /\ past \in [spoilt : SUBSET Nat, missed : SUBSET Nat]
      /\ sub.finalizing \in Nat /\ sub.finalizing <= n
  <2>1. n \in 0..MaxRuns
    BY DEF ScopeInv, ScopeTypes
  <2>2. sub \in [exp : Nat, target : Nat, dose : Nat, doRun : BOOLEAN, finalizing : Nat]
    BY DEF ScopeInv, ScopeTypes
  <2>3. /\ writer \in [exp : Nat, record : Nat, queue : Seq(Nat)]
        /\ past \in [spoilt : SUBSET Nat, missed : SUBSET Nat]
    BY DEF ScopeInv, ScopeTypes
  <2>4. n < MaxRuns /\ MaxRuns \in Nat
    BY <1>1, DevicesAssumption
  <2>5. n \in Nat /\ n + 1 \in 0..MaxRuns /\ n + 1 \in Nat
    <3> HIDE DEF n
    <3> QED BY <2>1, <2>4
  <2>6. sub.finalizing \in Nat /\ sub.finalizing <= n
    BY <2>2 DEF ScopeInv, ScopeControl
  <2> QED BY <2>1, <2>2, <2>3, <2>5, <2>6
<1>3. /\ run' \in [id : 0..MaxRuns, asked : SUBSET {"preinit", "start", "stop"},
                   phase : {"idle", "accepted", "preinit", "running", "stopping"}]
      /\ run'.id = n + 1 /\ run'.phase = "accepted" /\ run'.asked = {}
  BY <1>1, <1>2
<1>4. /\ sub' \in [exp : Nat, target : Nat, dose : Nat, doRun : BOOLEAN, finalizing : Nat]
      /\ sub'.exp = n + 1 /\ sub'.finalizing = sub.finalizing /\ sub'.doRun = sub.doRun
  <2>1. PICK target \in Nat : sub' = [sub EXCEPT !.exp = n + 1, !.dose = 0, !.target = target]
    BY <1>1, DevicesAssumption
  <2> QED BY <2>1, <1>2
<1>5. /\ writer' \in [exp : Nat, record : Nat, queue : Seq(Nat)]
      /\ writer'.exp = n + 1 /\ writer'.record = 0 /\ writer'.queue = writer.queue
  BY <1>1, <1>2
<1>6. /\ past' \in [spoilt : SUBSET Nat, missed : SUBSET Nat]
      /\ past'.spoilt \in SUBSET Nat /\ past.spoilt \in SUBSET Nat
      /\ past.spoilt \subseteq past'.spoilt /\ past'.spoilt \subseteq past.spoilt \cup {n, n + 1}
      /\ (sub.finalizing # 0 \/ main.pc = "forget") => (n \in past'.spoilt /\ n + 1 \in past'.spoilt)
  <2>1. past'.spoilt = past.spoilt \cup
          IF sub.finalizing # 0 \/ main.pc = "forget" THEN {n, n + 1} ELSE {}
    BY <1>1, <1>2
  <2>2. past'.spoilt \in SUBSET Nat
    BY <2>1, <1>2
  <2> QED BY <2>1, <2>2, <1>1, <1>2
<1>7. ScopeTypes'
  BY <1>1, <1>3, <1>4, <1>5, <1>6 DEF ScopeInv, ScopeTypes
<1>8. ScopeControl'
  <2>1. sub.finalizing \notin {0, n + 1} =>
          (sub.finalizing \in past'.spoilt /\ n + 1 \in past'.spoilt)
    BY <1>2, <1>6 DEF ScopeInv, ScopeControl
  <2>2. /\ main.pc = "flush" => sub.finalizing # 0
        /\ main.pc \in {"forget", "dose"} => (main.item \in 1..(n + 1) /\ main.item # n + 1)
        /\ sub.finalizing # n + 1 /\ sub.finalizing <= n + 1
    BY <1>2 DEF ScopeInv, ScopeControl
  <2>3. /\ scope.pc = "top" => scope.lit = 0
        /\ scope.capturing <=> scope.pc = "capturing"
        /\ ~scope.active /\ ~sub.doRun
    BY <1>1 DEF ScopeInv, ScopeControl, RunOver
  <2> HIDE DEF n
  <2> QED BY <2>1, <2>2, <2>3, <1>1, <1>2, <1>3, <1>4, <1>5, <1>6 DEF ScopeControl, RunOver
<1>9. Spoiling'
  <2>1. \A r \in past.spoilt : r \in Nat /\ r <= n + 1
    BY <1>6 DEF ScopeInv, Spoiling
  <2> HIDE DEF n
  <2>2. \A r \in past'.spoilt : r \in Nat /\ r <= n + 1
    BY <2>1, <1>2, <1>6
  <2>3. (n + 1) + 1 \notin past'.spoilt /\ \A r \in past'.spoilt : r <= (n + 1) + 1
    BY <2>2, <1>2
  <2> QED BY <2>3, <1>3 DEF Spoiling
<1>10. scope' = scope
  BY <1>1
<1>11. Apart' /\ Lit' = Lit /\ Read' = Read /\ Filed' = Filed
  BY <1>1, <1>5, <1>10, ApartFrame DEF ScopeInv
<1>12. Clean'
  <2>1. main.pc \in {"forget", "dose"} => main.item # n + 1
    BY <1>2 DEF ScopeInv, ScopeControl
  <2>2. sub.finalizing # n + 1
    BY <1>2
  <2> QED BY <2>1, <2>2, <1>1, <1>2, <1>3, <1>4, SMTT(30) DEF Clean
<1>13. ASSUME ~(sub.finalizing # 0 \/ main.pc = "forget")
       PROVE  sub.exp = 0
  BY <1>1, <1>13 DEF ScopeInv, ScopeControl, RunOver
<1>14. n + 1 \in Scope!Runs /\ files[n + 1] = {} /\ shots[n + 1] = {}
  <2>1. n + 1 \in Scope!Runs /\ n + 1 > n
    BY <1>1, <1>2 DEF Scope!Runs
  <2> QED BY <2>1 DEF ScopeInv, Closed
<1>15. Counted'
  <2> SUFFICES ASSUME n + 1 \notin past'.spoilt PROVE Counted'
    BY <1>3 DEF Counted
  <2>1. ScopeQuiet /\ writer.queue = << >>
    BY <1>6, <1>13 DEF ScopeInv, Clean
  <2>2. scope.lit = 0 /\ reads = << >> /\ out = << >>
    BY <2>1 DEF ScopeQuiet, ScopeInv, ScopeControl
  <2>3. In(writer.queue) = {} /\ In(out) = {} /\ Read = {} /\ Lit = {}
    BY <2>1, <2>2, InOne DEF Read, Lit
  <2>4. shots'[n + 1] = {} /\ files'[n + 1] = {} /\ writer'.queue = << >> /\ out' = out
    BY <2>1, <1>1, <1>5, <1>14
  <2>5. In(writer'.queue) = {} /\ In(out') = {}
    BY <2>1, <2>3, <2>4, <1>5
  <2> HIDE DEF n
  <2> QED BY <2>3, <2>4, <2>5, <1>3, <1>4, <1>5, <1>11 DEF Counted
<1>16. Closed'
  <2>1. ASSUME NEW r \in Scope!Runs \ past'.spoilt, r < n + 1
        PROVE  files[r] = shots[r]
    <3>1. r \notin past.spoilt /\ r \in Nat
      BY <1>6 DEF Scope!Runs
    <3>2. CASE r < n
      BY <3>1, <3>2, <2>1 DEF ScopeInv, Closed
    <3>3. CASE r = n
      <4>1. n # 0 /\ n \notin past.spoilt
        BY <3>1, <3>3, <2>1 DEF Scope!Runs
      <4>2. sub.exp # n
        BY <3>3, <2>1, <4>1, <1>6, <1>13
      <4> QED BY <4>1, <4>2, <3>3, ForgottenIsQuiet
    <3> QED BY <3>1, <3>2, <3>3, <2>1, <1>2
  <2>2. ASSUME NEW r \in Scope!Runs \ past'.spoilt, tags[r] # << >>
        PROVE  tags[r] \in Scope!DosesOf(shots[r]) /\ files[r] = shots[r] /\ r < n + 1
    <3>1. r \notin past.spoilt /\ r \in Nat
      BY <1>6 DEF Scope!Runs
    <3>2. ~(r > n)
      BY <2>2 DEF ScopeInv, Closed
    <3>3. tags[r] \in Scope!DosesOf(shots[r]) /\ files[r] = shots[r]
      BY <2>2, <3>1 DEF ScopeInv, Closed
    <3> QED BY <3>1, <3>2, <3>3, <1>2
  <2>3. \A r \in Scope!Runs : r > n + 1 => (files[r] = {} /\ shots[r] = {} /\ tags[r] = << >>)
    <3> SUFFICES ASSUME NEW r \in Scope!Runs, r > n + 1 PROVE r > n
      BY DEF ScopeInv, Closed
    <3> QED BY <1>2 DEF Scope!Runs
  <2> QED BY <2>1, <2>2, <2>3, <1>1, <1>3 DEF Closed
<1> QED BY <1>7, <1>8, <1>9, <1>11, <1>12, <1>15, <1>16 DEF ScopeInv

\* A run is stopped.
LEMMA StopCalledStep ==
  ASSUME ScopeInv, Scope!StopCalled
  PROVE  ScopeInv'
<1>1. /\ run.phase \in {"accepted", "preinit", "running"}
      /\ run' = [run EXCEPT !.phase = "stopping", !.asked = run.asked \cup {"stop"}]
      /\ scope' = [scope EXCEPT !.active = FALSE, !.halted = scope.halted \/ scope.capturing]
      /\ sub' = [sub EXCEPT !.finalizing = sub.exp, !.doRun = FALSE]
      /\ past' = [spoilt |-> past.spoilt \cup IF main.pc = "flush" THEN {sub.exp + 1} ELSE {},
                  missed |-> past.missed \cup IF Scope!Deaf THEN {sub.exp} ELSE {}]
      /\ UNCHANGED <<reads, out, main, step, writer, files, tags, shots, used>>
  BY DEF Scope!StopCalled, Scope!Silenced
<1>2. /\ run \in [id : 0..MaxRuns, asked : SUBSET {"preinit", "start", "stop"},
                  phase : {"idle", "accepted", "preinit", "running", "stopping"}]
      /\ scope \in [pc : {"top", "armed", "capturing", "gap", "reading"}, lit : Nat,
                    active : BOOLEAN, once : BOOLEAN, capturing : BOOLEAN,
                    processing : BOOLEAN, halted : BOOLEAN]
      /\ sub \in [exp : Nat, target : Nat, dose : Nat, doRun : BOOLEAN, finalizing : Nat]
      /\ past \in [spoilt : SUBSET Nat, missed : SUBSET Nat]
  BY DEF ScopeInv, ScopeTypes
<1>3. /\ ~RunOver /\ sub.exp = run.id /\ run.id \in Nat /\ run.id # 0
      /\ sub.finalizing # run.id
  BY <1>1, <1>2, DevicesAssumption DEF RunOver, ScopeInv, ScopeControl
<1>4. main.pc = "flush" => run.id \in past.spoilt
  BY <1>3 DEF ScopeInv, ScopeControl
<1>5. /\ run' \in [id : 0..MaxRuns, asked : SUBSET {"preinit", "start", "stop"},
                   phase : {"idle", "accepted", "preinit", "running", "stopping"}]
      /\ run'.id = run.id /\ run'.phase = "stopping"
  BY <1>1, <1>2
<1>6. /\ scope' \in [pc : {"top", "armed", "capturing", "gap", "reading"}, lit : Nat,
                     active : BOOLEAN, once : BOOLEAN, capturing : BOOLEAN,
                     processing : BOOLEAN, halted : BOOLEAN]
      /\ scope'.lit = scope.lit /\ scope'.pc = scope.pc /\ ~scope'.active
      /\ scope'.capturing = scope.capturing
  BY <1>1, <1>2
<1>7. /\ sub' \in [exp : Nat, target : Nat, dose : Nat, doRun : BOOLEAN, finalizing : Nat]
      /\ sub'.exp = sub.exp /\ sub'.finalizing = sub.exp /\ ~sub'.doRun
  BY <1>1, <1>2
<1>8. /\ past' \in [spoilt : SUBSET Nat, missed : SUBSET Nat]
      /\ past.spoilt \subseteq past'.spoilt
      /\ past'.spoilt \subseteq past.spoilt \cup {run.id + 1}
      /\ main.pc = "flush" => run.id + 1 \in past'.spoilt
      /\ run.id + 1 \in past'.spoilt => run.id \in past'.spoilt
  <2>1. past'.spoilt = past.spoilt \cup IF main.pc = "flush" THEN {run.id + 1} ELSE {}
    BY <1>1, <1>3
  <2>2. past'.missed = past.missed \cup IF Scope!Deaf THEN {run.id} ELSE {}
    BY <1>1, <1>3
  <2>3. past'.spoilt \in SUBSET Nat /\ past'.missed \in SUBSET Nat
    BY <2>1, <2>2, <1>2, <1>3
  <2>4. past' \in [spoilt : SUBSET Nat, missed : SUBSET Nat]
    BY <2>3, <1>1
  <2>5. run.id + 1 \in past'.spoilt => run.id \in past'.spoilt
    BY <2>1, <1>4 DEF ScopeInv, Spoiling
  <2> QED BY <2>1, <2>4, <2>5
<1>9. ScopeTypes'
  BY <1>1, <1>5, <1>6, <1>7, <1>8 DEF ScopeInv, ScopeTypes
<1>10. ScopeControl'
  BY <1>1, <1>3, <1>5, <1>6, <1>7, <1>8 DEF ScopeInv, ScopeControl, RunOver
<1>11. Spoiling'
  BY <1>3, <1>5, <1>8 DEF ScopeInv, Spoiling
<1>12. Apart' /\ Lit' = Lit /\ Read' = Read /\ Filed' = Filed
  BY <1>1, <1>6, ApartFrame DEF ScopeInv
<1>13. Clean'
  BY <1>1, <1>3, <1>5, <1>7, <1>8 DEF ScopeInv, ScopeControl, Clean
<1>14. Counted'
  BY <1>1, <1>5, <1>7, <1>8, <1>12 DEF ScopeInv, Counted
<1>15. Closed'
  BY <1>1, <1>5, <1>7, <1>8 DEF ScopeInv, Closed
<1> QED BY <1>9, <1>10, <1>11, <1>12, <1>13, <1>14, <1>15 DEF ScopeInv

\* Closing begins: with a burst on its way, the run and the one after it are
\* spoilt.
LEMMA StartsToFinalizeStep ==
  ASSUME ScopeInv, Scope!StartsToFinalize
  PROVE  ScopeInv'
<1> USE DEF Scope!None
<1>1. /\ main.pc = "top" /\ sub.finalizing # 0 /\ ~scope.capturing /\ out = << >>
      /\ main' = [main EXCEPT !.pc = "flush"]
      /\ past' = [past EXCEPT !.spoilt = past.spoilt \cup
                    IF Scope!IsIdle /\ Scope!OnItsWay
                      THEN {sub.finalizing, sub.finalizing + 1} ELSE {}]
      /\ UNCHANGED <<run, scope, reads, out, sub, step, writer, files, tags, shots, used>>
  BY DEF Scope!StartsToFinalize, Scope!Drained, Scope!IsIdle
<1>2. /\ main \in [pc : {"top", "flush", "forget", "dose"}, item : Nat]
      /\ past \in [spoilt : SUBSET Nat, missed : SUBSET Nat]
      /\ sub.finalizing \in Nat /\ run.id \in Nat /\ sub.finalizing <= run.id
  BY DEF ScopeInv, ScopeTypes, ScopeControl
<1>3. /\ main' \in [pc : {"top", "flush", "forget", "dose"}, item : Nat]
      /\ main'.pc = "flush"
  BY <1>1, <1>2
<1>4. /\ past' \in [spoilt : SUBSET Nat, missed : SUBSET Nat]
      /\ past.spoilt \subseteq past'.spoilt
      /\ past'.spoilt \subseteq past.spoilt \cup {sub.finalizing, sub.finalizing + 1}
      /\ sub.finalizing + 1 \in past'.spoilt =>
           (sub.finalizing + 1 \in past.spoilt \/ sub.finalizing \in past'.spoilt)
      /\ Scope!OnItsWay => sub.finalizing + 1 \in past'.spoilt
  <2>1. past'.spoilt = past.spoilt \cup
          IF Scope!IsIdle /\ Scope!OnItsWay THEN {sub.finalizing, sub.finalizing + 1} ELSE {}
    BY <1>1, <1>2
  <2>2. past'.missed = past.missed
    BY <1>1, <1>2
  <2>3. past'.spoilt \in SUBSET Nat
    BY <2>1, <1>2
  <2>4. past' \in [spoilt : SUBSET Nat, missed : SUBSET Nat]
    BY <2>3, <1>1, <1>2
  <2>5. Scope!IsIdle
    BY DEF Scope!StartsToFinalize, Scope!Drained
  <2> QED BY <2>1, <2>4, <2>5
<1>5. ScopeTypes'
  BY <1>1, <1>3, <1>4 DEF ScopeInv, ScopeTypes
<1>6. ScopeControl'
  BY <1>1, <1>3, <1>4 DEF ScopeInv, ScopeControl, RunOver
<1>7. Spoiling'
  <2>1. \A r \in past.spoilt : r \in Nat /\ r <= run.id + 1
    BY <1>2 DEF ScopeInv, Spoiling
  <2>2. \A r \in past'.spoilt : r <= run.id + 1
    BY <2>1, <1>2, <1>4
  <2>3. run.id + 1 \in past.spoilt => run.id \in past.spoilt
    BY DEF ScopeInv, Spoiling
  <2>4. ASSUME run.id + 1 \in past'.spoilt PROVE run.id \in past'.spoilt
    <3>1. CASE run.id + 1 \in past.spoilt
      BY <3>1, <2>3, <1>4
    <3>2. CASE run.id + 1 \notin past.spoilt
      <4>1. run.id = sub.finalizing
        BY <3>2, <2>4, <1>2, <1>4
      <4> QED BY <4>1, <3>2, <2>4, <1>4
    <3> QED BY <3>1, <3>2
  <2> QED BY <2>2, <2>4, <1>1 DEF Spoiling
<1>8. Apart' /\ Lit' = Lit /\ Read' = Read /\ Filed' = Filed
  BY <1>1, ApartFrame DEF ScopeInv
<1>9. Clean'
  <2>1. sub.exp # 0
    BY <1>1 DEF ScopeInv, ScopeControl
  <2>2. ASSUME sub.finalizing = run.id, run.id + 1 \notin past'.spoilt
        PROVE  ScopeQuiet
    <3>1. RunOver /\ ~scope.active /\ ~sub.doRun
      BY <1>1, <2>2 DEF ScopeInv, ScopeControl
    <3>2. ~Scope!OnItsWay
      BY <1>4, <2>2
    <3>3. /\ scope.pc \in {"top", "capturing"} /\ reads = << >> /\ ~scope.once
          /\ step \notin {"drain", "arm"}
      BY <3>2 DEF Scope!OnItsWay
    <3>4. scope.pc = "top"
      BY <3>3, <1>1 DEF ScopeInv, ScopeControl
    <3> QED BY <3>1, <3>3, <3>4, <1>1 DEF ScopeQuiet
  <2>3. ScopeQuiet' <=> ScopeQuiet
    BY <1>1 DEF ScopeQuiet, RunOver
  <2> QED BY <2>1, <2>2, <2>3, <1>1, <1>3 DEF Clean
<1>10. Counted'
  BY <1>1, <1>4, <1>8 DEF ScopeInv, Counted
<1>11. Closed'
  BY <1>1, <1>4 DEF ScopeInv, Closed
<1> QED BY <1>5, <1>6, <1>7, <1>8, <1>9, <1>10, <1>11 DEF ScopeInv

\* A flush that gives up leaves the run to be closed later.
LEMMA FlushExpiresStep ==
  ASSUME ScopeInv, Scope!FlushExpires
  PROVE  ScopeInv'
<1>1. /\ main.pc = "flush" /\ main' = [main EXCEPT !.pc = "top"]
      /\ UNCHANGED <<run, scope, reads, out, sub, step, writer, files, tags, shots, used, past>>
  BY DEF Scope!FlushExpires
<1>2. /\ main' \in [pc : {"top", "flush", "forget", "dose"}, item : Nat]
      /\ main'.pc = "top"
  BY <1>1 DEF ScopeInv, ScopeTypes
<1>3. ScopeTypes'
  BY <1>1, <1>2 DEF ScopeInv, ScopeTypes
<1>4. ScopeControl'
  BY <1>1, <1>2 DEF ScopeInv, ScopeControl, RunOver
<1>5. Apart' /\ Lit' = Lit /\ Read' = Read /\ Filed' = Filed
  BY <1>1, ApartFrame DEF ScopeInv
<1>6. sub.exp # 0
  BY <1>1 DEF ScopeInv, ScopeControl
<1>7. Spoiling' /\ Clean' /\ Counted' /\ Closed'
  BY <1>1, <1>2, <1>5, <1>6 DEF ScopeInv, Spoiling, Clean, Counted, Closed
<1> QED BY <1>3, <1>4, <1>5, <1>7 DEF ScopeInv

\* The flush is over: the run that is closed is the one stopped last.
LEMMA FlushedStep ==
  ASSUME ScopeInv, Scope!Flushed
  PROVE  ScopeInv'
<1> USE DEF Scope!None
<1>1. /\ main.pc = "flush" /\ writer.queue = << >>
      /\ main' = [pc |-> "forget", item |-> sub.finalizing]
      /\ sub' = [sub EXCEPT !.finalizing = 0]
      /\ UNCHANGED <<run, scope, reads, out, step, writer, files, tags, shots, used, past>>
  BY DEF Scope!Flushed
<1>2. /\ sub \in [exp : Nat, target : Nat, dose : Nat, doRun : BOOLEAN, finalizing : Nat]
      /\ sub.finalizing \in Nat /\ run.id \in Nat /\ sub.finalizing <= run.id
      /\ sub.finalizing # 0
  BY <1>1 DEF ScopeInv, ScopeTypes, ScopeControl
<1>3. /\ main' \in [pc : {"top", "flush", "forget", "dose"}, item : Nat]
      /\ main'.pc = "forget" /\ main'.item = sub.finalizing
      /\ sub' \in [exp : Nat, target : Nat, dose : Nat, doRun : BOOLEAN, finalizing : Nat]
      /\ sub'.finalizing = 0 /\ sub'.exp = sub.exp /\ sub'.doRun = sub.doRun
  BY <1>1, <1>2
<1>4. ScopeTypes'
  BY <1>1, <1>3 DEF ScopeInv, ScopeTypes
<1>5. /\ sub.exp # 0
      /\ sub.finalizing # run.id => run.id \in past.spoilt
      /\ sub.finalizing = run.id => (RunOver /\ sub.exp = run.id)
      /\ sub.finalizing \in 1..run.id
  BY <1>1, <1>2 DEF ScopeInv, ScopeControl
<1>6. /\ (main'.pc = "forget" /\ main'.item # run'.id) => run'.id \in past'.spoilt
      /\ (main'.pc = "forget" /\ main'.item = run'.id) =>
           (sub'.finalizing = 0 /\ RunOver' /\ sub'.exp = run'.id)
      /\ RunOver' <=> RunOver
  BY <1>1, <1>3, <1>5 DEF RunOver
<1>7. (sub'.exp # 0 /\ RunOver') =>
        (sub'.finalizing = run'.id \/ (main'.pc = "forget" /\ main'.item = run'.id))
  BY <1>1, <1>3, <1>5, <1>6 DEF ScopeInv, ScopeControl
<1>8. ScopeControl'
  BY <1>1, <1>3, <1>5, <1>6, <1>7 DEF ScopeInv, ScopeControl
<1>9. Apart' /\ Lit' = Lit /\ Read' = Read /\ Filed' = Filed
  BY <1>1, ApartFrame DEF ScopeInv
<1>10. Clean'
  <2>1. ScopeQuiet' <=> ScopeQuiet
    BY <1>1, <1>3 DEF ScopeQuiet, RunOver
  <2>2. (run.id + 1 \notin past.spoilt /\ sub.finalizing = run.id) => ScopeQuiet
    BY <1>1 DEF ScopeInv, Clean
  <2> QED BY <2>1, <2>2, <1>1, <1>3, <1>5 DEF Clean
<1>11. Spoiling' /\ Counted' /\ Closed'
  BY <1>1, <1>3, <1>9 DEF ScopeInv, Spoiling, Counted, Closed
<1> QED BY <1>4, <1>8, <1>9, <1>10, <1>11 DEF ScopeInv

\* The closed run is forgotten.
LEMMA ForgetStep ==
  ASSUME ScopeInv, Scope!Forget
  PROVE  ScopeInv'
<1> USE DEF Scope!None
<1>1. /\ main.pc = "forget"
      /\ writer' = [writer EXCEPT !.exp = 0, !.record = 0]
      /\ sub' = [sub EXCEPT !.exp = IF sub.exp = main.item THEN 0 ELSE sub.exp]
      /\ main' = [main EXCEPT !.pc = "dose"]
      /\ UNCHANGED <<run, scope, reads, out, step, files, tags, shots, used, past>>
  BY DEF Scope!Forget
<1>2. /\ main \in [pc : {"top", "flush", "forget", "dose"}, item : Nat]
      /\ sub \in [exp : Nat, target : Nat, dose : Nat, doRun : BOOLEAN, finalizing : Nat]
      /\ writer \in [exp : Nat, record : Nat, queue : Seq(Nat)]
      /\ main.item \in 1..run.id /\ run.id \in Nat /\ sub.exp \in {0, run.id} /\ main.item # 0
  BY <1>1 DEF ScopeInv, ScopeTypes, ScopeControl
<1>3. /\ main' \in [pc : {"top", "flush", "forget", "dose"}, item : Nat]
      /\ main'.pc = "dose" /\ main'.item = main.item
      /\ writer' \in [exp : Nat, record : Nat, queue : Seq(Nat)]
      /\ writer'.exp = 0 /\ writer'.record = 0 /\ writer'.queue = writer.queue
  BY <1>1, <1>2
<1>4. /\ sub' \in [exp : Nat, target : Nat, dose : Nat, doRun : BOOLEAN, finalizing : Nat]
      /\ sub'.finalizing = sub.finalizing /\ sub'.doRun = sub.doRun
      /\ sub.exp = main.item => sub'.exp = 0
      /\ sub.exp # main.item => sub'.exp = sub.exp
  BY <1>1, <1>2
<1>5. ScopeTypes'
  BY <1>1, <1>3, <1>4 DEF ScopeInv, ScopeTypes
<1>6. /\ main.item # run.id => (run.id \in past.spoilt /\ sub'.exp = sub.exp)
      /\ main.item = run.id => (sub.finalizing = 0 /\ RunOver /\ sub.exp = run.id /\ sub'.exp = 0)
      /\ RunOver' <=> RunOver
  <2>1. /\ main.item # run.id => run.id \in past.spoilt
        /\ main.item = run.id => (sub.finalizing = 0 /\ RunOver /\ sub.exp = run.id)
    BY <1>1 DEF ScopeInv, ScopeControl
  <2>2. RunOver' <=> RunOver
    BY <1>1 DEF RunOver
  <2> QED BY <2>1, <2>2, <1>2, <1>4
<1>7. ScopeControl'
  <2>1. CASE main.item = run.id
    BY <2>1, <1>1, <1>2, <1>3, <1>4, <1>6 DEF ScopeInv, ScopeControl
  <2>2. CASE main.item # run.id
    BY <2>2, <1>1, <1>2, <1>3, <1>4, <1>6 DEF ScopeInv, ScopeControl
  <2> QED BY <2>1, <2>2
<1>8. Apart' /\ Lit' = Lit /\ Read' = Read /\ Filed' = Filed
  BY <1>1, <1>3, ApartFrame DEF ScopeInv
<1>9. ScopeQuiet' <=> ScopeQuiet
  BY <1>1, <1>4 DEF ScopeQuiet, RunOver
<1>10. Clean'
  <2>1. CASE main.item = run.id
    BY <2>1, <1>1, <1>3, <1>4, <1>6, <1>9 DEF ScopeInv, Clean
  <2>2. CASE main.item # run.id
    <3>1. sub.exp = 0 => run.id + 1 \in past.spoilt
      BY <1>1 DEF ScopeInv, Clean
    <3> QED BY <3>1, <2>2, <1>1, <1>3, <1>6 DEF Clean
  <2> QED BY <2>1, <2>2
<1>11. Counted'
  <2> SUFFICES ASSUME run.id # 0, run.id \notin past.spoilt PROVE Counted'
    BY <1>1 DEF Counted
  <2>1. main.item = run.id
    BY <1>6
  <2>2. run.id + 1 \notin past.spoilt
    BY DEF ScopeInv, Spoiling
  <2>3. ScopeQuiet /\ writer.queue = << >>
    BY <2>1, <2>2, <1>1 DEF ScopeInv, Clean
  <2>4. scope.lit = 0 /\ reads = << >> /\ out = << >>
    BY <2>3 DEF ScopeQuiet, ScopeInv, ScopeControl
  <2>5. In(writer.queue) = {} /\ In(out) = {} /\ Read = {} /\ Lit = {}
    BY <2>3, <2>4, InOne DEF Read, Lit
  <2>6. shots[run.id] = files[run.id] \cup In(writer.queue) \cup In(out) \cup Read \cup Lit
    BY <2>1, <1>6 DEF ScopeInv, Counted
  <2>7. files[run.id] = shots[run.id]
    BY <2>5, <2>6
  <2> QED BY <2>1, <2>7, <1>1, <1>6 DEF Counted
<1>12. Spoiling' /\ Closed'
  <2>1. Spoiling'
    BY <1>1 DEF ScopeInv, Spoiling
  <2>2. sub.exp = 0 => sub'.exp = 0
    BY <1>4
  <2> QED BY <2>1, <2>2, <1>1 DEF ScopeInv, Closed
<1> QED BY <1>5, <1>7, <1>8, <1>10, <1>11, <1>12 DEF ScopeInv

\* Its dose is calculated, or not.
LEMMA DoseStep ==
  ASSUME ScopeInv, Scope!Dose
  PROVE  ScopeInv'
<1> DEFINE m == main.item
<1> USE DEF Scope!None
<1>1. /\ main.pc = "dose" /\ main' = [pc |-> "top", item |-> 0]
      /\ \/ tags' = tags
         \/ \E dose \in Scope!DosesOf(files[m]) : tags' = [tags EXCEPT ![m] = dose]
      /\ UNCHANGED <<run, scope, reads, out, sub, step, writer, files, shots, used, past>>
  BY DEF Scope!Dose
<1>2. m \in 1..run.id /\ run.id \in 0..MaxRuns /\ m \in Scope!Runs
  <2>1. m \in 1..run.id /\ run.id \in 0..MaxRuns
    BY <1>1 DEF ScopeInv, ScopeTypes, ScopeControl
  <2> HIDE DEF m
  <2> QED BY <2>1, DevicesAssumption DEF Scope!Runs
<1>3. /\ main' \in [pc : {"top", "flush", "forget", "dose"}, item : Nat]
      /\ main'.pc = "top"
  BY <1>1
<1>4. /\ DOMAIN tags' = Scope!Runs
      /\ tags'[m] = tags[m] \/ tags'[m] \in Scope!DosesOf(files[m])
      /\ \A r \in Scope!Runs : r # m => tags'[r] = tags[r]
  <2>1. DOMAIN tags = Scope!Runs
    BY DEF ScopeInv, ScopeTypes
  <2> HIDE DEF m
  <2> QED BY <1>1, <1>2, <2>1
<1>5. ScopeTypes'
  BY <1>1, <1>3, <1>4 DEF ScopeInv, ScopeTypes
<1>6. ScopeControl'
  BY <1>1, <1>3 DEF ScopeInv, ScopeControl, RunOver
<1>7. Apart' /\ Lit' = Lit /\ Read' = Read /\ Filed' = Filed
  BY <1>1, ApartFrame DEF ScopeInv
<1>8. Spoiling' /\ Clean' /\ Counted'
  <2>1. ScopeQuiet' <=> ScopeQuiet
    BY <1>1 DEF ScopeQuiet, RunOver
  <2> QED BY <2>1, <1>1, <1>3, <1>7 DEF ScopeInv, Spoiling, Clean, Counted
<1>9. m \notin past.spoilt => (files[m] = shots[m] /\ (m < run.id \/ sub.exp = 0))
  <2>1. CASE m = run.id
    <3>1. sub.exp = 0 /\ run.id # 0
      BY <2>1, <1>1, <1>2 DEF ScopeInv, ScopeControl
    <3> QED BY <3>1, <2>1, ForgottenIsQuiet
  <2>2. CASE m # run.id
    <3>1. m < run.id
      <4> HIDE DEF m
      <4> QED BY <2>2, <1>2
    <3> QED BY <3>1, <1>2 DEF ScopeInv, Closed
  <2> QED BY <2>1, <2>2
<1>10. Closed'
  <2>1. ASSUME NEW r \in Scope!Runs, r > run.id PROVE r # m
    <3> HIDE DEF m
    <3> QED BY <2>1, <1>2 DEF Scope!Runs
  <2>2. /\ \A r \in Scope!Runs : r > run.id => (files[r] = {} /\ shots[r] = {} /\ tags'[r] = << >>)
        /\ \A r \in Scope!Runs \ past.spoilt : r < run.id => files[r] = shots[r]
    BY <2>1, <1>4 DEF ScopeInv, Closed
  <2>3. ASSUME NEW r \in Scope!Runs \ past.spoilt, tags'[r] # << >>
        PROVE  tags'[r] \in Scope!DosesOf(shots[r]) /\ files[r] = shots[r]
               /\ (r < run.id \/ sub.exp = 0)
    <3>1. CASE tags'[r] = tags[r]
      BY <3>1, <2>3 DEF ScopeInv, Closed
    <3>2. CASE r = m /\ tags'[r] \in Scope!DosesOf(files[m])
      BY <3>2, <1>9, <2>3
    <3> HIDE DEF m
    <3> QED BY <3>1, <3>2, <1>4
  <2> QED BY <2>2, <2>3, <1>1 DEF Closed
<1> QED BY <1>5, <1>6, <1>7, <1>8, <1>10 DEF ScopeInv

\* The writer finds the record of the run it has.
LEMMA FindRecordStep ==
  ASSUME ScopeInv, Scope!FindRecord
  PROVE  ScopeInv'
<1> USE DEF Scope!None
<1>1. /\ writer.record = 0 /\ writer.exp # 0
      /\ writer' = [writer EXCEPT !.record = writer.exp]
      /\ UNCHANGED <<run, scope, reads, out, main, sub, step, files, tags, shots, used, past>>
  BY DEF Scope!FindRecord
<1>2. writer \in [exp : Nat, record : Nat, queue : Seq(Nat)]
  BY DEF ScopeInv, ScopeTypes
<1>3. /\ writer' \in [exp : Nat, record : Nat, queue : Seq(Nat)]
      /\ writer'.exp = writer.exp /\ writer'.record = writer.exp /\ writer'.queue = writer.queue
  BY <1>1, <1>2
<1>4. ScopeTypes'
  BY <1>1, <1>3, SMTT(30) DEF ScopeInv, ScopeTypes
<1>5. ScopeControl'
  BY <1>1, <1>3 DEF ScopeInv, ScopeControl, RunOver
<1>6. Apart' /\ Lit' = Lit /\ Read' = Read /\ Filed' = Filed
  BY <1>1, <1>3, ApartFrame DEF ScopeInv
<1>7. ScopeQuiet' <=> ScopeQuiet
  BY <1>1 DEF ScopeQuiet, RunOver
<1>8. Spoiling' /\ Clean' /\ Closed'
  BY <1>1, <1>3, <1>7 DEF ScopeInv, Spoiling, Clean, Closed
<1>9. Counted'
  BY <1>1, <1>3, <1>6 DEF ScopeInv, Counted
<1> QED BY <1>4, <1>5, <1>6, <1>8, <1>9 DEF ScopeInv

LEMMA ScopeStep ==
  ASSUME ScopeInv, [Scope!Next]_(Scope!scopeVars)
  PROVE  ScopeInv'
<1>1. CASE UNCHANGED Scope!scopeVars
  <2>1. UNCHANGED <<run, scope, reads, out, main, sub, step, writer, files, tags, shots, used, past>>
    BY <1>1 DEF Scope!scopeVars
  <2>2. ScopeTypes'
    BY <2>1 DEF ScopeInv, ScopeTypes
  <2>3. (ScopeQuiet' <=> ScopeQuiet) /\ (RunOver' <=> RunOver)
    BY <2>1 DEF ScopeQuiet, RunOver
  <2>4. ScopeControl'
    BY <2>1 DEF ScopeInv, ScopeControl, RunOver
  <2> QED BY <2>1, <2>2, <2>3, <2>4, ScopeFrame DEF ScopeInv, ScopeControl
<1>2. CASE Scope!Exposure
  BY <1>2, RunAcceptedStep, CalledStep, StopCalledStep DEF Scope!Exposure
<1>3. CASE Scope!Capture
  BY <1>3, CapturingStep, HandOverStep DEF Scope!Capture
<1>4. CASE Scope!Instrument
  BY <1>4, LightStep, CapturingStep DEF Scope!Instrument
<1>5. CASE Scope!Taking
  BY <1>5, SkipSegmentStep, TakeSegmentStep DEF Scope!Taking
<1>6. CASE Scope!Closing
  BY <1>6, StartsToFinalizeStep, FlushExpiresStep, FlushedStep, ForgetStep, DoseStep
     DEF Scope!Closing
<1>7. CASE Scope!Writing
  BY <1>7, FindRecordStep, WriteSegmentStep DEF Scope!Writing
<1>8. CASE Scope!Decode \/ Scope!Answer \/ Scope!Stepping
  BY <1>8, DecodeStep, CalledStep, SteppingStep
<1> QED BY <1>1, <1>2, <1>3, <1>4, <1>5, <1>6, <1>7, <1>8 DEF Scope!Next

\* Whatever the number of runs, of segments and of faults: the dose recorded for
\* a run is calculated from the segments that saw its light with the laser on, all
\* of them and no others, unless the run was closed with a burst on its way,
\* followed one that was, overlapped another, or lost a write (oscilloscope.py, the
\* queues between its threads and the closing of a run).  Which of these segments
\* the calculation passes over is not told.
THEOREM RecordsAreWhole == Scope!Spec => []RecordIsWhole
<1>1. ScopeInv => RecordIsWhole
  BY DEF ScopeInv, Closed, RecordIsWhole, Scope!RecordIsWhole
<1> QED BY <1>1, ScopeInvInit, ScopeStep, PTL DEF Scope!Spec
=============================================================================
