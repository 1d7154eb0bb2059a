----------------------------- MODULE StageService -----------------------------
(***************************************************************************)
(* The sample stage service of the Raspberry Pi (sample_stage_ctl):        *)
(* two steppers, the thread that switches the motor driver, the limit      *)
(* switch of the rotation and the receiver of commands.                    *)
(*                                                                         *)
(* Positions are whole numbers of a coarse step; velocity profiles are     *)
(* left out but for what a limit trip asks of them, whether the axis has   *)
(* made a step since its profile was reset.                                *)
(***************************************************************************)
EXTENDS Integers

VARIABLES
  axes,     \* the steppers
  driver,   \* the enable pin and the thread of the StepperController
  inbox,    \* the newest command number, and whether the service knows whom
            \* to report to
  tripped,  \* history: the limit tripped since the client asked for a home
  slipped   \* history: a step was counted while the driver was off

serviceVars == <<axes, driver, inbox, tripped, slipped>>

Axes == {"rot", "lin"}

NoHome == 99            \* `_home_position` is None
DriverOff == [on |-> FALSE, enabled |-> FALSE, pc |-> "watch"]

Sign(n) == IF n > 0 THEN 1 ELSE IF n < 0 THEN -1 ELSE 0

---------------------------------------------------------------------------
(* One stepper.  `dir` is `_motion_direction`; it is not zero exactly when *)
(* `_current_velocity` is positive.                                        *)

Idle(a) == a.pos = a.target

SetTarget(a, t) ==
  [a EXCEPT !.target = t,
            !.dir = IF Idle(a) \/ Sign(t - a.pos) # a.dir THEN 0 ELSE a.dir]

SetPosition(a, p) == [a EXCEPT !.pos = p, !.dir = 0]

SetHoming(a) == [a EXCEPT !.homing = TRUE, !.home = NoHome, !.triggered = FALSE]

CanMove(a, yes) ==
  [a EXCEPT !.canMove = yes, !.dir = IF yes THEN a.dir ELSE 0]

\* `trig_home`: at rest the switch is the new zero; an axis that moves
\* brakes past it and comes to rest at its new zero.
TrigHome(a) ==
  LET at == [a EXCEPT !.home = a.pos, !.triggered = TRUE, !.target = 0]
  IN IF a.dir = 0 THEN [at EXCEPT !.pos = 0, !.homing = FALSE]
     ELSE [at EXCEPT !.pos = -a.dir]

\* `_advance_once`.
Advance(a) ==
  LET d == Sign(a.target - a.pos)
      next == [a EXCEPT !.pos = a.pos + d, !.dir = d]
  IN IF Idle(next) /\ a.triggered
     THEN [next EXCEPT !.homing = FALSE, !.triggered = FALSE] ELSE next

Moving(x) == ~Idle(axes[x])

---------------------------------------------------------------------------
(* The threads. *)

Step(x) ==
  /\ axes[x].canMove /\ Moving(x)
  /\ axes' = [axes EXCEPT ![x] = Advance(@)]
  /\ slipped' = (slipped \/ ~driver.on)
  /\ UNCHANGED <<driver, inbox, tripped>>

\* Only the rotation has a limit switch.
LimitTrips ==
  /\ axes["rot"].homing /\ ~axes["rot"].triggered
  /\ axes' = [axes EXCEPT !["rot"] = TrigHome(@)]
  /\ tripped' = TRUE
  /\ UNCHANGED <<driver, inbox, slipped>>

AllMay(yes) == [x \in Axes |-> CanMove(axes[x], yes)]

\* StepperController._run: the driver is given two seconds before motion.
SwitchOn ==
  /\ driver.pc = "watch" /\ ~driver.enabled /\ \E x \in Axes : Moving(x)
  /\ driver' = [driver EXCEPT !.on = TRUE, !.pc = "enabling"]
  /\ UNCHANGED <<axes, inbox, tripped, slipped>>

Enable ==
  /\ driver.pc = "enabling"
  /\ axes' = AllMay(TRUE)
  /\ driver' = [driver EXCEPT !.enabled = TRUE, !.pc = "watch"]
  /\ UNCHANGED <<inbox, tripped, slipped>>

\* After ten idle seconds motion is forbidden, and two seconds later the
\* driver is off.  Mutant: motion is not forbidden first.
SwitchOffInMotion ==
  /\ driver.pc = "watch" /\ driver.enabled /\ \A x \in Axes : ~Moving(x)
  /\ driver' = [driver EXCEPT !.pc = "disabling"]
  /\ UNCHANGED <<axes, inbox, tripped, slipped>>

SwitchOff ==
  /\ driver.pc = "watch" /\ driver.enabled /\ \A x \in Axes : ~Moving(x)
  /\ axes' = AllMay(FALSE)
  /\ driver' = [driver EXCEPT !.pc = "disabling"]
  /\ UNCHANGED <<inbox, tripped, slipped>>

Disable ==
  /\ driver.pc = "disabling"
  /\ driver' = DriverOff
  /\ UNCHANGED <<axes, inbox, tripped, slipped>>

\* `_handle_datagram` and `apply_command`.
Apply(c) ==
  LET done == CASE c.name = "MOVE" -> SetTarget(axes[c.axis], c.arg)
                [] c.name = "SET" -> SetPosition(axes[c.axis], c.arg)
                [] c.name = "HOME" -> SetHoming(axes[c.axis])
  IN /\ axes' = [axes EXCEPT ![c.axis] = done]
     /\ inbox' = [inbox EXCEPT !.seq = c.seq]
     /\ UNCHANGED <<driver, tripped, slipped>>

\* `format_status`.
Report ==
  [pos |-> [x \in Axes |-> axes[x].pos],
   moving |-> [x \in Axes |-> Moving(x)], home |-> axes["rot"].home]

---------------------------------------------------------------------------
(* A new process. *)

NewAxis == [pos |-> 0, target |-> 0, dir |-> 0, canMove |-> FALSE,
            homing |-> FALSE, triggered |-> FALSE, home |-> NoHome]

NewInbox == [seq |-> -1, known |-> FALSE]

NewService ==
  axes = [x \in Axes |-> NewAxis] /\ driver = DriverOff /\ inbox = NewInbox

\* The service ends (a failed thread ends them all) and is started again.
ServiceRestarts ==
  /\ axes' = [x \in Axes |-> NewAxis] /\ driver' = DriverOff /\ inbox' = NewInbox
  /\ tripped' = FALSE
  /\ UNCHANGED slipped

\* Ten seconds without motion do not pass while commands keep coming.
ServiceNext(quiet) ==
  \/ \E x \in Axes : Step(x)
  \/ LimitTrips \/ SwitchOn \/ Enable \/ Disable
  \/ quiet /\ SwitchOff
=============================================================================
