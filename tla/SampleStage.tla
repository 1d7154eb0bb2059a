------------------------------ MODULE SampleStage ------------------------------
(***************************************************************************)
(* The sample motion subsystem (subsystems/sample_motion.py) over the link *)
(* to the stage service: PiStageController, whose thread runs one queued   *)
(* operation at a time as a sequence of commands and waits, and            *)
(* SampleMotionSubsystem, whose worker queues operations there, waits for  *)
(* them and answers, while a publisher thread answers starts and stops.    *)
(*                                                                         *)
(* A slot is the number of its position on both axes; rotations are taken  *)
(* modulo a turn, and the distances of the homing sequence are the         *)
(* smallest numbers with the order and the signs of the code's.            *)
(***************************************************************************)
EXTENDS StageLink

CONSTANTS
  Slots,        \* the sample slots
  MAX_ATTEMPTS, \* attempts of a rotational homing
  MaxEvents     \* bound on the runs, calls and faults of one behaviour

ASSUME StageAssumption ==
  /\ Slots \subseteq Nat \ {0}
  /\ MAX_ATTEMPTS \in Nat \ {0} /\ MaxEvents \in Nat

VARIABLES
  stage,  \* the queue and the running operation of PiStageController
  queue,  \* the operations the subsystem has accepted
  served, \* the operation its worker serves, and how far it is
  exper,  \* the experiment's slot, handles and flags of the subsystem
  run,    \* the exposure controller's view of the sample stage
  events, \* runs, calls and faults so far
  early,  \* history: a wait ended before its operation had begun
  other,  \* history: a preparation was overtaken by a stop, or the stage was
          \* moved by a client or an offset while it was prepared
  adrift  \* history: an operation was given up while an axis moved

stageVars == <<stage, queue, served, exper, run, early, other, adrift>>
vars == <<serviceVars, linkVars, stageVars, events>>

---------------------------------------------------------------------------
(* The operations of PiStageController as sequences of commands and waits. *)

Command(name, x, n) == [name |-> name, axis |-> x, arg |-> n, from |-> "none"]
Move(x, n) == Command("MOVE", x, n)
Set(x, n) == Command("SET", x, n)
Home == Command("HOME", "rot", 0)
\* The number is the home position measured in a pass.
SetTo(pass) == [Set("rot", 0) EXCEPT !.from = pass]
MoveTo(pass) == [Move("rot", 0) EXCEPT !.from = pass]

Queue(cs) == [do |-> "queue", commands |-> cs]
Wait(what) == [do |-> what]
TakeHome(pass) == [do |-> "home", pass |-> pass]

\* `__move_blocking`, after some other commands.
Blocking(before, x, n) ==
  <<Queue(Append(before, Move(x, n))), Wait("acked"), Wait("moving"), Wait("stopped"),
    [do |-> "at", axis |-> x, arg |-> n]>>

\* `__home_lin`: past the far end, which becomes zero.
HomeLin ==
  <<Queue(<<Move("rot", 0)>>), Wait("acked"), Wait("stopped"),
    Queue(<<Set("rot", 0), Set("lin", 0)>>), Wait("acked")>>
  \o Blocking(<< >>, "lin", 2)
  \o <<Queue(<<Set("lin", 0), Move("lin", 0)>>), Wait("acked")>>

\* One pass over the limit switch.
Sweep(before, pass) ==
  <<Queue(before \o <<Home, Move("rot", 1)>>), Wait("acked"), Wait("stopped"),
    TakeHome(pass)>>

\* `__home_rot`: fast, then slow, then slow again.
HomeRot ==
  Blocking(<< >>, "lin", 1) \o Blocking(<< >>, "rot", 0)
  \o Sweep(<<Set("rot", 0)>>, "fast")
  \o Blocking(<< >>, "rot", -2) \o Blocking(<< >>, "rot", -1)
  \o <<Queue(<<Set("rot", 0), Move("rot", 0)>>), Wait("acked")>>
  \o Sweep(<< >>, "a")
  \o <<Queue(<<SetTo("a"), MoveTo("a")>>), Wait("acked")>>
  \o Blocking(<< >>, "rot", -1) \o Blocking(<< >>, "rot", 0)
  \o Sweep(<< >>, "b")
  \o <<Wait("compare"), Queue(<<Set("rot", 0)>>), Wait("acked")>>
  \o Blocking(<< >>, "rot", -1)
  \o <<Queue(<<Set("rot", 0), Move("rot", 0)>>), Wait("acked")>>

\* `__move`: the linear axis moves meanwhile.
GoTo(pose) == Blocking(<<Move("lin", pose["lin"])>>, "rot", pose["rot"])

Script(job) ==
  CASE job.part = "lin" -> HomeLin
    [] job.part = "rot" -> HomeRot
    [] job.part = "retry" -> <<Queue(<<Set("rot", 1)>>), Wait("acked")>>
    [] job.part = "move" -> GoTo(job.to)

\* `calc_target_pose_for_slot`: an offset moves the slot on the linear axis.
Pose(slot, offset) == [rot |-> slot, lin |-> 2 - offset]

NoJob == [kind |-> "none"]
\* The home positions of the slow passes; the fast one is compared with a
\* tolerance nothing exceeds.
NoMarks == [pass \in {"a", "b"} |-> NoHome]

Job(kind, to) ==
  [kind |-> kind, to |-> to, at |-> 1, tries |-> 1,
   part |-> CASE kind = "home" -> "lin" [] kind = "home_rot" -> "rot"
              [] kind = "move" -> "move",
   marks |-> NoMarks]

Homing(job) == job.kind \in {"home", "home_rot"}

---------------------------------------------------------------------------
(* The thread of PiStageController. *)

Working == stage.job # NoJob

Instruction == Script(stage.job)[stage.job.at]

\* The last report tells all there is: a wait of a second, twenty reports
\* long, runs out only then.
Settled == heard = Report /\ wire = <<>> /\ Flushed

Passes(i) ==
  CASE i.do = "acked" -> Acked /\ ~Broken
    [] i.do = "moving" -> link.online /\ ((\E x \in Axes : heard.moving[x]) \/ Settled)
    [] i.do = "stopped" -> link.online /\ \A x \in Axes : ~heard.moving[x]
    [] i.do = "at" -> heard.pos[i.axis] = i.arg
    [] OTHER -> FALSE

Raises(i) ==
  CASE i.do = "acked" -> Broken \/ Overdue
    [] i.do = "at" -> heard.pos[i.axis] # i.arg /\ (~link.online \/ Settled)
    [] i.do = "home" -> heard.home = NoHome
    [] i.do \in {"queue", "moving", "stopped"} -> ~link.online
    [] OTHER -> FALSE

Finished(s) ==
  [s EXCEPT !.job = NoJob, !.state = "idle",
            !.error = IF Homing(s.job) THEN FALSE ELSE @]

Failed(s) ==
  [s EXCEPT !.job = NoJob, !.state = "idle",
            !.error = IF Homing(s.job) THEN TRUE ELSE @]

\* After the last instruction of a part.
NextPart(s) ==
  CASE s.job.part = "lin" ->
         [s EXCEPT !.job.part = "rot", !.job.at = 1, !.homed = TRUE, !.origin["lin"] = TRUE]
    [] s.job.part = "rot" -> [Finished(s) EXCEPT !.origin["rot"] = TRUE]
    [] s.job.part = "move" -> Finished(s)
    [] s.job.part = "retry" /\ s.job.tries < MAX_ATTEMPTS ->
         [s EXCEPT !.job.part = "rot", !.job.at = 1, !.job.tries = @ + 1]
    [] OTHER -> Failed(s)

Onward(s) ==
  IF s.job.at < Len(Script(s.job)) THEN [s EXCEPT !.job.at = @ + 1] ELSE NextPart(s)

PickUp ==
  /\ ~Working /\ link.online /\ stage.state # "offline" /\ stage.ops # <<>>
  /\ LET job == Head(stage.ops)
     IN stage' = [stage EXCEPT !.ops = Tail(@), !.job = job,
                    !.state = IF Homing(job) THEN "homing" ELSE "moving",
                    !.origin["rot"] = @ /\ ~Homing(job)]
  /\ UNCHANGED <<serviceVars, linkVars, queue, served, exper, run, early, other, adrift>>

\* Offline, what was queued is forgotten.
ForgetQueue ==
  /\ ~Working /\ ~link.online /\ (stage.state # "offline" \/ stage.ops # <<>>)
  /\ stage' = [stage EXCEPT !.state = "offline", !.ops = <<>>]
  /\ UNCHANGED <<serviceVars, linkVars, queue, served, exper, run, early, other, adrift>>

ComeBack ==
  /\ ~Working /\ link.online /\ stage.state = "offline"
  /\ stage' = [stage EXCEPT !.state = "idle"]
  /\ UNCHANGED <<serviceVars, linkVars, queue, served, exper, run, early, other, adrift>>

QueueCommands ==
  /\ Working /\ link.online /\ Instruction.do = "queue"
  /\ LET Number(c) == IF c.from = "none" THEN c.arg ELSE stage.job.marks[c.from]
         cs == Instruction.commands
     IN /\ link' = Queued(link, [i \in DOMAIN cs |->
                     [name |-> cs[i].name, axis |-> cs[i].axis, arg |-> Number(cs[i])]])
        /\ tripped' = (tripped /\ \A i \in DOMAIN cs : cs[i] # Home)
  /\ stage' = Onward(stage)
  /\ UNCHANGED <<axes, driver, inbox, slipped, heard, wire, cut, lost, torn,
                 queue, served, exper, run, early, other, adrift>>

WaitEnds ==
  /\ Working /\ Passes(Instruction)
  /\ stage' = Onward(stage)
  /\ UNCHANGED <<serviceVars, linkVars, queue, served, exper, run, early, other, adrift>>

TakesHome ==
  /\ Working /\ Instruction.do = "home" /\ heard.home # NoHome
  /\ stage' = Onward([stage EXCEPT !.job.marks =
                        [p \in DOMAIN @ |-> IF p = Instruction.pass THEN heard.home ELSE @[p]]])
  /\ UNCHANGED <<serviceVars, linkVars, queue, served, exper, run, early, other, adrift>>

\* The two slow passes agree, or the rotation is homed again.
Compare ==
  /\ Working /\ Instruction.do = "compare"
  /\ LET m == stage.job.marks
         seen == [stage EXCEPT !.job.marks = NoMarks]
     IN stage' = IF m["a"] = m["b"] THEN Onward(seen)
                 ELSE [seen EXCEPT !.job.part = "retry", !.job.at = 1]
  /\ UNCHANGED <<serviceVars, linkVars, queue, served, exper, run, early, other, adrift>>

\* The axes are not stopped: they go on to where the last command sent them.
OperationFails ==
  /\ Working /\ Raises(Instruction)
  /\ stage' = Failed(stage)
  /\ adrift' = (adrift \/ \E x \in Axes : Moving(x))
  /\ UNCHANGED <<serviceVars, linkVars, queue, served, exper, run, early, other>>

---------------------------------------------------------------------------
(* The worker of SampleMotionSubsystem. *)

\* `get_state`.
State == IF link.online THEN stage.state ELSE "offline"

\* `__resolve_current_slot` takes the stage to be at a slot that is a tenth
\* of a radian and a millimetre away.  An axis at rest is there or is not;
\* one that moves may be within the tolerance while the next whole position
\* is the slot's, and is there only for a part of its way.
Near(x, n) == heard.moving[x] /\ heard.pos[x] \in n - 1 .. n + 1

TakenFor(slot) ==
  /\ State # "offline"
  /\ \A x \in Axes : LET n == Pose(slot, exper.offset)[x]
                     IN heard.pos[x] = n \/ Near(x, n)

NotTakenFor(slot) == ~TakenFor(slot) \/ \E x \in Axes : heard.moving[x]

NoOp == [kind |-> "none"]
Op(kind, slot, of) == [kind |-> kind, slot |-> slot, of |-> of]

\* `__queue_operation`, of a link that is online.
Stages(job) == stage' = [stage EXCEPT !.ops = Append(@, job)]

\* `_on_did_preinit`: the exposure controller takes it for the run it
\* prepares.
PreinitDone ==
  /\ run' = IF run.phase = "preinit" THEN [run EXCEPT !.phase = "prepared"] ELSE run
  /\ exper' = [exper EXCEPT !.preinit = FALSE]

\* The slot the stage is after, set before the call that may raise.
Aiming ==
  [exper EXCEPT !.target = CASE served.op.kind = "goto" -> 0
                             [] served.op.kind = "goto_sample" \/ served.at = "homed"
                                  -> served.op.slot
                             [] OTHER -> @]

\* `__fail_preinit`.
PreinitFails(e) ==
  /\ run' = IF exper.preinit /\ run.phase = "preinit"
            THEN [run EXCEPT !.phase = "failed"] ELSE run
  /\ exper' = [e EXCEPT !.active = FALSE, !.slot = 0, !.preinit = FALSE]

\* The handle of the served operation is answered with a failure.
ServedFails(e) ==
  /\ IF served.op.kind = "exp_preinit" THEN PreinitFails(e) ELSE exper' = e /\ UNCHANGED run
  /\ served' = [op |-> NoOp, at |-> "free"]

Serve ==
  /\ served.op = NoOp /\ queue # <<>>
  /\ served' = [op |-> Head(queue), at |-> "begin"]
  /\ queue' = Tail(queue)
  /\ UNCHANGED <<serviceVars, linkVars, stage, exper, run, early, other, adrift>>

\* The selected slot is reached already.
AlreadyThere ==
  /\ served.op.kind = "exp_preinit" /\ served.at = "begin"
  /\ TakenFor(served.op.slot) /\ State = "idle"
  /\ PreinitDone
  /\ other' = (other \/ served.op.of # run.id)
  /\ served' = [op |-> NoOp, at |-> "free"]
  /\ UNCHANGED <<serviceVars, linkVars, stage, queue, early, adrift>>

BeginHoming ==
  /\ served.at = "begin" /\ link.online
  /\ \/ served.op.kind \in {"home", "home_rot"} /\ Stages(Job(served.op.kind, 0))
     \/ /\ served.op.kind = "exp_preinit"
        /\ NotTakenFor(served.op.slot) \/ State # "idle"
        /\ Stages(Job("home_rot", 0))
  /\ served' = [served EXCEPT !.at = "homing"]
  /\ UNCHANGED <<serviceVars, linkVars, queue, exper, run, early, other, adrift>>

BeginGoto ==
  /\ served.at = "begin" /\ served.op.kind = "goto" /\ link.online
  /\ Stages(Job("move", Pose(served.op.slot, 1)))
  /\ exper' = Aiming
  /\ served' = [served EXCEPT !.at = "going"]
  /\ UNCHANGED <<serviceVars, linkVars, queue, run, early, other, adrift>>

BeginSlot ==
  /\ \/ served.at = "begin" /\ served.op.kind = "goto_sample"
     \/ served.at = "homed"
  /\ link.online
  /\ Stages(Job("move", Pose(served.op.slot, exper.offset)))
  /\ exper' = Aiming
  /\ served' = [served EXCEPT !.at = "slot"]
  /\ UNCHANGED <<serviceVars, linkVars, queue, run, early, other, adrift>>

\* `__wait_for_idle` returns: the stage is idle, be it that the operation
\* has not begun.
Early == stage.ops # <<>>

EarlyIsRare ==
  /\ early' = (early \/ Early)
  /\ Early => events < MaxEvents
  /\ events' = IF Early THEN events + 1 ELSE events

WaitedHoming ==
  /\ served.at = "homing" /\ State = "idle"
  /\ EarlyIsRare
  /\ IF stage.error THEN ServedFails(exper)
     ELSE IF served.op.kind = "exp_preinit"
     THEN served' = [served EXCEPT !.at = "homed"] /\ UNCHANGED <<exper, run>>
     ELSE /\ served' = [op |-> NoOp, at |-> "free"]
          /\ exper' = [exper EXCEPT !.target = 0]
          /\ UNCHANGED run
  /\ UNCHANGED <<serviceVars, linkVars, stage, queue, other, adrift>>

WaitedGoto ==
  /\ served.at = "going" /\ State = "idle"
  /\ served' = [op |-> NoOp, at |-> "free"]
  /\ EarlyIsRare
  /\ UNCHANGED <<serviceVars, linkVars, stage, queue, exper, run, other, adrift>>

WaitedSlot ==
  /\ served.at = "slot" /\ State = "idle" /\ TakenFor(served.op.slot)
  /\ served' = [op |-> NoOp, at |-> "free"]
  /\ IF served.op.kind = "exp_preinit"
     THEN PreinitDone /\ other' = (other \/ served.op.of # run.id)
     ELSE UNCHANGED <<exper, run, other>>
  /\ UNCHANGED <<serviceVars, linkVars, stage, queue, early, adrift>>

\* The call of the stage raises.
CallFails ==
  /\ served.at \in {"begin", "homed"} /\ ~link.online
  /\ ServedFails(Aiming)
  /\ UNCHANGED <<serviceVars, linkVars, stage, queue, early, other, adrift>>

\* The stage is offline, or the wait of three minutes ran out.
WaitFails ==
  /\ \/ served.at \in {"homing", "going", "slot"} /\ State = "offline"
     \/ served.at = "slot" /\ State = "idle" /\ NotTakenFor(served.op.slot)
        /\ ~Early /\ Settled
  /\ ServedFails(exper)
  /\ UNCHANGED <<serviceVars, linkVars, stage, queue, early, other, adrift>>

---------------------------------------------------------------------------
(* The publisher thread. *)

PublishStart ==
  /\ exper.start
  /\ exper' = [exper EXCEPT !.start = FALSE]
  /\ run' = IF run.phase = "starting" THEN [run EXCEPT !.phase = "running"] ELSE run
  /\ UNCHANGED <<serviceVars, linkVars, stage, queue, served, early, other, adrift>>

\* The preparation that is under way goes on.
PublishStop ==
  /\ exper.pendingStop
  /\ exper' = [exper EXCEPT !.pendingStop = FALSE, !.active = FALSE, !.slot = 0]
  /\ run' = IF run.phase = "stopping" THEN [run EXCEPT !.phase = "idle"] ELSE run
  /\ UNCHANGED <<serviceVars, linkVars, stage, queue, served, early, other, adrift>>

---------------------------------------------------------------------------
(* The exposure controller. *)

CanStart(slot) ==
  /\ run.phase = "idle" /\ State # "offline" /\ stage.homed
  /\ run' = [phase |-> "accepted", id |-> run.id + 1]
  /\ exper' = [exper EXCEPT !.slot = slot]
  /\ UNCHANGED <<serviceVars, linkVars, stage, queue, served, early, other, adrift>>

Preinit ==
  /\ run.phase = "accepted" /\ exper.slot # 0
  /\ run' = [run EXCEPT !.phase = "preinit"]
  /\ exper' = [exper EXCEPT !.active = TRUE, !.preinit = TRUE]
  /\ queue' = Append(queue, Op("exp_preinit", exper.slot, run.id))
  /\ UNCHANGED <<serviceVars, linkVars, stage, served, early, other, adrift>>

Start ==
  /\ run.phase = "prepared"
  /\ run' = [run EXCEPT !.phase = "starting"]
  /\ exper' = [exper EXCEPT !.start = TRUE]
  /\ UNCHANGED <<serviceVars, linkVars, stage, queue, served, early, other, adrift>>

Stop ==
  /\ run.phase \notin {"idle", "stopping"}
  /\ run' = [run EXCEPT !.phase = "stopping"]
  /\ exper' = [exper EXCEPT !.pendingStop = TRUE]
  /\ UNCHANGED <<serviceVars, linkVars, stage, queue, served, early, other, adrift>>

\* `_on_continue_state`, asked while a run is prepared or running.
Continues ==
  \/ exper.preinit \/ exper.start \/ exper.pendingStop
  \/ exper.active /\ exper.slot # 0 /\ ~NotTakenFor(exper.slot)

RunLost ==
  /\ run.phase \in {"prepared", "running"} /\ ~Continues
  /\ run' = [run EXCEPT !.phase = "failed"]
  /\ UNCHANGED <<serviceVars, linkVars, stage, queue, served, exper, early, other, adrift>>

---------------------------------------------------------------------------
(* Clients. *)

Call(kind, slot) ==
  /\ queue' = Append(queue, Op(kind, slot, 0))
  /\ UNCHANGED <<serviceVars, linkVars, stage, served, exper, run, early, other, adrift>>

Preparing == run.phase \in {"preinit", "prepared"}

\* `__on_offset_write`: the stage follows the offset at once.
WriteOffset(o) ==
  /\ exper' = [exper EXCEPT !.offset = o]
  /\ IF exper.target = 0 \/ ~link.online THEN UNCHANGED stage
     ELSE Stages(Job("move", Pose(exper.target, o)))
  /\ other' = (other \/ Preparing)
  /\ UNCHANGED <<serviceVars, linkVars, queue, served, run, early, adrift>>

ClientCalls ==
  /\ events < MaxEvents /\ events' = events + 1
  /\ \/ \E s \in Slots : CanStart(s) \/ Call("goto_sample", s) \/ Call("goto", s)
     \/ Call("home", 0) \/ Call("home_rot", 0)
     \/ \E o \in {0, 1} \ {exper.offset} : WriteOffset(o)

---------------------------------------------------------------------------

NewStage == [state |-> "idle", ops |-> <<>>, job |-> NoJob, error |-> FALSE,
             homed |-> FALSE, origin |-> [x \in Axes |-> FALSE]]

NewExper == [slot |-> 0, active |-> FALSE, preinit |-> FALSE, start |-> FALSE,
             pendingStop |-> FALSE, offset |-> 0, target |-> 0]

ClientRestarts ==
  /\ link' = NewLink /\ heard' = NewHeard
  /\ stage' = NewStage /\ exper' = NewExper
  /\ queue' = <<>> /\ served' = [op |-> NoOp, at |-> "free"]
  /\ run' = IF run.phase = "idle" THEN run ELSE [run EXCEPT !.phase = "idle"]
  /\ lost' = TRUE
  /\ UNCHANGED <<serviceVars, wire, cut, torn, early, other, adrift>>

\* The service loses its positions; the client keeps what it believes.
StageRestarts ==
  /\ ServiceRestarts /\ lost' = TRUE
  /\ stage' = [stage EXCEPT !.origin = [x \in Axes |-> FALSE]]
  /\ UNCHANGED <<link, heard, wire, cut, torn, queue, served, exper, run, early, other, adrift>>

Fault ==
  /\ events < MaxEvents /\ events' = events + 1
  /\ \/ (LoseCommand \/ Reorder \/ HearTorn \/ Cut \/ SocketFails) /\ UNCHANGED <<serviceVars, stageVars>>
     \/ ClientRestarts
     \/ StageRestarts

\* Everything is new, or the stage is online and was homed before.
HomedBefore ==
  /\ axes = [rot |-> NewAxis, lin |-> [NewAxis EXCEPT !.pos = 1, !.target = 1]]
  /\ driver = DriverOff
  /\ inbox = [NewInbox EXCEPT !.known = TRUE]
  /\ link = [NewLink EXCEPT !.online = TRUE]
  /\ heard = [NewHeard EXCEPT !.pos["lin"] = 1]
  /\ stage = [NewStage EXCEPT !.homed = TRUE, !.origin = [x \in Axes |-> TRUE]]

Init ==
  /\ \/ NewService /\ link = NewLink /\ heard = NewHeard /\ stage = NewStage
     \/ HomedBefore
  /\ tripped = FALSE /\ slipped = FALSE
  /\ wire = <<>> /\ cut = FALSE /\ lost = FALSE /\ torn = FALSE
  /\ queue = <<>> /\ served = [op |-> NoOp, at |-> "free"]
  /\ exper = NewExper /\ run = [phase |-> "idle", id |-> 0]
  /\ events = 0 /\ early = FALSE /\ other = FALSE /\ adrift = FALSE

LinkStep ==
  \/ (Send \/ Hear \/ LinkTimesOut \/ Mend) /\ UNCHANGED serviceVars
  \/ AskConnection
  \/ Arrive

StageStep ==
  \/ PickUp \/ ForgetQueue \/ ComeBack \/ QueueCommands \/ WaitEnds \/ TakesHome
  \/ Compare \/ OperationFails

SubsystemStep ==
  \/ Serve \/ AlreadyThere \/ BeginHoming \/ BeginGoto \/ BeginSlot
  \/ WaitedSlot \/ CallFails \/ WaitFails
  \/ PublishStart \/ PublishStop

RunStep == Preinit \/ Start \/ Stop \/ RunLost

Next ==
  \/ ServiceNext(~Working) /\ UNCHANGED <<linkVars, stageVars, events>>
  \/ LinkStep /\ UNCHANGED <<stageVars, events>>
  \/ (StageStep \/ SubsystemStep \/ RunStep) /\ UNCHANGED events
  \/ WaitedHoming \/ WaitedGoto
  \/ ClientCalls
  \/ Fault

Spec == Init /\ [][Next]_vars

---------------------------------------------------------------------------
(* Properties. *)

InPlace(slot) ==
  /\ \A x \in Axes : /\ Idle(axes[x]) /\ axes[x].pos = Pose(slot, exper.offset)[x]
                     /\ stage.origin[x]
  /\ ~slipped

\* When the preparation of a run is reported, the stage rests at the slot of
\* the run, both axes know where they are and no counted step was made
\* without the motor.  The exceptions are hazards of the code: a command or
\* a position was lost, a command was acknowledged before it took effect, a
\* wait ended before its operation began, the preparation was that of an
\* earlier run or an offset moved the stage, a slot reached after a failed
\* homing counts as prepared, and an operation that was given up leaves its
\* axes moving, and the stage is idle and may be taken to be at a slot its
\* axes only pass.
PreinitEndsInPlace ==
  [][run.phase = "preinit" /\ run'.phase = "prepared"
     => \/ InPlace(exper.slot)
        \/ lost \/ torn \/ early \/ other' \/ adrift \/ stage.error]_vars

\* A home position the client goes by was measured in the pass it asked
\* for, and not in an earlier one, unless a command was lost.
HomeIsFresh == [][TakesHome => tripped \/ lost]_vars
=============================================================================
