---------------------------- MODULE LaserController ----------------------------
(***************************************************************************)
(* The laser and chopper controller (subsystems/laser.py) over its         *)
(* provider (subsystems/wf_laser.py).                                      *)
(*                                                                         *)
(* Four parties share the state without a lock: the callbacks of the       *)
(* exposure controller and of operators, which only store a handle and     *)
(* queue a job; the setter worker, which takes the jobs in order and talks *)
(* to the provider; the main loop, which answers the handles and runs the  *)
(* acquisition interlock; and the provider's own thread.  The provider     *)
(* calls of one job are one step, except for a timed exposure, which holds *)
(* the worker while the phase moves.                                       *)
(*                                                                         *)
(* The phase decides whether the sample is exposed: closed at the preinit  *)
(* phase, open at the target phase.  It moves only while the laser is on.  *)
(***************************************************************************)
EXTENDS Integers, Sequences

CONSTANTS
  MaxOps,     \* bound on the calls of operators
  MaxFaults   \* bound on the faults of one behaviour

VARIABLES
  hw,        \* the provider
  handle,    \* the calls that wait for their answer
  jobs,      \* __setter_queue
  shot,      \* the timed exposure that holds the worker
  active,    \* __experiment_active
  reached,   \* the stop whose end the main loop has seen and not answered yet
  test,      \* __test_active
  lock,      \* __interlock_closed, __interlock_close_pending, ..._reopen_pending
  seen,      \* the newest acquisition health and target status received;
             \* "resume" is health that is ready for and authorizes recovery
  exposure,  \* the exposure controller's view of the laser
  ops,       \* calls of operators so far
  faults,    \* faults so far
  overtaken  \* history: a stop was asked while a preinit was under way, test calls
             \* overlapped, a test step failed with the laser on, or a job lit the
             \* laser between the main loop's look at it and its answer

laserVars == <<hw, handle, jobs, shot, active, test, reached, lock, seen, exposure>>
vars == <<laserVars, ops, faults, overtaken>>

---------------------------------------------------------------------------
(* The provider. *)

Phases == {"initial", "preinit", "target", "other"}

\* spin: __desired_chopper_on; sync: the measured frequency is within its
\* tolerance.  How often a lost chopper is enabled again is not modelled.
Provider == [laser : {"off", "warming", "on"}, wave : BOOLEAN, spin : BOOLEAN,
             sync : BOOLEAN,
             want : Phases, phase : Phases]

LaserOn == hw.laser # "off"
SampleOpen == LaserOn /\ hw.phase = "target"

\* `set_laser_on`: the pairs of result and provider that a call may leave.
LaserSwitch(h, on) ==
  LET dark == [h EXCEPT !.laser = "off"]
  IN  CASE on /\ ~h.sync -> {<<FALSE, h>>}
        [] on /\ h.sync -> {<<TRUE, [h EXCEPT !.laser = "warming", !.wave = TRUE]>>}
                           \cup IF h.wave THEN {} ELSE {<<FALSE, dark>>}
        [] ~on -> {<<TRUE, dark>>}
                  \cup IF h.wave /\ faults < MaxFaults
                       THEN {<<FALSE, [dark EXCEPT !.wave = FALSE]>>} ELSE {}

\* `set_chopper_on`; switching on fails when no recovery attempt is left.
ChopperSwitch(h, on) ==
  IF on THEN {<<ok, [h EXCEPT !.spin = TRUE, !.sync = FALSE]>> : ok \in BOOLEAN}
  ELSE {<<TRUE, [h EXCEPT !.spin = FALSE, !.sync = FALSE]>>}

\* `set_chopper_frequency_hz`: the measured frequency may match the new one.
FrequencySet(h) ==
  {[h EXCEPT !.sync = s] : s \in {FALSE, h.sync}}

\* `__reset_to_initial_phase`.
ResetPhase(h) == [h EXCEPT !.want = "initial", !.phase = "initial"]

---------------------------------------------------------------------------
(* Calls.  A handle is "setup" until its job has run, then "set". *)

Lifecycle == {"preinit", "start", "stop"}
TestSteps == {"test_preinit", "test_init", "test_stop"}
Switches == {"laser_on", "laser_off", "chopper_on", "chopper_off", "set_phase"}
Exposures == {"timed", "continuous", "shut"}
Slots == Lifecycle \cup TestSteps \cup Switches \cup Exposures

Waits(c) == handle[c] # "none"
TestInProgress == \E c \in TestSteps \cup Switches : Waits(c)
ControlInProgress == \E c \in Exposures : Waits(c)

Enqueue(job) == jobs' = Append(jobs, job)
Ask(c) == handle' = [handle EXCEPT ![c] = "setup"] /\ Enqueue(c)

OpenLock == [closed |-> FALSE, closing |-> FALSE, opening |-> FALSE]

\* `_can_preinit`, then `_on_preinit`; a refusal ends the run.
Preinit ==
  /\ exposure = "idle"
  /\ ~test /\ ~TestInProgress /\ ~ControlInProgress
  /\ exposure' = "preinit"
  /\ active' = TRUE /\ lock' = OpenLock
  /\ seen' = [seen EXCEPT !.stale = FALSE]
  /\ Ask("preinit") /\ overtaken' = (overtaken /\ reached # "no")
  /\ UNCHANGED <<hw, shot, test, reached, ops, faults>>

\* `_on_start`.
Start ==
  /\ exposure = "ready" /\ exposure' = "start"
  /\ Ask("start")
  /\ UNCHANGED <<hw, shot, active, test, reached, lock, seen, ops, faults, overtaken>>

\* `_on_stop`.  A stop that failed is asked again.
Stop ==
  /\ exposure \notin {"idle", "stop"} /\ exposure' = "stop"
  /\ Ask("stop")
  /\ overtaken' = (overtaken \/ Waits("preinit"))
  /\ UNCHANGED <<hw, shot, active, test, reached, lock, seen, ops, faults>>

\* `__on_test_preinit` to `__on_test_set_phase`: nothing is refused, and a
\* second call replaces the handle of the first.
TestCall(c) ==
  /\ c \in TestSteps \cup Switches /\ ops < MaxOps /\ ops' = ops + 1
  /\ test' = (test \/ c \in {"test_preinit", "test_init"})
  /\ Ask(c)
  /\ overtaken' = (overtaken \/ TestInProgress \/ reached = "test_stop")
  /\ UNCHANGED <<hw, shot, active, reached, lock, seen, exposure, faults>>

\* `__on_do_timed_exposure`, `__on_do_continuous_exposure`, `__on_laser_shut`.
ExposureCall(c) ==
  /\ c \in Exposures /\ ops < MaxOps /\ ops' = ops + 1
  /\ ~\E l \in Lifecycle : Waits(l)
  /\ ~TestInProgress /\ ~ControlInProgress
  /\ Ask(c)
  /\ UNCHANGED <<hw, shot, active, test, reached, lock, seen, exposure, faults,
                 overtaken>>

\* `__on_preinit_phase_write` and `__on_target_phase_write`: the phase that was
\* reached is no longer the configured one.
ConfigurePhase(p) ==
  /\ p \in {"preinit", "target"} /\ shot = "no" /\ ops < MaxOps /\ ops' = ops + 1
  /\ LET moved(q) == IF q = p THEN "other" ELSE q
     IN  hw' = [hw EXCEPT !.want = moved(@), !.phase = moved(@)]
  /\ UNCHANGED <<handle, jobs, shot, active, test, reached, lock, seen, exposure,
                 faults, overtaken>>

\* `__on_initial_phase_write`, with the laser off.
ConfigureInitialPhase ==
  /\ ~LaserOn /\ ops < MaxOps /\ ops' = ops + 1
  /\ hw' = ResetPhase(hw)
  /\ UNCHANGED <<handle, jobs, shot, active, test, reached, lock, seen, exposure,
                 faults, overtaken>>

\* `__on_chopper_frequency_write`.
ConfigureFrequency ==
  /\ ~active /\ ~\E l \in Lifecycle : Waits(l)
  /\ ops < MaxOps /\ ops' = ops + 1
  /\ hw' \in FrequencySet(hw)
  /\ UNCHANGED <<handle, jobs, shot, active, test, reached, lock, seen, exposure,
                 faults, overtaken>>

Callbacks ==
  \/ Preinit \/ Start \/ Stop
  \/ \E c \in Slots : TestCall(c) \/ ExposureCall(c)
  \/ \E p \in Phases : ConfigurePhase(p)
  \/ ConfigureInitialPhase \/ ConfigureFrequency

---------------------------------------------------------------------------
(* The setter worker.  A job yields the pairs of result and provider that it *)
(* may end with.                                                            *)

Then(results, f(_)) == {IF r[1] THEN <<TRUE, f(r[2])>> ELSE r : r \in results}
WithPhase(h, p) == [h EXCEPT !.want = p]

LifecycleJob(job) ==
  CASE job = "preinit" -> UNION {ChopperSwitch(g, TRUE) : g \in FrequencySet(hw)}
    [] job = "preinit_laser" -> Then(LaserSwitch(hw, TRUE), LAMBDA h : WithPhase(h, "preinit"))
    [] job = "start" -> {<<TRUE, WithPhase(hw, "target")>>}
    [] job = "stop" -> Then(LaserSwitch(hw, FALSE), ResetPhase)

TestStepJob(job) ==
  CASE job = "test_preinit" -> ChopperSwitch(hw, TRUE)
    [] job = "test_preinit_laser" ->
         Then(LaserSwitch(hw, TRUE), LAMBDA h : WithPhase(h, "preinit"))
    [] job = "test_init" -> {<<TRUE, WithPhase(hw, "target")>>}
    [] job = "test_stop" -> Then(LaserSwitch(hw, FALSE), ResetPhase)

SwitchJob(job) ==
  CASE job = "laser_on" -> LaserSwitch(hw, TRUE)
    [] job = "laser_off" -> Then(LaserSwitch(hw, FALSE), ResetPhase)
    [] job = "chopper_on" -> ChopperSwitch(hw, TRUE)
    [] job = "chopper_off" -> ChopperSwitch(hw, FALSE)
    [] job = "set_phase" -> {<<TRUE, WithPhase(hw, p)>> : p \in Phases}

ControlJob(job) ==
  {<<TRUE, WithPhase(hw, IF job = "shut" THEN "preinit" ELSE "target")>>}

Served(job) ==
  CASE job = "preinit_laser" -> "preinit"
    [] job = "test_preinit_laser" -> "test_preinit"
    [] OTHER -> job

Results(job) ==
  CASE Served(job) \in Lifecycle -> LifecycleJob(job)
    [] Served(job) \in TestSteps -> TestStepJob(job)
    [] job \in Switches -> SwitchJob(job)
    [] OTHER -> ControlJob(job)

\* `__refresh_test_active`, after a manual switch was answered.
StillTesting(h, waiting) ==
  /\ ~active
  /\ h.laser # "off" \/ h.sync \/ \E c \in TestSteps \cup Switches : waiting[c] # "none"

\* The worker takes a job whose handle waits; a job without handle is dropped.
RunCallJob ==
  /\ shot = "no" /\ jobs # << >> /\ jobs' = Tail(jobs)
  /\ Head(jobs) \notin {"timed", "interlock_close", "interlock_reopen"}
  /\ LET job == Head(jobs)
         c == Served(job)
     IN  IF ~Waits(c)
         THEN UNCHANGED <<hw, handle, active, test, exposure, faults, overtaken>>
         ELSE \E r \in Results(job) :
                /\ hw' = r[2]
                /\ handle' = [handle EXCEPT ![c] =
                     IF r[1] /\ c \in Lifecycle \cup TestSteps THEN "set" ELSE "none"]
                /\ active' = (active /\ (r[1] \/ c # "preinit"))
                /\ test' = CASE r[1] /\ c \in Switches -> StillTesting(hw', handle')
                             [] ~r[1] /\ c \in {"test_preinit", "test_init"} -> FALSE
                             [] OTHER -> test
                /\ exposure' = IF ~r[1] /\ c = exposure THEN "failed" ELSE exposure
                /\ faults' = IF ~r[1] /\ c \in {"stop", "test_stop", "laser_off"}
                             THEN faults + 1 ELSE faults
                /\ overtaken' = \/ overtaken
                                \/ ~r[1] /\ c \in TestSteps /\ hw'.laser # "off"
                                \/ reached # "no" /\ ~LaserOn /\ hw'.laser # "off"
  /\ UNCHANGED <<shot, reached, lock, seen, ops>>

\* `__execute_do_timed_exposure` and `do_single_shot`: the worker waits until
\* the phase is open and then until it is shut.
BeginShot ==
  /\ shot = "no" /\ jobs # << >> /\ Head(jobs) = "timed" /\ jobs' = Tail(jobs)
  /\ handle' = [handle EXCEPT !["timed"] = "none"]
  /\ IF Waits("timed") /\ hw.sync /\ hw.laser # "warming"
     THEN shot' = "open" /\ hw' = WithPhase(hw, "target")
     ELSE UNCHANGED <<shot, hw>>
  /\ UNCHANGED <<active, test, reached, lock, seen, exposure, ops, faults, overtaken>>

AdvanceShot ==
  /\ \/ shot = "open" /\ hw.phase = "target" /\ shot' = "shut" /\ hw' = WithPhase(hw, "preinit")
     \/ shot = "shut" /\ hw.phase = "preinit" /\ shot' = "no" /\ UNCHANGED hw
  /\ UNCHANGED <<handle, jobs, active, test, reached, lock, seen, exposure, ops,
                 faults, overtaken>>

\* `__execute_interlock_close`.
InterlockClose ==
  /\ shot = "no" /\ jobs # << >> /\ Head(jobs) = "interlock_close" /\ jobs' = Tail(jobs)
  /\ hw' = WithPhase(hw, "preinit")
  /\ lock' = [lock EXCEPT !.closed = TRUE, !.closing = FALSE]
  /\ UNCHANGED <<handle, shot, active, test, reached, seen, exposure, ops,
                 faults, overtaken>>

\* `__execute_interlock_reopen`.
InterlockReopen ==
  /\ shot = "no" /\ jobs # << >> /\ Head(jobs) = "interlock_reopen" /\ jobs' = Tail(jobs)
  /\ hw' = WithPhase(hw, "target")
  /\ lock' = [lock EXCEPT !.closed = FALSE, !.opening = FALSE]
  /\ UNCHANGED <<handle, shot, active, test, reached, seen, exposure, ops,
                 faults, overtaken>>

Worker == RunCallJob \/ BeginShot \/ AdvanceShot \/ InterlockClose \/ InterlockReopen

---------------------------------------------------------------------------
(* The main loop. *)

\* `__preinit_ready`.
PreinitReady == hw.laser = "on" /\ hw.sync /\ hw.phase = "preinit"

Answered(c, next) ==
  /\ handle' = [handle EXCEPT ![c] = "none"]
  /\ exposure' = IF exposure = c THEN next ELSE exposure

\* The laser is switched on once the chopper is at its frequency; the preinit
\* is done when it is warm and the phase is closed.
AdvancePreinit(c, job) ==
  /\ reached = "no" /\ handle[c] = "set"
  /\ \/ /\ ~LaserOn /\ hw.sync
        /\ handle' = [handle EXCEPT ![c] = "setup"] /\ Enqueue(job)
        /\ UNCHANGED exposure
     \/ PreinitReady /\ Answered(c, "ready") /\ UNCHANGED jobs
  /\ UNCHANGED <<hw, shot, active, test, reached, lock, seen, ops, faults, overtaken>>

AdvanceStart(c) ==
  /\ reached = "no" /\ handle[c] = "set" /\ hw.phase = "target"
  /\ Answered(c, "running")
  /\ UNCHANGED <<hw, jobs, shot, active, test, reached, lock, seen, ops, faults,
                 overtaken>>

\* Mutants: the answer does not wait for the laser; it waits for the chopper.
StopReachedUnseen(c) == handle[c] = "set"
StopReachedStill(c) == handle[c] = "set" /\ ~LaserOn /\ ~hw.sync

StopReached(c) == handle[c] = "set" /\ ~LaserOn

\* The main loop finds the laser off, and then answers: the worker may run a job
\* in between.
SeeStopped(c) ==
  /\ reached = "no" /\ StopReached(c) /\ reached' = c
  /\ UNCHANGED <<hw, handle, jobs, shot, active, test, lock, seen, exposure,
                 ops, faults, overtaken>>

AdvanceStop ==
  /\ reached = "stop" /\ reached' = "no" /\ Answered("stop", "idle") /\ active' = FALSE
  /\ UNCHANGED <<hw, jobs, shot, test, lock, seen, ops, faults, overtaken>>

AdvanceTestStop ==
  /\ reached = "test_stop" /\ reached' = "no" /\ Answered("test_stop", "idle") /\ test' = FALSE
  /\ UNCHANGED <<hw, jobs, shot, active, lock, seen, ops, faults, overtaken>>

\* `__update_acquisition_interlock`.
Guarded == active /\ ~Waits("stop")
Unsafe == seen.stale \/ seen.health = "loss"

MustClose == Unsafe /\ ~lock.closed /\ ~lock.closing

AskClose ==
  /\ reached = "no" /\ Guarded /\ MustClose
  /\ lock' = [lock EXCEPT !.closing = TRUE] /\ Enqueue("interlock_close")
  /\ UNCHANGED <<hw, handle, shot, active, test, reached, seen, exposure, ops,
                 faults, overtaken>>

AskReopen ==
  /\ reached = "no" /\ Guarded /\ ~Unsafe
  /\ seen.health = "resume" /\ seen.moving /\ lock.closed /\ ~lock.opening
  /\ lock' = [lock EXCEPT !.opening = TRUE] /\ Enqueue("interlock_reopen")
  /\ UNCHANGED <<hw, handle, shot, active, test, reached, seen, exposure, ops,
                 faults, overtaken>>

MainLoop ==
  \/ AdvancePreinit("preinit", "preinit_laser")
  \/ AdvancePreinit("test_preinit", "test_preinit_laser")
  \/ AdvanceStart("start") \/ AdvanceStart("test_init")
  \/ SeeStopped("stop") \/ AdvanceStop
  \/ SeeStopped("test_stop") \/ AdvanceTestStop
  \/ AskClose \/ AskReopen

---------------------------------------------------------------------------
(* The provider's thread, the instruments and the clock. *)

ProviderFrame ==
  UNCHANGED <<handle, jobs, shot, active, test, reached, lock, seen, exposure,
              ops, overtaken>>

\* `refresh_hardware_status`: a laser whose chopper left its frequency is
\* switched off.
Shutdown == /\ LaserOn /\ ~hw.sync
            /\ hw' = [hw EXCEPT !.laser = "off"]
            /\ UNCHANGED faults /\ ProviderFrame

Reconnect == /\ ~hw.wave /\ hw' = [hw EXCEPT !.wave = TRUE]
             /\ UNCHANGED faults /\ ProviderFrame

WarmedUp == /\ hw.laser = "warming" /\ hw' = [hw EXCEPT !.laser = "on"]
            /\ UNCHANGED faults /\ ProviderFrame

PhaseMoves == /\ LaserOn /\ hw.sync /\ hw.phase # hw.want
              /\ hw' = [hw EXCEPT !.phase = hw.want]
              /\ UNCHANGED faults /\ ProviderFrame

ChopperLocks == /\ hw.spin /\ ~hw.sync /\ hw' = [hw EXCEPT !.sync = TRUE]
                /\ UNCHANGED faults /\ ProviderFrame

\* The chopper slips or its controller is disconnected; the waveform generator
\* is found disconnected, which counts as the laser being off.
ChopperFails == /\ hw.sync /\ hw' = [hw EXCEPT !.sync = FALSE]
                /\ faults < MaxFaults /\ faults' = faults + 1 /\ ProviderFrame

GeneratorFails == /\ hw.wave /\ hw' = [hw EXCEPT !.wave = FALSE, !.laser = "off"]
                  /\ faults < MaxFaults /\ faults' = faults + 1 /\ ProviderFrame

Instruments == Shutdown \/ Reconnect \/ WarmedUp \/ PhaseMoves
               \/ ChopperLocks \/ ChopperFails \/ GeneratorFails

---------------------------------------------------------------------------
(* What the laser hears of the acquisition and of the target. *)

HealthArrives ==
  /\ \E h \in IF active THEN {"ok", "loss", "resume"} ELSE {"ok"} :
       seen' = [health |-> h, stale |-> FALSE, moving |-> h = "resume"]
  /\ UNCHANGED <<hw, handle, jobs, shot, active, test, reached, lock, exposure,
                 ops, faults, overtaken>>

HealthIsLate ==
  /\ ~seen.stale /\ faults < MaxFaults /\ faults' = faults + 1
  /\ seen' = [seen EXCEPT !.stale = TRUE]
  /\ UNCHANGED <<hw, handle, jobs, shot, active, test, reached, lock, exposure,
                 ops, overtaken>>

Init ==
  /\ hw = [laser |-> "off", wave |-> TRUE, spin |-> FALSE, sync |-> FALSE,
           want |-> "initial", phase |-> "initial"]
  /\ handle = [c \in Slots |-> "none"] /\ jobs = << >> /\ shot = "no"
  /\ active = FALSE /\ test = FALSE /\ reached = "no" /\ lock = OpenLock
  /\ seen = [health |-> "ok", stale |-> FALSE, moving |-> FALSE]
  /\ exposure = "idle" /\ ops = 0 /\ faults = 0 /\ overtaken = FALSE

Next == Callbacks \/ Worker \/ MainLoop \/ Instruments \/ HealthArrives \/ HealthIsLate

Spec == Init /\ [][Next]_vars

\* The threads run; the laser warms up and the phase moves while it is on.
FairThreads ==
  /\ WF_vars(Worker)
  /\ WF_vars(AdvancePreinit("preinit", "preinit_laser"))
  /\ WF_vars(AdvanceStart("start")) /\ WF_vars(AskClose)
  /\ WF_vars(SeeStopped("stop")) /\ WF_vars(AdvanceStop) /\ WF_vars(AdvanceTestStop)
  /\ WF_vars(Shutdown) /\ WF_vars(WarmedUp) /\ WF_vars(PhaseMoves)

FairSpec == Spec /\ FairThreads

---------------------------------------------------------------------------
(* Properties. *)

TypeOK ==
  /\ hw \in Provider
  /\ handle \in [Slots -> {"none", "setup", "set"}]
  /\ shot \in {"no", "open", "shut"}
  /\ reached \in {"no", "stop", "test_stop"}
  /\ exposure \in {"idle", "preinit", "ready", "start", "running", "stop", "failed"}
  /\ lock \in [closed : BOOLEAN, closing : BOOLEAN, opening : BOOLEAN]

\* Between runs the laser is dark, unless a test holds it.  Four things break
\* this: a stop that overtakes a preinit, which switches the laser on later; test
\* calls that overlap; a test step that fails when the laser is on, which ends the
\* test but not the light; and a job that lights the laser after the main loop
\* found it dark and before it answers the stop.
StoppedLaserStaysOff ==
  exposure = "idle" /\ ~overtaken /\ ~test => ~LaserOn

\* A timed exposure waits for a phase that only moves with the laser on.
Stuck == shot # "no" /\ ~LaserOn

\* A stop is answered, unless the worker is stuck or something switches the
\* laser on again first.
StopIsAnswered ==
  Waits("stop") ~> (~Waits("stop") \/ Stuck \/ (handle["stop"] = "set" /\ LaserOn))

===========================================================================
