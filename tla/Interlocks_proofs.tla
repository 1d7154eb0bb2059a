-------------------------- MODULE Interlocks_proofs --------------------------
(***************************************************************************)
(* Proofs about the acquisition interlock, for every number of operator    *)
(* calls, of faults and of pulse losses.                                   *)
(***************************************************************************)
EXTENDS Interlocks, SequenceTheorems, TLAPS

-----------------------------------------------------------------------------
(* What is in the queue of the setter worker.                               *)

In(s) == {s[i] : i \in DOMAIN s}
Apart(s) == \A i, j \in DOMAIN s : s[i] = s[j] => i = j

LEMMA Appended ==
  ASSUME NEW S, NEW s \in Seq(S), NEW x \in S
  PROVE  /\ Append(s, x) \in Seq(S) /\ In(Append(s, x)) = In(s) \cup {x}
         /\ x \notin In(s) /\ Apart(s) => Apart(Append(s, x))
<1> DEFINE t == Append(s, x)
<1>1. /\ t \in Seq(S) /\ Len(t) = Len(s) + 1 /\ t[Len(s) + 1] = x
      /\ \A i \in 1..Len(s) : t[i] = s[i]
  BY AppendProperties
<1>2. DOMAIN t = 1..(Len(s) + 1) /\ DOMAIN s = 1..Len(s) /\ Len(s) \in Nat
  BY <1>1
<1> HIDE DEF t
<1>3. In(t) \subseteq In(s) \cup {x}
  <2> SUFFICES ASSUME NEW i \in 1..(Len(s) + 1) PROVE t[i] \in In(s) \cup {x}
    BY <1>2 DEF In
  <2>1. CASE i \in 1..Len(s)
    BY <2>1, <1>1, <1>2 DEF In
  <2>2. CASE i = Len(s) + 1
    BY <2>2, <1>1
  <2> QED BY <2>1, <2>2, <1>2
<1>4. In(s) \subseteq In(t)
  <2> SUFFICES ASSUME NEW i \in 1..Len(s) PROVE s[i] \in In(t)
    BY <1>2 DEF In
  <2>1. i \in DOMAIN t /\ t[i] = s[i]
    BY <1>1, <1>2
  <2> QED BY <2>1 DEF In
<1>5. x \in In(t)
  <2>1. Len(s) + 1 \in DOMAIN t
    BY <1>2
  <2> QED BY <2>1, <1>1 DEF In
<1>6. ASSUME x \notin In(s), Apart(s), NEW i \in DOMAIN t, NEW j \in DOMAIN t, t[i] = t[j]
      PROVE  i = j
  <2>1. \A k \in 1..Len(s) : t[k] \in In(s)
    BY <1>1, <1>2 DEF In
  <2>2. CASE i \in 1..Len(s) /\ j \in 1..Len(s)
    BY <2>2, <1>1, <1>2, <1>6 DEF Apart
  <2>3. CASE i = Len(s) + 1 \/ j = Len(s) + 1
    BY <2>1, <2>3, <1>1, <1>2, <1>6
  <2> QED BY <2>2, <2>3, <1>2
<1>7. x \notin In(s) /\ Apart(s) => Apart(t)
  BY <1>6 DEF Apart
<1> QED BY <1>1, <1>3, <1>4, <1>5, <1>7 DEF t

LEMMA Taken ==
  ASSUME NEW S, NEW s \in Seq(S), s # << >>
  PROVE  /\ Tail(s) \in Seq(S) /\ Head(s) \in S /\ In(s) = {Head(s)} \cup In(Tail(s))
         /\ Apart(s) => Head(s) \notin In(Tail(s)) /\ Apart(Tail(s))
<1> DEFINE t == Tail(s)
<1>1. /\ t \in Seq(S) /\ Head(s) \in S /\ Head(s) = s[1]
      /\ Len(t) = Len(s) - 1 /\ Len(s) \in Nat \ {0}
      /\ \A i \in 1..Len(t) : t[i] = s[i + 1]
  BY HeadTailProperties
<1>2. DOMAIN t = 1..Len(t) /\ DOMAIN s = 1..Len(s) /\ Len(t) \in Nat
  BY <1>1
<1> HIDE DEF t
<1>3. \A i \in 1..Len(t) : i + 1 \in DOMAIN s /\ i + 1 # 1 /\ t[i] = s[i + 1]
  BY <1>1, <1>2
<1>4. 1 \in DOMAIN s
  BY <1>1, <1>2
<1>5. In(s) \subseteq {Head(s)} \cup In(t)
  <2> SUFFICES ASSUME NEW i \in 1..Len(s) PROVE s[i] \in {Head(s)} \cup In(t)
    BY <1>2 DEF In
  <2>1. CASE i = 1
    BY <2>1, <1>1
  <2>2. CASE i # 1
    <3>1. i - 1 \in 1..Len(t) /\ (i - 1) + 1 = i
      BY <2>2, <1>1, <1>2
    <3>2. i - 1 \in DOMAIN t /\ t[i - 1] = s[i]
      BY <3>1, <1>2, <1>3
    <3> QED BY <3>2 DEF In
  <2> QED BY <2>1, <2>2
<1>6. In(t) \subseteq In(s)
  BY <1>2, <1>3 DEF In
<1>7. Head(s) \in In(s)
  BY <1>1, <1>4 DEF In
<1>8. ASSUME Apart(s) PROVE Head(s) \notin In(t)
  BY <1>1, <1>2, <1>3, <1>4, <1>8 DEF Apart, In
<1>9. ASSUME Apart(s) PROVE Apart(t)
  <2> SUFFICES ASSUME NEW i \in 1..Len(t), NEW j \in 1..Len(t), t[i] = t[j]
               PROVE  i = j
    BY <1>2 DEF Apart
  <2>1. i + 1 = j + 1
    BY <1>3, <1>9 DEF Apart
  <2> QED BY <2>1
<1> QED BY <1>1, <1>5, <1>6, <1>7, <1>8, <1>9 DEF t

-----------------------------------------------------------------------------
(* The inductive invariant.                                                 *)

Health == {"ok", "loss", "resume"}
Jobs == {"stop", "interlock_close", "interlock_reopen"}
Passes == {"none", "run", "start", "stop", "jog", "look"}
Turns == {"none", "pause", "resume"}

Types ==
  /\ hw \in L!Provider
  /\ handle \in [L!Slots -> {"none", "setup", "set"}]
  /\ jobs \in Seq(Jobs)
  /\ lock \in [closed : BOOLEAN, closing : BOOLEAN, opening : BOOLEAN]
  /\ seen \in [health : Health, stale : BOOLEAN, moving : BOOLEAN]
  /\ drive \in [running : BOOLEAN, starting : BOOLEAN, jogging : BOOLEAN]
  /\ heard \in [health : Health, fresh : BOOLEAN, closed : BOOLEAN]
  /\ pulses \in [lost : BOOLEAN, active : BOOLEAN, ready : BOOLEAN, auth : BOOLEAN]
  /\ posted \in Health /\ owed \in BOOLEAN /\ crossed \in BOOLEAN
  /\ pass \in Passes /\ turn \in Turns

\* During a run the worker gets the stop and the jobs of the interlock, each at
\* most once, while the flag or the handle it answers is up; a stop whose laser was
\* found off has its handle still.
Queue ==
  /\ shot = "no" /\ Apart(jobs)
  /\ \A c \in L!Slots : c # "stop" => handle[c] = "none"
  /\ "stop" \in In(jobs) => exposure = "stop" /\ handle["stop"] = "setup"
  /\ handle["stop"] = "set" => exposure = "stop"
  /\ reached # "no" => reached = "stop" /\ handle["stop"] = "set"
  /\ "interlock_reopen" \in In(jobs) => lock.opening
  /\ "interlock_close" \in In(jobs) => lock.closing

\* While recovery is authorized no copy says loss and no pause is decided on, and
\* only then one is offered.
Authority ==
  /\ pulses.auth => posted # "loss" /\ seen.health # "loss" /\ heard.health # "loss"
  /\ posted = "resume" => pulses.auth
  /\ turn = "pause" => ~pulses.auth

\* A loss the laser heard of is not answered by a recovery authorized before it.
Owing == owed => ~pulses.auth /\ seen.health # "resume"

\* The move thread starts only a target that does not run.
Starting == pass = "start" => ~drive.running

Shut == hw.want # "target" /\ hw.phase # "target"

\* Once the target is paused the sample stays shut.
Waiting ==
  pause = "paused" => ~drive.running /\ ~drive.starting /\ pass # "start" /\ Shut

\* Without authorization the sample does not open: nothing asks for it, nothing
\* will, and a target that heard the sample is shut may rely on it, until the pause
\* it has decided on as well.
Closing ==
  ~pulses.auth =>
    /\ "interlock_reopen" \notin In(jobs)
    /\ lock.closed \/ lock.closing => seen.health # "resume" \/ seen.stale
    /\ hw.phase # "target" => hw.want # "target"
    /\ heard.closed \/ turn = "pause" => Shut

\* With it, a target that still rests keeps the laser from asking.
Resting ==
  pulses.auth /\ pause = "paused" => ~seen.moving /\ "interlock_reopen" \notin In(jobs)

Guarding == ~crossed => Waiting /\ Closing /\ Resting

InterlockInv == Types /\ Queue /\ Authority /\ Owing /\ Starting /\ Guarding

LEMMA InterlockInvInit == Init => InterlockInv
<1> SUFFICES ASSUME Init PROVE InterlockInv
  OBVIOUS
<1> USE DEF Init
<1>1. jobs \in Seq(Jobs) /\ In(jobs) = {} /\ Apart(jobs)
  BY DEF In, Apart
<1>2. handle \in [L!Slots -> {"none", "setup", "set"}] /\ \A c \in L!Slots : handle[c] = "none"
  OBVIOUS
<1>3. hw \in L!Provider
  BY DEF L!Provider, L!Phases
<1>4. Types
  BY <1>1, <1>2, <1>3 DEF Types, L!OpenLock, NoPulses, Health, Passes, Turns
<1>5. Queue
  <2>1. "stop" \in L!Slots
    BY DEF L!Slots, L!Lifecycle
  <2> QED BY <1>1, <1>2, <2>1 DEF Queue
<1>6. Authority /\ Owing /\ Starting
  BY DEF Authority, Owing, Starting, NoPulses
<1>7. Guarding
  BY <1>1 DEF Guarding, Waiting, Closing, Resting, L!OpenLock, NoPulses
<1> QED BY <1>4, <1>5, <1>6, <1>7 DEF InterlockInv

-----------------------------------------------------------------------------
(* The acquisition.                                                         *)

LEMMA AcquisitionStep ==
  ASSUME InterlockInv, Acquisition
  PROVE  InterlockInv'
<1> USE DEF InterlockInv
<1>1. UNCHANGED <<hw, handle, jobs, shot, reached, lock, seen, exposure, drive, pass, pause,
                  turn, heard>>
  BY DEF Acquisition, PulsesStop, PulsesReturn, TenPulses, PublishHealth, Authorize,
         AcquisitionOnly, laserState, targetState
<1>a. pulses' \in [lost : BOOLEAN, active : BOOLEAN, ready : BOOLEAN, auth : BOOLEAN]
  <2> SUFFICES ASSUME NEW P, P = [lost : BOOLEAN, active : BOOLEAN, ready : BOOLEAN, auth : BOOLEAN],
                      pulses \in P
               PROVE  pulses' \in P
    BY DEF Types
  <2>1. ASSUME NEW on \in BOOLEAN
        PROVE  /\ [pulses EXCEPT !.lost = on] \in P /\ [pulses EXCEPT !.ready = on] \in P
               /\ [pulses EXCEPT !.auth = on] \in P /\ Revoked(pulses) \in P
    BY DEF Revoked
  <2> QED
    BY <2>1 DEF Acquisition, PulsesStop, PulsesReturn, TenPulses, PublishHealth, Authorize
<1>b. posted' \in Health /\ owed' \in BOOLEAN /\ crossed' \in BOOLEAN
  BY DEF Acquisition, PulsesStop, PulsesReturn, TenPulses, PublishHealth, Authorize, Types, Health
<1>2. Types' /\ Queue' /\ Starting'
  BY <1>1, <1>a, <1>b DEF Types, Queue, Starting
<1>3. CASE PulsesStop \/ PulsesReturn \/ TenPulses
  <2>1. pulses'.auth = pulses.auth /\ UNCHANGED <<posted, owed, crossed>>
    BY <1>3 DEF PulsesStop, PulsesReturn, TenPulses, Types
  <2>2. Authority' /\ Owing'
    BY <1>1, <2>1 DEF Authority, Owing
  <2>3. Guarding'
    BY <1>1, <2>1 DEF Guarding, Waiting, Closing, Resting, Shut
  <2> QED BY <1>2, <2>2, <2>3
<1>4. CASE PublishHealth
  <2> DEFINE loss == pulses.lost /\ Expected
  <2>1. CASE loss
    <3>1. ~pulses'.auth /\ posted' = "loss" /\ owed' = owed
          /\ (crossed' = (crossed \/ Opening))
      BY <1>4, <2>1 DEF PublishHealth, Revoked, Types
    <3>2. Authority' /\ Owing'
      BY <1>1, <3>1 DEF Authority, Owing
    <3>3. CASE crossed'
      BY <1>2, <3>2, <3>3 DEF Guarding
    <3>4. CASE ~crossed' /\ ~pulses.auth
      <4>1. ~crossed
        BY <3>1, <3>4 DEF Types
      <4>2. Guarding'
        BY <1>1, <3>1, <3>4, <4>1 DEF Guarding, Waiting, Closing, Resting, Shut
      <4> QED BY <1>2, <3>2, <4>2
    <3>5. CASE ~crossed' /\ pulses.auth
      <4>0. Opened /\ ~crossed
        BY <3>1, <3>5 DEF Opening, Types
      <4>1. /\ ~lock.closed /\ ~lock.closing /\ ~lock.opening
            /\ hw.phase = "target" /\ ~heard.closed /\ ~crossed
        BY <4>0 DEF Opened, L!OpenLock
      <4>2. "interlock_reopen" \notin In(jobs) /\ pause # "paused" /\ turn # "pause"
        BY <3>5, <4>1 DEF Queue, Authority, Guarding, Waiting, Shut
      <4> QED BY <1>1, <1>2, <3>1, <3>2, <4>1, <4>2 DEF Guarding, Waiting, Closing, Resting, Shut
    <3> QED BY <1>2, <3>2, <3>3, <3>4, <3>5
  <2>2. CASE ~loss
    <3>0. /\ pulses' = pulses /\ owed' = owed /\ crossed' = crossed
          /\ posted' = CASE pulses.ready /\ pulses.auth -> "resume" [] OTHER -> "ok"
      BY <1>4, <2>2 DEF PublishHealth, Types
    <3>1. UNCHANGED <<pulses, owed, crossed>> /\ posted' \in {"ok", "resume"}
          /\ (posted' = "resume" => pulses.auth)
      BY <3>0
    <3>2. Authority' /\ Owing'
      BY <1>1, <3>1 DEF Authority, Owing
    <3>3. Guarding'
      BY <1>1, <3>1 DEF Guarding, Waiting, Closing, Resting, Shut
    <3> QED BY <1>2, <3>2, <3>3
  <2> QED BY <2>1, <2>2
<1>5. CASE Authorize
  <2>1. pulses'.auth /\ UNCHANGED <<posted, crossed>> /\ ~owed'
    BY <1>5 DEF Authorize, Types
  <2>2. /\ posted = "ok" /\ seen.health = "ok" /\ heard.health = "ok"
        /\ (seen.moving <=> drive.running) /\ jobs = << >> /\ turn = "none"
    BY <1>5 DEF Authorize, Settled
  <2>3. In(jobs) = {}
    BY <2>2 DEF In
  <2>4. Authority' /\ Owing'
    BY <1>1, <2>1, <2>2 DEF Authority, Owing
  <2>5. Guarding'
    BY <1>1, <2>1, <2>2, <2>3 DEF Guarding, Waiting, Closing, Resting, Shut
  <2> QED BY <1>2, <2>4, <2>5
<1> QED BY <1>3, <1>4, <1>5 DEF Acquisition

-----------------------------------------------------------------------------
(* The copies.                                                              *)

LEMMA LaserHearsStep ==
  ASSUME InterlockInv, LaserHears
  PROVE  InterlockInv'
<1> USE DEF InterlockInv
<1>1. UNCHANGED <<hw, handle, jobs, shot, reached, lock, exposure, drive, pass, pause, turn, heard,
                  pulses, posted, crossed>>
  BY DEF LaserHears, targetState
<1>2. CASE seen' = [seen EXCEPT !.health = posted, !.stale = FALSE]
           /\ (owed' = (owed \/ posted = "loss"))
  <2>1. /\ seen' \in [health : Health, stale : BOOLEAN, moving : BOOLEAN]
        /\ seen'.health = posted /\ seen'.moving = seen.moving /\ owed' \in BOOLEAN
    BY <1>2 DEF Types
  <2>2. Types' /\ Queue' /\ Starting'
    BY <1>1, <2>1 DEF Types, Queue, Starting
  <2>3. Authority' /\ Owing'
    BY <1>1, <1>2, <2>1 DEF Authority, Owing
  <2>4. Guarding'
    BY <1>1, <2>1 DEF Authority, Guarding, Waiting, Closing, Resting, Shut
  <2> QED BY <2>2, <2>3, <2>4
<1>3. CASE seen' = [seen EXCEPT !.moving = drive.running] /\ owed' = owed
  <2>1. /\ seen' \in [health : Health, stale : BOOLEAN, moving : BOOLEAN]
        /\ seen'.health = seen.health /\ seen'.stale = seen.stale
        /\ seen'.moving = drive.running /\ owed' \in BOOLEAN
    BY <1>3 DEF Types
  <2>2. Types' /\ Queue' /\ Starting'
    BY <1>1, <2>1 DEF Types, Queue, Starting
  <2>3. Authority' /\ Owing'
    BY <1>1, <1>3, <2>1 DEF Authority, Owing
  <2>4. Guarding'
    BY <1>1, <2>1 DEF Guarding, Waiting, Closing, Resting, Shut
  <2> QED BY <2>2, <2>3, <2>4
<1> QED BY <1>2, <1>3 DEF LaserHears

LEMMA TargetHearsStep ==
  ASSUME InterlockInv, TargetHearsHealth \/ TargetHearsLaser
  PROVE  InterlockInv'
<1> USE DEF InterlockInv
<1>1. UNCHANGED <<hw, handle, jobs, shot, reached, lock, seen, exposure, drive, pass, pause, turn,
                  pulses, posted, owed, crossed>>
  BY DEF TargetHearsHealth, TargetHearsLaser, TargetFrame, TargetOnly, laserState, acquisitionVars
<1>2. /\ heard' \in [health : Health, fresh : BOOLEAN, closed : BOOLEAN]
      /\ heard'.health \in {heard.health, posted}
      /\ heard'.closed => heard.closed \/ hw.phase = "preinit"
  <2>1. CASE TargetHearsHealth
    BY <2>1 DEF TargetHearsHealth, Types
  <2>2. CASE TargetHearsLaser
    BY <2>2 DEF TargetHearsLaser, Types
  <2> QED BY <2>1, <2>2
<1>3. Types' /\ Queue' /\ Starting'
  BY <1>1, <1>2 DEF Types, Queue, Starting
<1>4. Authority' /\ Owing'
  BY <1>1, <1>2 DEF Authority, Owing
<1>5. Guarding'
  BY <1>1, <1>2 DEF Guarding, Waiting, Closing, Resting, Shut
<1> QED BY <1>3, <1>4, <1>5

-----------------------------------------------------------------------------
(* The laser.                                                               *)

\* What every step of the laser but a reopening does with the phase.
OnlyShuts ==
  /\ hw' \in L!Provider
  /\ Shut => Shut'
  /\ (hw.phase # "target" => hw.want # "target") => (hw'.phase # "target" => hw'.want # "target")

Elsewhere == UNCHANGED <<drive, pass, pause, turn, heard, pulses, posted, crossed>>

\* The guarding after a step that neither touches the copy of the health nor asks
\* for anything.
LEMMA GuardingKept ==
  ASSUME Types, Guarding, Elsewhere, OnlyShuts,
         In(jobs)' \subseteq In(jobs) \cup {"stop"},
         lock'.closed \/ lock'.closing => lock.closed \/ lock.closing,
         seen'.health = seen.health, seen'.moving = seen.moving, seen.stale => seen'.stale
  PROVE  Guarding'
<1>1. CASE crossed
  BY <1>1 DEF Guarding, Elsewhere
<1>2. CASE ~crossed
  <2>1. Waiting' /\ Resting'
    BY <1>2 DEF Guarding, Waiting, Resting, Elsewhere, OnlyShuts
  <2>2. Closing'
    BY <1>2 DEF Guarding, Closing, Elsewhere, OnlyShuts, Types
  <2> QED BY <2>1, <2>2 DEF Guarding
<1> QED BY <1>1, <1>2

PhaseReset(q, r) == r = IF q[1] THEN <<TRUE, L!ResetPhase(q[2])>> ELSE q

\* What the stop of a run may leave of the provider.
LEMMA StopResults ==
  ASSUME hw \in L!Provider, NEW r \in L!Results("stop")
  PROVE  \E ok \in BOOLEAN, g \in L!Provider :
           /\ r = <<ok, g>>
           /\ \/ g.want = "initial" /\ g.phase = "initial"
              \/ g.want = hw.want /\ g.phase = hw.phase
<1> DEFINE dark == [hw EXCEPT !.laser = "off"]
           cut == [dark EXCEPT !.wave = FALSE]
<1>1. PICK q \in L!LaserSwitch(hw, FALSE) : PhaseReset(q, r)
  <2>0. L!Served("stop") = "stop" /\ "stop" \in L!Lifecycle
    BY DEF L!Served, L!Lifecycle
  <2>1. r \in L!LifecycleJob("stop")
    BY <2>0 DEF L!Results, L!Served, L!Lifecycle, L!TestSteps, L!Switches
  <2> QED BY <2>1 DEF L!LifecycleJob, L!Then, PhaseReset
<1>2. q = <<TRUE, dark>> \/ q = <<FALSE, cut>>
  BY DEF L!LaserSwitch
<1>3. /\ dark \in L!Provider /\ dark.want = hw.want /\ dark.phase = hw.phase
      /\ cut \in L!Provider /\ cut.want = hw.want /\ cut.phase = hw.phase
  BY DEF L!Provider
<1>4. L!ResetPhase(dark) \in L!Provider /\ L!ResetPhase(dark).want = "initial"
      /\ L!ResetPhase(dark).phase = "initial"
  BY <1>3 DEF L!ResetPhase, L!Provider, L!Phases
<1> HIDE DEF dark, cut
<1>5. CASE q = <<TRUE, dark>>
  <2>1. r = <<TRUE, L!ResetPhase(dark)>>
    BY <1>1, <1>5 DEF PhaseReset
  <2> QED BY <2>1, <1>4
<1>6. CASE q = <<FALSE, cut>>
  <2>1. r = <<FALSE, cut>>
    BY <1>1, <1>6 DEF PhaseReset
  <2> QED BY <2>1, <1>3
<1> QED BY <1>2, <1>5, <1>6

LEMMA RunCallJobStep ==
  ASSUME InterlockInv, L!RunCallJob, LaserOnly
  PROVE  InterlockInv'
<1> USE DEF InterlockInv
<1>1. /\ jobs # << >> /\ jobs' = Tail(jobs) /\ Head(jobs) \notin {"interlock_close", "interlock_reopen"}
      /\ UNCHANGED <<shot, reached, lock, seen, owed>> /\ Elsewhere
  BY DEF L!RunCallJob, LaserOnly, targetState, acquisitionVars, Elsewhere
<1>2. /\ jobs' \in Seq(Jobs) /\ Head(jobs) \in Jobs /\ In(jobs) = {Head(jobs)} \cup In(jobs')
      /\ Head(jobs) \notin In(jobs') /\ Apart(jobs')
  BY <1>1, Taken DEF Types, Queue
<1>3. Head(jobs) = "stop" /\ L!Served("stop") = "stop" /\ "stop" \in L!Slots
  BY <1>1, <1>2 DEF Jobs, L!Served, L!Slots, L!Lifecycle
<1>4. L!Waits("stop")
  BY <1>2, <1>3 DEF Queue, L!Waits
<1>5. PICK r \in L!Results("stop") :
        /\ hw' = r[2]
        /\ handle' = [handle EXCEPT !["stop"] =
             IF r[1] /\ "stop" \in L!Lifecycle \cup L!TestSteps THEN "set" ELSE "none"]
        /\ exposure' = IF ~r[1] /\ "stop" = exposure THEN "failed" ELSE exposure
  <2> DEFINE job == Head(jobs)
             c == L!Served(job)
  <2>1. L!Waits(c)
    BY <1>3, <1>4
  <2>2. \E r \in L!Results(job) :
          /\ hw' = r[2]
          /\ handle' = [handle EXCEPT ![c] =
               IF r[1] /\ c \in L!Lifecycle \cup L!TestSteps THEN "set" ELSE "none"]
          /\ exposure' = IF ~r[1] /\ c = exposure THEN "failed" ELSE exposure
    BY <2>1, Zenon DEF L!RunCallJob
  <2>3. job = "stop" /\ c = "stop"
    BY <1>3
  <2> HIDE DEF job, c
  <2> QED BY <2>2, <2>3
<1>6. OnlyShuts
  <2>1. hw \in L!Provider
    BY DEF Types
  <2>2. PICK g \in L!Provider :
          /\ r[2] = g
          /\ \/ g.want = "initial" /\ g.phase = "initial"
             \/ g.want = hw.want /\ g.phase = hw.phase
    BY <2>1, StopResults
  <2> QED BY <2>2, <1>5 DEF OnlyShuts, Shut
<1>7. /\ handle' \in [L!Slots -> {"none", "setup", "set"}]
      /\ \A c \in L!Slots : c # "stop" => handle'[c] = handle[c]
      /\ handle'["stop"] = "set" => exposure' = exposure
  <2> DEFINE new == IF r[1] /\ "stop" \in L!Lifecycle \cup L!TestSteps THEN "set" ELSE "none"
  <2>1. /\ new \in {"none", "setup", "set"} /\ handle' = [handle EXCEPT !["stop"] = new]
        /\ new = "set" => exposure' = exposure
    BY <1>5
  <2> HIDE DEF new
  <2> QED BY <2>1, <1>3 DEF Types
<1>8. Types'
  BY <1>1, <1>2, <1>6, <1>7 DEF Types, Elsewhere, OnlyShuts
<1>9. Queue'
  <2>1. exposure = "stop" /\ handle["stop"] = "setup"
    BY <1>2, <1>3 DEF Queue
  <2>2. reached = "no"
    BY <2>1 DEF Queue
  <2> QED BY <1>1, <1>2, <1>3, <1>7, <2>1, <2>2 DEF Queue
<1>10. Authority' /\ Owing' /\ Starting'
  BY <1>1 DEF Authority, Owing, Starting, Elsewhere
<1>11. Guarding'
  BY <1>1, <1>2, <1>6, GuardingKept
<1> QED BY <1>8, <1>9, <1>10, <1>11

LEMMA InterlockCloseStep ==
  ASSUME InterlockInv, L!InterlockClose, LaserOnly
  PROVE  InterlockInv'
<1> USE DEF InterlockInv
<1>1. /\ jobs # << >> /\ jobs' = Tail(jobs) /\ Head(jobs) = "interlock_close"
      /\ UNCHANGED <<handle, shot, reached, seen, exposure, owed>> /\ Elsewhere
  BY DEF L!InterlockClose, LaserOnly, targetState, acquisitionVars, Elsewhere
<1>2. /\ jobs' \in Seq(Jobs) /\ In(jobs) = {"interlock_close"} \cup In(jobs')
      /\ "interlock_close" \notin In(jobs') /\ Apart(jobs')
  BY <1>1, Taken DEF Types, Queue
<1>3. hw' \in L!Provider /\ hw'.want = "preinit" /\ hw'.phase = hw.phase
  BY DEF L!InterlockClose, L!WithPhase, L!Provider, L!Phases, Types
<1>4. OnlyShuts
  BY <1>3 DEF OnlyShuts, Shut
<1>5. /\ lock' \in [closed : BOOLEAN, closing : BOOLEAN, opening : BOOLEAN]
      /\ lock'.opening = lock.opening
  BY DEF L!InterlockClose, Types
<1>6. Types'
  BY <1>1, <1>2, <1>3, <1>5 DEF Types, Elsewhere
<1>7. Queue'
  BY <1>1, <1>2, <1>5 DEF Queue
<1>8. Authority' /\ Owing' /\ Starting'
  BY <1>1 DEF Authority, Owing, Starting, Elsewhere
<1>9. lock.closing
  BY <1>2 DEF Queue
<1>10. Guarding'
  BY <1>1, <1>2, <1>4, <1>9, GuardingKept
<1> QED BY <1>6, <1>7, <1>8, <1>10

LEMMA InterlockReopenStep ==
  ASSUME InterlockInv, L!InterlockReopen, LaserOnly
  PROVE  InterlockInv'
<1> USE DEF InterlockInv
<1>1. /\ jobs # << >> /\ jobs' = Tail(jobs) /\ Head(jobs) = "interlock_reopen"
      /\ UNCHANGED <<handle, shot, reached, seen, exposure, owed>> /\ Elsewhere
  BY DEF L!InterlockReopen, LaserOnly, targetState, acquisitionVars, Elsewhere
<1>2. /\ jobs' \in Seq(Jobs) /\ In(jobs) = {"interlock_reopen"} \cup In(jobs')
      /\ "interlock_reopen" \notin In(jobs') /\ Apart(jobs')
  BY <1>1, Taken DEF Types, Queue
<1>3. hw' \in L!Provider
  BY DEF L!InterlockReopen, L!WithPhase, L!Provider, L!Phases, Types
<1>4. /\ lock' \in [closed : BOOLEAN, closing : BOOLEAN, opening : BOOLEAN]
      /\ lock'.closing = lock.closing
  BY DEF L!InterlockReopen, Types
<1>5. Types'
  BY <1>1, <1>2, <1>3, <1>4 DEF Types, Elsewhere
<1>6. Queue'
  BY <1>1, <1>2, <1>4 DEF Queue
<1>7. Authority' /\ Owing' /\ Starting'
  BY <1>1 DEF Authority, Owing, Starting, Elsewhere
<1>8. ~crossed => pulses.auth /\ pause # "paused"
  BY <1>2 DEF Guarding, Closing, Resting
<1>9. Guarding'
  BY <1>1, <1>2, <1>8 DEF Guarding, Waiting, Closing, Resting, Elsewhere
<1> QED BY <1>5, <1>6, <1>7, <1>9

LEMMA AskStep ==
  ASSUME InterlockInv, L!AskClose \/ L!AskReopen, LaserOnly
  PROVE  InterlockInv'
<1> USE DEF InterlockInv
<1>1. UNCHANGED <<hw, handle, shot, reached, seen, exposure, owed>> /\ Elsewhere
  BY DEF L!AskClose, L!AskReopen, LaserOnly, targetState, acquisitionVars, Elsewhere
<1>2. Authority' /\ Owing' /\ Starting'
  BY <1>1 DEF Authority, Owing, Starting, Elsewhere
<1>3. ASSUME NEW job \in Jobs, jobs' = Append(jobs, job), job \notin In(jobs)
      PROVE  jobs' \in Seq(Jobs) /\ In(jobs)' = In(jobs) \cup {job} /\ Apart(jobs')
  BY <1>3, Appended DEF Types, Queue
<1>4. CASE L!AskClose
  <2>1. /\ lock' \in [closed : BOOLEAN, closing : BOOLEAN, opening : BOOLEAN]
        /\ lock'.closed = lock.closed /\ lock'.closing /\ lock'.opening = lock.opening
        /\ ~lock.closing /\ jobs' = Append(jobs, "interlock_close")
        /\ seen.stale \/ seen.health = "loss"
    BY <1>4 DEF L!AskClose, L!MustClose, L!Unsafe, L!Enqueue, Types
  <2>2. "interlock_close" \notin In(jobs)
    BY <2>1 DEF Queue
  <2>3. jobs' \in Seq(Jobs) /\ In(jobs)' = In(jobs) \cup {"interlock_close"} /\ Apart(jobs')
    BY <1>3, <2>1, <2>2 DEF Jobs
  <2>4. Types'
    BY <1>1, <2>1, <2>3 DEF Types, Elsewhere
  <2>5. Queue'
    BY <1>1, <2>1, <2>3 DEF Queue
  <2>6. Guarding'
    BY <1>1, <2>1, <2>3 DEF Guarding, Waiting, Closing, Resting, Shut, Elsewhere
  <2> QED BY <1>2, <2>4, <2>5, <2>6
<1>5. CASE L!AskReopen
  <2>1. /\ lock' \in [closed : BOOLEAN, closing : BOOLEAN, opening : BOOLEAN]
        /\ lock'.closed = lock.closed /\ lock'.closing = lock.closing /\ lock'.opening
        /\ ~lock.opening /\ lock.closed /\ jobs' = Append(jobs, "interlock_reopen")
        /\ ~seen.stale /\ seen.health = "resume" /\ seen.moving
    BY <1>5 DEF L!AskReopen, L!Unsafe, L!Enqueue, Types
  <2>2. "interlock_reopen" \notin In(jobs)
    BY <2>1 DEF Queue
  <2>3. jobs' \in Seq(Jobs) /\ In(jobs)' = In(jobs) \cup {"interlock_reopen"} /\ Apart(jobs')
    BY <1>3, <2>1, <2>2 DEF Jobs
  <2>4. Types'
    BY <1>1, <2>1, <2>3 DEF Types, Elsewhere
  <2>5. Queue'
    BY <1>1, <2>1, <2>3 DEF Queue
  <2>6. ~crossed => pulses.auth /\ pause # "paused"
    BY <2>1 DEF Guarding, Closing, Resting
  <2>7. Guarding'
    BY <1>1, <2>6 DEF Guarding, Waiting, Closing, Resting, Elsewhere
  <2> QED BY <1>2, <2>4, <2>5, <2>7
<1> QED BY <1>4, <1>5

LEMMA AdvanceStep ==
  ASSUME InterlockInv, L!MainLoop, ~L!AskClose, ~L!AskReopen, LaserOnly
  PROVE  InterlockInv'
<1> USE DEF InterlockInv
<1>1. {"preinit", "start", "stop", "test_preinit", "test_init", "test_stop"} \subseteq L!Slots
  BY DEF L!Slots, L!Lifecycle, L!TestSteps
<1>2. L!SeeStopped("stop") \/ L!AdvanceStop
  <2>1. /\ \A c \in {"preinit", "start", "test_preinit", "test_init", "test_stop"} : handle[c] # "set"
        /\ reached # "test_stop"
    BY <1>1 DEF Queue
  <2> QED BY <2>1 DEF L!MainLoop, L!AdvancePreinit, L!AdvanceStart, L!AdvanceTestStop, L!SeeStopped,
                      L!StopReached
<1>3. /\ handle["stop"] = "set"
      /\ UNCHANGED <<hw, jobs, shot, lock, seen, owed>> /\ Elsewhere
      /\ \/ reached' = "stop" /\ UNCHANGED <<handle, exposure>>
         \/ reached' = "no" /\ handle' = [handle EXCEPT !["stop"] = "none"]
  BY <1>2 DEF L!SeeStopped, L!AdvanceStop, L!StopReached, L!Answered, LaserOnly, targetState,
              acquisitionVars, Elsewhere, Queue
<1>4. /\ handle' \in [L!Slots -> {"none", "setup", "set"}]
      /\ \A c \in L!Slots : c # "stop" => handle'[c] = handle[c]
      /\ \/ reached' = "stop" /\ handle'["stop"] = "set" /\ exposure' = exposure
         \/ reached' = "no" /\ handle'["stop"] = "none"
  BY <1>1, <1>3 DEF Types
<1>5. "stop" \notin In(jobs)
  BY <1>3 DEF Queue
<1>6. Types'
  BY <1>3, <1>4 DEF Types, Elsewhere
<1>7. Queue'
  BY <1>3, <1>4, <1>5 DEF Queue
<1>8. Authority' /\ Owing' /\ Starting'
  BY <1>3 DEF Authority, Owing, Starting, Elsewhere
<1>9. Guarding'
  BY <1>3 DEF Guarding, Waiting, Closing, Resting, Shut, Elsewhere
<1> QED BY <1>6, <1>7, <1>8, <1>9

LEMMA InstrumentsStep ==
  ASSUME InterlockInv, L!Instruments \/ L!HealthIsLate, LaserOnly
  PROVE  InterlockInv'
<1> USE DEF InterlockInv
<1>1. UNCHANGED <<handle, jobs, shot, reached, lock, exposure, owed>> /\ Elsewhere
  BY DEF L!Instruments, L!Shutdown, L!Reconnect, L!WarmedUp, L!PhaseMoves, L!ChopperLocks,
         L!ChopperFails, L!GeneratorFails, L!ProviderFrame, L!HealthIsLate,
         LaserOnly, targetState, acquisitionVars, Elsewhere
<1>2. /\ seen' \in [health : Health, stale : BOOLEAN, moving : BOOLEAN]
      /\ seen'.health = seen.health /\ seen'.moving = seen.moving /\ (seen.stale => seen'.stale)
  <2>1. CASE L!Instruments
    BY <2>1 DEF L!Instruments, L!Shutdown, L!Reconnect, L!WarmedUp, L!PhaseMoves, L!ChopperLocks,
                L!ChopperFails, L!GeneratorFails, L!ProviderFrame, Types
  <2>2. CASE L!HealthIsLate
    BY <2>2 DEF L!HealthIsLate, Types
  <2> QED BY <2>1, <2>2
<1>3. /\ hw' \in L!Provider
      /\ hw'.want = hw.want /\ hw'.phase \in {hw.phase, hw.want}
  <2> USE DEF Types, L!Provider
  <2>1. CASE L!Shutdown
    BY <2>1 DEF L!Shutdown
  <2>2. CASE L!Reconnect
    BY <2>2 DEF L!Reconnect
  <2>3. CASE L!WarmedUp
    BY <2>3 DEF L!WarmedUp
  <2>4. CASE L!PhaseMoves
    BY <2>4 DEF L!PhaseMoves
  <2>5. CASE L!ChopperLocks
    BY <2>5 DEF L!ChopperLocks
  <2>6. CASE L!ChopperFails
    BY <2>6 DEF L!ChopperFails
  <2>7. CASE L!GeneratorFails
    BY <2>7 DEF L!GeneratorFails
  <2>8. CASE L!HealthIsLate
    BY <2>8 DEF L!HealthIsLate
  <2> QED BY <2>1, <2>2, <2>3, <2>4, <2>5, <2>6, <2>7, <2>8 DEF L!Instruments
<1>4. OnlyShuts
  BY <1>3 DEF OnlyShuts, Shut
<1>5. Types'
  BY <1>1, <1>2, <1>3 DEF Types, Elsewhere
<1>6. Queue'
  BY <1>1 DEF Queue
<1>7. Authority' /\ Owing' /\ Starting'
  BY <1>1, <1>2 DEF Authority, Owing, Starting, Elsewhere
<1>8. Guarding'
  BY <1>1, <1>2, <1>4, GuardingKept
<1> QED BY <1>5, <1>6, <1>7, <1>8

LEMMA LaserStepKeeps ==
  ASSUME InterlockInv, LaserStep
  PROVE  InterlockInv'
<1>1. ~L!BeginShot
  <2>1. "timed" \notin Jobs
    BY DEF Jobs
  <2> QED BY <2>1, Taken DEF L!BeginShot, InterlockInv, Types
<1>2. ~L!AdvanceShot
  BY DEF L!AdvanceShot, InterlockInv, Queue
<1> QED
  BY <1>1, <1>2, RunCallJobStep, InterlockCloseStep, InterlockReopenStep, AskStep, AdvanceStep,
     InstrumentsStep DEF LaserStep, L!Worker

-----------------------------------------------------------------------------
(* The exposure controller stops both.                                      *)

LEMMA StopStep ==
  ASSUME InterlockInv, Stop
  PROVE  InterlockInv'
<1> USE DEF InterlockInv
<1>1. /\ exposure \notin {"idle", "stop"} /\ exposure' = "stop"
      /\ handle' = [handle EXCEPT !["stop"] = "setup"] /\ jobs' = Append(jobs, "stop")
      /\ pause' = "no"
      /\ drive' = [drive EXCEPT !.running = FALSE, !.starting = FALSE]
      /\ UNCHANGED <<hw, shot, reached, lock, seen, pass, turn, heard, pulses, posted, owed, crossed>>
  BY DEF Stop, L!Stop, L!Ask, L!Enqueue, T!Stop, T!HaltDrive, acquisitionVars
<1>2. "stop" \notin In(jobs) /\ "stop" \in Jobs
  BY <1>1 DEF Queue, Jobs
<1>3. jobs' \in Seq(Jobs) /\ In(jobs)' = In(jobs) \cup {"stop"} /\ Apart(jobs')
  BY <1>1, <1>2, Appended DEF Types, Queue
<1>4. /\ handle' \in [L!Slots -> {"none", "setup", "set"}] /\ handle'["stop"] = "setup"
      /\ \A c \in L!Slots : c # "stop" => handle'[c] = handle[c]
  <2>1. "stop" \in L!Slots
    BY DEF L!Slots, L!Lifecycle
  <2> QED BY <1>1, <2>1 DEF Types
<1>5. /\ drive' \in [running : BOOLEAN, starting : BOOLEAN, jogging : BOOLEAN]
      /\ ~drive'.running
  BY <1>1 DEF Types
<1>6. Types'
  BY <1>1, <1>3, <1>4, <1>5 DEF Types
<1>7. Queue'
  BY <1>1, <1>3, <1>4 DEF Queue
<1>8. Authority' /\ Owing' /\ Starting'
  BY <1>1, <1>5 DEF Authority, Owing, Starting
<1>9. Guarding'
  BY <1>1, <1>3 DEF Guarding, Waiting, Closing, Resting, Shut
<1> QED BY <1>6, <1>7, <1>8, <1>9

-----------------------------------------------------------------------------
(* The target.                                                              *)

TargetMoves ==
  /\ UNCHANGED <<laserState, pulses, posted, owed, heard>>
  /\ drive' \in [running : BOOLEAN, starting : BOOLEAN, jogging : BOOLEAN]
  /\ pass' \in Passes /\ turn' \in Turns

\* The invariant after a step of the target, from what it leaves of the move.
LEMMA TargetKeeps ==
  ASSUME InterlockInv, TargetMoves, Starting', crossed' \in BOOLEAN,
         ~crossed' => ~crossed /\ Waiting' /\ (pause' = "paused" => pause = "paused" \/ ~pulses.auth),
         turn' = "pause" => turn = "pause" \/ (~pulses.auth /\ (~crossed => Shut))
  PROVE  InterlockInv'
<1> USE DEF InterlockInv
<1>1. UNCHANGED <<hw, handle, jobs, shot, reached, lock, seen, exposure, heard, pulses, posted,
                  owed>>
  BY DEF TargetMoves, laserState
<1>2. Types'
  BY <1>1 DEF Types, TargetMoves
<1>3. Queue'
  BY <1>1 DEF Queue
<1>4. Authority' /\ Owing'
  BY <1>1 DEF Authority, Owing
<1>5. Guarding'
  BY <1>1 DEF Guarding, Closing, Resting, Shut
<1> QED BY <1>2, <1>3, <1>4, <1>5

LEMMA MoveThreadStep ==
  ASSUME InterlockInv, T!MoveThread, TargetOnly
  PROVE  InterlockInv'
<1> USE DEF InterlockInv
<1>1. UNCHANGED <<laserState, pulses, posted, owed, heard, pause, turn, crossed>>
  BY DEF T!MoveThread, T!Decide, T!Act, TargetOnly, acquisitionVars
<1>2. CASE T!Decide
  <2>1. drive' = drive /\ (pass' = "start" => ~drive.running /\ drive.starting)
    BY <1>2 DEF T!Decide
  <2>a. pass' \in Passes
    BY <1>2, Zenon DEF T!Decide, Passes
  <2>2. TargetMoves /\ Starting' /\ crossed' \in BOOLEAN
    BY <1>1, <2>1, <2>a DEF TargetMoves, Types, Starting
  <2>3. ~crossed => Waiting'
    BY <1>1, <2>1 DEF Guarding, Waiting, Shut, laserState
  <2> QED BY <1>1, <2>2, <2>3, TargetKeeps
<1>3. CASE T!Act
  <2>1. pass' = "none"
    BY <1>3 DEF T!Act
  <2>2. \/ drive' = drive \/ drive' = T!Rest
        \/ drive' = [drive EXCEPT !.running = FALSE]
        \/ drive' = [drive EXCEPT !.running = FALSE, !.starting = FALSE]
        \/ pass = "start" /\ drive' = [drive EXCEPT !.starting = FALSE, !.running = TRUE]
    <3>1. pass \in Passes \ {"none"}
      BY <1>3 DEF T!Act, Types
    <3>2. PICK r \in CASE pass = "run" -> T!RunProfile(motion)
                       [] pass = "start" -> T!MoveToPath(motion)
                       [] pass = "stop" -> {<<T!Halt(motion), [drive EXCEPT !.running = FALSE, !.starting = FALSE]>>}
                       [] pass = "jog" -> {<<m, drive>> : m \in T!Jog(motion)}
                       [] pass = "look" -> {<<motion, drive>>} :
            drive' = T!Rest \/ drive' = r[2]
      BY <1>3 DEF T!Act
    <3>3. CASE pass = "run"
      <4>1. r \in T!RunProfile(motion)
        BY <3>2, <3>3
      <4>2. \E n : r = <<n, drive>> \/ r = <<n, [drive EXCEPT !.running = FALSE]>>
        BY <4>1, Zenon DEF T!RunProfile
      <4> QED BY <3>2, <4>2
    <3>4. CASE pass = "start"
      <4>1. r \in T!MoveToPath(motion)
        BY <3>2, <3>4
      <4>2. \E n : r = <<n, drive>> \/ r = <<n, [drive EXCEPT !.starting = FALSE, !.running = TRUE]>>
        BY <4>1, Zenon DEF T!MoveToPath
      <4> QED BY <3>2, <3>4, <4>2
    <3>5. CASE pass \in {"stop", "jog", "look"}
      <4>1. r[2] = drive \/ r[2] = [drive EXCEPT !.running = FALSE, !.starting = FALSE]
        BY <3>2, <3>5
      <4> QED BY <3>2, <4>1
    <3> QED BY <3>1, <3>3, <3>4, <3>5 DEF Passes
  <2>3. /\ drive' \in [running : BOOLEAN, starting : BOOLEAN, jogging : BOOLEAN]
        /\ (~drive.running /\ ~drive.starting /\ pass # "start"
              => ~drive'.running /\ ~drive'.starting)
    <3> DEFINE D == [running : BOOLEAN, starting : BOOLEAN, jogging : BOOLEAN]
    <3>1. /\ drive \in D /\ T!Rest \in D /\ ~T!Rest.running /\ ~T!Rest.starting
      BY DEF T!Rest, Types
    <3>2. ASSUME NEW d, d = [drive EXCEPT !.running = FALSE]
                        \/ d = [drive EXCEPT !.running = FALSE, !.starting = FALSE]
          PROVE  d \in D /\ ~d.running /\ (~drive.starting => ~d.starting)
      BY <3>1, <3>2
    <3>3. [drive EXCEPT !.starting = FALSE, !.running = TRUE] \in D
      BY <3>1
    <3> HIDE DEF D
    <3>4. drive' \in D /\ (~drive.running /\ ~drive.starting /\ pass # "start"
                              => ~drive'.running /\ ~drive'.starting)
      BY <2>2, <3>1, <3>2, <3>3
    <3> QED BY <3>4 DEF D
  <2>4. TargetMoves /\ Starting' /\ crossed' \in BOOLEAN
    BY <1>1, <2>1, <2>3 DEF TargetMoves, Types, Starting, Passes
  <2>5. ~crossed => Waiting'
    BY <1>1, <2>1, <2>3 DEF Guarding, Waiting, Shut, laserState
  <2> QED BY <1>1, <2>4, <2>5, TargetKeeps
<1> QED BY <1>2, <1>3 DEF T!MoveThread

LEMMA ProviderStep ==
  ASSUME InterlockInv, T!Provider, TargetOnly
  PROVE  InterlockInv'
<1> USE DEF InterlockInv
<1>1. UNCHANGED <<laserState, pulses, posted, owed, heard, pause, turn, crossed, drive, pass>>
  BY DEF T!Provider, T!RotationArrives, T!LinearMoves, T!HomingEnds, T!AxisFails, T!ProviderFrame,
         TargetOnly, acquisitionVars
<1>2. TargetMoves /\ Starting' /\ crossed' \in BOOLEAN
  BY <1>1 DEF TargetMoves, Types, Starting
<1>3. ~crossed => Waiting'
  BY <1>1 DEF Guarding, Waiting, Shut, laserState
<1> QED BY <1>1, <1>2, <1>3, TargetKeeps

\* What a command of the operator makes of the drive.
LEMMA DriveCommanded ==
  ASSUME NEW d \in [running : BOOLEAN, starting : BOOLEAN, jogging : BOOLEAN], NEW e,
         \/ e = d
         \/ ~d.running /\ e = [d EXCEPT !.starting = TRUE]
         \/ e = [d EXCEPT !.running = FALSE, !.starting = FALSE]
         \/ e = [d EXCEPT !.jogging = TRUE]
  PROVE  /\ e \in [running : BOOLEAN, starting : BOOLEAN, jogging : BOOLEAN]
         /\ ~d.running => ~e.running
OBVIOUS

LEMMA OperatorStep ==
  ASSUME InterlockInv, T!Operator,
         crossed' = (crossed \/ (pause = "paused" /\ drive'.starting)),
         UNCHANGED <<laserState, pulses, posted, losses, owed>>
  PROVE  InterlockInv'
<1> USE DEF InterlockInv
<1>1. UNCHANGED <<heard, pause, turn, pass>>
  BY DEF T!Operator, T!StartMove, T!StopMove, T!SetPath, T!ClearError, T!Home, T!JogWrite, T!OpFrame
<1>2. \/ drive' = drive
      \/ ~drive.running /\ drive' = [drive EXCEPT !.starting = TRUE]
      \/ drive' = [drive EXCEPT !.running = FALSE, !.starting = FALSE]
      \/ drive' = [drive EXCEPT !.jogging = TRUE]
  BY DEF T!Operator, T!StartMove, T!StopMove, T!SetPath, T!ClearError, T!Home, T!JogWrite,
         T!ContinueMove, T!CanModify, T!Busy, T!HaltDrive
<1>a. drive \in [running : BOOLEAN, starting : BOOLEAN, jogging : BOOLEAN]
  BY DEF Types
<1>3. /\ drive' \in [running : BOOLEAN, starting : BOOLEAN, jogging : BOOLEAN]
      /\ (~drive.running => ~drive'.running)
  BY <1>2, <1>a, DriveCommanded
<1>4. TargetMoves /\ Starting' /\ crossed' \in BOOLEAN
  BY <1>1, <1>3 DEF TargetMoves, Types, Starting
<1>5. ~crossed' => ~crossed /\ Waiting'
  BY <1>1, <1>3 DEF Guarding, Waiting, Shut, laserState, Types
<1> QED BY <1>1, <1>4, <1>5, TargetKeeps

LEMMA TargetLoopStep ==
  ASSUME InterlockInv, T!MainLoop, turn # "pause", TargetOnly
  PROVE  InterlockInv'
<1> USE DEF InterlockInv
<1>1. UNCHANGED <<laserState, pulses, posted, owed, heard, pass, crossed>>
  BY DEF T!MainLoop, T!DidPreinit, T!DidStart, T!DidStop, T!DidHome, T!JogExpires, T!TakeTurn,
         T!PauseForLoss, T!Resume, T!Resumed, T!LoopFrame, T!TurnFrame, TargetOnly, acquisitionVars
<1>2. CASE T!DidPreinit \/ T!DidStart \/ T!DidStop \/ T!DidHome \/ T!JogExpires \/ T!Resumed
  <2>1. /\ drive' = drive \/ drive' = [drive EXCEPT !.jogging = FALSE]
        /\ pause' = pause \/ pause' = "no"
        /\ turn' = turn
    BY <1>2 DEF T!DidPreinit, T!DidStart, T!DidStop, T!DidHome, T!JogExpires, T!Resumed, T!LoopFrame
  <2>2. /\ drive' \in [running : BOOLEAN, starting : BOOLEAN, jogging : BOOLEAN]
        /\ drive'.running = drive.running /\ drive'.starting = drive.starting
    BY <2>1 DEF Types
  <2>3. TargetMoves /\ Starting' /\ crossed' \in BOOLEAN
    BY <1>1, <2>1, <2>2 DEF TargetMoves, Types, Starting
  <2>4. ~crossed => Waiting'
    BY <1>1, <2>1, <2>2 DEF Guarding, Waiting, Shut, laserState
  <2> QED BY <1>1, <2>1, <2>3, <2>4, TargetKeeps
<1>3. CASE T!TakeTurn
  <2>1. /\ UNCHANGED <<drive, pause>>
        /\ turn' = "resume" \/ (turn' = "pause" /\ heard.health = "loss" /\ heard.closed)
    BY <1>3 DEF T!TakeTurn, T!MayPause
  <2>2. turn' = "pause" => ~pulses.auth /\ (~crossed => Shut)
    BY <2>1 DEF Authority, Guarding, Closing
  <2>3. TargetMoves /\ Starting' /\ crossed' \in BOOLEAN
    BY <1>1, <2>1 DEF TargetMoves, Types, Starting, Turns
  <2>4. ~crossed => Waiting'
    BY <1>1, <2>1 DEF Guarding, Waiting, Shut, laserState
  <2> QED BY <1>1, <2>1, <2>2, <2>3, <2>4, TargetKeeps
<1>4. CASE T!Resume
  <2>1. /\ drive' = [drive EXCEPT !.starting = TRUE]
        /\ pause' # "paused" /\ turn' = "none"
    BY <1>4 DEF T!Resume, T!TurnFrame
  <2>2. /\ drive' \in [running : BOOLEAN, starting : BOOLEAN, jogging : BOOLEAN]
        /\ drive'.running = drive.running
    BY <2>1 DEF Types
  <2>3. TargetMoves /\ Starting' /\ crossed' \in BOOLEAN
    BY <1>1, <2>1, <2>2 DEF TargetMoves, Types, Starting, Turns
  <2>4. Waiting'
    BY <2>1 DEF Waiting
  <2> QED BY <1>1, <2>1, <2>3, <2>4, TargetKeeps
<1>5. ~T!PauseForLoss
  BY DEF T!PauseForLoss
<1> QED BY <1>2, <1>3, <1>4, <1>5 DEF T!MainLoop

LEMMA PauseStep ==
  ASSUME InterlockInv, PauseTarget
  PROVE  InterlockInv'
<1> USE DEF InterlockInv
<1>1. /\ turn = "pause" /\ turn' = "none" /\ crossed' = (crossed \/ pass = "start")
      /\ drive' = [drive EXCEPT !.running = FALSE, !.starting = FALSE]
      /\ UNCHANGED <<laserState, pulses, posted, owed, heard, pass>>
  BY DEF PauseTarget, T!PauseForLoss, T!HaltDrive, T!TurnFrame
<1>2. /\ drive' \in [running : BOOLEAN, starting : BOOLEAN, jogging : BOOLEAN]
      /\ ~drive'.running /\ ~drive'.starting
  BY <1>1 DEF Types
<1>3. TargetMoves /\ Starting' /\ crossed' \in BOOLEAN
  BY <1>1, <1>2 DEF TargetMoves, Types, Starting, Turns
<1>4. ~pulses.auth
  BY <1>1 DEF Authority
<1>5. ASSUME ~crossed' PROVE ~crossed /\ Waiting'
  <2>1. ~crossed /\ pass # "start"
    BY <1>1, <1>5 DEF Types
  <2>2. Shut
    BY <1>1, <1>4, <2>1 DEF Guarding, Closing
  <2> QED BY <1>1, <1>2, <2>1, <2>2 DEF Waiting, Shut, laserState
<1> QED BY <1>1, <1>3, <1>4, <1>5, TargetKeeps

-----------------------------------------------------------------------------
(* Every step keeps the invariant.                                          *)

LEMMA InterlockStep ==
  ASSUME InterlockInv, [Next]_vars
  PROVE  InterlockInv'
<1>1. CASE Stop
  BY <1>1, StopStep
<1>2. CASE Acquisition
  BY <1>2, AcquisitionStep
<1>3. CASE Network
  BY <1>3, LaserHearsStep, TargetHearsStep DEF Network
<1>4. CASE LaserStep
  BY <1>4, LaserStepKeeps
<1>5. CASE TargetStep
  BY <1>5, MoveThreadStep, ProviderStep, OperatorStep, TargetLoopStep, PauseStep DEF TargetStep
<1>6. CASE UNCHANGED vars
  <2>1. UNCHANGED <<hw, handle, jobs, shot, reached, lock, seen, exposure, drive, pass, pause,
                    turn, heard, pulses, posted, owed, crossed>>
    BY <1>6 DEF vars, laserState, targetState, acquisitionVars
  <2>2. Types' /\ Queue'
    BY <2>1 DEF InterlockInv, Types, Queue
  <2>3. Authority' /\ Owing' /\ Starting' /\ Guarding'
    BY <2>1 DEF InterlockInv, Authority, Owing, Starting, Guarding, Waiting, Closing, Resting, Shut
  <2> QED BY <2>2, <2>3 DEF InterlockInv
<1> QED BY <1>1, <1>2, <1>3, <1>4, <1>5, <1>6 DEF Next

\* The theorem: whatever the order in which the health, the status of the target
\* and that of the laser are published and heard, and whatever fails, a paused
\* target has the sample shut, but for the three exceptions of `crossed`.
THEOREM SampleStaysShut == Spec => []SampleWaitsForTarget
<1>1. Init => InterlockInv
  BY InterlockInvInit
<1>2. InterlockInv /\ [Next]_vars => InterlockInv'
  BY InterlockStep
<1>3. InterlockInv => SampleWaitsForTarget
  BY DEF InterlockInv, Types, Guarding, Waiting, Shut, SampleWaitsForTarget, L!SampleOpen
<1> QED BY <1>1, <1>2, <1>3, PTL DEF Spec

\* The theorem: the laser asks to open the sample only after an authorization that
\* follows the last loss it heard of.
THEOREM ReopeningIsAuthorized == Spec => ReopenIsAuthorized
<1>1. Init => InterlockInv
  BY InterlockInvInit
<1>2. InterlockInv /\ [Next]_vars => InterlockInv'
  BY InterlockStep
<1>3. InterlockInv /\ [Next]_vars => [L!AskReopen => ~owed]_vars
  BY DEF InterlockInv, Owing, L!AskReopen
<1> QED BY <1>1, <1>2, <1>3, PTL DEF Spec, ReopenIsAuthorized

=============================================================================
