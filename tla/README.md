# TLA+ models of chamber-ctl

chamber-ctl drives an EUV exposure chamber: it runs exposures of samples one
after the other, each with a laser, a target, a sample stage and a set of
instruments, and keeps what was measured. This directory holds models of the
parts that decide what is exposed, that make an exposure happen and that keep
what came of it, model-checked with TLC and, where stated below, proved with
TLAPS.

Paths: subsystems are in `src/src/chamber_ctl/subsystems/`, windows in
`src/src/chamber_ctl/gui/`; the stage service is in
`src/sample-stage-ctl/src/sample_stage_ctl/`.

- [1. The system](#1-the-system)
- [2. The modules](#2-the-modules)
- [3. The runs](#3-the-runs)
- [4. What is proved](#4-what-is-proved)
- [5. Where the code departs from what it says or seems to want](#5-where-the-code-departs-from-what-it-says-or-seems-to-want)
- [6. What is not modelled](#6-what-is-not-modelled)
- [7. Plan](#7-plan)

## 1. The system

Every subsystem is a process of its own. They share nothing but DDS (key/value
pairs, events with answers, status) and the file system.

```
        operator (GUI, CLI)
           |  commands             |  add, replace, start
           v                       v
  +------------------+     +----------------+
  | Batch Controller |     | Exposure Queue |
  |  coordinator     |     |  worker, saver |
  +---+------+-------+     +---+--------+---+
      |      |   automation lease       |      save file
      |      +---------+------+---------+
  manifests            v      v  prepare, settings, run_finalized
  and run      +----------------------+
  library      | Exposure Controller  |  (ipi_ecs ExperimentController)
               +--+------+------+--+--+
                  |      |      |  |   preinit, start, stop of a run
               acquis. laser target stage ---- UDP ---- stage service
                  |             <-- interlocks between these -->
               digitizer's spool          oscilloscope, Siglent observer
                  |                              |
               run library: records, snapshots, dose, events
```

| Component | State it keeps | Operations | What makes it correct |
|---|---|---|---|
| **Batch planner**, `assess_batch` (`batcher.py`) | none: a function of plan, recorded attempts, controller snapshot, acknowledged runs, blocked repairs and the pause | one decision of nine kinds | starts only from clean data, for the right sample and the right amount; the operator can neither override the data nor be asked twice |
| **Batch Controller** (`batch_controller.py`), **BatchCoordinator** (`batcher.py`) | manifests in memory, the active one, lease flag, mode; plan, pause, acknowledgements, repairs, failures, latches, last assessment | create, update, activate, pause, resume, continue, set mode, cancel, withdraw, unwithdraw, refresh; a poll every ten seconds | one active batch; no start without consent, lease and current data; errors hold until resume; cancellations and automatic batches make progress |
| **Manifest repository** (`batch_storage.py`) | revision files, manifest, tags of an entry | create, save revision, save control state, list | revisions never change; one batch at most has the chamber, over failed writes and kills |
| **Plan editors** (`gui/batch_controller.py`) | draft, form, revision held | edit, generate, save, load, activate; answers and states | no revision is lost to an editor that had not loaded it |
| **Exposure Queue** (`experiment_sequencer.py`) | the queue, its save file, saver requests, flags, lease flag | add, replace, start; run finalized; worker, saver, boot, close | in order, once, nothing lost, saved; the lease comes back |
| **Exposure Controller** (`exposure_controller.py`, and `ipi_ecs`, which is not here) | run state machine, lease, settings | acquire, release, prepare, settings writes | a run has the settings of its item, and one target |
| **EUV acquisition** (`euv_acquisition_controller.py`) | run, diagnostic, capture session, pending snapshots, finalization, calls set aside | can-start, preinit, start, stop, worker, recovery, diagnostics; timing events | a snapshot leaves the spool only into a record; stops end; calls are answered once |
| **Laser and chopper** (`laser.py`, `wf_laser.py`) | setter queue, handles, interlock flags, configuration file | preinit, start, stop, tests, timed exposures | dark between runs; stops are answered |
| **Target** (`target_controller.py`, `target_motion.py`, `ljs_target_motion.py`) | path, motion, pause flags, profile file | preinit, start, stop, moves, jogs, homing, pause, resume | rests when stopped; waits for the sample to be closed |
| **Sample stage client** (`sample_motion.py`) and **service** (`controller.py`, `protocol.py`) | command numbers, operations; stepper position, homing, enable pin | datagrams both ways; move, home, enable, shutdown | prepared means in place; a home is a fresh one |
| **Oscilloscope** (`oscilloscope.py`) | capture flags, queues, dose, run being closed | capture, decode, count, write, step exposures | the recorded dose is that of the run's own light |
| **Siglent observer** (`siglent_observer.py`, `observer_artifacts.py`) | journal, session | capture, recover, finalize | no capture lost, or filed under another run |
| **Registry repair**, **capture cadence**, **savers** | | inspect and replace; rolling rates; profile and configuration files | no declaration lost; what is shown is what was captured; the last state is on disk |

Behaviours that are hard here:

- *Concurrency.* Most services are several threads that share flags without a
  lock: callbacks of DDS, a main loop, a worker, a saver, a provider's own
  thread. The batch controller reads library, exposure controller and manifests
  at different times, while runs end and metrics arrive.
- *Failure.* Reads, saves, repairs, starts and lease calls may fail; a start may
  fail for its caller and happen all the same. Stage commands are single
  datagrams. Any step of a finalization may raise before or after its effect.
- *Crashes.* Manifests, queue, journal, profile and configuration survive them,
  coordinators, flags and homing do not.
- *Ordering and staleness.* Every process acts on copies of what the others
  published: pulse health, laser phase, target status, exposure state, stage
  positions, batch revisions.
- *Limits.* Pruned windows of the cadence, retries of homing and repair,
  prefetch of the registry repair.
- *Operators*, who pause, cancel, revise, jog and restart in the middle of it.

`PROJECT.json` lists these hazards line by line, with the properties that guard
each or the reason why none does.

## 2. The modules

| Module | Models | Uses |
|---|---|---|
| `BatchAssessment`, `BatchPlanner` | the decision `Assess`, and every history, controller and operator it may meet | |
| `BatchController` | batch controller and coordinator over disk, run library and exposure controller | `BatchAssessment` |
| `PlanEditor` | the plan editors and the storing of revisions | |
| `ManifestStore` | the files of the batches, write by write | |
| `SettingsTransfer` | settings given to the exposure controller key by key | |
| `PlanLife` | a plan edited, stored, judged and handed over: the four side by side | `BatchPlanner`, `ManifestStore`, `PlanEditor`, `SettingsTransfer` |
| `ExposureQueue` | the four threads of the Exposure Queue over its file and the exposure controller | |
| `EuvAcquisition` | the acquisition controller over digitizer, records and calls | `SnapshotCustody` |
| `SnapshotCustody` | abstract: what an acquisition service promises about snapshots | |
| `SiglentObserver` | the passive observer, step by step, with its journal | `SnapshotCustody` |
| `LaserController` | laser and chopper with their provider | |
| `TargetController` | target, move thread and motion provider | |
| `Interlocks` | acquisition health, laser and target in one exposure | `LaserController`, `TargetController` |
| `StageService`, `StageLink`, `SampleStage` | steppers and driver; datagrams and acknowledgements; operations and preparation of runs | each extends the one before |
| `Oscilloscope` | its five threads and the exposure | |
| `TimingEvents` | the laser's timing as events of a run | |
| `CaptureCadence` | the tracker of captured and lost pulses | |
| `StateSaver` | the savers of target profile and laser configuration | |
| `Records` | observer, cadence, saved states and timing side by side | `SiglentObserver`, `CaptureCadence`, `StateSaver`, `TimingEvents` |
| `RegistryRepair` | workers and main thread of the repair | |
| `Devices` | laser, target and oscilloscope side by side | `LaserController`, `TargetController`, `Oscilloscope` |
| `*_proofs` | theorems | the module, TLAPS |
| `MC*` | constants and parts for TLC | |

Most modules are checked in a run with others. `PlanLife`, `MCAcquisition`,
`Devices` and `Records` hold parts that share no state: the variable `part`,
chosen at the start, says which part a behaviour exercises, and the others rest
in one of their initial states. The states of the parts add up and do not
multiply, and nothing is lost, since no part reads what another writes. Each
such module has the specification of each part, with its fairness, guarded by
`part`. That what is checked is a behaviour of every part, so that a theorem about
one of them holds for the composition, is proved for `PlanLife` and `Records`
(`PlansAreTheirParts`, `RecordsAreTheirParts`) and follows from `Devices`' parts
step by step in `Devices_proofs`.

### The plan of a batch

`Assess` follows the order of the checks of `assess_batch`: malformed or unknown
attempts, an active run, ended runs (the finalization delay, unknown status,
metrics to repair, unusable metrics), then the tally (aborts, shortfalls,
remainder, completion). Doses and run times are integers, `Missing` or
`NonFinite`; tolerances and minima are constants. `BatchPlanner` grows a history
run by run, lets delays pass, repairs and blocks repairs, moves the controller at
will and lets the operator acknowledge and pause: its states are the inputs the
rest of the program can produce.

| `BatchController` | code |
|---|---|
| `store`, `known` | manifests on disk, and `_manifests`, which a save that raised leaves behind them |
| `active`, `manifest` | `_active`; it runs ahead of `known` when a save fails |
| `leaseOwned`, `mode`, `coordLive`, `coord` | `_lease_owned`, `_execution_mode`, `_coordinator` and its fields |
| `attempts`, `settled`, `current`, `lease` | run library, runs past the finalization delay, run and lease of the exposure controller |
| `pc`, `task`, `starting`, `loaded`, `seen`, `repaired` | where the worker is between two reads of the outside world, and what it has read |
| `consent`, `alarm` | history: the operator's last word was to run; an error was published since |
| `unanswered` | history: a release of the lease timed out and left `_lease_owned` set |

Each command of `_execute_command` is one action with its guards, early failures
and saves. A poll is `EnsureActiveRuntime`, `LoadAttempts`, `ReadController` (the
attempts are read first, and things happen in between), `SourceFailure`,
`RepairMetrics`, `Publish`, `Dispatch`, `CheckCancel`, `FinishActive`,
`ReleaseAutomation`. A start polls once more before `StartExposure`. `Boot` is
`_load_manifests`. A save that raises may have written the manifest, since the tags
come after it; a lease call that times out may have been carried out, at once
(`GrantUnheard`) or later (`ReleaseCarriedOut`). The environment ends runs, with metrics at once or later, lets
the delay pass, orphans runs, runs strangers' exposures and hands the lease to
the queue.

`ManifestStore` looks into the saves that `BatchController` takes as one step. A
command is a `job` with its remaining `steps`; `manifests`, `revisions` and
`tags` are the files and tags of an entry, `known`, `active` and `unreadable` are
`_manifests`, `_active` and `_manifest_load_errors`. A file is empty between its
opening and its writing; each write may raise, and the process may be killed
before it.

`PlanEditor`: `editor` holds the draft, the order of the selection, the typed
form and the state last seen; `queue` and `late` the commands of the client
thread, waited for or given up; `unread` the messages to a window; `batch` the
stored revisions. The plan generators are operators of this module.

`SettingsTransfer`: `settings`, `lease` and `run` of the exposure controller;
`transfer[w]` the keys writer `w` (batch, queue or operator) has still to write,
in the order of the code; `late[w]` a write whose caller has given up.

| `ExposureQueue` | code |
|---|---|
| `disk` | `queue_state.bin`; opening it for writing empties it |
| `queue`, `leaseOwned`, `pendingAdvance`, `pendingRelease`, `lastSeen`, `ops` | the fields of these names; `ops` is `__config_save_queue` |
| `caller`, `worker`, `saver`, `mode` | the callback thread, the worker, the saver, the main thread |
| `lease`, `run`, `requests`, `finalized` | the exposure controller: lease, run, unanswered `prepare_exposure` calls, `run_finalized` |
| `contents` | what each item says: items are numbered, and two may be equal |
| `added`, `removed`, `started`, `credit`, `raced`, `unanswered`, `faults` | history |

The three steps of a save request (change, copy, hand over) are apart, because
only the first two hold the lock; so are the acquisition of the lease and the
note of it, because `close` looks in between.

### Acquisition and records

| `EuvAcquisition` | code |
|---|---|
| `run`, `diag`, `reserved`, `control`, `recovery`, `client`, `latch` | `_run`, `_diagnostic`, `_diagnostic_start_pending`, `_control_requests`, `_recovery_requests`, `_capture_client`, `_stop_requested` |
| `deferred`, `recovering`, `owed` | `_deferred_finalization_detail`, `_recovery_active`, `_preinit_pending` and `_start_pending` |
| `pc` | the next step of `_worker`; an exception skips the rest of the round |
| `board`, `record`, `ctl`, `stopEvent` | digitizer's spool, run records, exposure controller, a stop under way |

Everything the worker does between two commands to the digitizer is one step.
`SnapshotCustody` is what an acquisition service promises: a snapshot is spooled,
copied into the record of its run, and leaves the spool only when the copy
exists; a spool is given up as a whole only when the record is finished and
analysed. `EuvAcquisition` and `SiglentObserver` each implement it under a
refinement mapping (`Custody`), checked as the properties `SnapshotsAreKept` and
`SnapshotsAreFiled`.

`SiglentObserver` has one thread, so `pc` is the step of `_start`, `_recover` or
`_finalize` it is at and `then` where it goes on afterwards; `journal`, `records`
and `service` are what survives. Any step can raise, before or after its effect;
the process can be killed between any two.

`TimingEvents`: `stored` is what the message thread stored under its own lock,
`thread` what it has still to tell the run under the run's lock, `exposure` the
event stream. `CaptureCadence`: `tracker` is the object of that name with
`observations`, `gaps`, `points` and the live `segment`; `whole` remembers the
segment unpruned. `StateSaver` models both savers, told apart by `owner`: the
target encodes when it asks and closes through the queue, the laser encodes when
it writes and closes when the queue is empty and nobody is marked as saving.
`RegistryRepair`: `jobs` and `outcomes` are the two queues, `main.pending` the
prefetch; a running experiment writes the same records (`LiveWrite`).

### Devices

| `LaserController` | code |
|---|---|
| `hw` | provider: laser, generator, chopper, phase wanted and reached |
| `handle`, `jobs`, `shot` | stored handles, `__setter_queue`, the timed exposure that holds the worker |
| `active`, `test`, `lock`, `seen` | `__experiment_active`, `__test_active`, the three interlock flags, health and target status received |
| `reached` | what the main loop has seen of the laser and not yet answered: the worker may run a setter in between |

| `TargetController` | code |
|---|---|
| `motion` | aim, rotation and linear axis relative to it, `go`, jog, homing, fault |
| `drive`, `pass`, `calls`, `pause`, `heard` | flags of the motion controller, what the move thread decided in this pass, handles, pause flags, health and laser status received |
| `turn` | what the main loop has decided about the interlock and not yet done: callbacks may come in between |

`Interlocks` joins both with the pulse health of the acquisition: each publishes
a value and keeps copies of the others', seen late, or never when replaced
before. A loss closes the sample, the closed sample lets the target pause, an
operator authorizes after ten stable pulses, the target resumes, and only then is
the sample opened.

`StageService` has the steppers (`axes`), the enable pin with its thread
(`driver`) and the command number received (`inbox`). `StageLink` adds numbers,
queue and acknowledgements of the client (`link`), what it last heard, and the
`wire`, on which commands are lost or overtaken. `SampleStage` adds
`PiStageController` (`stage`: an operation is a sequence of commands and waits,
both homing routines included) and the subsystem (`queue`, `served`, `exper`). A
slot counts as reached within a distance (`Near`), as in `__resolve_current_slot`,
so also while the stage passes it.

`Oscilloscope`: `scope` is the capture thread with its flags and the burst of the
instrument, `reads` and `out` the queues, `main`, `step` and `writer` the other
threads, `sub` the fields the callbacks of the exposure controller change.

## 3. The runs

| Run | Config | Distinct states | Question |
|---|---|---|---|
| `batch_core` | `MCBatchCore.cfg` | 96 085 | one batch of two samples under every command: does each run ask for what is left, and does the batch make progress? |
| `batch_faults` | `MCBatchFaults.cfg` | 1 313 282 | the same controller with revisions and withdrawals, failing reads, repairs, starts, orphans, strangers, crashes, shutdowns |
| `batch_two` | `MCBatchTwo.cfg` | 1 754 736 | two batches with saves that raise before or after they wrote, lease calls that are refused or time out, crashes, against a queue that wants the lease |
| `plans` | `MCPlans.cfg` | 2 024 534 | planner, editors, manifest files, settings |
| `queue_live` | `MCQueueLive.cfg` | 418 740 | does every request to start lead somewhere, and does the lease always come back? |
| `queue_faults` | `MCQueueFaults.cfg` | 3 198 458 | order, once, nothing lost, saved, under the lease: with one fault of each kind |
| `acquisition` | `MCAcquisition.cfg` | 400 699 | sessions, snapshots, stops, calls; registry repair |
| `laser` | `DevicesLaser.cfg` | 718 911 | what does a stop promise, whatever is queued before it? |
| `devices` | `Devices.cfg` | 971 679 | the target with one call and one fault; the oscilloscope over two exposures |
| `interlocks` | `MCInterlocks.cfg` | 406 882 | an exposure with two of: a loss of its pulses, an operator at the target, and the stop |
| `stage` | `MCSampleStage.cfg` | 6 378 871 | two slots, with two events out of runs, calls, lost or overtaken datagrams, broken links, restarts |
| `records` | `MCRecords.cfg` | 2 555 761 | observer, cadence, saved states, timing events |

What the properties say is written above each of them; in short:

| Property | Says |
|---|---|
| `RemainderIsExact` | a run asks for what is left of its target after all that was recorded |
| `CancelFinishes`, `AutomaticBatchProgress` | a cancellation comes through; an automatic batch goes on or asks for the operator |
| `RetryNeedsAcknowledgement` | a failed run is repeated only after it was acknowledged |
| `ErrorsStopStarts`, `StartIsPermitted` | no start after an error until resume; a start has the operator's consent and the lease, but for a release that timed out |
| `FinishedBatchIsOver` | a batch is completed only when its plan is met, and then nothing of it runs |
| `OperatorCannotOverrideData` | no pause or acknowledgement turns bad data into a start |
| `SavesFollowWhatWasLoaded` | no revision is lost to an editor that had not loaded it |
| `RevisionsAreKept`, `OneBatchIsActive` | a revision on file never changes; one batch at most has the chamber |
| `RunHasItsSettings` | a run starts with the settings of its item, and never with two targets |
| `LeaseReturns`, `RequestsAreServed` | the queue gives the lease back; no request to start is forgotten |
| `StartedOnceInOrder`, `NothingIsLost`, `QueueIsSavedUnlessRaced`, `RunsBeginUnderTheLease` | runs start in the order of the queue and once, unless a list is staged or an answer is late; every item, equal ones counted together, waits, was started or was taken out; the file holds the queue unless two threads held copies of it; a run is prepared under the lease but for a call that timed out |
| `OneOwner` | a diagnostic and an exposure never overlap, and each holds the session it believes to hold |
| `SnapshotsAreKept`, `SnapshotsAreFiled` | refinements of `SnapshotCustody` |
| `StopEnds`, `CallsAreAnswered` | the stop of an exposure ends; each call is answered, once |
| `RepairIsSafe` | no declaration of a live writer is lost, and no worker is left |
| `StoppedLaserStaysOff`, `StopIsAnswered` | dark between runs, but for a setter that runs between the look at the laser and the answer; stops are answered |
| `StoppedTargetRests`, `TargetStopIsAnswered` | a stopped target does not turn, unless the stop fell into a decision already taken; its stop is answered |
| `RecordIsWhole`, `StoppedRunIsClosed` | the recorded dose is of the run's own light, of all of it or of the segments the calculation does not pass over; a stopped run is closed |
| `SampleWaitsForTarget`, `ReopenIsAuthorized`, `PauseEnds` | the interlock |
| `PreinitEndsInPlace`, `HomeIsFresh` | the stage rests at the slot of the run it reports as prepared, unless an operation was given up while it moved; a home is of this pass |
| `CapturingIsRecoverable`, `CompleteIsWhole` | the session of an open record is held and named by the journal, and no entry of its context bars the next finalization, unless a process ended between an entry and its acknowledgement; a complete record is of one exposure, whole |
| `CadenceIsSound` | rolling windows are exact over pruning and late pulses, gaps marked over boundaries, telemetry decodable |
| `EventsTellTheTiming` | the events of a run tell the timing that was received |
| `LastStateIsSaved` | a process closed in order leaves its last state on disk |

Several properties name exceptions. Each exception is a case in which the code
gives the promise up, each was found because TLC violated the property without
it, and section 5 describes it.

### Bounds, and why they are enough

- *Batches:* three runs (`MaxRuns`) allow a partial run, an abort and a
  completion; two in `batch_two`, where the question is about manifests. Two
  repairs and two source failures (three in the code) have a first, a last and a
  forbidden attempt. Two revisions make a stale one. Tolerances are zero here;
  the planner has them.
- *Planner:* two attempts over three samples, one of them unplanned. The decision
  depends on the latest attempt of a sample and on sums.
- *Plans:* two editors, two samples, four deeds (`MaxDeeds`; also checked with
  six, 14 million states): both editors load and one saves under the other. Two
  batches, two revisions and two troubles (`MaxTroubles`; also with three, 4
  million): a write fails or a kill falls into the recovery from another. Three
  transfers by three writers with one time-out or restart.
- *Queue:* two items make an order and a head that changes under the worker; two
  start commands a request during another; one replacement; two runs, so that one
  ends before or after its start is confirmed, and in `queue_faults` one start
  command, so that the second run comes from the end of the first; items may be
  equal; one fault of any kind.
- *Acquisition:* two exposures and one pulse each (a stale session and the next
  run), two calls so that one is set aside behind another, one fault.
- *Repair:* three records, two workers, prefetch two: the queue is full and
  refilled. The first record takes every shape, the others have one.
- *Laser, target, oscilloscope:* one operator call and one fault in any state of
  two runs; two exposures, one segment, one failed write. What the exceptions of
  the laser need beyond that (test calls that overlap) was checked with two
  calls, what those of the oscilloscope need (a second run that ends in the flush
  of the first) with three exposures, 4.7 million states, and with three segments
  in two exposures, 16 million; the theorems hold for every bound.
  The target hears of a loss or a recovery during runs only (`NewsInRuns`); the
  theorem has no such bound.
- *Interlock:* two losses, one loss and one operator call at the target, or either
  of them before the stop, in a run and without further fault: the second event
  meets every stage of the recovery from the first. With the stop outside that
  bound the run takes several times as many states, most of them after the stop, and
  finds nothing more. What operators do between runs is checked in `devices`.
- *Stage:* two slots, two homing attempts, two events; simulated with five. The
  exceptions `torn` and `stage.error` need three events and are outside the
  exhaustive bound. With three events TLC was let run over the first 119 of the
  levels of the search, 58 million states, and found nothing more.
- *Observer:* two exposures, three sessions, two shots, two faults: a fault
  during the recovery from a fault. *Cadence:* four pulses in seven ticks with
  windows of one and two: a segment is pruned while a window still reaches into
  it. *Saver:* two changes, four requests, one fault, one restart. *Timing:* one
  exposure, three changes, two states on the wire.
- Symmetry is used only for the two batches of `batch_two`, which checks no
  liveness.
- Deadlock is checked but in `plans` (operators may stop editing), `batch_two`
  (two active manifests on disk keep the controller down for good), `acquisition`
  (a repair ends), `devices` (a scope may wait for light for good), `stage` and
  `records` (bounded events; a process may stay dead).

### Fairness, and why the code justifies it

Every assumption is about a loop with a bounded sleep or about physics; no
operator is ever fair.

- `BatchController`: weak for `Boot` and the steps of a poll; strong for `Timer`,
  because the worker polls after every ten seconds whatever commands it takes in
  between; runs end and their delay passes.
- `ExposureQueue`: weak for each thread, and for the exposure controller, which
  answers and whose runs end.
- `EuvAcquisition`: weak for the worker, for the drain and one-shot clocks, and
  for the delivery of a stop that was sent. Not for pulses or the digitizer's
  link. `RegistryRepair`: weak for main thread and each worker.
- `LaserController`: weak for worker, main loop, warm-up and phase. The chopper
  need not lock. `TargetController`: weak for the move thread, arrival of axes
  and the end of homing. `Interlocks`: for publication and receipt of health, the
  move thread, and the target's resume. The operator need not authorize.
- `Oscilloscope`: weak for each thread. Not for light or the exposure controller.

Every property has a mutant: a small change to one mapped definition, of the kind
a slip in the code would make, under which TLC finds the property violated in the
same run. The mutants stand beside the definitions they change, marked `Fault:`
or `Mutant:`.

## 4. What is proved

For every value of the constants that the named assumptions allow
(`ValuesAssumption` and `ConfigAssumption` in `BatchAssessment`,
`PlansAssumption`, `BoundAssumption` and `OutcomesAssumption` in `BatchPlanner`,
`ScopeAssumption` in `BatchController`, `StoreAssumption` in `ManifestStore`,
`BoundsAssumption` in `ExposureQueue`, in `SiglentObserver` and in
`EuvAcquisition`, `LifeAssumption` in `PlanLife`, `RecordsAssumption`
and `CadenceAssumption` in `Records`, `DevicesAssumption` in `Devices`, `InterlockAssumption` in `Interlocks`,
`StageAssumption` in `SampleStage`): bounds and
limits are naturals, model values are distinct from data, plans are plans, a
library is finite and has at least one revision of a plan, durations are positive and the
rolling windows increase. TLC evaluates them in
the runs.

| Theorem | Statement |
|---|---|
| `PlannerTypes`, `ControllerTypes`, `QueueTypes` | the type invariants |
| `StartsAreJustified`, `CompletionsAreJustified` | a start follows from clean data of all that ran, a completion from a met plan |
| `DataOverrideOperator`, `PauseHidesNothing`, `FailureAskedOnce` | the operator's influence; the first is `OperatorCannotOverrideData` |
| `StartsHoldTheLease` | a run is started with the lease, under every fault, but for a release that timed out before |
| `StartsAlwaysHoldTheLease` | the same without exception, if lease calls do not fail |
| `OneActiveManifest` | at most one manifest on disk is active, under every fault, those not counted whose last save raised |
| `RestartsSucceed` | at most one manifest on disk is active at all, if saves do not fail |
| `StartsArePermitted`, `ErrorsHoldStarts` | `StartIsPermitted`, `ErrorsStopStarts`, if lease calls do not fail |
| `RetriesAreAcknowledged` | `RetryNeedsAcknowledgement`, if saves of manifests do not fail |
| `RemaindersAreExact` | `RemainderIsExact`, under every fault and command |
| `CompletionsAreEarned` | `CompletionIsEarned`, if no plan is updated, through saves that raise, too |
| `FinishedBatchesAreOver` | `FinishedBatchIsOver`, if no plan is updated and neither lease calls nor saves fail |
| `StartsHaveConsent` | the consent alone, if lease calls do not fail |
| `AttemptsAreRequested` | the queue starts only what was asked for |
| `StoreTypes`, `FiledRevisionsAreKept`, `OneBatchHasTheChamber` | the type invariant of the files, `RevisionsAreKept`, `OneBatchIsActive` |
| `RunsHaveTheirSettings` | `RunHasItsSettings` |
| `SavesFollow` | `SavesFollowWhatWasLoaded` |
| `PlansAreTheirParts` | what is checked of plans is a behaviour of each of the four parts |
| `QueueRunsHoldTheLease`, `QueueLosesNothing`, `QueueStartsOnceInOrder` | `RunsBeginUnderTheLease`, `NothingIsLost`, `StartedOnceInOrder` |
| `QueueIsOnDisk` | `QueueIsSavedUnlessRaced` |
| `ObserverTypes`, `CapturingStaysRecoverable`, `CompleteRecordsAreWhole` | the type invariant of the observer, `CapturingIsRecoverable`, `CompleteIsWhole` |
| `SnapshotsStayFiled` | `SnapshotsAreFiled`: the observer implements `SnapshotCustody` |
| `AcquisitionTypes`, `TheDigitizerHasOneOwner` | the type invariant of the acquisition controller, `OneOwner` |
| `SnapshotsStayKept` | `SnapshotsAreKept`: the acquisition controller implements `SnapshotCustody` |
| `StoppedTargetStaysStill` | `StoppedTargetRests` |
| `StoppedLaserIsDark` | `StoppedLaserStaysOff` |
| `RecordsAreWhole` | `RecordIsWhole` |
| `SampleStaysShut`, `ReopeningIsAuthorized` | `SampleWaitsForTarget`, `ReopenIsAuthorized` |
| `HomesAreForgotten`, `HomesAreFresh` | the invariant of the sample stage below, `HomeIsFresh` |
| `LastStateStaysSaved` | `LastStateIsSaved` |
| `EventsKeepTellingTheTiming` | `EventsTellTheTiming` |
| `CadenceStaysSound` | `CadenceIsSound`, for every number of pulses and every clock |
| `RecordsAreTheirParts` | what is checked of records is a behaviour of each of the four parts |

**Planner.** The properties are about one decision in one state. The proofs
unfold `Assess` check by check: what each check has excluded when the next one is
reached, and what the minima and maxima it picks are. These lemmas about
`BatchAssessment` stand at the head of `BatchController_proofs`, and those the
planner needs at the head of `PlanLife_proofs`.

**Batch controller.** `TypeInv` is the type invariant in four parts with what
makes it inductive. `LeaseInv`: `leaseOwned` implies that the lease is the
batch's or a release went unanswered, and the worker is past `EnsureActiveRuntime`
only with the flag. `LiveInv`: of the manifests in `known` at most one is active,
it is that of `_active` or none, and what memory holds as active may still be saved
as such; a batch that is not `Astray` is on disk as it is known. `HoldInv`: a batch
without consent is paused in the coordinator, or has none and is paused in its
manifest; after an error one of the latches is set; and the worker never stands
at `start` in such a state.

`HoldInv` needs lease calls that do not fail. With failing ones it is false, and
so is `StartIsPermitted`: TLC finds a behaviour of 33 steps in which the release
at the end of a batch fails, `_active` stays with its finished manifest and no
coordinator, and the next pass builds a coordinator that starts without the old
pause. `batch_two` has failing lease calls, but not the failing snapshots that
this takes.

`SyncInv`: the active manifest on disk has the acknowledgements of the one in
memory, the coordinator has those and perhaps newer ones, and the worker is only
on its way to a start, or finishes a batch, when it has none that is newer.
`LoadedInv`: what a poll has loaded are the runs of the batch, and at `start` all
runs of the sample are acknowledged. The last of them is because `Assess` found
nothing pending and neither a shortfall nor an abort without acknowledgement, the
earlier ones because another run followed each, by the property itself. All this
needs saves that do not fail: `_sync_active_control` puts the new acknowledgements
into `_active` before it saves them, so when the save raises, the next poll finds
nothing to save and may start the repetition, and TLC finds that behaviour.

What a poll decides is carried out several steps later, when runs may have ended,
metrics may have come and the operator may have acted. `RunInv`, `KeptInv` and
`DecisionInv` say why that is harmless: a run that is over, with its metrics, is
never written again (a repair only fills in what was measured); what a poll has
loaded of such a run is still true; and a decision to complete or to start is only
taken when all runs of the batch are over, so that it still `Fits` the library when
it is carried out. A remainder is exact because the sum over the history is an
integer; the fold of the community modules is shown to give one by a smallest
counterexample over the number of runs (`AddingWorks`, `SumIsInteger`).

`PlanInv`: without updates the plans on disk, in memory and in the coordinator are
the same. `FinishInv`: the worker only finishes a batch that is complete or is to be
cancelled, with no run of it under way. `CompletedInv`: the runs of a completed batch
are over and leave no target open. With updates it is false, by the hazard at
`batch_controller.py:446`: a revision that the coordinator refuses is already saved,
and the batch is then completed by the old plan and recorded with the new one.
`IdleInv` is for the cancelled batches: a batch active in memory is active on disk
until it is released. It needs lease calls that do not fail, since a failed release
leaves the finished batch in `_active`.

**Plan editors and settings.** `EditorInv` follows the number of a revision around
the loop from an editor to the files and back. `Held`: the number an editor saves
against is that of the plan it loaded, unless it was raised since, and a draft of a
batch that nobody changed is that plan. `Sent`: a command on its way carries the
number its editor had, whatever the editor holds by now. `Received`: a manifest on
its way back has a revision that is stored, with its plan, and stored plans are
never replaced. `Filed`, the property itself with what it says of plans, follows
because a save is only taken against the newest number. `TransferInv`: an automaton
that stands at a key has handed over the keys before it, unless it was `disturbed`;
a write whose time is up reaches the controller only before the first key of the
next transfer; and the controller never has two targets, which is what makes it
refuse the keys in the wrong order.

**Queue.** `TypeInv` in four parts. `CreditInv`: the flag and an attempt under
way each stand for a request not yet used up. `LeaseInv`: without late answers,
crashes and shutdowns a `prepare` call is only unanswered while the worker waits
for it, and from the settings to the answer the worker has the lease. `AwaitInv`:
the worker waits for the last of its calls, and what it is about to remove was
started. `KeptInv`: until the first load every accepted item is in the file;
afterwards every one is in the queue, started or taken out. `ListsInv`: every
copy of the queue, in memory, on its way or on disk, is in the order of the
numbers. `OrderInv`: everything started is before everything queued, but for an
item whose start is confirmed and whose removal is to come. `SavedInv`: while no
call came before the load, no load or write failed, the service was not closed and
no two threads held a copy at the same time, a thread is about to copy the queue or
holds the copy, or the last operation given to the saver is this queue, or the file
is. A kill in the middle of a write is covered: what is loaded then is what it left.
`NothingIsLost` counts equal items. What is removed after a start is of the kind
that was started, so the sum over a kind of what waits, was started and was taken
out never falls below what was accepted.

**Files of the batches.** `FileInv`: the file of a revision is not there until a
job opens it, and a job writes it right after it has opened it, so no job meets
the readable file of another; a batch that is not listed has no files. `OwnedInv`
and `JobInv`: an owned batch is listed and tagged as active, and a job that
changes who is active writes that tag last. So a start that cannot read the
manifest of an owned batch still sees its tag and bars every activation
(`HolderInv`): at any time the owned batch is the active one, is being restored,
or activations are barred. `FileInv` is stated over the steps still to come of
a job, which all its writes keep (`TailsAreTidy`).

**Observer.** `SessionInv`: the service holds the session of the journal or none,
and the run in memory is that of the journal. `RecordInv`: the record of a session
that was not found ready is new. `CustodyInv`: context follows file and file
follows spool, and between the steps of an import the snapshot at hand is the
one that waits; with it every step maps to one of `SnapshotCustody` or to none
(a shot is `Spool`, a context `Copy`, a descriptor `Analyse`; the release finds
the spool empty). `CutInv`: what the source ended was never stopped on request.
`EventsInv`: an observer that runs hears of the exposure in order, and a run that
is over has its STOPPED on the way; it is what makes `TargetInv` (the run of a
start is followed until its STOPPED) and `JournalIsWhole` inductive: a session in
which nothing failed is of the run of its journal, from its start until its STOPPED
is handled. `ClosingInv`: a finalization on behalf of `close` has left its mark in
the history.

`EntriesInv`: the entries of an open record that wait for their acknowledgement are
those the observer would make again, because it hears nothing more of the laser once
the mark is set, or a process ended with such an entry.

**Acquisition.** `AcquisitionInv` has three parts beside the types. `OwnerInv`: a
run that was accepted is the one in memory, nothing else takes the digitizer while
its callbacks are under way, and a recovery or a finalizing diagnostic only meets a
board without another run. `BoardInv`: what waits in the spool is of the session
and not newer than the last cut. `CustodyInv`: a record holds snapshots of its own
run, and of a session on the board no others than the spool's; what is
acknowledged is in the record; after the final segment was asked for the board
records nothing; and a run to be released is analysed with everything that was
spooled. Most actions change neither records nor what the spool holds of a run
(`QuietStep`), so the parts are kept by one argument for all of them and by one
each for the preparation, the import, the finalization, the reconciliation and the
two steps of a recovery. The refinement follows the same split: a new segment is
`Spool`, an import with or without its acknowledgement `Copy` or nothing, the end
of a reconciliation or of a recovery `Analyse`, and the release `Release`.

**Devices.** Each is proved from its own specification, without fairness.
`TargetInv`: in a run that has not begun or is stopped, no flag asks for motion,
no pause waits to be resumed, nothing was told to go and the pass under way did
not see a run or a start (`TargetQuiet`), nor did the main loop decide to pause or to
resume; that either may have been decided before the stop is the exception `raced`. `LaserInv` is about calls and not about the queue:
unless something was `overtaken`, no preinit waits in a run that is over, one
manual call waits at a time, a test call waits only in a test that is active, and
a laser that is lit between runs is lit for a test; a main loop that has seen it off
and not answered yet is the exception where a setter meets it. The setters in the queue may
be of calls long answered, and the worker drops those (`LaserHeld`). `ScopeInv` follows a segment from the
burst to the record. `Apart`: it is in one place at a time. `Counted`: of a run
whose record is not spoilt, the segments that saw its light are those filed and
those on their way, and nothing else is on its way. `Clean`: when such a run is
closed, nothing is on its way, and nothing will be before the next run begins
(`ScopeQuiet`); so what is filed then is what saw light, which `Closed` keeps for
all later times. `ScopeControl` says which run each thread holds, `Spoiling` that
a run without a clean predecessor is spoilt itself. The attempt to prove it is
what showed the case of the flush in section 5: with two runs TLC cannot reach it.

**Interlocks.** `InterlockInv` relates four copies: the health the acquisition
controller holds, the one it posted, and those the laser and the target have seen.
`Authority`: while recovery is authorized none of them says loss, and only then one
offers recovery. `Owing`: a loss the laser heard of withdraws the authorization, so
an offer it sees later follows a later one; this is `ReopenIsAuthorized`. `Guarding`
holds until losses and openings cross. Without authorization nothing asks the laser
to open, a laser not on the target is not told to go there, and a target that
heard that the sample is shut may rely on it (`Closing`); with it, the laser does
not ask as long as the target rests (`Resting`); so a paused target does not run
over an open sample (`Waiting`). `Queue` is why a job left from before cannot break
this: each is in the laser's queue at most once, and only while its flag is up. The
proof found two openings that TLC's bounds had not shown, both now part of
`crossed` and named in section 5.

**Sample stage.** `StageLinkInv` has three parts. `LinkInv`: while nothing was lost,
the numbers of the commands on the wire and in the queue of the link follow that of
the last one that arrived, and an acknowledgement is at most one ahead of it, which
takes a torn report (`Consecutive`). `StageInv`: the running operation stands inside
its script. `Sound`, proved of every script whatever the slot, says where a script
may take a home position: three instructions after the commands that ask for one,
their acknowledgement and the standstill. `Asked` ties both together. While these
commands are the newest, `HOME` is the newest but one; so it is still on its way
(`Asking`), or it has arrived and the service has forgotten the old position. Once
the newest command is acknowledged, `HOME` took effect even if the report was torn,
and every later report says so (`Forgotten`). Every other step of the link, the
service, the network, the subsystem and the clients is shown to keep this
(`Keeping`) or to lose a command. Positions and marks never matter to the argument,
so sequences and records are typed by their own elements.

**Cadence.** `TrackerHolds` compares the tracker with the whole segment, which only
the model remembers. `SegmentHolds` and `GapsHold`: what the tracker has of the
observations and of their gaps is the whole of them without a beginning older than
the retention (its gaps may be marked differently). The one old observation that
`_prune` leaves matters: a segment that still starts with the first observation
starts its windows there, and one that does not must start with something older
than any window. `WholeHolds`: a segment is projected with one offset, so its order
is that of the captures. `PointsHold`: points are in order and the last belongs to
the sample interval under way, so a new one comes after it and replacing the last
keeps the order. With these a count over what is left equals the count over
everything (`RollingSame`), for whatever is displayed, since the retention is the
display and the longest window. Points are `AllExact` unless the tracker is dirty,
and after a sample they are in any case (`SampledHolds`). The counts are sums over
positions: `AddingWorks` shows that the fold of the community modules is a sum,
`BySubsets` is induction over the parts of a finite set, and `SumIsShifted` that
dropping a beginning moves the positions and leaves the sum.

**Saved states.** `SaverInv`, in a life in which nothing failed: before the library
is closed only saves are queued and the newest state last (`OnlySaves`); while close
waits, what it asked for is queued, or in the hand of the saver, or on disk
(`WaitingFor`); and when the target's close waits for the library, it is on disk or
about to be, and nothing is taken before the request to close (`ClosingNext`). The
gap of the laser is where `WaitingFor` is not enough: the request is in the hand of
a saver that does not say so.

**Timing.** `TimingInv` describes the stream as a run builds it: numbered upward,
started by its first event, ended by nothing but its last; of a kind no value is
told twice in turn (`Alternate`) and the last one told is the one the run remembers
(`LastIs`). `Handling` and `Heard` are about the two locks: what a message being
handled brings is already stored, and when none is being handled, an open stream has
been told what is stored, whichever of message and opening came first.

**Only model-checked.** Liveness. `PreinitEndsInPlace` and `RepairIsSafe`, which are
next in the plan. All invariants the runs check are proved, some with the
hypotheses the table names.

## 5. Where the code departs from what it says or seems to want

No run expects a violation: the cases below are exceptions of properties, or were
shown by runs made for the purpose. Each names the line where it bites.

**Batches**

- `update` saves the revision before it asks the coordinator, which judges by an
  assessment up to ten seconds old and may refuse: the command fails, the
  revision stays, and the next exposure follows the old plan under the new number
  (`batch_controller.py:446`).
- When the save of new acknowledgements raises, memory already has them: the next
  poll has nothing to save and may start the repetition, and after a restart the
  failure is unacknowledged again (`batch_controller.py:305`).
- `continue` does not look at a pending cancellation: a batch that is being
  cancelled may start another exposure (504). A cancellation that is "waiting for
  current exposure data" may be carried out before the data are final, when the
  run ends between the two reads of a poll (327).
- A crash between a revision file and its manifest makes every later save of that
  revision fail with "already exists"; a failed tag write leaves memory behind
  the disk and refuses saves until a restart (`batch_storage.py`).
- A save that raises in the tags has written the manifest (167). When that happens to
  an activation, `_active` stays empty, another batch may be activated, and two active
  manifests are on disk: every later start of the controller raises
  (`batch_controller.py:248`). When it happens to the end of a batch, the manifest
  says that the batch is over and `_active` goes on with it.
- A release of the lease that times out after ten seconds leaves `_lease_owned` set
  (381), though the exposure controller may carry it out: the next start asks for no
  lease and begins without it (`unanswered`). An acquisition that times out leaves the
  lease with a controller that does not know that it has it.
- A plan editor takes over the number of a new revision of the active batch
  without its plan, and its next save replaces what another editor saved, unseen
  (`gui/batch_controller.py:1106`). A late answer replaces the draft being edited;
  overrides typed for a selection with an unplanned sample are dropped.
- Changing from a dose to a time target is refused between two keys, and leaves a
  mixture of two items until the next transfer; the lease does not keep the
  operator's form from writing in between.

**Queue**

- Two threads copy the queue under the lock and hand the copies over outside it:
  the saver may keep the older one (`experiment_sequencer.py:276`).
- An item runs twice after a late answer, after a crash between the start and the
  save, or after a list staged earlier is committed; an item is lost by a call
  during the boot, or by a save that is pending at a shutdown; a run begins
  without the lease when the service closes while the worker waits, and after a
  release that timed out (420), as with the batch controller.
- The head is removed if its bytes are those of the started item (471). When an
  operator removes that item during its start, the next one, if it is equal, is
  removed in its place; since one of the two was started and one taken out, no item
  is lost.

**Acquisition and records**

- A recovery is refused while a run exists when it is asked for, but not when its
  turn comes: it may release the session of a run, whose finalization then waits
  for ever (`euv_acquisition_controller.py:876`, 1653). So does a finalization
  whose pulse report was lost (1645).
- A timing status is stored under one lock and told the run under another (518);
  both orders give the same events, but a flush that is slow at the end leaves a
  run without its graph (1670).
- Observer: a kill or a lost answer between `release_snapshots` and the removal
  of the journal makes every later preinit be refused; one between the context
  entry and its acknowledgement ends in "conflicts with an existing entry", because
  what the observer heard of the laser is not in the journal: the record says
  "capturing" for ever, and the journal that names it refuses every later start
  (`torn`, `observer_artifacts.py:327`);
  closing the observer in an exposure files the record as complete.
- The laser's saver takes a request before it says that it saves: closing in
  between leaves an older or torn file (`laser.py:492`, 502, 1655).

**Devices**

- Laser: a stop that comes before the chopper locks is answered, and the preinit
  still waiting then switches the laser on (`overtaken`). The main loop sees the laser
  off and answers in two steps, and the worker may run a setter in between: the stop
  is answered and the laser lit (`laser.py:1125`). A test step that fails
  when the laser is on ends the test but not the light (840), and so may two test
  calls that overlap. A timed exposure with
  the laser off holds the worker for ever (`Stuck`). A test queued behind a stop
  keeps it unanswered. A chopper fault in a run leaves it running dark (1293).
- Target: a stop between the two steps of a pass of the move thread is undone
  (`raced`, `target_controller.py:222`), and so is one between the look at the flags
  and the act of a resume (1226, 411): the target starts after its stop. `stop` keeps the aim, so a target past
  its aim reports that it moves and its stop is not answered (`PastItsAim`); a
  linear fault while moving freezes the same flag (`FrozenAxis`).
- Interlock: a second loss published while an authorized reopening is under way
  opens the sample over a stopped target (`crossed`); so does a health value that
  reaches the laser late in such a reopening, which it takes for a loss. An operator
  may start the target while it is paused for a loss (`target_controller.py:1056`):
  it moves and the pause stays, an authorized recovery opens the sample on its
  motion, and it may come to rest under the open sample, still paused. A pause
  between the two steps of a pass that starts the target is undone in the same way. After a jog
  in the pause `can_modify` refuses the resume for ever, since jog speeds are never
  cleared. A loss shorter than a loop period is never seen.
- Stage: an acknowledgement names the last command received, which may not have
  had its effect (`torn`); a lost command is taken for one that was carried out
  (`lost`); a wait for idle may end before its operation begins (`early`); the
  preparation of a stopped run is reported for the next (`other`); a slot reached
  after a failed homing counts as prepared. An operation that fails leaves its axes
  moving while the stage reports idle, and since a slot counts as reached within a
  tenth of a radian and a millimetre, a run may be reported as prepared while the
  stage passes its slot (`adrift`, `sample_motion.py:1128`, 1296).
- Oscilloscope: a run accepted while the previous one is being closed takes its
  writer (1573), and when it is also stopped during the five seconds of the
  flush, it is closed in place of the previous one, because the run to close is
  read only then (1569): the previous one gets no dose, and a burst of this one
  that is still on its way lands in the third; a burst between two flags is counted for neither or for the next
  run (475, 523); the dose leaves out, without a word, segments that it cannot load or
  analyse and those of more than ten seconds (702, 712), which the live dose counted; a
  stop while a burst is being started leaves the scope waiting
  for light (172).

## 6. What is not modelled

- *Outside this repository:* the run state machine of `ipi_ecs`, DDS, the library
  of records and the digitizer's service are modelled by what this code can see
  of them, and marked external. That the exposure controller refuses to prepare a
  run while another runs or while another automation owns the lease, and that DDS
  runs the callbacks of one client one at a time, are assumptions about them.
- *Time* is order: "within five seconds" and "every ten seconds" are steps that
  may come at any moment. Where a time-out is meant to come after something
  certain, its guard says so: the one-second waits of the stage expire only when
  nothing can still bring the answer, its reconnection after ten idle seconds
  comes only while no operation works. The half-second sleeps between stage
  commands are left out.
- *Keeping up:* the observer of `SiglentObserver` handles a change of the exposure
  before the digitizer takes a shot of the next one (`ShotTaken`); half of
  `CompleteIsWhole` rests on it. The reader of the cadence takes at most a hundred
  points and sixty kilobytes (`capture_cadence.py:212`, 309), which is not modelled.
- *Data that changes:* metrics, once recorded, are never changed again in
  `BatchController`, so that a final analysis that corrects them after five seconds
  is out of its sight. That a motor is enabled after a shutdown has disabled it, and
  a client that restarts in the middle of its count, which sets `lost`, are modelled,
  but no property is about them. That a cancellation waits for the data of the last
  run is not a property, since it does not hold (section 5).
- *Geometry and ramps:* the path of the target is where the axes are relative to
  their aim; ramps and braking of the steppers are one move that takes time;
  distances of the homing sequences are the smallest numbers with the order and
  signs of the code's. Chopper phase arithmetic is four phases.
- *Merged steps:* a stage report and its parsing; the answer of a laser's stop and
  the clearing of its handle and of `__experiment_active` (`laser.py:1126`); the send of an editor's client thread and the
  receipt by the controller; the listing of a folder and the reading of its
  registry; decoding a waveform and publishing it.
- *Left out of modelled components:* template validation, seeds and number
  formats of plans; previews, graphs and the arithmetic of dose in the
  acquisition controller; manual moves and offset writes of the stage other than
  as a move somebody makes; the death of the oscilloscope's process, its SCPI
  traffic and signal processing; waveform generator and serial protocols.
- *Left out altogether:* dose analysis and calibration (floating-point arrays);
  graphs, previews and legacy readers; windows other than the plan editor and the
  command lines, which issue the commands above and keep nothing over them;
  development metrics and settings presets (last writer wins); the legacy
  chopper, which no service starts; the lifecycle manager and service wrappers,
  which belong to `ipi_ecs`.

## 7. Plan

What is left is mostly proofs; in order of importance:

1. **Stage.** `PreinitEndsInPlace`, on top of `StageLinkInv`: what the commands of
   a script leave of the positions, by induction over their number.
2. **Repair.** `RepairIsSafe`: the record that is replaced is the one inspected.
3. **Both automations over one exposure controller**, batch controller and queue
   composed over one lease: each is now checked against an environment that takes
   the lease like the other.
