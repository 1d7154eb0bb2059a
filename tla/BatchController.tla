-------------------------- MODULE BatchController --------------------------
(***************************************************************************)
(* The Exposure Batch Controller (subsystems/batch_controller.py) and the  *)
(* BatchCoordinator it drives (subsystems/batcher.py), over the manifests  *)
(* on disk, the run library and the external exposure controller.          *)
(*                                                                         *)
(* One worker thread takes operator commands from a queue and polls the    *)
(* active batch.  `pc` is where that thread stands between two reads of    *)
(* the world outside it, so that runs may start, end and be finalized, and *)
(* the automation lease change hands, between any two of its reads; `task` *)
(* says what a poll may do with its decision.  A crash loses everything    *)
(* but the manifests, the run library and the external controller's state. *)
(***************************************************************************)
EXTENDS BatchAssessment

CONSTANTS
  Batches,             \* batch UUIDs
  NoBatch,             \* `_active is None`
  Plans,               \* the plans operators submit
  Outcomes,            \* records [status, dose, runtime] a run may end with
  MaxRuns,             \* bound on the recorded runs
  MaxRevision,         \* bound on the plan revisions of a batch
  RepairLimit,         \* BatchCoordinatorConfig.repair_attempt_limit
  SourceFailureLimit,  \* BatchCoordinatorConfig.source_failure_limit
  Commands,            \* the operator commands in scope
  Faults               \* the faults in scope

CommandNames ==
  {"create", "update", "activate", "pause", "resume", "continue", "set_mode",
   "cancel", "withdraw", "unwithdraw", "refresh"}

\* history: the run library cannot be read.  snapshot: the controller cannot.
\* repair: a reanalysis fails.  save: a save of a manifest raises, before or
\* after it has written the manifest.  lease: the controller refuses to hand
\* out or take back the lease, or does so without an answer in time.
\* start: the start is refused, or answered too late.  late: the metrics of a
\* run are not yet recorded when it ends.  orphan: a run never ends.
\* foreign: a run of no batch.  crash, shutdown: of the batch controller.
FaultNames ==
  {"history", "snapshot", "repair", "save", "lease", "start", "late",
   "orphan", "foreign", "crash", "shutdown"}

ASSUME ScopeAssumption ==
  /\ NoBatch \notin Batches /\ IsFiniteSet(Batches)
  /\ \A p \in Plans : IsPlan(p)
  /\ Outcomes \subseteq [status : {"STOPPED", "ABORTED"}, dose : Int, runtime : Int]
  /\ MaxRuns \in Nat /\ MaxRevision \in Nat
  /\ RepairLimit \in Nat \ {0} /\ SourceFailureLimit \in Nat \ {0}
  /\ Commands \subseteq CommandNames /\ Faults \subseteq FaultNames

VARIABLES
  (* Outlives the batch controller. *)
  store,        \* the manifests on disk
  attempts,     \* the run library: a sequence of runs of any batch
  settled,      \* runs whose finalization delay has passed
  lease,        \* who owns the exposure controller's automation lease
  current,      \* the run of the exposure controller
  (* The controller's memory. *)
  known,        \* `_manifests`: the manifests as last read or saved
  active,       \* the batch of `_active`
  manifest,     \* `_active`, which runs ahead of `known` when a save fails
  leaseOwned,   \* `_lease_owned`
  unanswered,   \* history: a release timed out and left `_lease_owned` set
  mode,         \* `_execution_mode`
  coordLive,    \* `_coordinator is not None`
  coord,        \* the BatchCoordinator
  (* The worker thread. *)
  pc, task, starting, loaded, seen, repaired,
  (* History variables. *)
  consent,      \* the operator's last word on the active batch was to run it
  alarm         \* an error was published since the operator's last word to run

durable == <<store, attempts, settled, lease, current>>
memory == <<known, active, manifest, leaseOwned, unanswered, mode, coordLive, coord>>
worker == <<pc, task, starting, loaded, seen, repaired>>
ghosts == <<consent, alarm>>
vars == <<durable, memory, worker, ghosts>>

-----------------------------------------------------------------------------
(* Data. *)

ManifestStatus ==
  {"absent", "draft", "active", "completed", "cancelled", "withdrawn"}

Archived == {"completed", "cancelled", "withdrawn"}

Manifest ==
  [status : ManifestStatus, paused : BOOLEAN, cancel_pending : BOOLEAN,
   acknowledged : SUBSET (1..MaxRuns), plan : Plans \cup {<< >>},
   revision : 0..MaxRevision]

NoManifest ==
  [status |-> "absent", paused |-> FALSE, cancel_pending |-> FALSE,
   acknowledged |-> {}, plan |-> << >>, revision |-> 0]

\* A run is an attempt with its tags and what the camera actually measured.
\* Runs end one after the other, so that their numbers order their ends.
Metrics == [dose : Int, runtime : Int]

Run ==
  [sample : Samples, status : RunStatus, end_time : 0..MaxRuns, dose : Metric,
   runtime : Metric, snapshots : BOOLEAN, valid : BOOLEAN, batch : Batches,
   revision : 0..MaxRevision, amount : Nat, measured : Metrics]

\* A run of the exposure controller that carries no batch tag.
ForeignRun == 0

RunsOfBatch(b) == {r \in DOMAIN attempts : attempts[r].batch = b}

\* load_attempts.
HistoryOf(b) == [r \in RunsOfBatch(b) |-> attempts[r]]

NoDecision == Plain("none")

Coordinator ==
  [plan : Plans \cup {<< >>}, paused : BOOLEAN, acknowledged : SUBSET (1..MaxRuns),
   repairs : [1..MaxRuns -> 0..RepairLimit], blocked : SUBSET (1..MaxRuns),
   failures : 0..SourceFailureLimit, source_paused : BOOLEAN,
   logic_paused : BOOLEAN,
   last : [kind : DecisionKind \cup {"none"}, run : 1..MaxRuns \cup {NoRun},
           sample : Samples \cup {NoSample}, amount : Nat]]

NewCoordinator(m) ==
  [plan |-> m.plan, paused |-> m.paused, acknowledged |-> m.acknowledged,
   repairs |-> [r \in 1..MaxRuns |-> 0], blocked |-> {}, failures |-> 0,
   source_paused |-> FALSE, logic_paused |-> FALSE, last |-> NoDecision]

NoCoordinator == NewCoordinator(NoManifest)

Places ==
  {"down", "idle", "ensure", "load", "snapshot", "assess", "dispatch",
   "cancel", "finish", "release", "start"}

\* auto: the poll may start a run in automatic mode.  continue: it must find a
\* run to start.  look: it may start nothing.
Tasks == {"none", "auto", "continue", "look"}

TypeOK ==
  /\ store \in [Batches -> Manifest]
  /\ attempts \in Seq(Run) /\ Len(attempts) <= MaxRuns
  /\ settled \subseteq DOMAIN attempts
  /\ lease \in {"none", "batch", "other"}
  /\ current \in DOMAIN attempts \cup {NoRun, ForeignRun}
  /\ known \in [Batches -> Manifest]
  /\ active \in Batches \cup {NoBatch} /\ manifest \in Manifest
  /\ leaseOwned \in BOOLEAN /\ unanswered \in BOOLEAN
  /\ mode \in {"manual", "automatic"}
  /\ coordLive \in BOOLEAN /\ coord \in Coordinator
  /\ pc \in Places /\ task \in Tasks /\ starting \in BOOLEAN
  /\ DOMAIN loaded \subseteq DOMAIN attempts /\ \A r \in DOMAIN loaded : loaded[r] \in Run
  /\ seen \in [available : BOOLEAN, idle : BOOLEAN,
               run : DOMAIN attempts \cup {NoRun, ForeignRun}]
  /\ repaired \subseteq DOMAIN attempts
  /\ consent \in BOOLEAN /\ alarm \in BOOLEAN

-----------------------------------------------------------------------------
(* Moves of the worker thread. *)

Forget == loaded' = << >> /\ seen' = Unavailable /\ repaired' = {}

\* Every command and poll ends here, by returning or by an exception.
ToIdle == pc' = "idle" /\ task' = "none" /\ starting' = FALSE /\ Forget

\* `_poll_active`, which first needs a coordinator.
BeginPoll(t) ==
  /\ pc' = IF coordLive' THEN "load" ELSE "ensure"
  /\ task' = t /\ starting' = FALSE /\ Forget

GoTo(place) == pc' = place /\ UNCHANGED <<task, starting, loaded, seen, repaired>>

\* poll_once returns to `_poll_active`, or to the start_next that called it.
AfterPoll ==
  /\ pc' = IF ~starting THEN "dispatch"
           ELSE IF coord'.last.kind = "start_remainder" THEN "start" ELSE "idle"
  /\ task' = (IF pc' = "idle" THEN "none" ELSE task)
  /\ starting' = (starting /\ pc' # "idle")
  /\ Forget

StartPoll == pc' = "load" /\ starting' = TRUE /\ UNCHANGED task /\ Forget

Free(command) == pc = "idle" /\ command \in Commands

\* A save of m for batch b.  The manifest is written before the tags (see
\* ManifestStore), so one that raises may be on disk; `_manifests` is set
\* only when the save has returned.
Saved(b, m) ==
  store' = [store EXCEPT ![b] = m] /\ known' = [known EXCEPT ![b] = m]

SaveRaised(b, m) ==
  /\ "save" \in Faults /\ UNCHANGED known
  /\ store' \in {store, [store EXCEPT ![b] = m]}

\* save_control_state raises, having written nothing, when the plan on disk
\* is of another revision, as a revision leaves it whose save raised.
SaveControlState(b, m, rest, raised) ==
  \/ store[b].revision = m.revision /\ Saved(b, m) /\ rest
  \/ store[b].revision = m.revision /\ SaveRaised(b, m) /\ raised
  \/ store[b].revision # m.revision /\ UNCHANGED <<store, known>> /\ raised

\* The active batch is saved as m, then the rest of the command follows; a
\* save that raises leaves the change in memory and ends the command.
SaveActive(m, rest) == manifest' = m /\ SaveControlState(active, m, rest, ToIdle)

-----------------------------------------------------------------------------
(* Start and end of the process. *)

Init ==
  /\ store = [b \in Batches |-> NoManifest]
  /\ attempts = << >> /\ settled = {} /\ lease = "none" /\ current = NoRun
  /\ known = [b \in Batches |-> NoManifest]
  /\ active = NoBatch /\ manifest = NoManifest
  /\ leaseOwned = FALSE /\ unanswered = FALSE
  /\ mode = "manual" /\ coordLive = FALSE /\ coord = NoCoordinator
  /\ pc = "down" /\ task = "none" /\ starting = FALSE
  /\ loaded = << >> /\ seen = Unavailable /\ repaired = {}
  /\ consent = FALSE /\ alarm = FALSE

LiveManifests == {b \in Batches : store[b].status = "active"}

\* Fault: the batch comes back as it was.
RestoredRunning(m) == m

Restored(m) == [m EXCEPT !.paused = TRUE]

\* `_load_manifests`: an active batch comes back paused, and saved as such.
\* With two of them, or if the save raises, the worker ends and the process
\* stays down; the next start pauses the batch as well.
Boot ==
  /\ pc = "down"
  /\ Cardinality(LiveManifests) <= 1
  /\ \/ LiveManifests = {} /\ UNCHANGED <<store, active, manifest>>
     \/ \E b \in LiveManifests :
          /\ store' = [store EXCEPT ![b] = Restored(store[b])]
          /\ active' = b /\ manifest' = store'[b]
  /\ known' = store'
  /\ consent' = FALSE
  /\ ToIdle
  /\ UNCHANGED <<attempts, settled, lease, current, leaseOwned, unanswered, mode,
                 coordLive, coord, alarm>>

Down ==
  /\ active' = NoBatch /\ manifest' = NoManifest
  /\ leaseOwned' = FALSE /\ unanswered' = FALSE
  /\ mode' = "manual" /\ coordLive' = FALSE /\ coord' = NoCoordinator
  /\ pc' = "down" /\ task' = "none" /\ starting' = FALSE /\ Forget
  /\ UNCHANGED <<store, known, attempts, settled, current, consent, alarm>>

Crash == "crash" \in Faults /\ pc # "down" /\ Down /\ UNCHANGED lease

\* The end of `_worker`: the lease goes back, unless its release fails.
Shutdown ==
  /\ "shutdown" \in Faults /\ pc = "idle" /\ Down
  /\ \/ lease' = (IF leaseOwned THEN "none" ELSE lease)
     \/ "lease" \in Faults /\ UNCHANGED lease

-----------------------------------------------------------------------------
(* Commands about a manifest. *)

Unaffected == UNCHANGED <<attempts, settled, current, mode>>

SameLease == UNCHANGED <<lease, leaseOwned, unanswered>>

OnlyManifests ==
  /\ UNCHANGED <<active, manifest, coordLive, coord, worker, ghosts>>
  /\ SameLease /\ Unaffected

\* The batch is new on disk too.
Create(b, p) ==
  /\ Free("create") /\ store[b].status = "absent" /\ MaxRevision > 0
  /\ LET created == [NoManifest EXCEPT !.status = "draft", !.paused = TRUE,
                                       !.plan = p, !.revision = 1]
     IN Saved(b, created) \/ SaveRaised(b, created)
  /\ OnlyManifests

\* The revision must follow the one on disk.  It is saved before the
\* coordinator is asked to take it; it refuses while its last assessment saw
\* an active exposure, and there may be none.
Update(b, p) ==
  /\ Free("update") /\ known[b].status \notin Archived \cup {"absent"}
  /\ known[b].status = "active" => current = NoRun
  /\ known[b].revision < MaxRevision /\ store[b].revision = known[b].revision
  /\ LET updated == [known[b] EXCEPT !.plan = p, !.revision = @ + 1]
         accepts == coordLive /\ coord.last.kind # "wait_active"
     IN \/ /\ Saved(b, updated)
           /\ manifest' = IF active = b THEN updated ELSE manifest
           /\ coord' = IF active = b /\ accepts
                       THEN [coord EXCEPT !.plan = p, !.last = NoDecision]
                       ELSE coord
        \/ SaveRaised(b, updated) /\ UNCHANGED <<manifest, coord>>
  /\ Unaffected /\ SameLease
  /\ UNCHANGED <<active, coordLive, worker, ghosts>>

Withdraw(b) ==
  /\ Free("withdraw") /\ known[b].status = "draft"
  /\ SaveControlState(b, [known[b] EXCEPT !.status = "withdrawn", !.paused = TRUE],
                      TRUE, TRUE)
  /\ OnlyManifests

Unwithdraw(b) ==
  /\ Free("unwithdraw") /\ known[b].status = "withdrawn"
  /\ SaveControlState(b, [known[b] EXCEPT !.status = "draft", !.paused = TRUE,
                                          !.cancel_pending = FALSE],
                      TRUE, TRUE)
  /\ OnlyManifests

LeaseCanBeHad == lease \in {"none", "batch"}

\* The controller gave the lease out, but its answer came too late.
GrantUnheard ==
  /\ "lease" \in Faults /\ LeaseCanBeHad /\ lease' = "batch"
  /\ UNCHANGED <<leaseOwned, unanswered>>

MayActivate(b) ==
  /\ active = NoBatch
  /\ known[b].status \in {"draft", "cancelled"} /\ known[b].plan # << >>

Activated(b) == [known[b] EXCEPT !.status = "active", !.paused = FALSE,
                                 !.cancel_pending = FALSE]

NotActivated == UNCHANGED <<manifest, active, coordLive, coord, worker, ghosts>>

\* The lease is acquired first, and kept when the manifest cannot be saved.
Activate(b) ==
  /\ Free("activate") /\ MayActivate(b)
  /\ \/ /\ LeaseCanBeHad /\ lease' = "batch" /\ leaseOwned' = TRUE
        /\ UNCHANGED unanswered
        /\ SaveControlState(b, Activated(b),
             /\ manifest' = Activated(b) /\ active' = b
             /\ coordLive' = TRUE /\ coord' = NewCoordinator(manifest')
             /\ consent' = TRUE /\ alarm' = FALSE
             /\ BeginPoll("auto"),
             NotActivated)
     \/ GrantUnheard /\ NotActivated /\ UNCHANGED <<store, known>>
  /\ Unaffected

-----------------------------------------------------------------------------
(* Commands about the active batch.  Those that call the coordinator fail   *)
(* without any effect while there is none.                                  *)

Commandable(command) == Free(command) /\ active # NoBatch

SameRuntime == UNCHANGED <<active, coordLive>> /\ SameLease

Pause ==
  /\ Commandable("pause") /\ coordLive
  /\ coord' = [coord EXCEPT !.paused = TRUE]
  /\ consent' = FALSE /\ UNCHANGED alarm
  /\ SameRuntime /\ Unaffected
  /\ SaveActive([manifest EXCEPT !.paused = TRUE], BeginPoll("look"))

Cancel ==
  /\ Commandable("cancel") /\ coordLive
  /\ coord' = [coord EXCEPT !.paused = TRUE]
  /\ consent' = FALSE /\ UNCHANGED alarm
  /\ SameRuntime /\ Unaffected
  /\ SaveActive([manifest EXCEPT !.paused = TRUE, !.cancel_pending = TRUE],
                BeginPoll("look"))

\* BatchCoordinator.resume: acknowledges the failure last assessed, and
\* forgets every error, failed refresh and failed repair.
Resumed ==
  [coord EXCEPT
     !.acknowledged = @ \cup
        (IF coord.last.kind = "pause_failure" THEN {coord.last.run} ELSE {}),
     !.paused = FALSE, !.source_paused = FALSE, !.logic_paused = FALSE,
     !.failures = 0, !.repairs = [r \in 1..MaxRuns |-> 0], !.blocked = {}]

Resume ==
  /\ Commandable("resume") /\ coordLive
  /\ coord' = Resumed
  /\ consent' = TRUE /\ alarm' = FALSE
  /\ SameRuntime /\ Unaffected
  /\ SaveActive([manifest EXCEPT !.paused = FALSE], BeginPoll("auto"))

Continue ==
  /\ Commandable("continue") /\ mode = "manual" /\ ~manifest.paused
  /\ SameRuntime /\ Unaffected
  /\ UNCHANGED <<store, known, manifest, coord, ghosts>>
  /\ BeginPoll("continue")

SetMode(m) ==
  /\ Free("set_mode") /\ mode' = m
  /\ SameRuntime
  /\ UNCHANGED <<store, known, attempts, settled, current, manifest, coord, ghosts>>
  /\ IF active = NoBatch THEN UNCHANGED worker ELSE BeginPoll("auto")

Refresh ==
  /\ Commandable("refresh")
  /\ SameRuntime /\ Unaffected
  /\ UNCHANGED <<store, known, manifest, coord, ghosts>>
  /\ BeginPoll("look")

\* The poll of `_worker` itself, every ten seconds.
Timer ==
  /\ pc = "idle" /\ active # NoBatch
  /\ SameRuntime /\ Unaffected
  /\ UNCHANGED <<store, known, manifest, coord, ghosts>>
  /\ BeginPoll("auto")

\* Fault: a restored batch takes the lease for granted.
AcquireNothing == leaseOwned' = TRUE /\ UNCHANGED <<lease, unanswered>>

AcquireLease ==
  /\ leaseOwned \/ LeaseCanBeHad
  /\ lease' = (IF leaseOwned THEN lease ELSE "batch") /\ leaseOwned' = TRUE
  /\ UNCHANGED unanswered

\* `_ensure_active_runtime`, in a poll and in every pass of the worker's loop.
EnsureActiveRuntime ==
  /\ pc \in {"idle", "ensure"} /\ active # NoBatch /\ ~coordLive
  /\ \/ /\ AcquireLease
        /\ coordLive' = TRUE /\ coord' = NewCoordinator(manifest)
        /\ GoTo(IF pc = "ensure" THEN "load" ELSE "idle")
     \/ /\ ~leaseOwned
        /\ \/ (~LeaseCanBeHad \/ "lease" \in Faults) /\ SameLease
           \/ GrantUnheard
        /\ UNCHANGED <<coordLive, coord>> /\ ToIdle
  /\ Unaffected /\ UNCHANGED <<store, known, active, manifest, ghosts>>

-----------------------------------------------------------------------------
(* BatchCoordinator.poll_once. *)

PollOnly == UNCHANGED <<store, known, lease, current, settled, active, manifest,
                        leaseOwned, unanswered, mode, coordLive, consent>>

LoadAttempts ==
  /\ pc = "load"
  /\ loaded' = HistoryOf(active)
  /\ pc' = "snapshot"
  /\ PollOnly /\ UNCHANGED <<attempts, coord, alarm, task, starting, seen, repaired>>

ReadController ==
  /\ pc = "snapshot"
  /\ seen' = Snapshot(TRUE, current = NoRun, current)
  /\ coord' = [coord EXCEPT !.failures = 0]
  /\ pc' = "assess"
  /\ PollOnly /\ UNCHANGED <<attempts, alarm, task, starting, loaded, repaired>>

\* Either read raises, or the controller is unavailable.
SourceFailure ==
  /\ \/ pc = "load" /\ "history" \in Faults
     \/ pc = "snapshot" /\ "snapshot" \in Faults
  /\ LET failed == IF coord.failures < SourceFailureLimit
                   THEN coord.failures + 1 ELSE SourceFailureLimit
         stop   == failed = SourceFailureLimit
     IN /\ coord' = [coord EXCEPT !.failures = failed,
                        !.source_paused = @ \/ stop,
                        !.last = Plain(IF stop THEN "pause_error" ELSE "wait_controller")]
        /\ alarm' = (alarm \/ stop)
  /\ AfterPoll
  /\ PollOnly /\ UNCHANGED attempts

\* Fault: failed refreshes are forgotten when one succeeds.
LatchedByPlanner == coord.logic_paused

\* An error holds the batch until a resume.
Latched == coord.logic_paused \/ coord.source_paused

Assessed ==
  Assess(coord.plan, loaded, seen,
         {r \in Terminal(loaded) : r \notin settled},
         coord.acknowledged, coord.blocked,
         coord.paused \/ Latched)

\* A run is reanalysed at most once in a poll.
MustRepair == Assessed.kind = "repair_metrics" /\ Assessed.run \notin repaired

\* The analysis writes the metrics it found; reading them back may fail too.
RepairMetrics ==
  /\ pc = "assess" /\ MustRepair
  /\ LET r     == Assessed.run
         count == coord.repairs[r] + 1
         Counted(n) ==
           coord' = [coord EXCEPT !.repairs[r] = n,
                       !.blocked = IF n >= RepairLimit THEN @ \cup {r} ELSE @]
         written == [attempts EXCEPT ![r].dose = attempts[r].measured.dose,
                                     ![r].runtime = attempts[r].measured.runtime]
     IN /\ repaired' = repaired \cup {r}
        /\ \/ /\ attempts' = written
              /\ loaded' = [q \in RunsOfBatch(active) |-> written[q]]
              /\ Counted(IF NeedsRepair(written[r]) THEN count ELSE 0)
           \/ /\ "history" \in Faults /\ attempts' = written
              /\ UNCHANGED loaded /\ Counted(count)
           \/ /\ "repair" \in Faults
              /\ UNCHANGED <<attempts, loaded>> /\ Counted(count)
  /\ PollOnly /\ UNCHANGED <<alarm, pc, task, starting, seen>>

\* The decision is published; a latched error replaces every decision that
\* says nothing is wrong.
Publish ==
  /\ pc = "assess" /\ ~MustRepair
  /\ LET clear == Assessed.kind \in {"paused", "start_remainder", "complete"}
         shown == IF Latched /\ clear THEN Plain("pause_error") ELSE Assessed
     IN /\ coord' = [coord EXCEPT !.last = shown,
                       !.logic_paused = @ \/ Assessed.kind = "pause_error"]
        /\ alarm' = (alarm \/ shown.kind = "pause_error")
  /\ AfterPoll
  /\ PollOnly /\ UNCHANGED attempts

-----------------------------------------------------------------------------
(* What `_poll_active` does with the decision. *)

Decided == coord.last.kind

StaysLive == UNCHANGED <<attempts, settled, lease, current, active, leaseOwned,
                         unanswered, mode, coordLive, coord, ghosts>>

\* Fault: only `continue` ever starts.
MayStartManually(m) ==
  Decided = "start_remainder" /\ ~m.paused /\ task = "continue"

MayStart(m) ==
  /\ Decided = "start_remainder" /\ ~m.paused
  /\ \/ task = "continue"
     \/ task = "auto" /\ mode = "automatic"

\* The end of `_poll_active`: a start, which polls again, or nothing.
ActOnDecision(m) ==
  IF m.cancel_pending THEN GoTo("cancel")
  ELSE IF Decided = "complete" THEN GoTo("finish")
  ELSE IF MayStart(m) THEN StartPoll
  ELSE ToIdle

\* Fault: acknowledgements stay in the coordinator.
SyncedNever == manifest

Synced == [manifest EXCEPT !.acknowledged = coord.acknowledged]

\* The attempts are loaded again for display, which may raise; then
\* `_sync_active_control` saves newly acknowledged runs.
Dispatch ==
  /\ pc = "dispatch"
  /\ \/ "history" \in Faults /\ UNCHANGED <<store, known, manifest>> /\ ToIdle
     \/ /\ Synced = manifest /\ UNCHANGED <<store, known, manifest>>
        /\ ActOnDecision(manifest)
     \/ Synced # manifest /\ SaveActive(Synced, ActOnDecision(Synced))
  /\ StaysLive

\* Fault: the planner's decision is trusted about the controller.
MayFinishWhileBusy(available) ==
  available /\ Decided \notin {"wait_active", "wait_finalization", "repair_metrics"}

\* Fault: a failure keeps the batch from being cancelled.
MayFinishUnlessFailed(available) ==
  available /\ current = NoRun /\ Decided \in {"paused", "pause_error"}

\* A cancelled batch ends once the controller is idle and no data are due.
MayFinishCancel(available) ==
  /\ available /\ current = NoRun
  /\ Decided \notin {"wait_active", "wait_finalization", "repair_metrics"}

\* Otherwise the poll is over; a `continue` still goes on to its start.
CheckCancel ==
  /\ pc = "cancel"
  /\ \E available \in IF "snapshot" \in Faults THEN BOOLEAN ELSE {TRUE} :
       IF MayFinishCancel(available) THEN GoTo("finish")
       ELSE IF task = "continue" /\ Decided = "start_remainder" THEN StartPoll
       ELSE ToIdle
  /\ UNCHANGED <<store, known, manifest>> /\ StaysLive

\* `_finish_active` saves the final status and drops the coordinator ...
FinishActive ==
  /\ pc = "finish"
  /\ LET finished ==
           [manifest EXCEPT
              !.status = IF manifest.cancel_pending THEN "cancelled" ELSE "completed",
              !.paused = TRUE, !.cancel_pending = FALSE,
              !.acknowledged = coord.acknowledged]
     IN SaveControlState(active, finished,
          /\ coordLive' = FALSE /\ coord' = NoCoordinator /\ GoTo("release"),
          UNCHANGED <<coordLive, coord>> /\ ToIdle)
  /\ Unaffected /\ SameLease /\ UNCHANGED <<active, manifest, ghosts>>

\* ... and gives the lease back.  If that is refused, or not answered in time,
\* the batch stays active and the lease is still thought to be owned.
ReleaseAutomation ==
  /\ pc = "release"
  /\ \/ /\ lease' = (IF lease = "batch" THEN "none" ELSE lease)
        /\ leaseOwned' = FALSE /\ unanswered' = FALSE
        /\ active' = NoBatch /\ manifest' = NoManifest
     \/ /\ "lease" \in Faults /\ unanswered' \in {unanswered, TRUE}
        /\ UNCHANGED <<lease, leaseOwned, active, manifest>>
  /\ ToIdle
  /\ Unaffected /\ UNCHANGED <<store, known, coordLive, coord, ghosts>>

\* start_exposure: the settings are written and the run is prepared with its
\* tags.  An answer that comes too late fails the command, not the run.
StartExposure ==
  /\ pc = "start" /\ current = NoRun /\ Len(attempts) < MaxRuns
  /\ attempts' = Append(attempts,
       [sample |-> coord.last.sample, status |-> "active", end_time |-> 0,
        dose |-> Missing, runtime |-> Missing, snapshots |-> FALSE, valid |-> TRUE,
        batch |-> active, revision |-> manifest.revision,
        amount |-> coord.last.amount, measured |-> [dose |-> 0, runtime |-> 0]])
  /\ current' = Len(attempts) + 1
  /\ ToIdle
  /\ UNCHANGED <<store, settled, lease, memory, ghosts>>

StartRefused ==
  /\ pc = "start"
  /\ "start" \in Faults \/ current # NoRun \/ Len(attempts) = MaxRuns
  /\ ToIdle /\ UNCHANGED <<durable, memory, ghosts>>

-----------------------------------------------------------------------------
(* The world outside the batch controller. *)

\* A release that timed out is carried out all the same.
ReleaseCarriedOut ==
  /\ unanswered /\ lease = "batch" /\ lease' = "none"
  /\ UNCHANGED <<store, attempts, settled, current, memory, worker, ghosts>>

Outside == UNCHANGED <<store, memory, worker, ghosts>>

\* The current run ends, as planned or by an abort, with its metrics recorded
\* or still to come.
RunEnds(outcome) ==
  /\ current \in DOMAIN attempts
  /\ \E late \in IF "late" \in Faults THEN BOOLEAN ELSE {FALSE} :
       attempts' = [attempts EXCEPT ![current] =
         [@ EXCEPT !.status = outcome.status, !.end_time = current,
            !.dose = IF late THEN Missing ELSE outcome.dose,
            !.runtime = IF late THEN Missing ELSE outcome.runtime,
            !.snapshots = TRUE,
            !.measured = [dose |-> outcome.dose, runtime |-> outcome.runtime]]]
  /\ current' = NoRun
  /\ Outside /\ UNCHANGED <<settled, lease>>

\* Metrics that were still to come are recorded.
MetricsRecorded(r) ==
  /\ r \in DOMAIN attempts /\ attempts[r].status # "active"
  /\ attempts[r].dose = Missing
  /\ attempts' = [attempts EXCEPT ![r].dose = attempts[r].measured.dose,
                                  ![r].runtime = attempts[r].measured.runtime]
  /\ Outside /\ UNCHANGED <<settled, lease, current>>

Settle(r) ==
  /\ r \in DOMAIN attempts \ settled /\ attempts[r].status # "active"
  /\ settled' = settled \cup {r}
  /\ Outside /\ UNCHANGED <<attempts, lease, current>>

\* The exposure controller stops without closing the record of its run.
RunOrphaned ==
  /\ "orphan" \in Faults /\ current \in DOMAIN attempts /\ current' = NoRun
  /\ Outside /\ UNCHANGED <<attempts, settled, lease>>

ForeignRunChanges ==
  /\ "foreign" \in Faults
  /\ \/ current = NoRun /\ current' = ForeignRun
     \/ current = ForeignRun /\ current' = NoRun
  /\ Outside /\ UNCHANGED <<attempts, settled, lease>>

\* The Exposure Queue takes the automation lease and gives it back.
QueueLease ==
  /\ \/ lease = "none" /\ lease' = "other"
     \/ lease = "other" /\ lease' = "none"
  /\ Outside /\ UNCHANGED <<attempts, settled, current>>

Environment ==
  \/ \E outcome \in Outcomes : RunEnds(outcome)
  \/ \E r \in DOMAIN attempts : MetricsRecorded(r) \/ Settle(r)
  \/ RunOrphaned \/ ForeignRunChanges \/ QueueLease \/ ReleaseCarriedOut

Poll ==
  \/ EnsureActiveRuntime \/ LoadAttempts \/ ReadController \/ SourceFailure
  \/ RepairMetrics \/ Publish \/ Dispatch \/ CheckCancel \/ FinishActive
  \/ ReleaseAutomation \/ StartExposure \/ StartRefused

Command ==
  \/ \E b \in Batches, p \in Plans : Create(b, p) \/ Update(b, p)
  \/ \E b \in Batches : Activate(b) \/ Withdraw(b) \/ Unwithdraw(b)
  \/ Pause \/ Resume \/ Continue \/ Cancel \/ Refresh
  \/ \E m \in {"manual", "automatic"} : SetMode(m)

Next == Boot \/ Crash \/ Shutdown \/ Command \/ Timer \/ Poll \/ Environment

Spec == Init /\ [][Next]_vars

(* What the scheduling of the program gives: the worker thread does not     *)
(* stop in the middle of a poll, and polls again however many commands it   *)
(* takes in between; runs end and become final.                             *)
Fairness ==
  /\ WF_vars(Boot) /\ WF_vars(Poll) /\ SF_vars(Timer)
  /\ WF_vars(\E outcome \in Outcomes : RunEnds(outcome))
  /\ \A r \in 1..MaxRuns : WF_vars(Settle(r))

FairSpec == Spec /\ Fairness

-----------------------------------------------------------------------------
(* Safety. *)

RunStarts == Len(attempts') > Len(attempts)

(* An exposure starts only if the operator's last word on the batch was to  *)
(* run it: never after a pause, a cancellation or a restart that no resume  *)
(* or activation followed (`paused`, `_manual_pause` and `_load_manifests`  *)
(* in every order of commands, polls, failed saves and crashes).            *)
StartNeedsConsent == [][RunStarts => consent]_vars

(* Once an error has been published no exposure starts before the operator  *)
(* resumes, though the cause may have gone by then (the latches             *)
(* `_logic_error_paused` and `_source_error_paused`).                       *)
ErrorsStopStarts == [][RunStarts => ~alarm]_vars

(* An exposure starts only while the batch controller owns the automation   *)
(* lease, so that the queue and the batch never drive the controller both   *)
(* (`_ensure_active_runtime`, `_finish_active`); except after a release     *)
(* that was not answered in time, which may have been carried out though    *)
(* `_lease_owned` is still set, so that the next start asks for no lease.   *)
StartHoldsLease == [][RunStarts => lease = "batch" \/ unanswered]_vars

(* Both at once: every exposure that the batch controller starts is one the *)
(* operator wants and, unless a release went unanswered before it, one the  *)
(* controller is entitled to.                                               *)
StartIsPermitted == [][RunStarts => consent /\ (lease = "batch" \/ unanswered)]_vars

(* A sample is exposed a second time only over an acknowledged first time,  *)
(* and the acknowledgement is on disk before the exposure starts            *)
(* (resume, `_sync_active_control`, and the order of saves and starts).     *)
RetryNeedsAcknowledgement ==
  \A q, r \in DOMAIN attempts :
    q < r /\ attempts[q].batch = attempts[r].batch
          /\ attempts[q].sample = attempts[r].sample
      => q \in store[attempts[q].batch].acknowledged

(* Each run asks for what is left of the current target when it starts,     *)
(* however old the poll is that decided so (start_next polls again).        *)
RemainderIsExact ==
  [][RunStarts =>
       LET run == attempts'[Len(attempts')]
       IN \E i \in DOMAIN coord.plan :
            /\ coord.plan[i].sample = run.sample
            /\ run.amount =
                 coord.plan[i].target - Actual(coord.plan[i], HistoryOf(active))]_vars

\* Batches whose manifest on disk is one whose save raised.
Astray == {b \in Batches : known[b] # store[b]}

(* At most one batch is active on disk, or the controller could not start;  *)
(* batches not counted whose last save raised after it was written          *)
(* (save_control_state, and `_execute_command` where `_active` and          *)
(* `_manifests` are set only when it returns).                              *)
AtMostOneActiveManifest == Cardinality(LiveManifests \ Astray) <= 1

(* A completed batch was exposed up to every target of the plan it is       *)
(* recorded with (the COMPLETE decision against the manifest it archives).  *)
CompletionIsEarned ==
  \A b \in Batches :
    store[b].status = "completed" =>
      \A i \in DOMAIN store[b].plan : ~UnderTarget(store[b].plan[i], HistoryOf(b))

(* No run of a finished batch is still under way on the controller          *)
(* (the cancellation check, and COMPLETE only with every attempt over).     *)
FinishedBatchIsIdle ==
  \A b \in Batches :
    store[b].status \in {"completed", "cancelled"} =>
      \A r \in RunsOfBatch(b) : current # r

(* What is recorded as finished is finished: no target of a completed batch *)
(* is open and no run of a finished one goes on, whatever failed, crashed   *)
(* or was orphaned on the way (`_poll_active`, `_finish_active`).           *)
FinishedBatchIsOver == CompletionIsEarned /\ FinishedBatchIsIdle

-----------------------------------------------------------------------------
(* Liveness, under FairSpec. *)

(* A cancellation ends the batch, whatever state its exposure, its data and *)
(* its repairs are in (the cancellation check of `_poll_active`).           *)
CancelFinishes == manifest.cancel_pending ~> active = NoBatch

NeedsOperator ==
  manifest.paused \/ mode = "manual" \/ Decided \in {"pause_failure", "pause_error"}

(* An automatic batch runs on until it is over or needs the operator.       *)
AutomaticBatchProgress ==
  \A b \in Batches : active = b ~> (active # b \/ NeedsOperator)

=============================================================================
