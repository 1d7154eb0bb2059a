---------------------------- MODULE ExposureQueue ----------------------------
(***************************************************************************)
(* The Exposure Queue (subsystems/experiment_sequencer.py) over its save   *)
(* file and the external exposure controller.                              *)
(*                                                                         *)
(* Four threads share the queue: the DDS callbacks (`caller`), the worker  *)
(* that starts the head of the queue, the saver, and the main thread that  *)
(* boots and closes the service (`mode`).  A change is copied for the      *)
(* saver under the queue lock, but handed over after it.                   *)
(*                                                                         *)
(* Items are numbered in the order in which operators add them.  `faults`  *)
(* remembers which faults have happened, for the properties that only hold *)
(* without some of them.                                                   *)
(***************************************************************************)
EXTENDS Integers, Sequences, FiniteSets

CONSTANTS
  MaxItems,   \* bound on the items ever added
  MaxStarts,  \* bound on the operator's start commands
  MaxSets,    \* bound on the operator's replacements of the queue
  MaxRuns,    \* bound on the runs of the exposure controller
  MaxFaults,  \* bound on the faults of one behaviour, each of its own kind
  Faults,     \* the faults in scope
  Contents    \* what the items may hold: functions of the items

\* early: a call before the saved queue is loaded.  reorder: an operator
\* commits a list that is more than the queue less some items.  settings: the
\* settings or the prepare call fail.  refuse: the controller refuses to
\* prepare.  late: it answers after thirty seconds.  lease: a lease call fails,
\* carried out or not.  other, foreign: another automation, a run that is not the
\* queue's.
\* load, disk: the file cannot be read, written.  crash, close: of the service.
FaultNames ==
  {"early", "reorder", "settings", "refuse", "late", "lease", "other",
   "foreign", "load", "disk", "crash", "close"}

ASSUME BoundsAssumption ==
  /\ MaxItems \in Nat \ {0} /\ MaxStarts \in Nat /\ MaxSets \in Nat
  /\ MaxRuns \in Nat /\ MaxFaults \in Nat /\ Faults \subseteq FaultNames
  /\ Contents \subseteq [1..MaxItems -> Nat]

VARIABLES
  (* Outlives the service. *)
  disk,            \* queue_state.bin
  lease,           \* who owns the exposure controller's automation lease
  run,             \* the run of the exposure controller
  requests,        \* the prepare_exposure calls it has not yet answered
  finalized,       \* its run_finalized value: the last run that ended, and how
  (* The service's memory. *)
  mode,            \* where the main thread is
  queue,           \* __queue
  leaseOwned,      \* __lease_owned
  pendingAdvance,  \* __pending_queue_advance
  pendingRelease,  \* __pending_lease_release
  lastSeen,        \* __last_seen_finalized_payload
  ops,             \* __config_save_queue
  caller, worker, saver,
  (* History variables. *)
  added,           \* items 1..added were accepted
  removed,         \* items that operators took out of the queue
  contents,        \* what each item holds; the code cannot tell equal items apart
  started,         \* items that runs were prepared for, in order
  starts, sets,    \* commands so far
  credit,          \* starts asked for less starts attempted, since the boot
  unanswered,      \* a release that failed may be carried out, or has been
  raced,           \* two writers held a copy of the queue at the same time
  faults           \* the faults so far

outside == <<disk, lease, run, requests, finalized>>
flags == <<pendingAdvance, pendingRelease, lastSeen>>
memory == <<mode, queue, leaseOwned, unanswered, flags, ops>>
threads == <<caller, worker, saver>>
history == <<added, removed, contents, started, starts, sets, credit, raced, faults>>
vars == <<outside, memory, threads, history>>

-----------------------------------------------------------------------------
Items == 1..MaxItems
NoItem == 0
ForeignRun == MaxItems + 1

Lists ==
  {q \in UNION {[1..n -> Items] : n \in 0..MaxItems} :
     \A i, j \in DOMAIN q : q[i] = q[j] => i = j}

ItemsOf(q) == {q[i] : i \in DOMAIN q}

Save(q) == [op |-> "save", queue |-> q]
Load == [op |-> "load", queue |-> << >>]

CallerFree == [pc |-> "free", copy |-> << >>]
WorkerIdle == [pc |-> "idle", item |-> NoItem, copy |-> << >>]
SaverWaits == [pc |-> "wait", queue |-> << >>]

WorkerPlaces ==
  {"idle", "second", "yield", "lease", "granted", "settings", "prepare",
   "await", "giveback", "pop", "copy", "put"}

TypeOK ==
  /\ disk \in Seq(Items) /\ queue \in Seq(Items)
  /\ lease \in {"none", "queue", "other"}
  /\ run \in 0..MaxItems + 1 /\ requests \in Seq(Items)
  /\ finalized \in [run : Nat, code : {"none", "STOPPED", "ABORTED"}]
  /\ mode \in {"down", "boot", "loading", "up", "releasing", "closing"}
  /\ leaseOwned \in BOOLEAN /\ pendingAdvance \in BOOLEAN
  /\ pendingRelease \in BOOLEAN /\ lastSeen \in Nat
  /\ ops \in Seq([op : {"save", "load"}, queue : Seq(Items)])
  /\ caller \in [pc : {"free", "copy", "put"}, copy : Seq(Items)]
  /\ worker \in [pc : WorkerPlaces, item : 0..MaxItems, copy : Seq(Items)]
  /\ worker.pc \notin {"idle", "second", "yield"} => worker.item \in Items
  /\ saver \in [pc : {"wait", "write"}, queue : Seq(Items)]
  /\ added \in 0..MaxItems /\ removed \subseteq Items /\ started \in Seq(Items)
  /\ contents \in [Items -> Nat] /\ unanswered \in BOOLEAN
  /\ starts \in 0..MaxStarts /\ sets \in 0..MaxSets /\ credit \in Int
  /\ raced \in BOOLEAN /\ faults \subseteq FaultNames

Init ==
  /\ added \in 0..1 /\ disk = [i \in 1..added |-> i]
  /\ lease = "none" /\ run = NoItem /\ requests = << >>
  /\ finalized = [run |-> 0, code |-> "none"]
  /\ mode = "down" /\ queue = << >> /\ leaseOwned = FALSE
  /\ pendingAdvance = FALSE /\ pendingRelease = FALSE /\ lastSeen = 0
  /\ ops = << >>
  /\ caller = CallerFree /\ worker = WorkerIdle /\ saver = SaverWaits
  /\ removed = {} /\ started = << >> /\ starts = 0 /\ sets = 0 /\ credit = 0
  /\ contents \in Contents /\ unanswered = FALSE
  /\ raced = FALSE /\ faults = {}

Fault(f) ==
  /\ f \in Faults \ faults /\ Cardinality(faults) < MaxFaults
  /\ faults' = faults \cup {f}

NoFault == UNCHANGED faults

NeverAny(fs) == faults \cap fs = {}

-----------------------------------------------------------------------------
(* The main thread.  The client is registered, and calls come in, before   *)
(* the saved queue is asked for.                                           *)

Forget ==
  /\ queue' = << >> /\ leaseOwned' = FALSE /\ unanswered' = FALSE /\ ops' = << >>
  /\ pendingAdvance' = FALSE /\ pendingRelease' = FALSE /\ lastSeen' = 0
  /\ caller' = CallerFree /\ worker' = WorkerIdle /\ saver' = SaverWaits
  /\ credit' = 0

Boot ==
  /\ mode = "down" /\ mode' = "boot"
  /\ UNCHANGED <<outside, queue, leaseOwned, unanswered, flags, ops, threads,
                 history>>

RequestLoad ==
  /\ mode = "boot" /\ mode' = "loading" /\ ops' = Append(ops, Load)
  /\ UNCHANGED <<outside, queue, leaseOwned, unanswered, flags, threads, history>>

Crash ==
  /\ mode # "down" /\ mode' = "down" /\ Forget /\ Fault("crash")
  /\ UNCHANGED <<outside, added, removed, contents, started, starts, sets, raced>>

\* close clears the run flag, looks at the lease, and waits for the saver,
\* whose loop ends on the same flag.
Close ==
  /\ mode = "up" /\ mode' = (IF leaseOwned THEN "releasing" ELSE "closing")
  /\ Fault("close")
  /\ UNCHANGED <<outside, queue, leaseOwned, unanswered, flags, ops, threads,
                 added, removed, contents, started, starts, sets, credit, raced>>

\* __release_automation_lease: after a release that failed the flag stays, though
\* the controller may still carry it out.
ReleaseLease ==
  \/ ~leaseOwned /\ UNCHANGED <<lease, leaseOwned, unanswered>> /\ NoFault
  \/ /\ leaseOwned /\ lease' = (IF lease = "queue" THEN "none" ELSE lease)
     /\ leaseOwned' = FALSE /\ unanswered' = FALSE /\ NoFault
  \/ /\ leaseOwned /\ lease # "queue"
     /\ UNCHANGED <<lease, leaseOwned, unanswered>> /\ NoFault
  \/ /\ leaseOwned /\ Fault("lease") /\ (unanswered => unanswered')
     /\ unanswered' \in BOOLEAN /\ UNCHANGED <<lease, leaseOwned>>

CloseReleases ==
  /\ mode = "releasing" /\ mode' = "closing" /\ ReleaseLease
  /\ UNCHANGED <<disk, run, requests, finalized, queue, flags, ops, threads, added,
                 removed, contents, started, starts, sets, credit, raced>>

ProcessEnds ==
  /\ mode = "closing" /\ mode' = "down" /\ Forget
  /\ UNCHANGED <<outside, added, removed, contents, started, starts, sets, raced,
                 faults>>

-----------------------------------------------------------------------------
(* The DDS callbacks, one at a time.  The worker holds the queue lock while *)
(* it gives the lease back for an empty queue ("yield").                   *)

QueueUnlocked == worker.pc # "yield"

Called ==
  /\ mode # "down" /\ caller.pc = "free"
  /\ IF mode \in {"boot", "loading"} THEN Fault("early") ELSE NoFault

QueueStart ==
  /\ Called /\ starts < MaxStarts /\ starts' = starts + 1
  /\ pendingAdvance' = TRUE /\ credit' = credit + 1
  /\ UNCHANGED <<outside, mode, queue, leaseOwned, unanswered, pendingRelease,
                 lastSeen, ops, threads, added, removed, contents, started, sets,
                 raced>>

AddToQueue ==
  /\ Called /\ QueueUnlocked /\ added < MaxItems
  /\ added' = added + 1 /\ queue' = Append(queue, added + 1)
  /\ caller' = [caller EXCEPT !.pc = "copy"]
  /\ UNCHANGED <<outside, mode, leaseOwned, unanswered, flags, ops, worker,
                 saver, removed, contents, started, starts, sets, credit, raced>>

\* q is the list less some of its items.
Thins(q, list) ==
  /\ ItemsOf(q) \subseteq ItemsOf(list)
  /\ \A i, j \in DOMAIN q : i < j =>
       \E k, l \in DOMAIN list : k < l /\ list[k] = q[i] /\ list[l] = q[j]

Replace(q) ==
  /\ QueueUnlocked /\ sets < MaxSets /\ sets' = sets + 1
  /\ queue' = q /\ removed' = (removed \cup ItemsOf(queue)) \ ItemsOf(q)
  /\ pendingRelease' = (pendingRelease \/ q = << >>)
  /\ caller' = [caller EXCEPT !.pc = "copy"]
  /\ UNCHANGED <<outside, mode, leaseOwned, unanswered, pendingAdvance, lastSeen,
                 ops, worker, saver, contents, started, starts, credit, raced>>

\* An operator takes items out, and may add one.
SetQueue(q) ==
  /\ Called /\ Replace(q)
  /\ \/ Thins(q, queue) /\ UNCHANGED added
     \/ /\ added < MaxItems /\ added' = added + 1 /\ added' \in ItemsOf(q)
        /\ Thins(q, Append(queue, added'))

\* An operator commits another list: in a new order, or staged before the queue
\* changed, so that it brings back items that were started or taken out.
CommitOtherList(q) ==
  /\ mode = "up" /\ caller.pc = "free" /\ Fault("reorder")
  /\ ~Thins(q, queue) /\ ItemsOf(q) \subseteq 1..added /\ Replace(q) /\ UNCHANGED added

\* __request_queue_save
CallerCopies ==
  /\ caller.pc = "copy" /\ QueueUnlocked
  /\ caller' = [pc |-> "put", copy |-> queue]
  /\ raced' = (raced \/ worker.pc = "put")
  /\ UNCHANGED <<outside, memory, worker, saver, added, removed, contents,
                 started, starts, sets, credit, faults>>

CallerPuts ==
  /\ caller.pc = "put" /\ ops' = Append(ops, Save(caller.copy))
  /\ caller' = CallerFree
  /\ UNCHANGED <<outside, mode, queue, leaseOwned, unanswered, flags, worker,
                 saver, history>>

Advances == finalized.code = "STOPPED"

\* __on_run_finalized_update, for a run of anybody.
RunFinalized ==
  /\ mode # "down" /\ caller.pc = "free"
  /\ lastSeen # finalized.run /\ lastSeen' = finalized.run
  /\ IF Advances THEN pendingAdvance' = TRUE /\ UNCHANGED pendingRelease
                 ELSE pendingRelease' = TRUE /\ UNCHANGED pendingAdvance
  /\ credit' = credit + (IF finalized.code = "STOPPED" THEN 1 ELSE 0)
  /\ UNCHANGED <<outside, mode, queue, leaseOwned, unanswered, ops, threads,
                 added, removed, contents, started, starts, sets, raced, faults>>

-----------------------------------------------------------------------------
(* The saver. *)

\* Fault: the saves that wait behind the first are dropped.
MergedIntoFirst(n) == ops[1].queue

Merged(n) == ops[n].queue

\* Saves that wait are merged into the last; an operation behind them goes to
\* the end of the queue.  Opening the file empties it.
SaverTakes ==
  /\ saver.pc = "wait" /\ mode \in {"boot", "loading", "up"}
  /\ \E n \in 1..Len(ops) :
       /\ \A i \in 1..n : ops[i].op = "save"
       /\ LET rest == SubSeq(ops, n + 1, Len(ops)) IN
          \/ rest = << >> /\ ops' = << >>
          \/ /\ rest # << >> /\ Head(rest).op = "load"
             /\ ops' = Append(Tail(rest), Head(rest))
       /\ \/ disk' = << >> /\ saver' = [pc |-> "write", queue |-> Merged(n)] /\ NoFault
          \/ disk' \in {disk, << >>} /\ Fault("disk") /\ UNCHANGED saver
  /\ UNCHANGED <<lease, run, requests, finalized, mode, queue, leaseOwned,
                 unanswered, flags, caller, worker, added, removed, contents,
                 started, starts, sets, credit, raced>>

SaverWrites ==
  /\ saver.pc = "write" /\ disk' = saver.queue /\ saver' = SaverWaits
  /\ UNCHANGED <<lease, run, requests, finalized, memory, caller, worker, history>>

\* The answer to the main thread, which replaces the queue by it.
SaverLoads ==
  /\ saver.pc = "wait" /\ mode = "loading"
  /\ ops # << >> /\ Head(ops).op = "load" /\ ops' = Tail(ops)
  /\ mode' = "up"
  /\ \/ queue' = disk /\ raced' = FALSE /\ NoFault
     \/ UNCHANGED <<queue, raced>> /\ Fault("load")
  /\ UNCHANGED <<outside, leaseOwned, unanswered, flags, threads, added, removed,
                 contents, started, starts, sets, credit>>

-----------------------------------------------------------------------------
(* The worker: one pass of __worker_thread, and __start_next_if_available. *)

At(place) == worker.pc = place
GoTo(place) == worker' = [worker EXCEPT !.pc = place]
WorkerOnly == UNCHANGED <<disk, run, finalized, mode, queue, pendingRelease,
                          lastSeen, ops, caller, saver, added, removed, contents,
                          started, starts, sets>>
KeepsLease == UNCHANGED <<lease, leaseOwned, unanswered>>

WorkerLooks ==
  /\ At("idle") /\ mode = "up" /\ ~pendingRelease /\ GoTo("second")
  /\ WorkerOnly /\ KeepsLease /\ NoFault
  /\ UNCHANGED <<requests, pendingAdvance, credit, raced>>

WorkerReleases ==
  /\ At("idle") /\ mode = "up" /\ pendingRelease /\ pendingRelease' = FALSE
  /\ ReleaseLease /\ GoTo("second")
  /\ UNCHANGED <<disk, run, requests, finalized, mode, queue, pendingAdvance,
                 lastSeen, ops, caller, saver, added, removed, contents, started,
                 starts, sets, credit, raced>>

WorkerRests ==
  /\ At("second") /\ ~pendingAdvance /\ GoTo("idle")
  /\ WorkerOnly /\ KeepsLease /\ NoFault
  /\ UNCHANGED <<requests, pendingAdvance, credit, raced>>

\* Fault: an empty queue does not give the lease back.
NextItemKeepingLease ==
  IF queue = << >> THEN WorkerIdle
                   ELSE [WorkerIdle EXCEPT !.pc = "lease", !.item = Head(queue)]

NextItem ==
  IF queue = << >> THEN [WorkerIdle EXCEPT !.pc = "yield"]
                   ELSE [WorkerIdle EXCEPT !.pc = "lease", !.item = Head(queue)]

\* The flag is cleared and the head is read under the lock.
StartNext ==
  /\ At("second") /\ pendingAdvance /\ pendingAdvance' = FALSE
  /\ worker' = NextItem
  /\ WorkerOnly /\ KeepsLease /\ NoFault /\ UNCHANGED <<requests, credit, raced>>

\* The queue is empty, or the start failed.
GiveBack ==
  /\ worker.pc \in {"yield", "giveback"} /\ ReleaseLease /\ worker' = WorkerIdle
  /\ WorkerOnly /\ UNCHANGED <<requests, pendingAdvance, credit, raced>>

LeaseCanBeHad == lease \in {"none", "queue"}

\* Fault: the lease is not asked for.
EnsureNothing ==
  /\ At("lease") /\ GoTo("settings") /\ NoFault
  /\ WorkerOnly /\ KeepsLease /\ UNCHANGED <<requests, pendingAdvance, credit, raced>>

\* __ensure_automation_lease: the controller grants the lease, then the answer
\* is noted.
EnsureLease ==
  /\ At("lease")
  /\ \/ leaseOwned /\ GoTo("settings") /\ UNCHANGED lease /\ NoFault
     \/ ~leaseOwned /\ LeaseCanBeHad /\ lease' = "queue" /\ GoTo("granted") /\ NoFault
     \/ ~leaseOwned /\ ~LeaseCanBeHad /\ worker' = WorkerIdle /\ UNCHANGED lease /\ NoFault
     \/ /\ ~leaseOwned /\ Fault("lease") /\ worker' = WorkerIdle
        /\ UNCHANGED lease \/ (LeaseCanBeHad /\ lease' = "queue")
  /\ WorkerOnly
  /\ UNCHANGED <<leaseOwned, unanswered, requests, pendingAdvance, credit, raced>>

LeaseGranted ==
  /\ At("granted") /\ leaseOwned' = TRUE /\ GoTo("settings")
  /\ WorkerOnly /\ NoFault
  /\ UNCHANGED <<lease, unanswered, requests, pendingAdvance, credit, raced>>

SetSettings ==
  /\ At("settings")
  /\ \/ GoTo("prepare") /\ NoFault
     \/ GoTo("giveback") /\ Fault("settings")
  /\ WorkerOnly /\ KeepsLease /\ UNCHANGED <<requests, pendingAdvance, credit, raced>>

Prepare ==
  /\ At("prepare") /\ requests' = Append(requests, worker.item)
  /\ GoTo("await") /\ credit' = credit - 1
  /\ WorkerOnly /\ KeepsLease /\ NoFault /\ UNCHANGED <<pendingAdvance, raced>>

PrepareTimesOut ==
  /\ At("await") /\ Fault("late") /\ GoTo("giveback")
  /\ WorkerOnly /\ KeepsLease /\ UNCHANGED <<requests, pendingAdvance, credit, raced>>

\* Fault: the last item is removed instead of the head.
PopFromEnd ==
  IF queue # << >> /\ contents[Head(queue)] = contents[worker.item]
    THEN queue' = SubSeq(queue, 1, Len(queue) - 1)
    ELSE UNCHANGED queue

\* Fault: whatever is the head is removed.
PopAnything == queue' = IF queue = << >> THEN queue ELSE Tail(queue)

SameAsStarted(i) == contents[i] = contents[worker.item]

\* The head is removed if it is the started item, or one just like it.
PopStarted ==
  IF queue # << >> /\ SameAsStarted(Head(queue)) THEN queue' = Tail(queue)
                                                  ELSE UNCHANGED queue

Pop ==
  /\ At("pop") /\ PopStarted /\ GoTo("copy")
  /\ KeepsLease /\ NoFault
  /\ UNCHANGED <<disk, run, requests, finalized, mode, flags, ops, caller, saver,
                 added, removed, contents, started, starts, sets, credit, raced>>

WorkerCopies ==
  /\ At("copy") /\ worker' = [worker EXCEPT !.pc = "put", !.copy = queue]
  /\ raced' = (raced \/ caller.pc = "put")
  /\ WorkerOnly /\ KeepsLease /\ NoFault /\ UNCHANGED <<requests, pendingAdvance,
                                                        credit>>

\* Fault: the flag is cleared after the start instead of before it.
WorkerPutsAndClears ==
  /\ At("put") /\ ops' = Append(ops, Save(worker.copy)) /\ worker' = WorkerIdle
  /\ pendingAdvance' = FALSE
  /\ UNCHANGED <<outside, mode, queue, leaseOwned, unanswered, pendingRelease,
                 lastSeen, caller, saver, history>>

WorkerPuts ==
  /\ At("put") /\ ops' = Append(ops, Save(worker.copy)) /\ worker' = WorkerIdle
  /\ UNCHANGED <<outside, mode, queue, leaseOwned, unanswered, flags, caller,
                 saver, history>>

-----------------------------------------------------------------------------
(* The exposure controller, other automations and other users of it. *)

Unheard == UNCHANGED <<disk, finalized, memory, caller, saver, added, removed,
                       contents, starts, sets, credit, raced>>

RoomForRun == finalized.run < MaxRuns

\* Calls are answered in order; the worker only waits for its last one.
Answer(place) ==
  /\ requests # << >> /\ requests' = Tail(requests)
  /\ IF At("await") /\ Len(requests) = 1 THEN GoTo(place) ELSE UNCHANGED worker

Accept ==
  /\ Answer("pop") /\ run = NoItem /\ LeaseCanBeHad /\ RoomForRun
  /\ run' = Head(requests) /\ started' = Append(started, Head(requests))
  /\ Unheard /\ NoFault /\ UNCHANGED lease

Refuse ==
  /\ Answer("giveback")
  /\ \/ (run # NoItem \/ ~LeaseCanBeHad \/ ~RoomForRun) /\ NoFault
     \/ Fault("refuse")
  /\ Unheard /\ UNCHANGED <<lease, run, started>>

RunEnds(code) ==
  /\ run # NoItem /\ run' = NoItem
  /\ finalized' = [run |-> finalized.run + 1, code |-> code]
  /\ UNCHANGED <<disk, lease, requests, memory, threads, history>>

ForeignRunBegins ==
  /\ run = NoItem /\ lease # "queue" /\ RoomForRun /\ Fault("foreign")
  /\ run' = ForeignRun
  /\ Unheard /\ UNCHANGED <<lease, requests, worker, started>>

\* A release that the service gave up waiting for is carried out late.
ReleaseCarriedOut ==
  /\ unanswered /\ lease = "queue" /\ lease' = "none"
  /\ Unheard /\ NoFault /\ UNCHANGED <<run, requests, worker, started>>

OtherAutomation ==
  /\ \/ lease = "none" /\ lease' = "other" /\ Fault("other")
     \/ lease = "other" /\ lease' = "none" /\ NoFault
  /\ Unheard /\ UNCHANGED <<run, requests, worker, started>>

-----------------------------------------------------------------------------
MainThread == Boot \/ RequestLoad \/ CloseReleases \/ ProcessEnds

Callbacks == CallerCopies \/ CallerPuts \/ RunFinalized

Saver == SaverTakes \/ SaverWrites \/ SaverLoads

Worker ==
  \/ WorkerLooks \/ WorkerReleases \/ WorkerRests \/ StartNext \/ GiveBack
  \/ EnsureLease \/ LeaseGranted \/ SetSettings \/ Prepare \/ PrepareTimesOut
  \/ Pop \/ WorkerCopies \/ WorkerPuts

Controller == Accept \/ Refuse \/ \E code \in {"STOPPED", "ABORTED"} : RunEnds(code)

Operator ==
  \/ QueueStart \/ AddToQueue
  \/ \E q \in Lists : SetQueue(q) \/ CommitOtherList(q)

Next ==
  \/ MainThread \/ Callbacks \/ Saver \/ Worker \/ Controller \/ Operator
  \/ ForeignRunBegins \/ OtherAutomation \/ ReleaseCarriedOut \/ Crash \/ Close

Spec == Init /\ [][Next]_vars

\* Every thread of a service that is up runs; the exposure controller answers
\* and its runs end.
Fairness ==
  WF_vars(MainThread) /\ WF_vars(Callbacks) /\ WF_vars(Saver) /\ WF_vars(Worker)
  /\ WF_vars(Controller)

FairSpec == Spec /\ Fairness

-----------------------------------------------------------------------------
(* What the queue promises. *)

\* Runs are prepared in the order of the queue, and for no item twice: the item
\* is removed after its start is confirmed, by a worker that may meanwhile have
\* been told to start again, while operators add and remove items.
\* Not promised after a late answer, a stale list, a crash or a shutdown.
StartedOnceInOrder ==
  NeverAny({"late", "reorder", "crash", "close"}) =>
    \A i, j \in DOMAIN started : i < j => started[i] < started[j]

Alike(is, i) == Cardinality({j \in is : contents[j] = contents[i]})

\* Every accepted item waits, was started, or was taken out by an operator: the
\* removal of a started item never hits one of another kind, whatever the
\* callbacks did to the queue while the start was under way.  Equal items are
\* counted, since one that an operator takes out while it is started is made up
\* for by the next one like it.
NothingIsLost ==
  mode = "up" /\ NeverAny({"early", "reorder", "load", "disk", "crash", "close"}) =>
    \A i \in 1..added :
      Alike(1..added, i)
        <= Alike(ItemsOf(queue), i) + Alike(ItemsOf(started), i) + Alike(removed, i)

Quiet ==
  /\ mode = "up" /\ caller.pc = "free" /\ worker.pc \notin {"copy", "put"}
  /\ ops = << >> /\ saver.pc = "wait"

\* When nothing is on its way to the saver, the file holds the queue.
QueueIsSaved == Quiet /\ NeverAny({"early", "load", "disk", "close"}) => disk = queue

\* It does, as long as no two threads held a copy at the same time, through
\* merged saves, crashes in the middle of a write and reloads.
QueueIsSavedUnlessRaced == ~raced => QueueIsSaved

\* Every attempt to start a run was asked for, by a start command of its own or
\* by a run that ended STOPPED: an aborted run never leads to an attempt, and no
\* request is served twice.
AttemptsAreAskedFor == credit >= 0

\* The controller prepares a run for the queue only while the queue owns the
\* automation lease: no removal, refusal or release on another path takes it
\* away between the call and the answer, unless the worker gave up waiting, the
\* service went down, or a release timed out: the code then goes on as the owner
\* of a lease that it may not have (lines 412-423), and does not ask again.
RunsBeginUnderTheLease ==
  [][Len(started') > Len(started) =>
       lease = "queue" \/ unanswered \/ ~NeverAny({"late", "crash", "close"})]_vars

\* The queue never keeps the lease for ever: it gives it back when it is empty
\* or cleared, a run is aborted or a start is refused, so that batches can run.
LeaseReturns == leaseOwned /\ faults = {} ~> ~leaseOwned \/ faults # {}

\* A requested start is not forgotten: it leads to a run or to an empty queue,
\* also when the run it follows ended before its own start was confirmed.
RequestsAreServed ==
  pendingAdvance /\ faults = {} ~> run # NoItem \/ queue = << >> \/ faults # {}
=============================================================================
