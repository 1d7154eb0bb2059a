---------------------------- MODULE EuvAcquisition ----------------------------
(***************************************************************************)
(* The EUV acquisition controller                                          *)
(* (subsystems/euv_acquisition_controller.py) between the exposure         *)
(* controller, the digitizer service and the run library.                  *)
(*                                                                         *)
(* Callbacks of the exposure controller and of operators run under the run *)
(* lock; the worker thread goes round the steps of `_worker`, and an       *)
(* exception in one of them skips the rest of the round.  Everything that  *)
(* the worker does between two commands to the digitizer is one step.      *)
(*                                                                         *)
(* A capture session is named after its run, or DiagnosticSession; a       *)
(* snapshot is <<session, sequence number of its last pulse>>.             *)
(***************************************************************************)
EXTENDS Integers, Sequences, FiniteSets

CONSTANTS
  MaxRuns,    \* bound on exposures
  MaxPulses,  \* bound on the pulses of a session
  MaxCalls,   \* bound on the operator calls answered by the worker
  MaxFaults   \* bound on the faults of one behaviour

ASSUME BoundsAssumption ==
  /\ MaxRuns \in Nat \ {0} /\ MaxPulses \in Nat \ {0}
  /\ MaxCalls \in Nat \ {0} /\ MaxFaults \in Nat

Runs == 1..MaxRuns
Pulses == 1..MaxPulses
NoSession == 0
DiagnosticSession == MaxRuns + 1
Calls == 1..MaxCalls

VARIABLES
  (* The service. *)
  run,         \* _run
  diag,        \* _diagnostic
  reserved,    \* _diagnostic_start_pending
  control,     \* _control_requests
  recovery,    \* _recovery_requests
  client,      \* _capture_client with the events it has received
  deferred,    \* _deferred_finalization_detail is not None
  latch,       \* _stop_requested
  owed,        \* _preinit_pending, _start_pending
  pc,          \* the next step of the worker
  recovering,  \* the call whose recovery is under way (_recovery_active), or 0
  (* Around it. *)
  board,       \* the session in the digitizer's spool
  record,      \* what the record of each run holds
  ctl,         \* the exposure controller's view of the run
  runs,        \* runs so far
  stopEvent,   \* a stop_exposure call is on its way
  (* History. *)
  answers,     \* how often each operator call was answered
  calls,       \* operator calls so far
  faults       \* faults so far

service == <<run, diag, reserved, control, recovery, client, deferred, latch,
             owed, pc, recovering>>
vars == <<service, board, record, ctl, runs, stopEvent, answers, calls, faults>>

---------------------------------------------------------------------------
(* Records. *)

\* wait: what finalization waits for, "no" before the stop of the run.
RunOf(r) ==
  [id |-> r, session |-> NoSession, wait |-> "no", sent |-> FALSE,
   running |-> FALSE, release |-> FALSE, next |-> 0, totals |-> {},
   pend |-> {}, imported |-> {}]
NoRun == RunOf(0)

DiagOf(mode, st) ==
  [mode |-> mode, st |-> st, reports |-> FALSE, late |-> FALSE,
   sent |-> FALSE, bad |-> st = "error", pend |-> {}, done |-> {},
   waiting |-> {}]
NoDiag == DiagOf("none", "none")

NoBoard == [session |-> NoSession, st |-> "none", seq |-> 0, cut |-> 0,
            snaps |-> {}, acked |-> {}]
Down == [link |-> "down", reports |-> {}, snaps |-> {}, stop |-> FALSE]
Up == [Down EXCEPT !.link = "up"]
NoRecord == [prov |-> FALSE, stored |-> {}, timeline |-> {}, analysed |-> FALSE]

Idle == run = NoRun
Finalizing == run.wait # "no"

MinOf(S) == CHOOSE x \in S : \A y \in S : x <= y
MaxOf(S) == CHOOSE x \in S : \A y \in S : x >= y

\* Sessions stay open for new pulses while active; closing a segment makes a
\* snapshot of the pulses since the last one.
Open(s) == [NoBoard EXCEPT !.session = s, !.st = "active"]
Flushed(b) == IF b.seq > b.cut
              THEN [b EXCEPT !.cut = b.seq, !.snaps = @ \cup {<<b.session, b.seq>>}]
              ELSE b
Stopped(b) == IF b.st = "active" THEN [Flushed(b) EXCEPT !.st = "stopped"] ELSE b

---------------------------------------------------------------------------
(* Commands to the digitizer.  `lost`: the transport failed before the     *)
(* command, `late`: after it was executed; `_capture_command` drops the    *)
(* client for both.  `reject`: an error answer.                            *)

Outcomes ==
  CASE client.link = "down" -> {"unconnected"}
    [] client.link = "broken" -> {"lost"}
    [] OTHER -> {"ok"} \cup IF faults < MaxFaults THEN {"late", "reject"} ELSE {}

\* After `_ensure_capture_client(force=True)`, which may connect.
ForcedOutcomes == IF client.link = "down" THEN {"ok", "lost"} ELSE Outcomes

Executed(o) == o \in {"ok", "late"}
Sent(o, events) ==
  /\ client' = IF o \in {"lost", "late"} THEN Down
               ELSE IF o = "ok" THEN [events EXCEPT !.link = "up"] ELSE client
  /\ faults' = IF o \in {"late", "reject"} THEN faults + 1 ELSE faults

\* The digitizer announces the snapshots it makes.
Announced(b) == IF client.link = "up"
                THEN [client EXCEPT !.snaps = @ \cup (b.snaps \ board.snaps)]
                ELSE client

Answer(S) == answers' = [c \in Calls |-> IF c \in S THEN answers[c] + 1 ELSE answers[c]]

RequestStop(wanted) ==
  /\ latch' = (latch \/ wanted)
  /\ stopEvent' = (stopEvent \/ (wanted /\ ~latch))

\* `_fail_diagnostic`: waiting calls fail with it.
FailedDiag == [diag EXCEPT !.st = "error", !.bad = TRUE, !.waiting = {}]
\* Mutant: they are forgotten.
FailDiagnosticSilently == diag' = FailedDiag /\ Answer({})

FailDiagnostic == diag' = FailedDiag /\ Answer(diag.waiting)

\* `_merge_diagnostic_snapshots`: acknowledged ones need nothing more.
Merged(b) == [diag EXCEPT !.done = @ \cup b.acked,
                          !.pend = (@ \cup (b.snaps \ diag.done)) \ b.acked]

\* The steps of a round of the worker.  One that finds nothing to do is passed
\* over; `pc` says where the round has got to.
Round == [connect |-> 1, lifecycle |-> 2, recovery |-> 3, control |-> 4,
          reports |-> 5, snapshots |-> 6, import |-> 7, diagnostic |-> 8,
          finalize |-> 9, release |-> 10]
Busy(step) ==
  CASE step = "lifecycle" -> owed # {}
    [] step = "recovery" -> recovery # << >>
    [] step = "control" -> control # << >>
    [] step = "reports" -> client.reports # {}
    [] step = "snapshots" -> client.snaps # {} \/ client.stop
    [] step = "import" -> run.pend \cup diag.pend # {}
    [] step = "diagnostic" -> diag # NoDiag
    [] step = "finalize" -> Finalizing
    [] step = "release" -> run.release
    [] OTHER -> FALSE
At(step) ==
  /\ pc \in DOMAIN Round
  /\ IF step = "connect"
     THEN pc = "connect" \/ \A k \in DOMAIN Round : Round[k] >= Round[pc] => ~Busy(k)
     ELSE /\ Round[pc] <= Round[step] /\ Busy(step)
          /\ \A k \in DOMAIN Round :
               Round[pc] <= Round[k] /\ Round[k] < Round[step] => ~Busy(k)

\* Under the lock that `_advance_finalization` holds over its commands.
LockFree == pc # "reconcile"

---------------------------------------------------------------------------
(* The exposure controller and its callbacks. *)

\* Mutant: a start does not see a diagnostic that is only queued.
StartRefusedLate == diag # NoDiag \/ ~Idle

\* What `_can_start` finds in memory.
StartRefused == diag # NoDiag \/ reserved \/ ~Idle

\* `_can_start`: refused while something else owns the digitizer.  A retained
\* diagnostic session is discarded, any other one refuses the start.
CanStart ==
  /\ ctl = "idle" /\ runs < MaxRuns /\ LockFree
  /\ runs' = runs + 1
  /\ IF StartRefused
     THEN UNCHANGED <<run, client, board, ctl, faults>>
     ELSE \E o \in ForcedOutcomes :
            LET free == board.session \in {NoSession, DiagnosticSession}
            IN  /\ Sent(o, IF client.link = "up" /\ board.session = NoSession
                           THEN client ELSE Up)
                /\ board' = IF Executed(o) /\ board.session = DiagnosticSession
                            THEN NoBoard ELSE board
                /\ IF o = "ok" /\ free
                   THEN run' = RunOf(runs + 1) /\ ctl' = "checked"
                   ELSE UNCHANGED <<run, ctl>>
  /\ UNCHANGED <<diag, reserved, control, recovery, deferred, latch, owed, pc,
                 recovering, record, stopEvent, answers, calls>>

\* `_on_preinit`: the session is opened before its provenance is written.
\* When that fails, the session is stopped if the digitizer can be reached.
Preinit ==
  /\ ctl = "checked" /\ LockFree /\ ~Idle
  /\ \E o \in ForcedOutcomes, written \in BOOLEAN :
       LET started == Executed(o) /\ board.session = NoSession
           armed == o = "ok" /\ started /\ written
       IN  /\ ~written => o = "ok" /\ faults < MaxFaults
           /\ board' = IF ~started THEN board
                       ELSE IF o = "ok" /\ ~written THEN Stopped(Open(run.id))
                       ELSE Open(run.id)
           /\ client' = IF o \in {"lost", "late"} THEN Down
                        ELSE IF o = "ok" THEN [client EXCEPT !.link = "up"] ELSE client
           /\ faults' = IF o \in {"late", "reject"} \/ ~written
                        THEN faults + 1 ELSE faults
           /\ record' = IF armed THEN [record EXCEPT ![run.id].prov = TRUE] ELSE record
           /\ IF armed
              THEN /\ run' = [run EXCEPT !.session = run.id]
                   /\ owed' = owed \cup {"preinit"}
                   /\ latch' = FALSE
                   /\ ctl' = "preinit"
              ELSE /\ ctl' = "refused"
                   /\ UNCHANGED <<run, owed, latch>>
  /\ UNCHANGED <<diag, reserved, control, recovery, deferred, pc, recovering,
                 runs, stopEvent, answers, calls>>

\* `_on_start`.
Start ==
  /\ ctl = "ready" /\ LockFree /\ ~Idle
  /\ run' = [run EXCEPT !.running = TRUE]
  /\ owed' = owed \cup {"start"}
  /\ ctl' = "starting"
  /\ UNCHANGED <<diag, reserved, control, recovery, client, deferred, latch, pc,
                 recovering, board, record, runs, stopEvent, answers, calls, faults>>

Started == {"checked", "refused", "preinit", "ready", "starting", "running"}

\* `_on_stop`.  Without a session or a connection nothing is drained.
OnStop ==
  /\ ctl' = "stopping"
  /\ run' = IF run.session = NoSession \/ client.link = "down"
            THEN [run EXCEPT !.wait = "over"]
            ELSE [run EXCEPT !.wait = "ack", !.running = FALSE]

\* A rejection by another subsystem, a failed preinit, an operator.
Stop ==
  /\ ctl \in Started /\ LockFree /\ OnStop
  /\ UNCHANGED <<diag, reserved, control, recovery, client, deferred, latch, owed,
                 pc, recovering, board, record, runs, stopEvent, answers, calls,
                 faults>>

\* The exposure controller takes the stop_exposure call of the service.
StopEventArrives ==
  /\ stopEvent /\ LockFree
  /\ stopEvent' = FALSE
  /\ IF ctl \in Started THEN OnStop ELSE UNCHANGED <<ctl, run>>
  /\ UNCHANGED <<diag, reserved, control, recovery, client, deferred, latch, owed,
                 pc, recovering, board, record, runs, answers, calls, faults>>

---------------------------------------------------------------------------
(* Operator calls. *)

Call(c) == c = calls + 1 /\ c \in Calls /\ calls' = c

\* `_on_recover_orphaned_capture_session`.
AskRecovery(c) ==
  /\ Call(c) /\ LockFree
  /\ IF Idle /\ diag = NoDiag /\ ~reserved
     THEN recovery' = Append(recovery, c) /\ UNCHANGED answers
     ELSE Answer({c}) /\ UNCHANGED recovery
  /\ UNCHANGED <<run, diag, reserved, control, client, deferred, latch, owed, pc,
                 recovering, board, record, ctl, runs, stopEvent, faults>>

\* `_queue_diagnostic_start`.
AskDiagnostic(c, mode) ==
  /\ Call(c) /\ LockFree
  /\ IF Idle /\ diag = NoDiag /\ ~reserved /\ ~deferred /\ recovery = << >>
        /\ recovering = 0
     THEN /\ reserved' = TRUE
          /\ control' = Append(control, <<mode, c>>)
          /\ UNCHANGED answers
     ELSE Answer({c}) /\ UNCHANGED <<reserved, control>>
  /\ UNCHANGED <<run, diag, recovery, client, deferred, latch, owed, pc,
                 recovering, board, record, ctl, runs, stopEvent, faults>>

\* `_on_diagnostic_flush`, `_on_diagnostic_stop`.
AskRunningDiagnostic(c, what) ==
  /\ Call(c) /\ LockFree
  /\ IF diag # NoDiag /\ (what = "flush" => diag.mode = "continuous" /\ diag.st = "running")
     THEN control' = Append(control, <<what, c>>) /\ UNCHANGED answers
     ELSE Answer({c}) /\ UNCHANGED control
  /\ UNCHANGED <<run, diag, reserved, recovery, client, deferred, latch, owed, pc,
                 recovering, board, record, ctl, runs, stopEvent, faults>>

---------------------------------------------------------------------------
(* The worker. *)

\* Callbacks change the rest.
WorkerFrame == UNCHANGED <<runs, calls>>

\* `_maintain_capture_connection`: a heartbeat finds a broken link; a new
\* connection cleans up a diagnostic session that nobody owns.
Maintain ==
  /\ At("connect") /\ pc' = "lifecycle"
  /\ CASE client.link = "up" ->
            UNCHANGED <<client, board, diag, latch, stopEvent, answers>>
       [] client.link = "broken" ->
            /\ client' = Down
            /\ RequestStop(~Idle /\ ~Finalizing)
            /\ IF (Idle \/ Finalizing) /\ diag # NoDiag
               THEN FailDiagnostic ELSE UNCHANGED <<diag, answers>>
            /\ UNCHANGED board
       [] OTHER ->
            /\ client' \in {Up, client}
            /\ board' = IF client' = Up /\ board.session = DiagnosticSession
                           /\ Idle /\ diag = NoDiag /\ ~reserved
                        THEN NoBoard ELSE board
            /\ UNCHANGED <<diag, latch, stopEvent, answers>>
  /\ UNCHANGED <<run, reserved, control, recovery, deferred, owed, recovering,
                 record, ctl, faults>>
  /\ WorkerFrame

\* `_complete_pending_lifecycle_events`.
CompleteLifecycle ==
  /\ At("lifecycle") /\ pc' = "recovery"
  /\ owed' = {}
  /\ ctl' = CASE "preinit" \in owed /\ ctl = "preinit" -> "ready"
              [] "start" \in owed /\ ctl = "starting" -> "running"
              [] OTHER -> ctl
  /\ UNCHANGED <<run, diag, reserved, control, recovery, client, deferred, latch,
                 recovering, board, record, stopEvent, answers, faults>>
  /\ WorkerFrame

EndRecovery == Answer({recovering}) /\ recovering' = 0 /\ pc' = "control"

\* `_process_recovery_requests`, `_recover_orphaned_capture_session` up to the
\* import: the session has to have ended, and one record to name it.
BeginRecovery ==
  /\ At("recovery")
  /\ recovery' = Tail(recovery)
  /\ \E o \in ForcedOutcomes :
       LET swept == client.link = "down" /\ board.session = DiagnosticSession
                    /\ Idle /\ diag = NoDiag /\ ~reserved
           fits == /\ board.session \in Runs
                   /\ board.st \in {"stopped", "orphaned"}
                   /\ record[board.session].prov
       IN  /\ Sent(o, client)
           /\ board' = IF o = "ok" /\ swept THEN NoBoard ELSE board
           /\ IF o = "ok" /\ fits
              THEN recovering' = Head(recovery) /\ pc' = "recover" /\ UNCHANGED answers
              ELSE Answer({Head(recovery)}) /\ pc' = "control" /\ UNCHANGED recovering
  /\ UNCHANGED <<run, diag, reserved, control, deferred, latch, owed, record, ctl,
                 stopEvent>>
  /\ WorkerFrame

\* Mutant: recovery skips snapshots whose pulse reports were never seen.
UnrecoveredTimed == {s \in board.snaps \ board.acked : s \in record[s[1]].timeline}

Unrecovered == board.snaps \ board.acked

\* Its loop: every snapshot not yet acknowledged is imported, without a
\* timeline.  `AcquisitionArtifactImporter.import_snapshot` acknowledges last.
RecoverSnapshot ==
  /\ pc = "recover"
  /\ \E s \in Unrecovered, o \in Outcomes, stored \in BOOLEAN :
       /\ Executed(o) => stored
       /\ client.link # "up" => ~stored
       /\ record' = IF stored THEN [record EXCEPT ![s[1]].stored = @ \cup {s}] ELSE record
       /\ board' = IF Executed(o) THEN [board EXCEPT !.acked = @ \cup {s}] ELSE board
       /\ faults' = IF o \in {"late", "reject"} THEN faults + 1 ELSE faults
       /\ IF o = "ok" THEN UNCHANGED <<answers, recovering, pc>> ELSE EndRecovery
  /\ UNCHANGED <<run, diag, reserved, control, recovery, client, deferred, latch,
                 owed, ctl, stopEvent>>
  /\ WorkerFrame

\* Its end: analysis, then the release of the spool.
FinishRecovery ==
  /\ pc = "recover" /\ Unrecovered = {}
  /\ \E o \in Outcomes :
       /\ Sent(o, client)
       /\ record' = [record EXCEPT ![board.session].analysed = TRUE]
       /\ board' = IF Executed(o) THEN NoBoard ELSE board
       /\ deferred' = (deferred /\ o # "ok")
  /\ EndRecovery
  /\ UNCHANGED <<run, diag, reserved, control, recovery, latch, owed, ctl, stopEvent>>
  /\ WorkerFrame

\* `_start_diagnostic`: a start that may have happened stays owned.
StartDiagnostic(mode, c) ==
  /\ \E o \in ForcedOutcomes :
       LET allowed == /\ Idle /\ diag = NoDiag /\ reserved
                      /\ board.session \in {NoSession, DiagnosticSession}
       IN  IF ~allowed
           THEN /\ diag' = diag /\ Answer({c})
                /\ UNCHANGED <<board, client, faults>>
           ELSE /\ Sent(o, Up)
                /\ board' = IF Executed(o) THEN Open(DiagnosticSession) ELSE board
                /\ CASE o = "ok" ->
                          /\ diag' = [DiagOf(mode, "running") EXCEPT
                                        !.waiting = IF mode = "one_shot" THEN {c} ELSE {}]
                          /\ IF mode = "one_shot" THEN UNCHANGED answers ELSE Answer({c})
                     [] o \in {"late", "lost"} ->
                          diag' = DiagOf(mode, "error") /\ Answer({c})
                     [] OTHER -> diag' = diag /\ Answer({c})
  /\ reserved' = FALSE
  /\ pc' = "reports"

\* `_flush_diagnostic`; a failure fails the call only.
FlushDiagnostic(c) ==
  /\ Answer({c})
  /\ IF diag.mode = "continuous" /\ diag.st = "running"
     THEN \E o \in Outcomes :
            LET b == IF Executed(o) /\ board.st = "active" THEN Flushed(board) ELSE board
            IN  /\ Sent(o, Announced(b))
                /\ IF o = "ok" /\ b.session = DiagnosticSession
                   THEN /\ board' = [b EXCEPT !.acked = b.snaps]
                        /\ diag' = [diag EXCEPT !.done = b.snaps, !.pend = {}]
                   ELSE board' = b /\ diag' = diag
     ELSE UNCHANGED <<board, diag, client, faults>>
  /\ pc' = "reports"
  /\ UNCHANGED reserved

\* `_resume_diagnostic_stop`: an owned session in error is looked up first.
StopDiagnosticCall(c) ==
  /\ IF diag = NoDiag
     THEN /\ Answer({c})
          /\ UNCHANGED <<board, diag, client, faults>>
     ELSE IF diag.st # "error" /\ diag.sent
     THEN /\ diag' = [diag EXCEPT !.waiting = @ \cup {c}]
          /\ UNCHANGED <<board, client, faults, answers>>
     ELSE \E o \in (IF diag.st = "error" THEN ForcedOutcomes ELSE Outcomes) :
            LET gone == board.session # DiagnosticSession
                b == IF Executed(o) /\ ~gone THEN Stopped(board) ELSE board
            IN  /\ Sent(o, IF client.link = "up" THEN Announced(b) ELSE Up)
                /\ board' = b
                /\ CASE o = "ok" /\ gone -> diag' = NoDiag /\ Answer({c} \cup diag.waiting)
                     [] o = "ok" /\ ~gone ->
                          /\ diag' = [Merged(b) EXCEPT !.sent = TRUE, !.st = "finalizing",
                                                     !.waiting = @ \cup {c}]
                          /\ UNCHANGED answers
                     [] OTHER -> diag' = FailedDiag /\ Answer({c} \cup diag.waiting)
  /\ pc' = "reports"
  /\ UNCHANGED reserved

\* `_process_control_requests`.
ProcessControl ==
  /\ At("control")
  /\ control' = Tail(control)
  /\ LET what == Head(control)[1]
         c == Head(control)[2]
     IN  CASE what = "flush" -> FlushDiagnostic(c)
           [] what = "stop" -> StopDiagnosticCall(c)
           [] OTHER -> StartDiagnostic(what, c)
  /\ UNCHANGED <<run, recovery, deferred, latch, owed, recovering, record, ctl,
                 stopEvent>>
  /\ WorkerFrame

\* The first loop of `_consume_capture_events`.  A gap in the sequence numbers,
\* or a report of another session, asks for the stop of the exposure; and so
\* does a dose or run-time target.
ConsumeReports ==
  /\ At("reports") /\ pc' = "snapshots"
  /\ client' = IF diag.st = "error" THEN client
               ELSE IF Idle /\ diag = NoDiag
               THEN [client EXCEPT !.reports = {}, !.snaps = {}, !.stop = FALSE]
               ELSE [client EXCEPT !.reports = {}]
  /\ IF Idle
     THEN /\ diag' = IF diag.st \in {"none", "error"} THEN diag
                     ELSE [diag EXCEPT !.reports = @ \/ client.reports # {}]
          /\ UNCHANGED <<run, latch, stopEvent>>
     ELSE LET mine == {n \in Pulses : <<run.session, n>> \in client.reports}
              from == IF run.next # 0 \/ mine = {} THEN run.next ELSE MinOf(mine)
              taken == {n \in mine : n >= from /\ from..n \subseteq mine}
              wrong == \/ \E n \in mine \ taken : n > from
                       \/ \E p \in client.reports : p[1] # run.session
          IN  /\ run' = [run EXCEPT !.totals = @ \cup taken,
                                    !.next = IF taken = {} THEN from ELSE MaxOf(taken) + 1]
              /\ \E target \in {FALSE, taken # {} /\ run.running} : RequestStop(wrong \/ target)
              /\ UNCHANGED diag
  /\ UNCHANGED <<reserved, control, recovery, deferred, owed, recovering, board,
                 record, ctl, answers, faults>>
  /\ WorkerFrame

\* The second loop: announced snapshots wait for their import.  A diagnostic
\* also learns that the digitizer stopped by itself.
ConsumeSnapshots ==
  /\ At("snapshots") /\ pc' = "import"
  /\ IF ~Idle
     THEN /\ run' = [run EXCEPT !.pend = @ \cup (client.snaps \ run.imported)]
          /\ client' = [client EXCEPT !.snaps = {}]
          /\ UNCHANGED diag
     ELSE /\ UNCHANGED run
          /\ IF diag.st \in {"none", "error"} THEN UNCHANGED <<diag, client>>
             ELSE /\ client' = [client EXCEPT !.snaps = {}, !.stop = FALSE]
                  /\ LET ended == client.stop /\ ~diag.sent
                     IN  diag' = [diag EXCEPT
                           !.pend = @ \cup (client.snaps \ diag.done),
                           !.sent = @ \/ ended,
                           !.st = IF ended THEN "finalizing" ELSE @,
                           !.bad = @ \/ ended]
  /\ UNCHANGED <<reserved, control, recovery, deferred, latch, owed, recovering,
                 board, record, ctl, stopEvent, answers, faults>>
  /\ WorkerFrame

\* `_import_snapshot` and the importer: fetch, copy into the record, timeline,
\* acknowledge.  A failure leaves what was done before it.
Import(s, next, failed) ==
  \E o \in {"ok", "unread", "unsaved", "untimed", "late"} :
    LET there == s \in board.snaps /\ client.link = "up"
        copied == there /\ o # "unread"
        timed == copied /\ o # "unsaved"
        acked == timed /\ o # "untimed"
        filed == [record[run.id] EXCEPT !.stored = IF timed THEN @ \cup {s} ELSE @,
                                        !.timeline = IF acked THEN @ \cup {s} ELSE @]
    IN  /\ o # "ok" => there /\ faults < MaxFaults
        /\ faults' = IF o = "ok" THEN faults ELSE faults + 1
        /\ record' = [record EXCEPT ![run.id] = filed]
        /\ board' = IF acked THEN [board EXCEPT !.acked = @ \cup {s}] ELSE board
        /\ IF there /\ o = "ok"
           THEN /\ run' = [run EXCEPT !.imported = @ \cup {s}, !.pend = @ \ {s},
                                      !.totals = @ \ {s[2]}]
                /\ pc' = next
                /\ UNCHANGED <<latch, stopEvent>>
           ELSE /\ run' = run /\ pc' = failed
                /\ RequestStop(~Finalizing)

Importable == {s \in run.pend : s[2] \in run.totals}

\* `_import_pending_snapshots`.  A failure asks for the stop of the exposure,
\* or, after the stop, fails the round.
ImportPending ==
  /\ At("import") /\ ~Idle
  /\ IF Importable = {}
     THEN pc' = "diagnostic" /\ UNCHANGED <<run, record, board, latch, stopEvent, faults>>
     ELSE \E s \in Importable :
            Import(s, "import", IF Finalizing THEN "failed" ELSE "diagnostic")
  /\ UNCHANGED <<diag, reserved, control, recovery, client, deferred, owed,
                 recovering, ctl, answers>>
  /\ WorkerFrame

\* `_import_pending_diagnostic_snapshots`: previewed, acknowledged, purged.
DiagnosticTransfer(next) ==
  \E o \in Outcomes :
    /\ Sent(o, client)
    /\ board' = IF Executed(o) /\ board.session = DiagnosticSession
                THEN [board EXCEPT !.acked = @ \cup diag.pend] ELSE board
    /\ IF o = "ok"
       THEN diag' = [diag EXCEPT !.done = @ \cup diag.pend, !.pend = {}] /\ pc' = next
       ELSE diag' = diag /\ pc' = "failed"

ImportDiagnostic ==
  /\ At("import") /\ Idle
  /\ IF diag.st \in {"none", "error"} \/ diag.pend = {}
     THEN pc' = "diagnostic" /\ UNCHANGED <<diag, client, board, faults>>
     ELSE DiagnosticTransfer("diagnostic")
  /\ UNCHANGED <<run, reserved, control, recovery, deferred, latch, owed,
                 recovering, record, ctl, stopEvent, answers>>
  /\ WorkerFrame

\* The first half of `_advance_diagnostic`: one-shot captures are stopped after
\* their pulse or their time; `_reconcile_failed_diagnostic_stop` stops what
\* an error left running, and forgets what was never started.
AdvanceDiagnostic ==
  /\ At("diagnostic")
  /\ \/ /\ diag.st = "error" /\ ~diag.sent /\ client.link # "down"
        /\ pc' = "finalize"
        /\ \E o \in Outcomes :
             LET gone == board.session # DiagnosticSession
                 b == IF Executed(o) /\ ~gone THEN Stopped(board) ELSE board
             IN  /\ Sent(o, Announced(b))
                 /\ board' = b
                 /\ diag' = CASE o = "ok" /\ gone -> NoDiag
                            [] o = "ok" /\ ~gone -> [Merged(b) EXCEPT !.sent = TRUE]
                            [] OTHER -> diag
        /\ UNCHANGED answers
     \/ /\ diag.st = "running" /\ diag.mode = "one_shot" /\ (diag.reports \/ diag.late)
        /\ \E o \in Outcomes :
             LET b == IF Executed(o) THEN Stopped(board) ELSE board
             IN  /\ Sent(o, Announced(b))
                 /\ board' = b
                 /\ IF o = "ok"
                    THEN /\ diag' = [Merged(b) EXCEPT !.sent = TRUE, !.st = "finalizing",
                                                     !.bad = ~diag.reports]
                         /\ pc' = "listing"
                         /\ UNCHANGED answers
                    ELSE FailDiagnostic /\ pc' = "failed"
     \/ /\ diag.st # "error" \/ diag.sent \/ client.link = "down"
        /\ ~(diag.st = "running" /\ diag.mode = "one_shot" /\ (diag.reports \/ diag.late))
        /\ pc' = IF diag.st = "finalizing" THEN "listing" ELSE "finalize"
        /\ UNCHANGED <<diag, board, client, answers, faults>>
  /\ UNCHANGED <<run, reserved, control, recovery, deferred, latch, owed,
                 recovering, record, ctl, stopEvent>>
  /\ WorkerFrame

\* The second half: everything listed is transferred, then the session is
\* discarded and `_complete_diagnostic` answers the calls that wait.
ListDiagnostic ==
  /\ pc = "listing"
  /\ IF Merged(board).pend # {}
     THEN /\ \E o \in Outcomes :
              /\ Sent(o, client)
              /\ board' = IF Executed(o) THEN [board EXCEPT !.acked = board.snaps] ELSE board
              /\ IF o = "ok"
                 THEN diag' = [Merged(board) EXCEPT !.done = board.snaps, !.pend = {}]
                      /\ pc' = "listing"
                 ELSE diag' = diag /\ pc' = "failed"
          /\ UNCHANGED answers
     ELSE \E o \in Outcomes :
            /\ Sent(o, client)
            /\ board' = IF Executed(o) THEN NoBoard ELSE board
            /\ IF o = "ok"
               THEN diag' = NoDiag /\ Answer(diag.waiting) /\ pc' = "finalize"
               ELSE UNCHANGED <<diag, answers>> /\ pc' = "failed"
  /\ UNCHANGED <<run, reserved, control, recovery, deferred, latch, owed,
                 recovering, record, ctl, stopEvent>>
  /\ WorkerFrame

\* `_advance_finalization` up to the digitizer's last flush: a delay for the
\* acknowledgement of the stop, the drain, and `stop_capture` once.
BeginFinalization ==
  /\ At("finalize")
  /\ IF \/ run.wait = "drain" \/ run.session = NoSession \/ client.link = "down"
        \/ (run.sent /\ run.wait # "ack")
     THEN /\ pc' = IF run.wait = "drain" THEN "release"
                   ELSE IF run.session = NoSession THEN "cleared"
                   ELSE IF client.link = "down" THEN "defer" ELSE "reconcile"
          /\ UNCHANGED <<run, board, client, faults>>
     ELSE IF run.wait = "ack"
     THEN /\ pc' = "release" /\ run' = [run EXCEPT !.wait = "drain"]
          /\ UNCHANGED <<board, client, faults>>
     ELSE \E o \in Outcomes \cup IF board.st = "active" \/ client.link # "up"
                                 THEN {} ELSE {"refused"} :
            LET b == IF Executed(o) THEN Stopped(board) ELSE board
            IN  /\ Sent(o, Announced(b))
                /\ board' = b
                /\ IF o = "ok"
                   THEN run' = [run EXCEPT !.sent = TRUE] /\ pc' = "reconcile"
                   ELSE run' = run /\ pc' = "defer"
  /\ UNCHANGED <<diag, reserved, control, recovery, deferred, latch, owed,
                 recovering, record, ctl, stopEvent, answers>>
  /\ WorkerFrame

\* `_complete_stop_without_capture`.
ClearRejectedStart ==
  /\ pc = "cleared" /\ pc' = "release"
  /\ run' = NoRun /\ ctl' = "idle"
  /\ UNCHANGED <<diag, reserved, control, recovery, client, deferred, latch, owed,
                 recovering, board, record, stopEvent, answers, faults>>
  /\ WorkerFrame

\* The rest of `_advance_finalization`: list, import what is pending, and when
\* nothing is, analyse, promote and report the stop.
\* Mutant: the listing is only counted.
PendingAnnounced == run.pend

Pending == run.pend \cup (board.snaps \ run.imported)

ListFails(o) == Sent(o, client) /\ pc' = "defer" /\ run' = run /\ record' = record
                /\ board' = board /\ ctl' = ctl /\ UNCHANGED <<latch, stopEvent>>

Reconcile ==
  /\ pc = "reconcile"
  /\ IF client.link = "up" /\ Pending = {} /\ Cardinality(run.imported) = Cardinality(board.snaps)
     THEN \/ /\ record' = [record EXCEPT ![run.id].analysed = TRUE]
             /\ run' = [run EXCEPT !.wait = "no", !.release = TRUE]
             /\ ctl' = "idle" /\ pc' = "release"
             /\ UNCHANGED <<board, client, latch, stopEvent, faults>>
          \/ \E o \in Outcomes \ {"ok"} : ListFails(o)
     ELSE IF client.link # "up" THEN \E o \in Outcomes : ListFails(o)
     ELSE LET now == {s \in Pending : s[2] \in run.totals}
          IN  /\ IF now = {}
                 THEN /\ run' = [run EXCEPT !.pend = Pending] /\ pc' = "release"
                      /\ UNCHANGED <<record, board, latch, stopEvent, faults>>
                 ELSE \E s \in now : Import(s, "reconcile", "defer")
              /\ UNCHANGED <<client, ctl>>
  /\ UNCHANGED <<diag, reserved, control, recovery, deferred, owed, recovering, answers>>
  /\ WorkerFrame

\* `_defer_finalization`: an active capture is stopped if that is possible,
\* and the run is given up; its session waits for recovery.
Defer ==
  /\ pc = "defer" /\ pc' = "release"
  /\ deferred' = TRUE
  /\ \E o \in Outcomes :
       LET b == IF Executed(o) /\ run.session # NoSession THEN Stopped(board) ELSE board
       IN  /\ board' = b
           /\ Sent(o, Announced(b))
  /\ run' = NoRun /\ ctl' = "idle"
  /\ UNCHANGED <<diag, reserved, control, recovery, latch, owed, recovering,
                 record, stopEvent, answers>>
  /\ WorkerFrame

\* `_release_after_stopped`, in the round that reported the stop.
ReleaseAfterStopped ==
  /\ At("release") /\ pc' = "connect"
  /\ \E o \in Outcomes :
       /\ Sent(o, client)
       /\ board' = IF Executed(o) THEN NoBoard ELSE board
       /\ deferred' = (deferred \/ o # "ok")
  /\ run' = NoRun
  /\ UNCHANGED <<diag, reserved, control, recovery, latch, owed, recovering,
                 record, ctl, stopEvent, answers>>
  /\ WorkerFrame

\* `_handle_worker_failure`.
HandleFailure ==
  /\ pc = "failed"
  /\ pc' = IF Finalizing THEN "defer" ELSE "connect"
  /\ RequestStop(~Idle /\ ~Finalizing)
  /\ IF Idle THEN FailDiagnostic ELSE UNCHANGED <<diag, answers>>
  /\ UNCHANGED <<run, reserved, control, recovery, client, deferred, owed,
                 recovering, board, record, ctl, faults>>
  /\ WorkerFrame

Worker ==
  \/ Maintain \/ CompleteLifecycle
  \/ BeginRecovery \/ RecoverSnapshot \/ FinishRecovery
  \/ ProcessControl
  \/ ConsumeReports \/ ConsumeSnapshots \/ ImportPending \/ ImportDiagnostic
  \/ AdvanceDiagnostic \/ ListDiagnostic
  \/ BeginFinalization \/ ClearRejectedStart \/ Reconcile \/ Defer
  \/ ReleaseAfterStopped \/ HandleFailure

---------------------------------------------------------------------------
(* The digitizer, the network and the clock. *)

OutsideFrame ==
  UNCHANGED <<reserved, control, recovery, deferred, latch, owed, pc, recovering,
              record, ctl, runs, stopEvent, answers, calls>>

Pulse ==
  /\ board.st = "active" /\ board.seq < MaxPulses
  /\ board' = [board EXCEPT !.seq = @ + 1]
  /\ client' = IF client.link = "up"
               THEN [client EXCEPT !.reports = @ \cup {<<board.session, board.seq + 1>>}]
               ELSE client
  /\ UNCHANGED <<run, diag, faults>> /\ OutsideFrame

CloseSegment ==
  /\ board.st = "active" /\ board.seq > board.cut
  /\ board' = Flushed(board)
  /\ client' = Announced(board')
  /\ UNCHANGED <<run, diag, faults>> /\ OutsideFrame

\* The digitizer stops by itself, or restarts; then its capture is orphaned.
BoardFails ==
  /\ board.st = "active" /\ faults < MaxFaults /\ faults' = faults + 1
  /\ \/ /\ board' = Stopped(board)
        /\ client' = [Announced(board') EXCEPT !.stop = client.link = "up"]
     \/ /\ board' = [board EXCEPT !.st = "orphaned"]
        /\ client' = IF client.link = "up" THEN [client EXCEPT !.link = "broken"] ELSE client
  /\ UNCHANGED <<run, diag>> /\ OutsideFrame

LinkBreaks ==
  /\ client.link = "up" /\ faults < MaxFaults /\ faults' = faults + 1
  /\ client' = [client EXCEPT !.link = "broken"]
  /\ UNCHANGED <<run, diag, board>> /\ OutsideFrame

\* The laser is off and the pulses have ceased, or the drain's time is up.
DrainElapses ==
  /\ run.wait = "drain" /\ LockFree
  /\ run' = [run EXCEPT !.wait = "over"]
  /\ UNCHANGED <<diag, client, board, faults>> /\ OutsideFrame

OneShotTimesOut ==
  /\ diag.mode = "one_shot" /\ diag.st = "running" /\ ~diag.late
  /\ diag' = [diag EXCEPT !.late = TRUE]
  /\ UNCHANGED <<run, client, board, faults>> /\ OutsideFrame

Environment == Pulse \/ CloseSegment \/ BoardFails \/ LinkBreaks
               \/ DrainElapses \/ OneShotTimesOut

Callbacks ==
  \/ CanStart \/ Preinit \/ Start \/ Stop \/ StopEventArrives
  \/ \E c \in Calls :
       \/ AskRecovery(c)
       \/ \E mode \in {"continuous", "one_shot"} : AskDiagnostic(c, mode)
       \/ \E what \in {"flush", "stop"} : AskRunningDiagnostic(c, what)

Init ==
  /\ run = NoRun /\ diag = NoDiag /\ reserved = FALSE
  /\ control = << >> /\ recovery = << >> /\ client = Up
  /\ deferred = FALSE /\ latch = FALSE /\ owed = {} /\ pc = "connect"
  /\ recovering = 0
  /\ board = NoBoard /\ record = [r \in Runs |-> NoRecord]
  /\ ctl = "idle" /\ runs = 0 /\ stopEvent = FALSE
  /\ answers = [c \in Calls |-> 0] /\ calls = 0 /\ faults = 0

Next == Worker \/ Callbacks \/ Environment

Spec == Init /\ [][Next]_vars

\* The worker loops; the clock runs; a stop_exposure call is delivered.
Fairness ==
  /\ WF_vars(Worker) /\ WF_vars(DrainElapses) /\ WF_vars(OneShotTimesOut)
  /\ WF_vars(StopEventArrives)

FairSpec == Spec /\ Fairness

---------------------------------------------------------------------------
(* Properties. *)

Snapshots == Runs \X Pulses

\* What a snapshot or a pulse report of the digitizer is about.
Events == (Runs \cup {DiagnosticSession}) \X Pulses

RunRecords == [id : 0..MaxRuns, session : 0..MaxRuns,
               wait : {"no", "ack", "drain", "over"}, sent : BOOLEAN,
               running : BOOLEAN, release : BOOLEAN, next : 0..(MaxPulses + 1),
               totals : SUBSET Pulses, pend : SUBSET Events, imported : SUBSET Snapshots]
Diagnostics == [mode : {"none", "continuous", "one_shot"},
                st : {"none", "running", "finalizing", "error"},
                reports : BOOLEAN, late : BOOLEAN, sent : BOOLEAN, bad : BOOLEAN,
                pend : SUBSET Events, done : SUBSET Events, waiting : SUBSET Calls]
Clients == [link : {"up", "down", "broken"}, reports : SUBSET Events,
            snaps : SUBSET Events, stop : BOOLEAN]
Boards == [session : 0..DiagnosticSession, st : {"none", "active", "stopped", "orphaned"},
           seq : 0..MaxPulses, cut : 0..MaxPulses, snaps : SUBSET Events,
           acked : SUBSET Events]
RecordContents == [prov : BOOLEAN, stored : SUBSET Snapshots,
                   timeline : SUBSET Snapshots, analysed : BOOLEAN]
Steps == DOMAIN Round \cup {"recover", "listing", "cleared", "defer", "reconcile", "failed"}

TypeOK ==
  /\ run \in RunRecords /\ diag \in Diagnostics /\ reserved \in BOOLEAN
  /\ control \in Seq({"continuous", "one_shot", "flush", "stop"} \X Calls)
  /\ recovery \in Seq(Calls) /\ recovering \in {0} \cup Calls
  /\ client \in Clients /\ deferred \in BOOLEAN /\ latch \in BOOLEAN
  /\ owed \subseteq {"preinit", "start"} /\ pc \in Steps
  /\ board \in Boards /\ record \in [Runs -> RecordContents]
  /\ ctl \in {"idle", "stopping"} \cup Started /\ runs \in 0..MaxRuns
  /\ stopEvent \in BOOLEAN /\ answers \in [Calls -> Nat]
  /\ calls \in 0..MaxCalls /\ faults \in 0..MaxFaults

\* A diagnostic and an exposure never overlap, and each holds the session that
\* it believes to hold: nobody opens, discards or releases one under its owner.
OneOwner ==
  /\ diag # NoDiag \/ reserved => Idle
  /\ diag.st = "running" => board.session = DiagnosticSession
  /\ run.session # NoSession => board.session \in {NoSession, run.session}

\* The snapshots of a run that only the digitizer answers for, those in the
\* records, and the runs with a final analysis: see SnapshotCustody.
Spooled == {s \in board.snaps \ board.acked : board.session \in Runs}
Kept == UNION {record[r].stored : r \in Runs}
Analysed == {r \in Runs : record[r].analysed}

Custody == INSTANCE SnapshotCustody WITH
  Snapshots <- Snapshots, Runs <- Runs,
  spool <- Spooled, kept <- Kept, analysed <- Analysed

SnapshotsAreKept == Custody!Spec

\* The stop of an exposure ends, unless a pulse report was lost, or a recovery
\* that was asked for before the run, and is not checked again when its turn
\* comes, released the session of the run: both leave it waiting.
SessionIsGone == run.session # NoSession /\ board.session = NoSession

StopEnds ==
  (ctl = "stopping") ~> \/ ctl # "stopping"
                        \/ \E s \in run.pend : s[2] \notin run.totals
                        \/ SessionIsGone

\* Every operator call is answered, and once: no call that was set aside for the
\* worker is forgotten by a failure, a reset or a stop, nor answered by two of
\* them.  When some call waits, a moment comes when none does.
CallsAreAnswered ==
  /\ [](\A c \in Calls : answers[c] <= 1)
  /\ (\E c \in 1..calls : answers[c] = 0) ~> (\A c \in 1..calls : answers[c] = 1)
=============================================================================
