--------------------------- MODULE SiglentObserver ---------------------------
(***************************************************************************)
(* The passive observer (siglent_observer.py, observer_artifacts.py): one  *)
(* thread follows the state of the exposure controller, captures each      *)
(* exposure into a session of an acquisition service, and files the        *)
(* session's snapshots in the record of the run.  A journal, replaced      *)
(* atomically, lets a restarted observer find its session again.           *)
(*                                                                         *)
(* The digitizer's service is external: it holds one session at a time,    *)
(* spools snapshots while the session is active and forgets it only when   *)
(* it is released.  The run record of a session is reduced to the status   *)
(* of its descriptor, its snapshot files and the timing context of each.   *)
(*                                                                         *)
(* Any step can raise, before its effect or after it (an answer lost on    *)
(* the wire); the process can be killed between any two steps.  Both count *)
(* against MaxFaults.                                                      *)
(***************************************************************************)
EXTENDS Naturals, Sequences, FiniteSets

CONSTANTS MaxRuns,      \* exposures
          MaxSessions,  \* sessions asked of the acquisition service
          MaxShots,     \* snapshots of a session
          MaxFaults     \* steps that raise, and kills

ASSUME BoundsAssumption ==
  {MaxRuns, MaxSessions, MaxShots, MaxFaults} \subseteq Nat

None == 0
Sessions == 1..MaxSessions
Shots == 1..MaxShots

VARIABLES
  exposure,  \* [run, phase] published by the exposure controller
  events,    \* states the observer has received and not handled
  service,   \* [id, active, asked, shots, acked] of the held session; asked:
             \* it was stopped with the reason "Exposure ... reached STOPPED."
  journal,   \* [id, run, stopped]; id = None: no file
  records,   \* session -> [run, status, files, context]
  observer,  \* [id, run, stopped, seen]: the run in memory; seen: the shots
             \* for which this process heard a laser timing state
  pc,        \* the step the thread is at
  then,      \* where it goes on after a recovery or a finalization
  target,    \* the run that is being started
  sessions,  \* number of session ids drawn
  faults,
  past       \* history: [taken, cut, early, hurt, torn]: sets of sessions;
             \* taken: a session and the exposure it took a snapshot in; torn:
             \* the process ended between the context of a snapshot and its
             \* acknowledgement

vars == <<exposure, events, service, journal, records, observer, pc, then,
          target, sessions, faults, past>>

NoSession == [id |-> None, active |-> FALSE, asked |-> FALSE,
              shots |-> {}, acked |-> {}]
NoJournal == [id |-> None, run |-> None, stopped |-> FALSE]
NoRun     == [id |-> None, run |-> None, stopped |-> FALSE, seen |-> {}]
NoRecord  == [run |-> None, status |-> "none", files |-> {}, context |-> <<>>]

\* The steps of _start, _recover and _finalize.
Starting   == {"begin", "launch", "prepare"}
Recovering == {"recover", "adopt"}
Finalizing == {"mark", "stop", "import", "context", "acknowledge",
               "describe", "release", "clear"}

-----------------------------------------------------------------------------
(* What the observer sees: the key-value "experiment_state" of the exposure *)
(* controller.  A subscription starts with the current value.              *)

\* The exposure controller goes on; an observer that runs hears of it.
Publish(r, phase) ==
  /\ exposure' = [run |-> r, phase |-> phase]
  /\ events' = IF pc = "down" THEN events
               ELSE Append(events, [run |-> r, phase |-> phase])

ExposureMoves ==
  /\ \/ /\ exposure.phase = "STOPPED" /\ exposure.run < MaxRuns
        /\ Publish(exposure.run + 1, "PREINIT")
     \/ /\ exposure.phase = "PREINIT"
        /\ \E phase \in {"RUNNING", "STOPPED"} : Publish(exposure.run, phase)
     \/ /\ exposure.phase = "RUNNING"
        /\ Publish(exposure.run, "STOPPED")
  /\ UNCHANGED <<service, journal, records, observer, pc, then, target,
                 sessions, faults, past>>

\* The digitizer closes a batch while the beam is on.  A timing state of the
\* laser may fall into the batch; it is kept by observe_timing until the stop
\* of the run was seen.  The preparation of an exposure takes long enough for
\* the observer to have done with what was published before.
ShotTaken ==
  /\ service.active /\ exposure.phase = "RUNNING"
  /\ pc \notin Finalizing /\ \A k \in 1..Len(events) : events[k].run = exposure.run
  /\ \E s \in Shots \ service.shots, timed \in BOOLEAN :
        /\ \A earlier \in Shots \ service.shots : s <= earlier
        /\ service' = [service EXCEPT !.shots = @ \cup {s}]
        /\ timed => observer.id = service.id /\ ~observer.stopped
        /\ observer' = [observer EXCEPT !.seen = IF timed THEN @ \cup {s} ELSE @]
  /\ past' = [past EXCEPT !.taken = @ \cup {<<service.id, exposure.run>>}]
  /\ UNCHANGED <<exposure, events, journal, records, pc, then, target,
                 sessions, faults>>

\* The source stops by itself.  The heartbeat reports it and changes nothing.
SourceStops ==
  /\ service.active
  /\ service' = [service EXCEPT !.active = FALSE]
  /\ past' = [past EXCEPT !.cut = @ \cup {service.id}]
  /\ UNCHANGED <<exposure, events, journal, records, observer, pc, then,
                 target, sessions, faults>>

-----------------------------------------------------------------------------
(* Where a step goes.                                                       *)

\* The step that follows, or the way out of the try block that raised: a
\* start is undone, a recovery gives its client up, a finalization keeps its
\* run, its client and its journal for the next STOPPED.
Raised ==
  CASE pc \in {"launch", "prepare"} -> "undo"
    [] pc \in Finalizing /\ then = "down" -> "down"
    [] OTHER -> "idle"

\* A step works, or raises before or after its effect; nothing else changes.
Leads(effect, unchanged, next) ==
  \/ effect /\ pc' = next /\ UNCHANGED <<faults, past>>
  \/ /\ faults < MaxFaults
     /\ effect \/ unchanged
     /\ pc' = Raised
     /\ faults' = faults + 1
     /\ past' = [past EXCEPT !.hurt = @ \cup {journal.id}]

\* A check that fails raises without a fault.
Refused == pc' = Raised /\ UNCHANGED <<faults, past>>

-----------------------------------------------------------------------------
(* Handling a state (observe_phase).                                        *)

Idle == pc = "idle" /\ events # <<>>
Taken == events' = Tail(events)

\* PREINIT of a run that is not to be observed, that is observed already, or
\* that finds another run pending in memory or in the journal.
PreinitIgnored ==
  /\ Idle /\ Head(events).phase = "PREINIT"
  /\ Taken
  /\ UNCHANGED <<exposure, service, journal, records, observer, pc, then,
                 target, sessions, faults, past>>

\* _start: a journal of the same run is recovered first.
PreinitStarts ==
  /\ Idle /\ Head(events).phase = "PREINIT"
  /\ observer.id = None /\ journal.run \in {None, Head(events).run}
  /\ Taken
  /\ target' = Head(events).run
  /\ pc' = IF journal.id = None THEN "begin" ELSE "recover"
  /\ then' = "start"
  /\ UNCHANGED <<exposure, service, journal, records, observer, sessions,
                 faults, past>>

\* RUNNING only sets the time of the start, which the context of a snapshot
\* carries too and is left out of it here.
RunningSeen ==
  /\ Idle /\ Head(events).phase = "RUNNING"
  /\ Taken
  /\ UNCHANGED <<exposure, service, journal, records, observer, pc, then,
                 target, sessions, faults, past>>

\* STOPPED of whatever run finalizes the pending one.
StoppedSeen ==
  /\ Idle /\ Head(events).phase = "STOPPED"
  /\ Taken
  /\ pc' = IF observer.id = None THEN "idle" ELSE "mark"
  /\ then' = "idle"
  /\ UNCHANGED <<exposure, service, journal, records, observer, target,
                 sessions, faults, past>>

-----------------------------------------------------------------------------
(* _start.                                                                  *)

\* The provisional journal is written before the service is asked.
Begin ==
  /\ pc = "begin" /\ sessions < MaxSessions
  /\ sessions' = sessions + 1
  /\ journal' = [id |-> sessions + 1, run |-> target, stopped |-> FALSE]
  /\ pc' = "launch"
  /\ UNCHANGED <<exposure, events, service, records, observer, then, target,
                 faults, past>>

\* connect, status, start_capture.
Opened(id) == [NoSession EXCEPT !.id = id, !.active = TRUE]

Launch ==
  /\ pc = "launch"
  /\ IF service.id # None
       THEN Refused /\ UNCHANGED service
       ELSE Leads(service' = Opened(journal.id), UNCHANGED service, "prepare")
  /\ UNCHANGED <<exposure, events, journal, records, observer, then, target,
                 sessions>>

\* prepare_run writes the descriptor and the empty context unless they are
\* there already; a finished descriptor keeps its status.
Prepared(record, r) ==
  IF record.status = "none"
    THEN [NoRecord EXCEPT !.run = r, !.status = "capturing"]
    ELSE record

Prepare ==
  /\ pc = "prepare"
  /\ Leads(records' = [records EXCEPT ![journal.id] = Prepared(@, target)],
           UNCHANGED records, "idle")
  /\ observer' = IF pc' = "idle"
                   THEN [NoRun EXCEPT !.id = journal.id, !.run = target]
                   ELSE observer
  /\ UNCHANGED <<exposure, events, service, journal, then, target, sessions>>

\* A start that raised: stop_capture and status are tried, and the journal
\* goes only if the service answers that it holds no session.
MayForgetAlways == TRUE
MayForget == service.id = None

Undo ==
  /\ pc = "undo"
  /\ \E stopped \in BOOLEAN :
        /\ service' = IF stopped THEN [service EXCEPT !.active = FALSE]
                      ELSE service
        /\ past' = IF stopped /\ service.active
                     THEN [past EXCEPT !.cut = @ \cup {service.id}] ELSE past
  /\ \/ UNCHANGED journal
     \/ MayForget /\ journal' = NoJournal
  /\ pc' = "idle"
  /\ UNCHANGED <<exposure, events, records, observer, then, target, sessions,
                 faults>>

-----------------------------------------------------------------------------
(* _recover.                                                                *)

\* Where a recovery, or a finalization on behalf of one, goes on.
GoesOn ==
  CASE then = "start" /\ sessions < MaxSessions -> "begin"
    [] then = "down" -> "down"
    [] OTHER -> "idle"

\* connect and status: the service has to hold the session of the journal.
Recover ==
  /\ pc = "recover"
  /\ IF journal.id = None
       THEN pc' = "idle" /\ UNCHANGED <<faults, past>>
       ELSE IF service.id # journal.id
         THEN Refused
         ELSE Leads(TRUE, TRUE, "adopt")
  /\ UNCHANGED <<exposure, events, service, journal, records, observer, then,
                 target, sessions>>

\* prepare_run again; a session that has ended is finalized at once.
Adopt ==
  /\ pc = "adopt"
  /\ Leads(records' = [records EXCEPT ![journal.id] =
                         Prepared(@, journal.run)],
           UNCHANGED records, IF service.active THEN "idle" ELSE "mark")
  /\ observer' = IF pc' = "mark" \/ (pc' = "idle" /\ faults' = faults)
                   THEN [id |-> journal.id, run |-> journal.run,
                         stopped |-> journal.stopped, seen |-> {}]
                   ELSE observer
  /\ UNCHANGED <<exposure, events, service, journal, then, target, sessions>>

-----------------------------------------------------------------------------
(* _finalize.                                                               *)

\* Only the first time; a save that raised is not made good.
Mark ==
  /\ pc = "mark"
  /\ observer' = [observer EXCEPT !.stopped = TRUE]
  /\ IF observer.stopped
       THEN pc' = "stop" /\ UNCHANGED <<journal, faults, past>>
       ELSE Leads(journal' = [journal EXCEPT !.stopped = TRUE],
                  UNCHANGED journal, "stop")
  /\ UNCHANGED <<exposure, events, service, records, then, target, sessions>>

\* status, and stop_capture if the capture is active.
Stop ==
  /\ pc = "stop"
  /\ IF service.id # observer.id
       THEN Refused /\ UNCHANGED service
       ELSE Leads(service' = [service EXCEPT !.active = FALSE,
                                             !.asked = @ \/ service.active],
                  UNCHANGED service, "import")
  /\ UNCHANGED <<exposure, events, journal, records, observer, then, target,
                 sessions>>

\* The next snapshot that is not acknowledged.
Waiting == service.shots \ service.acked
NextShot == CHOOSE s \in Waiting : \A other \in Waiting : s <= other
Record == records[observer.id]

\* What observe_timing noted of the batch of a snapshot, as it enters the
\* context; a restarted observer has nothing to say of earlier batches.
Evidence(s) == IF s \in observer.seen THEN "timed" ELSE "unknown"

\* What comes between the copy of a snapshot and its acknowledgement.
BeforeAcknowledgeNothing == "acknowledge"
BeforeAcknowledge == "context"

\* import_snapshot: the file is written over what a failed import left.
Import ==
  /\ pc = "import"
  /\ IF Waiting = {}
       THEN pc' = "describe" /\ UNCHANGED <<records, faults, past>>
       ELSE Leads(records' = [records EXCEPT ![observer.id].files =
                                @ \cup {NextShot}],
                  UNCHANGED records, BeforeAcknowledge)
  /\ UNCHANGED <<exposure, events, service, journal, observer, then, target,
                 sessions>>

\* before_ack: an item that differs from the one already there is refused.
Context ==
  /\ pc = "context"
  /\ LET s == NextShot IN
     IF s \in DOMAIN Record.context /\ Record.context[s] # Evidence(s)
       THEN Refused /\ UNCHANGED records
       ELSE Leads(records' = [records EXCEPT ![observer.id].context =
                    [t \in DOMAIN @ \cup {s} |->
                       IF t = s THEN Evidence(s) ELSE @[t]]],
                  UNCHANGED records, "acknowledge")
  /\ UNCHANGED <<exposure, events, service, journal, observer, then, target,
                 sessions>>

Acknowledge ==
  /\ pc = "acknowledge"
  /\ Leads(service' = [service EXCEPT !.acked = @ \cup {NextShot}],
           UNCHANGED service, "import")
  /\ UNCHANGED <<exposure, events, journal, records, observer, then, target,
                 sessions>>

\* finalize_run or finalize_failed_run: dose products, then the descriptor.
\* The session is complete if it ended for the reason the observer gave.
OutcomeUnlessActive == IF service.active THEN "incomplete" ELSE "complete"
Outcome == IF service.asked THEN "complete" ELSE "incomplete"

Describe ==
  /\ pc = "describe"
  /\ Leads(records' = [records EXCEPT ![observer.id].status = Outcome],
           UNCHANGED records, "release")
  /\ UNCHANGED <<exposure, events, service, journal, observer, then, target,
                 sessions>>

\* release_snapshots: the spool is given up.
Release ==
  /\ pc = "release"
  /\ Leads(service' = NoSession, UNCHANGED service, "clear")
  /\ UNCHANGED <<exposure, events, journal, records, observer, then, target,
                 sessions>>

\* The run is forgotten.  After a session that was not complete _finalize
\* raises, which also ends the start that recovered it.
Clear ==
  /\ pc = "clear"
  /\ journal' = NoJournal
  /\ observer' = NoRun
  /\ pc' = IF Record.status = "complete" THEN GoesOn ELSE Raised
  /\ UNCHANGED <<exposure, events, service, records, then, target, sessions,
                 faults, past>>

-----------------------------------------------------------------------------
(* The process.                                                             *)

\* close: the run in memory is finalized whatever the exposure does.
Close ==
  /\ pc = "idle" /\ faults < MaxFaults
  /\ faults' = faults + 1
  /\ pc' = IF observer.id = None THEN "down" ELSE "mark"
  /\ then' = "down"
  /\ past' = [past EXCEPT !.early = @ \cup {observer.id}]
  /\ UNCHANGED <<exposure, events, service, journal, records, observer,
                 target, sessions>>

\* The process is killed.
Killed ==
  /\ pc # "down" /\ faults < MaxFaults
  /\ faults' = faults + 1
  /\ pc' = "down"
  /\ past' = [past EXCEPT !.hurt = @ \cup {journal.id}]
  /\ UNCHANGED <<exposure, events, service, journal, records, observer, then,
                 target, sessions>>

\* The snapshots of the held session that have a context and are not
\* acknowledged.
Unanswered(id) == DOMAIN records[id].context \ service.acked

\* It is started again: recover, then the current state of the exposure.
\* What it knew of the laser is not in the journal.
Restart ==
  /\ pc = "down"
  /\ events' = <<exposure>>
  /\ observer' = NoRun
  /\ pc' = "recover" /\ then' = "idle"
  /\ past' = [past EXCEPT !.torn = @ \cup
                {id \in Sessions : id = service.id /\ Unanswered(id) # {}}]
  /\ UNCHANGED <<exposure, service, journal, records, target, sessions, faults>>

-----------------------------------------------------------------------------
Init ==
  /\ exposure = [run |-> None, phase |-> "STOPPED"]
  /\ events = <<>>
  /\ service = NoSession
  /\ journal = NoJournal
  /\ records = [id \in Sessions |-> NoRecord]
  /\ observer = NoRun
  /\ pc = "idle" /\ then = "idle"
  /\ target = None
  /\ sessions = 0 /\ faults = 0
  /\ past = [taken |-> {}, cut |-> {}, early |-> {}, hurt |-> {},
              torn |-> {}]

Handle == PreinitIgnored \/ PreinitStarts \/ RunningSeen \/ StoppedSeen
StartStep == Begin \/ Launch \/ Prepare \/ Undo
RecoverStep == Recover \/ Adopt
FinalizeStep == \/ Mark \/ Stop \/ Import \/ Context \/ Acknowledge
                \/ Describe \/ Release \/ Clear
Next ==
  \/ ExposureMoves \/ ShotTaken \/ SourceStops
  \/ Handle \/ StartStep \/ RecoverStep \/ FinalizeStep
  \/ Close \/ Killed \/ Restart

Spec == Init /\ [][Next]_vars

-----------------------------------------------------------------------------
Steps == {"idle", "down", "undo"} \cup Starting \cup Recovering \cup Finalizing
Ids == 0..MaxSessions
Runs == 0..MaxRuns
Exposures == [run : Runs, phase : {"PREINIT", "RUNNING", "STOPPED"}]
Services == [id : Ids, active : BOOLEAN, asked : BOOLEAN,
             shots : SUBSET Shots, acked : SUBSET Shots]
Journals == [id : Ids, run : Runs, stopped : BOOLEAN]
Contexts == UNION {[items -> {"timed", "unknown"}] : items \in SUBSET Shots}
Records == [run : Runs, status : {"none", "capturing", "complete", "incomplete"},
            files : SUBSET Shots, context : Contexts]
Observers == [id : Ids, run : Runs, stopped : BOOLEAN, seen : SUBSET Shots]
Pasts == [taken : SUBSET (Ids \X Runs), cut : SUBSET Ids, early : SUBSET Ids,
          hurt : SUBSET Ids, torn : SUBSET Ids]

TypeOK ==
  /\ exposure \in Exposures /\ events \in Seq(Exposures)
  /\ service \in Services /\ service.acked \subseteq service.shots
  /\ journal \in Journals /\ records \in [Sessions -> Records]
  /\ observer \in Observers
  /\ pc \in Steps /\ then \in {"idle", "start", "down"}
  /\ target \in Runs /\ sessions \in 0..MaxSessions /\ faults \in 0..MaxFaults
  /\ past \in Pasts

\* A record that says "capturing" can still be finished, whatever step failed,
\* was repeated or was cut short by a kill: the service holds its session, the
\* journal names it, and no snapshot that is left has an entry in the context
\* that differs from what the observer would enter.  The exception is a hazard
\* of the code: a process that ends between the context of a snapshot and its
\* acknowledgement takes with it what it heard of the laser, the next one is
\* refused at that snapshot, and the record stays as it is for ever.
CapturingIsRecoverable ==
  \A id \in Sessions : records[id].status = "capturing" =>
    /\ service.id = id /\ journal.id = id
    /\ \/ \A s \in Unanswered(id) : records[id].context[s] = Evidence(s)
       \/ id \in past.torn

\* A record that says "complete" is the record of one exposure: the source
\* served it to the end, and, unless a step failed or the observer was closed
\* while it ran, the exposure had ended and no snapshot is of another one.
CompleteIsWhole ==
  \A id \in Sessions : records[id].status = "complete" =>
    /\ id \notin past.cut
    /\ \/ id \in past.hurt \cup past.early
       \/ /\ \A t \in past.taken : t[1] = id => t[2] = records[id].run
          /\ exposure.run > records[id].run \/ exposure.phase = "STOPPED"

\* The observer keeps the snapshots as an acquisition service has to: see
\* SnapshotCustody.  A snapshot is kept when both its file and its context are
\* in the record.
Spooled == {<<service.id, s>> : s \in service.shots \ service.acked}
Kept == {k \in Sessions \X Shots :
           k[2] \in records[k[1]].files /\ k[2] \in DOMAIN records[k[1]].context}
Analysed == {id \in Sessions : records[id].status \in {"complete", "incomplete"}}

Custody == INSTANCE SnapshotCustody WITH
  Snapshots <- Sessions \X Shots,
  Runs <- Sessions,
  spool <- Spooled,
  kept <- Kept,
  analysed <- Analysed

\* Nothing leaves the spool of the service before it is in the record with its
\* context, and the spool is released only under a finished record.
SnapshotsAreFiled == Custody!Spec
=============================================================================
