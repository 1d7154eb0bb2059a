------------------------------ MODULE TimingEvents ------------------------------
(***************************************************************************)
(* The timing of the laser as an exposure records it                       *)
(* (euv_acquisition_controller.py): the laser publishes its timing again   *)
(* and again; the thread of the messages stores each state under a lock of *)
(* its own and, under the lock of the run, sets the rate the cadence of    *)
(* the captures expects and records what changed as events of the run; the *)
(* preinit opens that stream with the state stored so far, and the end of  *)
(* the exposure closes it.  The graph of the exposure is later computed    *)
(* from the events, so they must tell what the laser did.                  *)
(*                                                                         *)
(* A state of the laser is the two Booleans the events report.  The laser  *)
(* of this repository stamps every state it publishes; one without a stamp *)
(* would be no event, and is left out.                                     *)
(***************************************************************************)
EXTENDS Naturals, Sequences

\* Bounds: exposures, changes of the laser, pulses, states on their way.
CONSTANTS MaxExposures, MaxTurns, MaxReports, MaxOnWire

VARIABLES
  timing,   \* the laser: [triggers, transmitting]
  wire,     \* published, not yet delivered
  stored,   \* what the messages' thread stored last: [status, fresh]
  thread,   \* the messages' thread: [busy, status]
  exposure, \* [phase, rate, initial, last, closed, sequence, events, graph]
  count     \* [exposures, turns]

timingVars == <<timing, wire, stored, thread, exposure, count>>

-----------------------------------------------------------------------------
(* The stream of events.                                                    *)

Kinds == {"triggers", "transmitting"}
Statuses == [Kinds -> BOOLEAN]
NoStatus == [k \in Kinds |-> FALSE]
Unknown == [status |-> NoStatus, known |-> FALSE, fresh |-> FALSE]

\* A run as _can_start reserves it.
Reserved == [phase |-> "reserved", expected |-> FALSE, initial |-> FALSE,
             last |-> NoStatus, closed |-> FALSE, sequence |-> 0,
             events |-> <<>>, graph |-> FALSE]
Gone == [Reserved EXCEPT !.phase = "gone"]

Event(run, kind, value) ==
  [kind |-> kind, value |-> value, next |-> run.sequence + 1]
TimingEvent(run, kind, status) == <<Event(run, kind, status[kind])>>

Changed(run, kind, status) ==
  IF run.last[kind] # status[kind] THEN TimingEvent(run, kind, status) ELSE <<>>

\* The first state is recorded whole, of a later one what changed.
RecordedSlowly(run, status) ==
  IF ~run.initial
  THEN [run EXCEPT !.initial = TRUE,
          !.events = @ \o TimingEvent(run, "triggers", status)
                       \o TimingEvent(run, "transmitting", status)]
  ELSE [run EXCEPT !.last = status,
          !.events = @ \o Changed(run, "triggers", status)
                       \o Changed(run, "transmitting", status)]
Recorded(run, status) ==
  [run EXCEPT !.initial = TRUE, !.last = status,
     !.events = @ \o (IF ~run.initial
                      THEN TimingEvent(run, "triggers", status)
                             \o TimingEvent(run, "transmitting", status)
                      ELSE Changed(run, "triggers", status)
                             \o Changed(run, "transmitting", status))]

HasStream(run) == run.phase \in {"open", "finalizing", "releasing"}

Opened(run) ==
  LET started == [run EXCEPT !.phase = "open",
                             !.events = Append(@, Event(run, "start", TRUE))] IN
  IF stored.known THEN Recorded(started, stored.status) ELSE started

Closed(run) ==
  IF run.closed THEN run
  ELSE [run EXCEPT !.closed = TRUE, !.events = Append(@, Event(run, "end", TRUE))]

\* The rate is expected of a fresh state, while the run is not ending.
Expects(run, status) ==
  status["triggers"] /\ run.phase \notin {"finalizing", "releasing"}
Refreshed(run) ==
  [run EXCEPT !.expected = stored.fresh /\ Expects(run, stored.status)]

-----------------------------------------------------------------------------
(* The laser, and the thread of the messages.                               *)

LaserTurns ==
  /\ count.turns < MaxTurns
  /\ count' = [count EXCEPT !.turns = @ + 1]
  /\ timing' \in Statuses \ {timing}
  /\ UNCHANGED <<wire, stored, thread, exposure>>

PublishTiming ==
  /\ Len(wire) < MaxOnWire
  /\ wire' = Append(wire, timing)
  /\ UNCHANGED <<timing, stored, thread, exposure, count>>

\* _on_timing_status under the lock of the status, then under the run's.
StoreStatus ==
  /\ ~thread.busy /\ wire # <<>>
  /\ thread' = [busy |-> TRUE, status |-> Head(wire)]
  /\ stored' = [status |-> Head(wire), known |-> TRUE, fresh |-> TRUE]
  /\ wire' = Tail(wire)
  /\ UNCHANGED <<timing, exposure, count>>

Told(run, status) ==
  LET rated == [run EXCEPT !.expected = Expects(run, status)] IN
  IF HasStream(run) /\ ~run.closed THEN Recorded(rated, status) ELSE rated

TellRun ==
  /\ thread.busy
  /\ thread' = [thread EXCEPT !.busy = FALSE]
  /\ exposure' = IF exposure.phase = "gone" THEN exposure
                 ELSE Told(exposure, thread.status)
  /\ UNCHANGED <<timing, wire, stored, count>>

\* Nothing was stored for half a second.
StatusAges ==
  /\ stored.fresh
  /\ stored' = [stored EXCEPT !.fresh = FALSE]
  /\ UNCHANGED <<timing, wire, thread, exposure, count>>

-----------------------------------------------------------------------------
(* The run, each under its lock.                                            *)

Reserve ==
  /\ exposure.phase = "gone" /\ count.exposures < MaxExposures
  /\ count' = [count EXCEPT !.exposures = @ + 1]
  /\ exposure' = Reserved
  /\ UNCHANGED <<timing, wire, stored, thread>>

OpenStream ==
  /\ exposure.phase = "reserved"
  /\ exposure' = Opened(Refreshed(exposure))
  /\ UNCHANGED <<timing, wire, stored, thread, count>>

PublishCadence ==
  /\ exposure.phase # "gone"
  /\ exposure' = Refreshed(exposure)
  /\ UNCHANGED <<timing, wire, stored, thread, count>>

Report ==
  /\ exposure.phase \in {"open", "finalizing"} /\ exposure.sequence < MaxReports
  /\ exposure' = [exposure EXCEPT !.sequence = @ + 1]
  /\ UNCHANGED <<timing, wire, stored, thread, count>>

BeginStop ==
  /\ exposure.phase = "open"
  /\ exposure' = [exposure EXCEPT !.phase = "finalizing"]
  /\ UNCHANGED <<timing, wire, stored, thread, count>>

\* The graph is made if the events could be flushed in five seconds.
EndStop ==
  /\ exposure.phase = "finalizing"
  /\ \E flushed \in BOOLEAN :
       exposure' = [Closed(exposure) EXCEPT !.phase = "releasing", !.graph = flushed]
  /\ UNCHANGED <<timing, wire, stored, thread, count>>

\* A run is dropped before it opened, deferred, or released.
Drop ==
  /\ exposure.phase \in {"reserved", "open", "finalizing", "releasing"}
  /\ exposure' = IF exposure.phase = "reserved" THEN Gone
                 ELSE [Closed(exposure) EXCEPT !.phase = "gone"]
  /\ UNCHANGED <<timing, wire, stored, thread, count>>

-----------------------------------------------------------------------------
Init ==
  /\ timing \in Statuses
  /\ wire = <<>> /\ stored = Unknown
  /\ thread = [busy |-> FALSE, status |-> NoStatus]
  /\ exposure = Gone
  /\ count = [exposures |-> 0, turns |-> 0]

Next ==
  \/ LaserTurns \/ PublishTiming \/ StoreStatus \/ TellRun \/ StatusAges
  \/ Reserve \/ OpenStream \/ PublishCadence \/ Report
  \/ BeginStop \/ EndStop \/ Drop

Spec == Init /\ [][Next]_timingVars

-----------------------------------------------------------------------------
\* Where the events of a kind stand.
Places(kind) ==
  {k \in DOMAIN exposure.events : exposure.events[k].kind = kind}

\* The events of a run tell its timing: the stream starts once, ends at most
\* once and holds nothing after its end; each change is told once; and whenever
\* no message is being handled, the events of an open stream end at the state
\* that was received last, and no pulses are expected of a laser that said it
\* sends no triggers - although the state is stored and recorded under two
\* locks, and the stream may be opened between the two.
EventsTellTheTiming ==
  LET events == exposure.events
      open == HasStream(exposure) /\ ~exposure.closed IN
  /\ \A k \in DOMAIN events :
       /\ events[k].kind = "start" <=> k = 1
       /\ events[k].kind = "end" => k = Len(events)
       /\ k > 1 => events[k - 1].next <= events[k].next
  /\ \A kind \in Kinds : \A j, k \in Places(kind) :
       j < k /\ Places(kind) \cap (j + 1)..(k - 1) = {} =>
         events[j].value # events[k].value
  /\ open /\ stored.known /\ ~thread.busy =>
       \A kind \in Kinds : \E last \in Places(kind) :
         /\ \A k \in Places(kind) : k <= last
         /\ events[last].value = stored.status[kind]
  /\ exposure.phase \in {"reserved", "open"} /\ exposure.expected /\ ~thread.busy =>
       stored.status["triggers"]
=============================================================================
