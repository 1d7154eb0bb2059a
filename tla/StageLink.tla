------------------------------- MODULE StageLink -------------------------------
(***************************************************************************)
(* The link between the sample motion subsystem and the stage service:     *)
(* StepperClient (subsystems/sample_motion.py) and the datagrams between   *)
(* them.  A command is sent once; the only acknowledgement is the number   *)
(* of the command the service received last, in every status report.       *)
(*                                                                         *)
(* Status reports come twenty times a second and are heard in order, any   *)
(* may be lost: what the client has heard may be old.  The report and its  *)
(* `__parse` are one step.                                                 *)
(***************************************************************************)
EXTENDS StageService, Sequences

VARIABLES
  link,    \* the connection state of the client
  heard,   \* positions, motion and home as last reported
  wire,    \* commands on the network
  cut,     \* nothing passes the network
  lost,    \* history: a command did not arrive, or a process started anew
  torn     \* history: a report named a command that had no effect yet

linkVars == <<link, heard, wire, cut, lost, torn>>

NewLink == [online |-> FALSE, next |-> 0, ack |-> -1, gone |-> -1, queue |-> <<>>]

NewHeard == [pos |-> [x \in Axes |-> 0], moving |-> [x \in Axes |-> FALSE],
             home |-> NoHome]

\* `__mark_offline_locked`: what was queued is never sent.
Offline(l) ==
  [l EXCEPT !.online = FALSE, !.queue = <<>>,
            !.gone = IF l.ack < l.next - 1 THEN l.next - 1 ELSE l.gone]

\* `__queue_command` for each of some commands, of a client that is online.
Queued(l, cs) ==
  [l EXCEPT !.next = @ + Len(cs),
            !.queue = @ \o [i \in DOMAIN cs |->
                             [name |-> cs[i].name, axis |-> cs[i].axis,
                              arg |-> cs[i].arg, seq |-> l.next + i - 1]]]

Flushed == link.queue = <<>>

\* `__raise_if_command_discarded`.
Discarded == link.next > 0 /\ link.next - 1 <= link.gone

\* What `wait_ack` and the other waits raise on.
Broken == ~link.online \/ Discarded

\* `wait_ack` returns.  Mutant: the flush is enough.
AckedOnceSent == Flushed

Acked == Flushed /\ link.ack >= link.next - 1

\* No datagram under way can still bring the acknowledgement.
Overdue == Flushed /\ wire = <<>> /\ inbox.seq < link.next - 1

---------------------------------------------------------------------------
(* `__send_data`: once, and nobody knows whether it arrived. *)

Send ==
  /\ link.online /\ link.queue # <<>>
  /\ link' = [link EXCEPT !.queue = Tail(@)]
  /\ IF cut THEN UNCHANGED wire /\ lost' = TRUE
     ELSE wire' = Append(wire, Head(link.queue)) /\ UNCHANGED lost
  /\ UNCHANGED <<heard, cut, torn>>

\* REQ_CONN, once a second while offline.
AskConnection ==
  /\ ~link.online /\ ~cut /\ ~inbox.known
  /\ inbox' = [inbox EXCEPT !.known = TRUE]
  /\ UNCHANGED <<axes, driver, tripped, slipped, linkVars>>

\* `_send_status_once`, and `__receive` at the client.
Hear ==
  /\ inbox.known /\ ~cut
  /\ link' = [link EXCEPT !.ack = inbox.seq, !.online = TRUE]
  /\ heard' = Report
  /\ UNCHANGED <<wire, cut, lost, torn>>

\* The service records the number of a command before the command takes
\* effect, and reports in between.
HearTorn ==
  /\ inbox.known /\ ~cut /\ wire # <<>>
  /\ link' = [link EXCEPT !.ack = Head(wire).seq, !.online = TRUE]
  /\ heard' = Report
  /\ torn' = TRUE
  /\ UNCHANGED <<wire, cut, lost>>

\* Fifteen seconds passed without a report.
LinkTimesOut ==
  /\ link.online /\ (cut \/ ~inbox.known)
  /\ link' = Offline(link)
  /\ lost' = (lost \/ Offline(link).gone # link.gone)
  /\ UNCHANGED <<heard, wire, cut, torn>>

---------------------------------------------------------------------------
(* The network. *)

\* The socket fails in a thread; a command taken before may go out after.
SocketFails ==
  /\ link.online
  /\ link' = Offline(link)
  /\ \/ UNCHANGED wire
     \/ link.queue # <<>> /\ ~cut /\ wire' = Append(wire, Head(link.queue))
  /\ lost' = (lost \/ Offline(link).gone # link.gone)
  /\ UNCHANGED <<heard, cut, torn>>

Arrive ==
  /\ wire # <<>> /\ Apply(Head(wire))
  /\ wire' = Tail(wire)
  /\ UNCHANGED <<link, heard, cut, lost, torn>>

LoseCommand ==
  /\ wire # <<>>
  /\ wire' = Tail(wire) /\ lost' = TRUE
  /\ UNCHANGED <<link, heard, cut, torn>>

\* Two commands under way change places.
Reorder ==
  /\ Len(wire) > 1
  /\ wire' = <<wire[2], wire[1]>> \o SubSeq(wire, 3, Len(wire))
  /\ lost' = TRUE
  /\ UNCHANGED <<link, heard, cut, torn>>

Cut ==
  /\ ~cut /\ cut' = TRUE
  /\ lost' = (lost \/ wire # <<>>)
  /\ wire' = <<>>
  /\ UNCHANGED <<link, heard, torn>>

Mend ==
  /\ cut /\ cut' = FALSE
  /\ UNCHANGED <<link, heard, wire, lost, torn>>

=============================================================================
