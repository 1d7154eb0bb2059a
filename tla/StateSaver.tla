------------------------------ MODULE StateSaver ------------------------------
(***************************************************************************)
(* How the target controller (target_controller.py) keeps its motion       *)
(* profile and the laser controller (laser.py) its configuration over a    *)
(* restart: whoever changes the state asks a saver thread for a save       *)
(* through a queue, the saver takes the newest request and rewrites one    *)
(* file in place, closing waits for the queue to be empty and the saver to *)
(* be idle, and the next start loads the file or replaces it by defaults.  *)
(*                                                                         *)
(* The two differ where it matters.  The target encodes its state when it  *)
(* asks and closes through the queue; the laser encodes when it writes and *)
(* closes as soon as it finds the queue empty and nobody marked as saving. *)
(* The state is a number that grows with every change; 0 is the default.   *)
(* A file cut short is taken as one that cannot be decoded.                *)
(***************************************************************************)
EXTENDS Integers, Sequences, SequencesExt

\* The numbers of changes of the state, of requests to save it in a life of
\* the process, of failed or late writes and of starts after the first one.
CONSTANTS MaxChanges, MaxRequests, MaxFaults, MaxRestarts

Torn == -1
Nothing == -2

Requesters == {"handler", "thread", "main"}

VARIABLES
  owner,    \* "target" or "laser"
  live,     \* the state in memory
  held,     \* what a requester has encoded and not yet queued (target)
  queue,    \* __config_save_queue, of [op, payload]
  saver,    \* the place of the saver thread, and the payload it took
  saving,   \* __config_save_in_progress
  disk,     \* the file, Torn while it is being written
  closing,  \* the place of close()
  asked,    \* history: the state when close() asked for the last save
  newest,   \* history: the newest state queued in this life
  faulted,  \* history: in this life a write failed or a wait expired, or a
            \* request was queued behind one for a newer state
  requests, changes, faults, restarts

saverVars == <<owner, live, held, queue, saver, saving, disk, closing, asked,
               newest, faulted, requests, changes, faults, restarts>>

Idle == [at |-> "wait", payload |-> Nothing]

Init ==
  /\ owner \in {"target", "laser"}
  /\ live = 0 /\ disk = 0
  /\ held = [r \in Requesters |-> Nothing] /\ queue = <<>>
  /\ saver = Idle /\ saving = FALSE
  /\ closing = "open" /\ asked = Nothing /\ newest = Nothing /\ faulted = FALSE
  /\ requests = 0 /\ changes = 0 /\ faults = 0 /\ restarts = 0

Alive == closing # "closed"
Bookkeeping == <<owner, changes, restarts>>

-----------------------------------------------------------------------------
(* Those who change the state, and those who ask for a save.                *)

\* A handler sets a position, an offset, a profile or a phase; a motion runs.
Change ==
  /\ Alive /\ changes < MaxChanges
  /\ live' = live + 1 /\ changes' = changes + 1
  /\ UNCHANGED <<owner, held, queue, saver, saving, disk, closing, asked,
                 newest, faulted, requests, faults, restarts>>

MayAsk(r) == IF r = "main" THEN closing = "asking" ELSE Alive

Queued(op, payload) == Append(queue, [op |-> op, payload |-> payload])

\* The target encodes what it wants saved and then queues it; two threads
\* may do so one inside the other.
Encode(r) ==
  /\ owner = "target" /\ MayAsk(r) /\ requests < MaxRequests
  /\ held[r] = Nothing
  /\ held' = [held EXCEPT ![r] = live] /\ requests' = requests + 1
  /\ asked' = IF r = "main" THEN live ELSE asked
  /\ UNCHANGED <<live, queue, saver, saving, disk, closing, newest, faulted,
                 faults>>
  /\ UNCHANGED Bookkeeping

Put(r) ==
  /\ Alive /\ held[r] # Nothing
  /\ queue' = Queued("save", held[r]) /\ held' = [held EXCEPT ![r] = Nothing]
  /\ newest' = IF held[r] > newest THEN held[r] ELSE newest
  /\ faulted' = (faulted \/ held[r] < newest)
  /\ closing' = IF r = "main" THEN "waiting" ELSE closing
  /\ UNCHANGED <<live, saver, saving, disk, asked, requests, faults>>
  /\ UNCHANGED Bookkeeping

\* The laser only asks.
Ask(r) ==
  /\ owner = "laser" /\ MayAsk(r) /\ requests < MaxRequests
  /\ queue' = Queued("save", Nothing) /\ requests' = requests + 1
  /\ asked' = IF r = "main" THEN live ELSE asked
  /\ closing' = IF r = "main" THEN "waiting" ELSE closing
  /\ UNCHANGED <<live, held, saver, saving, disk, newest, faulted, faults>>
  /\ UNCHANGED Bookkeeping

RequestSave == \E r \in Requesters : Encode(r) \/ Put(r) \/ Ask(r)

-----------------------------------------------------------------------------
(* The saver thread (__config_saver_thread).                                *)

\* How many requests to save stand at the head of the queue.
Saves(q) ==
  LET other == {k \in DOMAIN q : q[k].op # "save"} IN
  IF other = {} THEN Len(q) ELSE Min(other) - 1

\* Mutant: the saver keeps the first request it took, not the newest.
CoalescedFirst(q) == Head(q).payload

\* It takes all of them and keeps the newest; a request of another kind it
\* meets goes back to the end of the queue.
Coalesced(q) == q[Saves(q)].payload
Remaining(q) ==
  LET rest == SubSeq(q, Saves(q) + 1, Len(q)) IN
  IF rest = <<>> THEN <<>> ELSE Append(Tail(rest), Head(rest))

TakeSaves ==
  /\ Alive /\ saver.at = "wait" /\ queue # <<>> /\ Head(queue).op = "save"
  /\ saver' = [at |-> "taken", payload |-> Coalesced(queue)]
  /\ queue' = Remaining(queue)
  /\ UNCHANGED <<live, held, saving, disk, closing, asked, newest, faulted,
                 requests, faults>>
  /\ UNCHANGED Bookkeeping

\* Only now does it say that it is saving.
BeginSave ==
  /\ Alive /\ saver.at = "taken"
  /\ saver' = [saver EXCEPT !.at = "saving"] /\ saving' = TRUE
  /\ UNCHANGED <<live, held, queue, disk, closing, asked, newest, faulted,
                 requests, faults>>
  /\ UNCHANGED Bookkeeping

OpenFile ==
  /\ Alive /\ saver.at = "saving"
  /\ saver' = [saver EXCEPT !.at = "writing"] /\ disk' = Torn
  /\ UNCHANGED <<live, held, queue, saving, closing, asked, newest, faulted,
                 requests, faults>>
  /\ UNCHANGED Bookkeeping

Written == IF owner = "target" THEN saver.payload ELSE live

WriteFile ==
  /\ Alive /\ saver.at = "writing"
  /\ disk' = Written /\ saver' = Idle /\ saving' = FALSE
  /\ UNCHANGED <<live, held, queue, closing, asked, newest, faulted, requests,
                 faults>>
  /\ UNCHANGED Bookkeeping

\* The record cannot be found, opened or written: this is only logged.
FailSave ==
  /\ Alive /\ saver.at \in {"saving", "writing"} /\ faults < MaxFaults
  /\ saver' = Idle /\ saving' = FALSE
  /\ faulted' = TRUE /\ faults' = faults + 1
  /\ UNCHANGED <<live, held, queue, disk, closing, asked, newest, requests>>
  /\ UNCHANGED Bookkeeping

CloseLibrary ==
  /\ Alive /\ saver.at = "wait" /\ queue # <<>> /\ Head(queue).op = "close"
  /\ saver' = [saver EXCEPT !.at = "ended"] /\ queue' = Tail(queue)
  /\ UNCHANGED <<live, held, saving, disk, closing, asked, newest, faulted,
                 requests, faults>>
  /\ UNCHANGED Bookkeeping

Saver ==
  TakeSaves \/ BeginSave \/ OpenFile \/ WriteFile \/ FailSave \/ CloseLibrary

-----------------------------------------------------------------------------
(* Closing and starting.                                                    *)

Close ==
  /\ closing = "open" /\ closing' = "asking"
  /\ UNCHANGED <<live, held, queue, saver, saving, disk, asked, newest,
                 faulted, requests, faults>>
  /\ UNCHANGED Bookkeeping

\* Nothing is queued and nobody says that it is saving.
Drained == queue = <<>> /\ ~saving

\* The wait ends, after two seconds in any case.  The target then has the
\* saver close its library; the laser ends the process.
EndWait ==
  /\ closing = "waiting"
  /\ \/ Drained /\ UNCHANGED <<faulted, faults>>
     \/ ~Drained /\ faults < MaxFaults /\ faulted' = TRUE /\ faults' = faults + 1
  /\ \/ /\ owner = "target" /\ closing' = "closing"
        /\ queue' = Queued("close", Nothing)
     \/ owner = "laser" /\ closing' = "closed" /\ UNCHANGED queue
  /\ UNCHANGED <<live, held, saver, saving, disk, asked, newest, requests>>
  /\ UNCHANGED Bookkeeping

\* The saver has answered, or three seconds have passed.
EndClose ==
  /\ closing = "closing" /\ closing' = "closed"
  /\ \/ saver.at = "ended" /\ UNCHANGED <<faulted, faults>>
     \/ /\ saver.at # "ended" /\ faults < MaxFaults
        /\ faulted' = TRUE /\ faults' = faults + 1
  /\ UNCHANGED <<live, held, queue, saver, saving, disk, asked, newest,
                 requests>>
  /\ UNCHANGED Bookkeeping

\* The process is killed.
Die ==
  /\ Alive /\ faults < MaxFaults
  /\ closing' = "closed" /\ faulted' = TRUE /\ faults' = faults + 1
  /\ UNCHANGED <<live, held, queue, saver, saving, disk, asked, newest,
                 requests>>
  /\ UNCHANGED Bookkeeping

\* A file that is missing or cannot be decoded is replaced by the defaults.
Loaded == IF disk = Torn THEN 0 ELSE disk

Start ==
  /\ ~Alive /\ restarts < MaxRestarts
  /\ live' = Loaded /\ disk' = Loaded
  /\ held' = [r \in Requesters |-> Nothing] /\ queue' = <<>>
  /\ saver' = Idle /\ saving' = FALSE /\ closing' = "open"
  /\ asked' = Nothing /\ newest' = Nothing /\ faulted' = FALSE
  /\ requests' = 0 /\ restarts' = restarts + 1
  /\ UNCHANGED <<owner, changes, faults>>

Next ==
  Change \/ RequestSave \/ Saver \/ Close \/ EndWait \/ EndClose \/ Die \/ Start

Spec == Init /\ [][Next]_saverVars

-----------------------------------------------------------------------------
(* What the saved state promises.                                           *)

\* The saver of the laser has a request in hand and has not yet said so.
Unannounced == owner = "laser" /\ saver.at = "taken"

\* A process that was closed in order leaves in its file a state no older than
\* the one it had when it was closed, whole, whatever was queued and being
\* written at that moment.  Excepted are a failed write, an expired wait and a
\* request queued behind one for a newer state, and for the laser closing
\* between the two steps of the saver that take a request and announce the save:
\* there the file is older, or half written when the process ends.
LastStateIsSaved ==
  [][Alive /\ closing' = "closed" /\ ~faulted' /\ ~Unannounced => disk >= asked]_saverVars

=============================================================================
