--------------------------- MODULE Records_proofs ---------------------------
(***************************************************************************)
(* Proofs about what is kept of an exposure, for all bounds.  Of the       *)
(* passive observer: no snapshot is lost on its way from the spool to the  *)
(* record (the refinement of SnapshotCustody), a record being captured can *)
(* be finished, and a complete one is of one whole exposure.  Of the       *)
(* cadence: what is shown is the count of all pulses, and can be decoded.  *)
(* Of the saved states: a process closed in order leaves its last one.  Of *)
(* the timing events: they tell the timing received.                       *)
(***************************************************************************)
EXTENDS Records, WellFoundedInduction, FiniteSetTheorems, SequenceTheorems, TLAPS

-----------------------------------------------------------------------------
(* The inductive invariants.                                                *)

\* Whose session it is: the service holds the one of the journal or none, and
\* the run in memory is that of the journal.
SessionInv ==
  /\ service.id \in {None, journal.id} /\ observer.id \in {None, journal.id}
  /\ service.id = None => service.shots = {} /\ ~service.active
  /\ pc \in {"undo", "recover", "adopt"} \cup Starting => observer.id = None
  /\ pc \in Finalizing => observer.id # None
  /\ pc \in (Finalizing \ {"mark", "stop", "clear"}) \cup {"prepare", "adopt"} =>
       service.id = journal.id /\ journal.id # None
  /\ pc \in Finalizing \ {"mark", "stop"} => ~service.active
  /\ pc \in {"begin", "launch", "clear"} => service.id = None
  /\ pc = "begin" => journal.id = None
  /\ pc = "launch" => journal.id # None

\* A record is new until its session was asked for and found ready.
RecordInv ==
  /\ \A id \in Sessions : records[id].status = "none" =>
       records[id].files = {} /\ DOMAIN records[id].context = {}
  /\ \A id \in Sessions : id > sessions => records[id].status = "none"
  /\ pc \in {"launch", "prepare"} => records[journal.id].status = "none"
  /\ journal.id <= sessions /\ \A id \in past.cut : id <= sessions
  /\ \A t \in past.taken : t[1] <= sessions
  /\ observer.id # None => records[observer.id].status # "none"
  /\ pc \in {"release", "clear"} =>
       records[observer.id].status \in {"complete", "incomplete"}

\* What is in a record was spooled, the file first; between the steps of an
\* import the snapshot is the one that waits.
CustodyInv ==
  /\ \A id \in Sessions : DOMAIN records[id].context \subseteq records[id].files
  /\ service.id # None => records[service.id].files \subseteq service.shots
  /\ pc \in {"context", "acknowledge"} => Waiting # {} /\ NextShot \in Record.files
  /\ pc = "acknowledge" => NextShot \in DOMAIN Record.context
  /\ pc \in {"describe", "release"} => Waiting = {}

\* A session that its source ended was never stopped on request.
CutInv ==
  /\ service.active => /\ ~service.asked /\ service.id \notin past.cut
                       /\ records[service.id].status # "complete"
  /\ service.asked => service.id \notin past.cut
  /\ pc = "launch" => journal.id \notin past.cut
  /\ \A id \in Sessions : records[id].status = "complete" => id \notin past.cut

\* A run is over when its exposure, or a later one, is seen.
Over(e, r) == e.run > r \/ (e.run = r /\ e.phase = "STOPPED")
Ended(r) == Over(exposure, r)
StopIsPending(r) ==
  \E k \in DOMAIN events : events[k] = [run |-> r, phase |-> "STOPPED"]

\* An observer that runs hears of everything in order.
EventsInv ==
  /\ \A k \in DOMAIN events : /\ events[k].run <= exposure.run
                              /\ events[k].phase = "STOPPED" => Ended(events[k].run)
  /\ \A k, l \in DOMAIN events : k <= l => events[k].run <= events[l].run
  /\ pc # "down" =>
       \A k \in DOMAIN events : events[k].phase # "STOPPED" /\ Ended(events[k].run) =>
         \E l \in DOMAIN events :
           k < l /\ events[l] = [run |-> events[k].run, phase |-> "STOPPED"]

\* What is known of an exposure between its PREINIT and its STOPPED.
Followed(r) ==
  /\ r <= exposure.run
  /\ \A k \in DOMAIN events : r <= events[k].run

\* The run that a start is on its way to.
TargetInv ==
  pc \in Starting \/ (then = "start" /\ pc \in Recovering \cup Finalizing) =>
    Followed(target) /\ (Ended(target) => StopIsPending(target))

\* What is begun by close ends with the process, and is remembered as such.
ClosingInv ==
  then = "down" => pc = "down" \/ (pc \in Finalizing /\ observer.id \in past.early)

Unharmed == journal.id # None /\ journal.id \notin past.hurt \cup past.early

\* The session of the journal, unless a step failed or the observer was closed
\* in it, is of one exposure, and ends after it.
JournalIsWhole ==
  Unharmed =>
    /\ \A t \in past.taken : t[1] = journal.id => t[2] = journal.run
    /\ \/ pc \in {"launch", "prepare"} /\ journal.run = target
       \/ /\ observer.id = journal.id /\ pc \in {"idle"} \cup Finalizing
          /\ records[journal.id].run = journal.run
          /\ Followed(journal.run)
          /\ pc = "idle" /\ service.active /\ Ended(journal.run) =>
               StopIsPending(journal.run)
          /\ pc \in Finalizing => Ended(journal.run)

RecordsAreWhole ==
  \A id \in Sessions : records[id].status = "complete" =>
    \/ id \in past.hurt \cup past.early
    \/ /\ \A t \in past.taken : t[1] = id => t[2] = records[id].run
       /\ Ended(records[id].run)

\* An open record is the one of the session that the service holds and the
\* journal names.
CapturingIsHeld ==
  \A id \in Sessions :
    records[id].status = "capturing" => service.id = id /\ journal.id = id

ObserverInv ==
  /\ TypeOK /\ SessionInv /\ RecordInv /\ CapturingIsHeld /\ CustodyInv
  /\ CutInv /\ EventsInv /\ TargetInv /\ ClosingInv /\ JournalIsWhole /\ RecordsAreWhole

-----------------------------------------------------------------------------
(* Types.                                                                   *)

LEMMA RaisedIsAStep == Raised \in {"undo", "down", "idle"}
BY DEF Raised

LEMMA PastTypes ==
  ASSUME NEW p \in Pasts, NEW T \in SUBSET (Ids \X Runs), NEW I \in SUBSET Ids
  PROVE  /\ [p EXCEPT !.taken = @ \cup T] \in Pasts
         /\ [p EXCEPT !.cut = @ \cup I] \in Pasts
         /\ [p EXCEPT !.early = @ \cup I] \in Pasts
         /\ [p EXCEPT !.hurt = @ \cup I] \in Pasts
         /\ [p EXCEPT !.torn = @ \cup I] \in Pasts
<1>1. [p EXCEPT !.taken = @ \cup T] \in Pasts
  BY DEF Pasts
<1>2. [p EXCEPT !.cut = @ \cup I] \in Pasts
  BY DEF Pasts
<1>3. [p EXCEPT !.early = @ \cup I] \in Pasts
  BY DEF Pasts
<1>4. [p EXCEPT !.hurt = @ \cup I] \in Pasts
  BY DEF Pasts
<1>5. [p EXCEPT !.torn = @ \cup I] \in Pasts
  BY DEF Pasts
<1> QED
  BY <1>1, <1>2, <1>3, <1>4, <1>5

LEMMA LeadsTypes ==
  ASSUME NEW next \in Steps, TypeOK,
         \/ pc' = next /\ UNCHANGED <<faults, past>>
         \/ /\ faults < MaxFaults /\ pc' = Raised /\ faults' = faults + 1
            /\ past' = [past EXCEPT !.hurt = @ \cup {journal.id}]
  PROVE  pc' \in Steps /\ faults' \in 0..MaxFaults /\ past' \in Pasts
<1>1. CASE pc' = next /\ UNCHANGED <<faults, past>>
  BY <1>1 DEF TypeOK
<1>2. CASE /\ faults < MaxFaults /\ pc' = Raised /\ faults' = faults + 1
           /\ past' = [past EXCEPT !.hurt = @ \cup {journal.id}]
  <2>1. pc' \in Steps
    BY <1>2, RaisedIsAStep DEF Steps
  <2>2. faults' \in 0..MaxFaults
    BY <1>2, BoundsAssumption DEF TypeOK
  <2>3. past' \in Pasts
    BY <1>2 DEF TypeOK, Pasts, Journals
  <2> QED
    BY <2>1, <2>2, <2>3
<1> QED
  BY <1>1, <1>2

LEMMA EnvironmentTypes ==
  ASSUME TypeOK, ExposureMoves \/ ShotTaken \/ SourceStops
  PROVE  TypeOK'
<1>1. CASE ExposureMoves
  <2>1. exposure' \in Exposures
    BY <1>1, BoundsAssumption DEF ExposureMoves, Publish, TypeOK, Exposures, Runs
  <2>2. events' = events \/ events' = Append(events, exposure')
    BY <1>1 DEF ExposureMoves, Publish
  <2>3. events' \in Seq(Exposures)
    BY <2>1, <2>2 DEF TypeOK
  <2> QED
    BY <1>1, <2>1, <2>3 DEF ExposureMoves, TypeOK
<1>2. CASE ShotTaken
  <2>1. service' \in Services /\ service'.acked \subseteq service'.shots
    BY <1>2 DEF ShotTaken, TypeOK, Services
  <2>2. observer' \in Observers
    BY <1>2 DEF ShotTaken, TypeOK, Observers
  <2>3. past' \in Pasts
    <3>1. service.id \in Ids /\ exposure.run \in Runs /\ past \in Pasts
      BY DEF TypeOK, Services, Exposures
    <3>2. {<<service.id, exposure.run>>} \in SUBSET (Ids \X Runs)
      BY <3>1
    <3>3. past' = [past EXCEPT !.taken = @ \cup {<<service.id, exposure.run>>}]
      BY <1>2 DEF ShotTaken
    <3> QED
      BY <3>1, <3>2, <3>3, PastTypes
  <2> QED
    BY <1>2, <2>1, <2>2, <2>3 DEF ShotTaken, TypeOK
<1>3. CASE SourceStops
  <2>1. service' \in Services /\ service'.acked \subseteq service'.shots
    BY <1>3 DEF SourceStops, TypeOK, Services
  <2>2. past' \in Pasts
    BY <1>3 DEF SourceStops, TypeOK, Pasts, Services
  <2> QED
    BY <1>3, <2>1, <2>2 DEF SourceStops, TypeOK
<1> QED
  BY <1>1, <1>2, <1>3

\* A step that leads somewhere, whatever its effect is.
LEMMA LeadsIsTyped ==
  ASSUME NEW next \in Steps, NEW ACTION effect, NEW ACTION unchanged, TypeOK,
         Leads(effect, unchanged, next)
  PROVE  /\ pc' \in Steps /\ faults' \in 0..MaxFaults /\ past' \in Pasts
         /\ effect \/ unchanged
<1>1. \/ pc' = next /\ UNCHANGED <<faults, past>>
      \/ /\ faults < MaxFaults /\ pc' = Raised /\ faults' = faults + 1
         /\ past' = [past EXCEPT !.hurt = @ \cup {journal.id}]
  BY DEF Leads
<1>2. effect \/ unchanged
  BY DEF Leads
<1> QED
  BY <1>1, <1>2, LeadsTypes

LEMMA RefusedIsTyped ==
  ASSUME TypeOK, Refused
  PROVE  pc' \in Steps /\ faults' \in 0..MaxFaults /\ past' \in Pasts
BY RaisedIsAStep DEF Refused, TypeOK, Steps

\* The values the steps write.

LEMMA Values ==
  /\ NoSession \in Services /\ NoJournal \in Journals /\ NoRecord \in Records
  /\ NoRun \in Observers
  /\ \A id \in Ids : /\ Opened(id) \in Services /\ Opened(id).acked \subseteq Opened(id).shots
                     /\ Opened(id).id = id /\ Opened(id).active /\ ~Opened(id).asked
                     /\ Opened(id).shots = {}
  /\ \A record \in Records, r \in Runs :
       /\ Prepared(record, r) \in Records
       /\ record.status = "none" =>
            /\ Prepared(record, r).run = r /\ Prepared(record, r).status = "capturing"
            /\ Prepared(record, r).files = {} /\ DOMAIN Prepared(record, r).context = {}
       /\ record.status # "none" => Prepared(record, r) = record
<1>1. NoSession \in Services /\ NoJournal \in Journals /\ NoRun \in Observers
  BY BoundsAssumption DEF NoSession, Services, NoJournal, Journals, NoRun, Observers,
    Ids, Runs, None
<1>2. <<>> \in Contexts /\ DOMAIN <<>> = {}
  <2>1. DOMAIN <<>> = {}
    OBVIOUS
  <2>2. <<>> \in [{} -> {"timed", "unknown"}]
    OBVIOUS
  <2> QED
    BY <2>1, <2>2 DEF Contexts
<1>3. NoRecord \in Records
  BY <1>2, BoundsAssumption DEF NoRecord, Records, Runs, None
<1>4. \A id \in Ids : /\ Opened(id) \in Services /\ Opened(id).acked \subseteq Opened(id).shots
                      /\ Opened(id).id = id /\ Opened(id).active /\ ~Opened(id).asked
                      /\ Opened(id).shots = {}
  BY DEF Opened, NoSession, Services
<1>5. ASSUME NEW record \in Records, NEW r \in Runs
      PROVE  /\ Prepared(record, r) \in Records
             /\ record.status = "none" =>
                  /\ Prepared(record, r).run = r /\ Prepared(record, r).status = "capturing"
                  /\ Prepared(record, r).files = {} /\ DOMAIN Prepared(record, r).context = {}
             /\ record.status # "none" => Prepared(record, r) = record
  BY <1>2, <1>3 DEF Prepared, NoRecord, Records
<1> QED
  BY <1>1, <1>3, <1>4, <1>5

LEMMA StartTypes ==
  ASSUME TypeOK, Handle \/ StartStep
  PROVE  TypeOK'
<1>1. CASE Handle
  <2>1. events # <<>> /\ events' = Tail(events) /\ Head(events) \in Exposures
    BY <1>1 DEF Handle, PreinitIgnored, PreinitStarts, RunningSeen, StoppedSeen, Idle,
      Taken, TypeOK
  <2>2. events' \in Seq(Exposures)
    BY <2>1 DEF TypeOK
  <2>3. pc' \in Steps /\ then' \in {"idle", "start", "down"} /\ target' \in Runs
    BY <1>1, <2>1 DEF Handle, PreinitIgnored, PreinitStarts, RunningSeen, StoppedSeen,
      TypeOK, Steps, Starting, Recovering, Finalizing, Exposures
  <2> QED
    BY <1>1, <2>2, <2>3 DEF Handle, PreinitIgnored, PreinitStarts, RunningSeen, StoppedSeen,
      TypeOK
<1>2. CASE Begin
  <2>1. journal' \in Journals /\ sessions' \in 0..MaxSessions /\ pc' \in Steps
    BY <1>2, BoundsAssumption
       DEF Begin, TypeOK, Journals, Ids, Steps, Starting
  <2> QED
    BY <1>2, <2>1 DEF Begin, TypeOK
<1>3. CASE Launch
  <2>1. service' \in Services /\ service'.acked \subseteq service'.shots
    BY <1>3, LeadsIsTyped, Values DEF Launch, Leads, TypeOK, Journals
  <2>2. pc' \in Steps /\ faults' \in 0..MaxFaults /\ past' \in Pasts
    BY <1>3, LeadsIsTyped, RefusedIsTyped DEF Launch, Steps, Starting
  <2> QED
    BY <1>3, <2>1, <2>2 DEF Launch, TypeOK
<1>4. CASE Prepare
  <2>1. records' \in [Sessions -> Records]
    BY <1>4, Values DEF Prepare, Leads, TypeOK
  <2>2. pc' \in Steps /\ faults' \in 0..MaxFaults /\ past' \in Pasts
    BY <1>4, LeadsIsTyped DEF Prepare, Steps
  <2>3. observer' \in Observers
    BY <1>4 DEF Prepare, NoRun, TypeOK, Observers, Journals
  <2> QED
    BY <1>4, <2>1, <2>2, <2>3 DEF Prepare, TypeOK
<1>5. CASE Undo
  <2>1. service' \in Services /\ service'.acked \subseteq service'.shots
    <3>1. service' = service \/ service' = [service EXCEPT !.active = FALSE]
      BY <1>5 DEF Undo
    <3> QED
      BY <3>1 DEF TypeOK, Services
  <2>3. past' \in Pasts
    <3>1. past' = past \/ past' = [past EXCEPT !.cut = @ \cup {service.id}]
      BY <1>5 DEF Undo
    <3> QED
      BY <3>1 DEF TypeOK, Pasts, Services
  <2>2. journal' \in Journals /\ pc' \in Steps
    BY <1>5, Values DEF Undo, TypeOK, Steps
  <2> QED
    BY <1>5, <2>1, <2>2, <2>3 DEF Undo, TypeOK
<1> QED
  BY <1>1, <1>2, <1>3, <1>4, <1>5 DEF StartStep

LEMMA RecoverTypes ==
  ASSUME TypeOK, RecoverStep \/ Close \/ Killed \/ Restart
  PROVE  TypeOK'
<1>1. CASE Recover
  <2>1. pc' \in Steps /\ faults' \in 0..MaxFaults /\ past' \in Pasts
    BY <1>1, LeadsIsTyped, RefusedIsTyped DEF Recover, Steps, Recovering, TypeOK
  <2> QED
    BY <1>1, <2>1 DEF Recover, TypeOK
<1>2. CASE Adopt
  <2>1. records' \in [Sessions -> Records]
    <3>1. journal.run \in Runs
      BY DEF TypeOK, Journals
    <3> QED
      BY <1>2, <3>1, Values DEF Adopt, Leads, TypeOK
  <2>2. pc' \in Steps /\ faults' \in 0..MaxFaults /\ past' \in Pasts
    BY <1>2, LeadsIsTyped DEF Adopt, Steps, Finalizing
  <2>3. observer' \in Observers
    BY <1>2 DEF Adopt, TypeOK, Observers, Journals
  <2> QED
    BY <1>2, <2>1, <2>2, <2>3 DEF Adopt, TypeOK
<1>3. CASE Close
  <2>1. past' \in Pasts
    <3>1. observer.id \in Ids /\ past \in Pasts
      BY DEF TypeOK, Observers
    <3> QED
      BY <1>3, <3>1, PastTypes DEF Close
  <2>2. faults' \in 0..MaxFaults
    BY <1>3, BoundsAssumption DEF Close, TypeOK
  <2> QED
    BY <1>3, <2>1, <2>2 DEF Close, TypeOK, Steps, Finalizing
<1>4. CASE Killed
  <2>1. past' \in Pasts
    <3>1. journal.id \in Ids /\ past \in Pasts
      BY DEF TypeOK, Journals
    <3> QED
      BY <1>4, <3>1, PastTypes DEF Killed
  <2>2. faults' \in 0..MaxFaults
    BY <1>4, BoundsAssumption DEF Killed, TypeOK
  <2> QED
    BY <1>4, <2>1, <2>2 DEF Killed, TypeOK, Steps
<1>5. CASE Restart
  <2>1. events' \in Seq(Exposures)
    BY <1>5 DEF Restart, TypeOK
  <2>2. past' \in Pasts
    BY <1>5 DEF Restart, TypeOK, Pasts, Sessions, Ids
  <2> QED
    BY <1>5, <2>1, <2>2, Values DEF Restart, TypeOK, Steps, Recovering
<1> QED
  BY <1>1, <1>2, <1>3, <1>4, <1>5 DEF RecoverStep

\* Every set of natural numbers that is not empty has a least one.
LEMMA LeastExists ==
  ASSUME NEW T, T \subseteq Nat, T # {}
  PROVE  \E x \in T : \A y \in T : x <= y
<1> DEFINE R == OpToRel(<, Nat)
<1>1. IsWellFoundedOn(R, Nat)
  BY NatLessThanWellFounded
<1>2. PICK x \in T : \A y \in T : <<y, x>> \notin R
  <2> HIDE DEF R
  <2> QED BY <1>1, WFMin
<1>3. \A y \in T : ~(y < x)
  BY <1>2 DEF OpToRel
<1> QED BY <1>3

\* The snapshot that waits longest.
LEMMA NextShotWaits ==
  ASSUME TypeOK, Waiting # {}
  PROVE  NextShot \in Waiting
<1>1. Waiting \in SUBSET Nat
  BY BoundsAssumption DEF Waiting, TypeOK, Services, Shots
<1>2. \E s \in Waiting : \A other \in Waiting : s <= other
  BY <1>1, LeastExists
<1> QED
  BY <1>2 DEF NextShot

\* What an import writes into the record of its session.

LEMMA ContextTypes ==
  ASSUME NEW context \in Contexts, NEW s \in Shots, NEW e \in {"timed", "unknown"}
  PROVE  [t \in DOMAIN context \cup {s} |-> IF t = s THEN e ELSE context[t]] \in Contexts
<1> DEFINE items == DOMAIN context \cup {s}
<1>1. items \in SUBSET Shots /\ \A t \in DOMAIN context : context[t] \in {"timed", "unknown"}
  BY DEF Contexts
<1>2. [t \in items |-> IF t = s THEN e ELSE context[t]] \in [items -> {"timed", "unknown"}]
  BY <1>1
<1> QED
  BY <1>1, <1>2 DEF Contexts

LEMMA FinalizeTypes ==
  ASSUME TypeOK, FinalizeStep, pc \in {"context", "acknowledge"} => Waiting # {}
  PROVE  TypeOK'
<1>1. CASE Mark
  <2>1. pc' \in Steps /\ faults' \in 0..MaxFaults /\ past' \in Pasts
    <3>1. CASE observer.stopped
      BY <1>1, <3>1 DEF Mark, Steps, Finalizing, TypeOK
    <3>2. CASE ~observer.stopped
      BY <1>1, <3>2, LeadsIsTyped DEF Mark, Steps, Finalizing
    <3> QED
      BY <3>1, <3>2
  <2>2. journal' \in Journals /\ observer' \in Observers
    BY <1>1 DEF Mark, Leads, TypeOK, Journals, Observers
  <2> QED
    BY <1>1, <2>1, <2>2 DEF Mark, TypeOK
<1>2. CASE Stop
  <2>1. pc' \in Steps /\ faults' \in 0..MaxFaults /\ past' \in Pasts
    BY <1>2, LeadsIsTyped, RefusedIsTyped DEF Stop, Steps, Finalizing
  <2>2. service' \in Services /\ service'.acked \subseteq service'.shots
    BY <1>2 DEF Stop, Leads, TypeOK, Services
  <2> QED
    BY <1>2, <2>1, <2>2 DEF Stop, TypeOK
<1>3. CASE Import
  <2>1. pc' \in Steps /\ faults' \in 0..MaxFaults /\ past' \in Pasts
    BY <1>3, LeadsIsTyped DEF Import, BeforeAcknowledge, Steps, Finalizing, TypeOK
  <2>2. Waiting # {} => NextShot \in Shots
    BY NextShotWaits DEF Waiting, TypeOK, Services
  <2>3. records' \in [Sessions -> Records]
    <3>1. \/ UNCHANGED records
          \/ /\ Waiting # {}
             /\ records' = [records EXCEPT ![observer.id].files = @ \cup {NextShot}]
      BY <1>3 DEF Import, Leads
    <3> QED
      BY <2>2, <3>1 DEF TypeOK, Records
  <2> QED
    BY <1>3, <2>1, <2>3 DEF Import, TypeOK
<1>4. CASE Context
  <2>1. pc' \in Steps /\ faults' \in 0..MaxFaults /\ past' \in Pasts
    BY <1>4, LeadsIsTyped, RefusedIsTyped DEF Context, Steps, Finalizing
  <2>2. NextShot \in Shots
    BY <1>4, NextShotWaits DEF Context, Waiting, TypeOK, Services
  <2>3. records' \in [Sessions -> Records]
    <3>1. Evidence(NextShot) \in {"timed", "unknown"}
      BY DEF Evidence
    <3>2. \A id \in Sessions : records[id].context \in Contexts
      BY DEF TypeOK, Records
    <3>3. \A id \in Sessions :
            [t \in DOMAIN records[id].context \cup {NextShot} |->
               IF t = NextShot THEN Evidence(NextShot) ELSE records[id].context[t]] \in Contexts
      BY <2>2, <3>1, <3>2, ContextTypes
    <3>4. \/ UNCHANGED records
          \/ records' = [records EXCEPT ![observer.id].context =
                [t \in DOMAIN @ \cup {NextShot} |->
                   IF t = NextShot THEN Evidence(NextShot) ELSE @[t]]]
      BY <1>4 DEF Context, Leads
    <3>5. CASE observer.id \in Sessions /\ ~UNCHANGED records
      <4> DEFINE new == [t \in DOMAIN records[observer.id].context \cup {NextShot} |->
               IF t = NextShot THEN Evidence(NextShot) ELSE records[observer.id].context[t]]
      <4>1. records' = [records EXCEPT ![observer.id].context = new]
        BY <3>4, <3>5
      <4>2. new \in Contexts
        BY <3>3, <3>5
      <4> HIDE DEF new
      <4>3. records \in [Sessions -> Records]
        BY DEF TypeOK
      <4>4. [records[observer.id] EXCEPT !.context = new] \in Records
        BY <3>5, <4>2, <4>3 DEF Records
      <4> QED
        BY <3>5, <4>1, <4>3, <4>4
    <3>6. CASE observer.id \notin Sessions
      <4>1. UNCHANGED records
        BY <3>4, <3>6 DEF TypeOK
      <4> QED
        BY <4>1 DEF TypeOK
    <3> QED
      BY <3>5, <3>6 DEF TypeOK
  <2> QED
    BY <1>4, <2>1, <2>3 DEF Context, TypeOK
<1>5. CASE Acknowledge
  <2>1. pc' \in Steps /\ faults' \in 0..MaxFaults /\ past' \in Pasts
    BY <1>5, LeadsIsTyped DEF Acknowledge, Steps, Finalizing
  <2>2. NextShot \in Waiting
    BY <1>5, NextShotWaits DEF Acknowledge
  <2>3. service' \in Services /\ service'.acked \subseteq service'.shots
    BY <1>5, <2>2 DEF Acknowledge, Leads, Waiting, TypeOK, Services
  <2> QED
    BY <1>5, <2>1, <2>3 DEF Acknowledge, TypeOK
<1>6. CASE Describe
  <2>1. pc' \in Steps /\ faults' \in 0..MaxFaults /\ past' \in Pasts
    BY <1>6, LeadsIsTyped DEF Describe, Steps, Finalizing
  <2>2. records' \in [Sessions -> Records]
    <3>1. \/ UNCHANGED records
          \/ records' = [records EXCEPT ![observer.id].status = Outcome]
      BY <1>6 DEF Describe, Leads
    <3> QED
      BY <3>1 DEF Outcome, TypeOK, Records
  <2> QED
    BY <1>6, <2>1, <2>2 DEF Describe, TypeOK
<1>7. CASE Release
  <2>1. pc' \in Steps /\ faults' \in 0..MaxFaults /\ past' \in Pasts
    BY <1>7, LeadsIsTyped DEF Release, Steps, Finalizing
  <2>2. service' \in Services /\ service'.acked \subseteq service'.shots
    <3>1. service' = service \/ service' = NoSession
      BY <1>7 DEF Release, Leads
    <3>2. NoSession \in Services /\ NoSession.acked \subseteq NoSession.shots
      BY Values DEF NoSession
    <3> QED
      BY <3>1, <3>2 DEF TypeOK
  <2> QED
    BY <1>7, <2>1, <2>2 DEF Release, TypeOK
<1>8. CASE Clear
  <2>1. pc' \in Steps
    BY <1>8, RaisedIsAStep DEF Clear, GoesOn, Steps, Starting
  <2> QED
    BY <1>8, <2>1, Values DEF Clear, TypeOK
<1> QED
  BY <1>1, <1>2, <1>3, <1>4, <1>5, <1>6, <1>7, <1>8 DEF FinalizeStep

-----------------------------------------------------------------------------
(* Whose session it is.                                                     *)

LEMMA SessionKeeps ==
  ASSUME ObserverInv, Next
  PROVE  SessionInv'
<1> USE BoundsAssumption DEF ObserverInv, SessionInv, TypeOK, Services, Journals, Observers,
    Ids, None, Starting, Recovering, Finalizing
<1>1. CASE ExposureMoves
  BY <1>1 DEF ExposureMoves, Publish
<1>2. CASE ShotTaken
  BY <1>2 DEF ShotTaken
<1>3. CASE SourceStops
  BY <1>3 DEF SourceStops
<1>4. CASE PreinitIgnored
  BY <1>4 DEF PreinitIgnored
<1>5. CASE PreinitStarts
  BY <1>5 DEF PreinitStarts
<1>6. CASE RunningSeen
  BY <1>6 DEF RunningSeen
<1>7. CASE StoppedSeen
  BY <1>7 DEF StoppedSeen
<1>8. CASE Begin
  BY <1>8 DEF Begin
<1>9. CASE Launch
  <2>1. /\ service' \in {service, Opened(journal.id)} /\ pc' \in {"prepare", "undo"}
        /\ pc' = "prepare" => service' = Opened(journal.id)
        /\ UNCHANGED <<journal, observer>>
    BY <1>9 DEF Launch, Leads, Refused, Raised, Starting
  <2>2. journal.id \in Ids /\ journal.id # None /\ observer.id = None /\ service.id = None
    BY <1>9 DEF Launch, TypeOK, Journals, Starting
  <2> QED
    BY <2>1, <2>2, Values DEF TypeOK, Services, Starting, Finalizing
<1>10. CASE Prepare
  BY <1>10 DEF Prepare, Leads, Raised, NoRun
<1>11. CASE Undo
  BY <1>11 DEF Undo, MayForget, NoJournal
<1>12. CASE Recover
  BY <1>12 DEF Recover, Leads, Refused, Raised
<1>13. CASE Adopt
  BY <1>13 DEF Adopt, Leads, Raised
<1>14. CASE Mark
  BY <1>14 DEF Mark, Leads, Raised
<1>15. CASE Stop
  BY <1>15 DEF Stop, Leads, Refused, Raised
<1>16. CASE Import
  BY <1>16 DEF Import, Leads, Raised, BeforeAcknowledge
<1>17. CASE Context
  BY <1>17 DEF Context, Leads, Refused, Raised
<1>18. CASE Acknowledge
  BY <1>18 DEF Acknowledge, Leads, Raised
<1>19. CASE Describe
  BY <1>19 DEF Describe, Leads, Raised
<1>20. CASE Release
  BY <1>20 DEF Release, Leads, Raised, NoSession
<1>21. CASE Clear
  BY <1>21 DEF Clear, GoesOn, Raised, NoJournal, NoRun
<1>22. CASE Close
  BY <1>22 DEF Close
<1>23. CASE Killed
  BY <1>23 DEF Killed
<1>24. CASE Restart
  BY <1>24 DEF Restart, NoRun
<1> QED
  BY <1>1, <1>2, <1>3, <1>4, <1>5, <1>6, <1>7, <1>8, <1>9, <1>10, <1>11,
     <1>12, <1>13, <1>14, <1>15, <1>16, <1>17, <1>18, <1>19, <1>20, <1>21,
     <1>22, <1>23, <1>24
     DEF Next, Handle, StartStep, RecoverStep, FinalizeStep

-----------------------------------------------------------------------------
(* What the steps that write records do, in full and when they raise.       *)

LEMMA LeadsDoes ==
  ASSUME NEW next, NEW ACTION effect, NEW ACTION unchanged, TypeOK,
         Leads(effect, unchanged, next)
  PROVE  \/ effect /\ pc' = next /\ past' = past /\ faults' = faults
         \/ /\ effect \/ unchanged
            /\ pc' = Raised /\ faults' # faults
            /\ journal.id \in past'.hurt
BY DEF Leads, TypeOK, Pasts

\* A step that leads somewhere adds to the history only that it was hurt.

LEMMA LeadsKeepsPast ==
  ASSUME NEW next, NEW ACTION effect, NEW ACTION unchanged, TypeOK,
         Leads(effect, unchanged, next) \/ Refused
  PROVE  /\ past'.taken = past.taken /\ past'.cut = past.cut
         /\ past'.early = past.early /\ past.hurt \subseteq past'.hurt
<1>1. past' = past \/ past' = [past EXCEPT !.hurt = @ \cup {journal.id}]
  BY DEF Leads, Refused
<1> QED
  BY <1>1 DEF TypeOK, Pasts

LEMMA SessionOfJournal ==
  ASSUME TypeOK, SessionInv
  PROVE  /\ journal.id # None => journal.id \in Sessions
         /\ service.id # None => service.id \in Sessions
         /\ observer.id # None => observer.id \in Sessions
         /\ pc \in Finalizing => observer.id \in Sessions /\ journal.id = observer.id
         /\ pc \in {"launch", "prepare", "adopt"} => journal.id \in Sessions
BY BoundsAssumption DEF TypeOK, SessionInv, Journals, Ids, None, Sessions, Starting, Finalizing

LEMMA PrepareDoes ==
  ASSUME TypeOK, SessionInv, Prepare
  PROVE  /\ journal.id \in Sessions
         /\ \A id \in Sessions \ {journal.id} : records'[id] = records[id]
         /\ \/ /\ pc' = "idle" /\ past' = past
               /\ records'[journal.id] = Prepared(records[journal.id], target)
               /\ observer'.id = journal.id /\ observer'.run = target
            \/ /\ pc' = "undo" /\ journal.id \in past'.hurt /\ observer' = observer
               /\ records'[journal.id] \in
                    {records[journal.id], Prepared(records[journal.id], target)}
<1>1. journal.id \in Sessions /\ Raised = "undo"
  BY SessionOfJournal DEF Prepare, Raised, Finalizing
<1>2. \/ records' = records
      \/ records' = [records EXCEPT ![journal.id] = Prepared(@, target)]
  BY DEF Prepare, Leads
<1>3. CASE pc' = "idle"
  <2>1. records' = [records EXCEPT ![journal.id] = Prepared(@, target)] /\ past' = past
    BY <1>1, <1>3 DEF Prepare, Leads
  <2>2. observer'.id = journal.id /\ observer'.run = target
    BY <1>3 DEF Prepare, NoRun
  <2> QED
    BY <1>1, <1>3, <2>1, <2>2 DEF TypeOK
<1>4. CASE pc' # "idle"
  <2>1. pc' = "undo" /\ journal.id \in past'.hurt /\ observer' = observer
    BY <1>1, <1>4, LeadsDoes DEF Prepare
  <2> QED
    BY <1>1, <1>2, <2>1 DEF TypeOK
<1> QED
  BY <1>3, <1>4

LEMMA AdoptDoes ==
  ASSUME TypeOK, SessionInv, Adopt
  PROVE  /\ journal.id \in Sessions
         /\ \A id \in Sessions \ {journal.id} : records'[id] = records[id]
         /\ records'[journal.id] \in
              {records[journal.id], Prepared(records[journal.id], journal.run)}
         /\ \/ /\ pc' = IF service.active THEN "idle" ELSE "mark"
               /\ past' = past
               /\ observer'.id = journal.id /\ observer'.run = journal.run
               /\ records'[journal.id] = Prepared(records[journal.id], journal.run)
            \/ /\ pc' = "idle" /\ observer' = observer /\ observer.id = None
               /\ journal.id \in past'.hurt
<1>1. journal.id \in Sessions /\ Raised = "idle" /\ observer.id = None
  BY SessionOfJournal DEF Adopt, Raised, SessionInv, Recovering, Finalizing
<1>2. \/ records' = records
      \/ records' = [records EXCEPT ![journal.id] = Prepared(@, journal.run)]
  BY DEF Adopt, Leads
<1>3. \/ /\ records' = [records EXCEPT ![journal.id] = Prepared(@, journal.run)]
         /\ pc' = IF service.active THEN "idle" ELSE "mark"
         /\ past' = past /\ faults' = faults
      \/ pc' = "idle" /\ faults' # faults /\ journal.id \in past'.hurt
  BY <1>1, LeadsDoes DEF Adopt
<1>4. CASE faults' = faults
  <2>1. observer'.id = journal.id /\ observer'.run = journal.run
    BY <1>3, <1>4 DEF Adopt
  <2> QED
    BY <1>1, <1>3, <1>4, <2>1 DEF TypeOK
<1>5. CASE faults' # faults
  <2>1. pc' = "idle" /\ observer' = observer /\ journal.id \in past'.hurt
    BY <1>3, <1>5 DEF Adopt
  <2> QED
    BY <1>1, <1>2, <2>1 DEF TypeOK
<1> QED
  BY <1>4, <1>5

\* What a finalization does to the record of its session.
RecordChange(after) ==
  /\ \A id \in Sessions \ {observer.id} : records'[id] = records[id]
  /\ \/ pc' = after /\ past' = past
     \/ pc' \in {"idle", "down"} /\ observer.id \in past'.hurt

LEMMA ImportDoes ==
  ASSUME TypeOK, SessionInv, Import
  PROVE  \/ Waiting = {} /\ pc' = "describe" /\ records' = records /\ past' = past
         \/ /\ Waiting # {} /\ RecordChange("context")
            /\ records'[observer.id].run = Record.run
            /\ records'[observer.id].status = Record.status
            /\ records'[observer.id].context = Record.context
            /\ records'[observer.id].files \in {Record.files, Record.files \cup {NextShot}}
            /\ pc' = "context" => NextShot \in records'[observer.id].files
<1>1. observer.id \in Sessions /\ journal.id = observer.id /\ Raised \in {"idle", "down"}
  BY SessionOfJournal DEF Import, Raised, Finalizing
<1>2. CASE Waiting = {}
  BY <1>2 DEF Import
<1>3. CASE Waiting # {}
  <2>1. \/ records' = records /\ pc' # "context"
        \/ records' = [records EXCEPT ![observer.id].files = @ \cup {NextShot}]
    BY <1>1, <1>3 DEF Import, Leads, BeforeAcknowledge
  <2>2. \/ pc' = "context" /\ past' = past
        \/ pc' \in {"idle", "down"} /\ observer.id \in past'.hurt
    BY <1>1, <1>3, LeadsDoes DEF Import, BeforeAcknowledge
  <2> QED
    BY <1>1, <1>3, <2>1, <2>2 DEF TypeOK, Records, Record, RecordChange
<1> QED
  BY <1>2, <1>3

LEMMA ContextDoes ==
  ASSUME TypeOK, SessionInv, Context
  PROVE  /\ \A id \in Sessions \ {observer.id} : records'[id] = records[id]
         /\ records'[observer.id].run = Record.run
         /\ records'[observer.id].status = Record.status
         /\ records'[observer.id].files = Record.files
         /\ DOMAIN records'[observer.id].context \in
              {DOMAIN Record.context, DOMAIN Record.context \cup {NextShot}}
         /\ \/ /\ pc' = "acknowledge" /\ past' = past
               /\ NextShot \in DOMAIN records'[observer.id].context
            \/ pc' \in {"idle", "down"}
<1>1. observer.id \in Sessions /\ journal.id = observer.id /\ Raised \in {"idle", "down"}
  BY SessionOfJournal DEF Context, Raised, Finalizing
<1> DEFINE new == [t \in DOMAIN Record.context \cup {NextShot} |->
               IF t = NextShot THEN Evidence(NextShot) ELSE Record.context[t]]
<1>2. \/ records' = records /\ pc' # "acknowledge"
      \/ records' = [records EXCEPT ![observer.id].context = new]
  <2>1. \/ UNCHANGED records /\ pc' # "acknowledge"
        \/ records' = [records EXCEPT ![observer.id].context =
              [t \in DOMAIN @ \cup {NextShot} |->
                 IF t = NextShot THEN Evidence(NextShot) ELSE @[t]]]
    BY <1>1 DEF Context, Refused, Leads
  <2> QED
    BY <1>1, <2>1 DEF Record, TypeOK
<1>3. \/ pc' = "acknowledge" /\ past' = past
      \/ pc' \in {"idle", "down"}
  BY <1>1 DEF Context, Refused, Leads
<1>4. DOMAIN new = DOMAIN Record.context \cup {NextShot}
  OBVIOUS
<1> HIDE DEF new
<1>5. CASE records' = records /\ pc' # "acknowledge"
  BY <1>1, <1>3, <1>5 DEF Record
<1>6. CASE records' = [records EXCEPT ![observer.id].context = new]
  <2>1. /\ \A id \in Sessions \ {observer.id} : records'[id] = records[id]
        /\ records'[observer.id] = [records[observer.id] EXCEPT !.context = new]
    BY <1>1, <1>6 DEF TypeOK
  <2>2. /\ records'[observer.id].run = Record.run
        /\ records'[observer.id].status = Record.status
        /\ records'[observer.id].files = Record.files
        /\ records'[observer.id].context = new
    BY <1>1, <2>1 DEF TypeOK, Records, Record
  <2> QED
    BY <1>3, <1>4, <2>1, <2>2
<1> QED
  BY <1>2, <1>5, <1>6

LEMMA DescribeDoes ==
  ASSUME TypeOK, SessionInv, Describe
  PROVE  /\ RecordChange("release")
         /\ records'[observer.id].run = Record.run
         /\ records'[observer.id].files = Record.files
         /\ records'[observer.id].context = Record.context
         /\ records'[observer.id].status \in {Record.status, Outcome}
         /\ pc' = "release" => records'[observer.id].status = Outcome
<1>1. observer.id \in Sessions /\ journal.id = observer.id /\ Raised \in {"idle", "down"}
  BY SessionOfJournal DEF Describe, Raised, Finalizing
<1>2. \/ records' = records /\ pc' # "release"
      \/ records' = [records EXCEPT ![observer.id].status = Outcome]
  BY <1>1 DEF Describe, Leads
<1>3. \/ pc' = "release" /\ past' = past
      \/ pc' \in {"idle", "down"} /\ observer.id \in past'.hurt
  BY <1>1, LeadsDoes DEF Describe
<1> QED
  BY <1>1, <1>2, <1>3 DEF TypeOK, Records, Record, RecordChange, Outcome

-----------------------------------------------------------------------------
(* When a record is new.                                                    *)

LEMMA WritesKeepNew ==
  ASSUME ObserverInv, Prepare \/ Adopt \/ Import \/ Context \/ Describe
  PROVE  RecordInv'
<1> DEFINE New(record) == record.files = {} /\ DOMAIN record.context = {}
<1>1. /\ TypeOK /\ SessionInv /\ RecordInv /\ UNCHANGED <<journal, sessions>>
      /\ past'.taken = past.taken /\ past'.cut = past.cut
      /\ journal.id \in Sessions
  BY LeadsKeepsPast, SessionOfJournal
     DEF ObserverInv, Prepare, Adopt, Import, Context, Describe, Finalizing
<1>2. \A id \in Sessions \ {journal.id} : records'[id] = records[id]
  BY <1>1, PrepareDoes, AdoptDoes, ImportDoes, ContextDoes, DescribeDoes, SessionOfJournal
     DEF Import, Context, Describe, Finalizing, RecordChange
<1>3. records'[journal.id].status = "none" =>
        records[journal.id].status = "none" /\ New(records'[journal.id])
  <2>1. CASE Prepare \/ Adopt
    <3>1. \E r \in Runs : records'[journal.id] \in {records[journal.id],
                                                 Prepared(records[journal.id], r)}
      BY <1>1, <2>1, PrepareDoes, AdoptDoes DEF TypeOK, Journals
    <3>2. records[journal.id] \in Records
      BY <1>1 DEF TypeOK
    <3> QED
      BY <1>1, <3>1, <3>2, Values DEF RecordInv
  <2>2. CASE Import \/ Context
    <3>1. pc \in Finalizing /\ journal.id = observer.id /\ observer.id \in Sessions
          /\ service.id = observer.id
      BY <1>1, <2>2, SessionOfJournal DEF Import, Context, Finalizing, SessionInv
    <3>2. records[observer.id].status # "none"
      BY <1>1, <3>1 DEF RecordInv, Sessions, None
    <3>3. records'[observer.id].status = records[observer.id].status
      BY <1>1, <2>2, <3>1, ImportDoes, ContextDoes DEF Record
    <3> QED
      BY <3>1, <3>2, <3>3
  <2>3. CASE Describe
    BY <1>1, <2>3, DescribeDoes, SessionOfJournal DEF Describe, Outcome, Finalizing, RecordInv, Record
  <2> QED
    BY <2>1, <2>2, <2>3
<1>4. records[journal.id].status # "none" => records'[journal.id].status # "none"
  <2>1. CASE Prepare \/ Adopt
    <3>1. \E r \in Runs : records'[journal.id] \in {records[journal.id],
                                                 Prepared(records[journal.id], r)}
      BY <1>1, <2>1, PrepareDoes, AdoptDoes DEF TypeOK, Journals
    <3>2. records[journal.id] \in Records
      BY <1>1 DEF TypeOK
    <3> QED
      BY <1>1, <3>1, <3>2, Values
  <2>2. CASE Import \/ Context \/ Describe
    BY <1>1, <2>2, ImportDoes, ContextDoes, DescribeDoes, SessionOfJournal
       DEF Import, Context, Describe, Finalizing, Outcome, Record
  <2> QED
    BY <2>1, <2>2
<1>5. observer'.id # None => observer'.id = journal.id /\ records'[journal.id].status # "none"
  <2>1. CASE Prepare \/ Adopt
    <3>1. observer.id = None
      BY <1>1, <2>1 DEF SessionInv, Prepare, Adopt, Starting
    <3>2. \/ observer' = observer
          \/ /\ observer'.id = journal.id
             /\ \E r \in Runs : records'[journal.id] = Prepared(records[journal.id], r)
      BY <1>1, <2>1, PrepareDoes, AdoptDoes DEF TypeOK, Journals
    <3>3. records[journal.id] \in Records
      BY <1>1 DEF TypeOK
    <3> QED
      BY <3>1, <3>2, <3>3, Values
  <2>2. CASE Import \/ Context \/ Describe
    <3>1. observer' = observer /\ observer.id = journal.id /\ observer.id # None
      BY <1>1, <2>2, SessionOfJournal DEF Import, Context, Describe, Finalizing, Sessions, None
    <3> QED
      BY <1>1, <1>4, <3>1 DEF RecordInv
  <2> QED
    BY <2>1, <2>2
<1>6. pc' \notin {"launch", "prepare"}
  BY <1>1, PrepareDoes, AdoptDoes, ImportDoes, ContextDoes, DescribeDoes DEF RecordChange
<1>7. pc' \in {"release", "clear"} =>
        /\ observer' = observer /\ records'[observer.id].status \in {"complete", "incomplete"}
  BY <1>1, PrepareDoes, AdoptDoes, ImportDoes, ContextDoes, DescribeDoes
     DEF RecordChange, Outcome, Describe
<1>8. ASSUME NEW id \in Sessions
      PROVE  /\ records'[id].status = "none" =>
                  records'[id].files = {} /\ DOMAIN records'[id].context = {}
             /\ id > sessions => records'[id].status = "none"
  <2>1. CASE id = journal.id
    BY <1>1, <1>3, <2>1 DEF RecordInv, TypeOK, Sessions
  <2>2. CASE id # journal.id
    BY <1>1, <1>2, <2>2 DEF RecordInv
  <2> QED
    BY <2>1, <2>2
<1> QED
  BY <1>1, <1>5, <1>6, <1>7, <1>8 DEF RecordInv

LEMMA RecordsKeep ==
  ASSUME ObserverInv, Next
  PROVE  RecordInv'
<1>1. CASE Prepare \/ Adopt \/ Import \/ Context \/ Describe
  BY <1>1, WritesKeepNew
<1> USE BoundsAssumption DEF ObserverInv, RecordInv, TypeOK, Services, Journals,
    Observers, Records, Pasts, Ids, None, Sessions, SessionInv, Starting, Recovering,
    Finalizing
<1>2. CASE ExposureMoves
  BY <1>2 DEF ExposureMoves, Publish
<1>3. CASE ShotTaken
  BY <1>3 DEF ShotTaken
<1>4. CASE SourceStops
  BY <1>4 DEF SourceStops
<1>5. CASE PreinitIgnored
  BY <1>5 DEF PreinitIgnored, Idle, Taken
<1>6. CASE PreinitStarts
  BY <1>6 DEF PreinitStarts, Idle, Taken
<1>7. CASE RunningSeen
  BY <1>7 DEF RunningSeen, Idle, Taken
<1>8. CASE StoppedSeen
  BY <1>8 DEF StoppedSeen, Idle, Taken
<1>9. CASE Begin
  BY <1>9 DEF Begin
<1>10. CASE Launch
  <2>1. /\ pc' \in {"prepare", "undo"} /\ UNCHANGED <<journal, records, observer, sessions>>
    BY <1>10 DEF Launch, Leads, Refused, Raised
  <2>2. past'.taken = past.taken /\ past'.cut = past.cut
    BY <1>10, LeadsKeepsPast DEF Launch
  <2> QED
    BY <1>10, <2>1, <2>2 DEF Launch
<1>11. CASE Undo
  BY <1>11 DEF Undo, MayForget, NoJournal
<1>12. CASE Recover
  <2>1. /\ pc' \in {"idle", "adopt"} /\ UNCHANGED <<journal, records, observer, sessions>>
    BY <1>12 DEF Recover, Leads, Refused, Raised
  <2>2. past'.taken = past.taken /\ past'.cut = past.cut
    BY <1>12, LeadsKeepsPast DEF Recover
  <2> QED
    BY <2>1, <2>2
<1>13. CASE Mark
  <2>1. /\ pc' \in {"stop", "down", "idle"} /\ UNCHANGED <<records, sessions>>
        /\ observer' = [observer EXCEPT !.stopped = TRUE]
        /\ journal' = journal \/ journal' = [journal EXCEPT !.stopped = TRUE]
    BY <1>13 DEF Mark, Leads, Raised
  <2>2. past'.taken = past.taken /\ past'.cut = past.cut
    BY <1>13, LeadsKeepsPast DEF Mark
  <2>3. observer'.id = observer.id /\ journal'.id = journal.id
    BY <2>1
  <2> QED
    BY <2>1, <2>2, <2>3
<1>14. CASE Stop
  <2>1. /\ pc' \in {"import", "down", "idle"}
        /\ UNCHANGED <<journal, records, observer, sessions>>
    BY <1>14 DEF Stop, Leads, Refused, Raised
  <2>2. past'.taken = past.taken /\ past'.cut = past.cut
    BY <1>14, LeadsKeepsPast DEF Stop
  <2> QED
    BY <2>1, <2>2
<1>15. CASE Acknowledge
  BY <1>15 DEF Acknowledge, Leads, Raised
<1>16. CASE Release
  BY <1>16 DEF Release, Leads, Raised, NoSession
<1>17. CASE Clear
  BY <1>17 DEF Clear, GoesOn, Raised, NoJournal, NoRun
<1>18. CASE Close
  BY <1>18 DEF Close
<1>19. CASE Killed
  BY <1>19 DEF Killed
<1>20. CASE Restart
  BY <1>20 DEF Restart, NoRun
<1> QED
  BY <1>1, <1>2, <1>3, <1>4, <1>5, <1>6, <1>7, <1>8, <1>9, <1>10, <1>11,
     <1>12, <1>13, <1>14, <1>15, <1>16, <1>17, <1>18, <1>19, <1>20
     DEF Next, Handle, StartStep, RecoverStep, FinalizeStep

-----------------------------------------------------------------------------
(* A capturing record is the one of the session in the service.             *)

LEMMA WritesKeepCapturing ==
  ASSUME ObserverInv, Prepare \/ Adopt \/ Import \/ Context \/ Describe
  PROVE  CapturingIsHeld'
<1>1. /\ TypeOK /\ SessionInv /\ CapturingIsHeld /\ UNCHANGED <<journal, service>>
      /\ journal.id \in Sessions
  BY SessionOfJournal
     DEF ObserverInv, Prepare, Adopt, Import, Context, Describe, Finalizing
<1>2. \A id \in Sessions \ {journal.id} : records'[id] = records[id]
  BY <1>1, PrepareDoes, AdoptDoes, ImportDoes, ContextDoes, DescribeDoes, SessionOfJournal
     DEF Import, Context, Describe, Finalizing, RecordChange
<1>3. service.id = journal.id
  BY <1>1 DEF SessionInv, Prepare, Adopt, Import, Context, Describe, Finalizing, Starting
<1> QED
  BY <1>1, <1>2, <1>3 DEF CapturingIsHeld

LEMMA CapturingKeeps ==
  ASSUME ObserverInv, Next
  PROVE  CapturingIsHeld'
<1>1. CASE Prepare \/ Adopt \/ Import \/ Context \/ Describe
  BY <1>1, WritesKeepCapturing
<1> USE BoundsAssumption DEF ObserverInv, CapturingIsHeld, TypeOK, Services, Journals,
    Observers, Records, Ids, None, Sessions, SessionInv, RecordInv, Starting, Recovering,
    Finalizing
<1>2. CASE ExposureMoves
  BY <1>2 DEF ExposureMoves, Publish
<1>3. CASE ShotTaken
  BY <1>3 DEF ShotTaken
<1>4. CASE SourceStops
  BY <1>4 DEF SourceStops
<1>5. CASE PreinitIgnored
  BY <1>5 DEF PreinitIgnored, Idle, Taken
<1>6. CASE PreinitStarts
  BY <1>6 DEF PreinitStarts, Idle, Taken
<1>7. CASE RunningSeen
  BY <1>7 DEF RunningSeen, Idle, Taken
<1>8. CASE StoppedSeen
  BY <1>8 DEF StoppedSeen, Idle, Taken
<1>9. CASE Begin
  BY <1>9 DEF Begin
<1>10. CASE Launch
  BY <1>10 DEF Launch, Leads, Refused, Raised, Opened
<1>11. CASE Undo
  BY <1>11 DEF Undo, MayForget, NoJournal
<1>12. CASE Recover
  BY <1>12 DEF Recover, Leads, Refused, Raised
<1>13. CASE Mark
  BY <1>13 DEF Mark, Leads, Raised
<1>14. CASE Stop
  BY <1>14 DEF Stop, Leads, Refused, Raised
<1>15. CASE Acknowledge
  BY <1>15 DEF Acknowledge, Leads, Raised
<1>16. CASE Release
  BY <1>16 DEF Release, Leads, Raised, NoSession
<1>17. CASE Clear
  BY <1>17 DEF Clear, GoesOn, Raised, NoJournal, NoRun
<1>18. CASE Close
  BY <1>18 DEF Close
<1>19. CASE Killed
  BY <1>19 DEF Killed
<1>20. CASE Restart
  BY <1>20 DEF Restart, NoRun
<1> QED
  BY <1>1, <1>2, <1>3, <1>4, <1>5, <1>6, <1>7, <1>8, <1>9, <1>10, <1>11,
     <1>12, <1>13, <1>14, <1>15, <1>16, <1>17, <1>18, <1>19, <1>20
     DEF Next, Handle, StartStep, RecoverStep, FinalizeStep

-----------------------------------------------------------------------------
(* The custody of the snapshots.                                            *)

LEMMA SameShot ==
  ASSUME UNCHANGED service
  PROVE  Waiting' = Waiting /\ NextShot' = NextShot
<1>1. Waiting' = Waiting
  BY DEF Waiting
<1> QED
  BY <1>1 DEF NextShot

LEMMA WritesKeepCustody ==
  ASSUME ObserverInv, Prepare \/ Adopt \/ Import \/ Context \/ Describe
  PROVE  CustodyInv'
<1>1. /\ TypeOK /\ SessionInv /\ RecordInv /\ CustodyInv /\ UNCHANGED <<journal, service>>
      /\ journal.id \in Sessions /\ service.id = journal.id
      /\ service.acked \subseteq service.shots
  BY SessionOfJournal
     DEF ObserverInv, SessionInv, TypeOK, Prepare, Adopt, Import, Context, Describe,
         Finalizing, Starting
<1>2. Waiting' = Waiting /\ NextShot' = NextShot
  BY <1>1, SameShot
<1>3. \A id \in Sessions \ {journal.id} : records'[id] = records[id]
  BY <1>1, PrepareDoes, AdoptDoes, ImportDoes, ContextDoes, DescribeDoes, SessionOfJournal
     DEF Import, Context, Describe, Finalizing, RecordChange
<1>4. CASE Prepare \/ Adopt
  <2>1. \E r \in Runs : records'[journal.id] \in {records[journal.id],
                                               Prepared(records[journal.id], r)}
    BY <1>1, <1>4, PrepareDoes, AdoptDoes DEF TypeOK, Journals
  <2>2. records[journal.id] \in Records
    BY <1>1 DEF TypeOK
  <2>3. \/ records'[journal.id] = records[journal.id]
        \/ records'[journal.id].files = {} /\ DOMAIN records'[journal.id].context = {}
    BY <2>1, <2>2, Values
  <2>4. /\ DOMAIN records'[journal.id].context \subseteq records'[journal.id].files
        /\ records'[journal.id].files \subseteq service.shots
    BY <1>1, <2>3 DEF CustodyInv, Sessions, None
  <2>5. pc' \in {"idle", "undo", "mark"}
    BY <1>1, <1>4, PrepareDoes, AdoptDoes
  <2> QED
    BY <1>1, <1>3, <2>4, <2>5 DEF CustodyInv
<1>5. CASE Import \/ Context \/ Describe
  <2>1. /\ observer.id = journal.id /\ UNCHANGED observer /\ pc \in Finalizing
        /\ DOMAIN Record.context \subseteq Record.files /\ Record.files \subseteq service.shots
        /\ Record' = records'[journal.id]
    BY <1>1, <1>5, SessionOfJournal
       DEF Import, Context, Describe, Finalizing, Record, CustodyInv, Sessions, None
  <2>2. CASE Import
    <3>1. CASE Waiting = {}
      BY <1>1, <1>2, <2>2, <3>1, ImportDoes DEF CustodyInv
    <3>2. CASE Waiting # {}
      <4>1. NextShot \in service.shots
        BY <1>1, <3>2, NextShotWaits DEF Waiting
      <4>2. /\ Record'.context = Record.context
            /\ Record'.files \in {Record.files, Record.files \cup {NextShot}}
            /\ pc' \in {"context", "idle", "down"}
            /\ pc' = "context" => NextShot \in Record'.files
        BY <1>1, <2>1, <2>2, <3>2, ImportDoes DEF RecordChange
      <4>3. /\ DOMAIN Record'.context \subseteq Record'.files
            /\ Record'.files \subseteq service.shots
        BY <2>1, <4>1, <4>2
      <4> QED
        BY <1>1, <1>2, <1>3, <2>1, <3>2, <4>2, <4>3 DEF CustodyInv
    <3> QED
      BY <3>1, <3>2
  <2>3. CASE Context
    <3>1. Waiting # {} /\ NextShot \in Record.files
      BY <1>1, <2>3 DEF CustodyInv, Context
    <3>2. /\ Record'.files = Record.files
          /\ DOMAIN Record'.context \in {DOMAIN Record.context, DOMAIN Record.context \cup {NextShot}}
          /\ pc' \in {"acknowledge", "idle", "down"}
          /\ pc' = "acknowledge" => NextShot \in DOMAIN Record'.context
      BY <1>1, <2>1, <2>3, ContextDoes
    <3>3. /\ DOMAIN Record'.context \subseteq Record'.files
          /\ Record'.files \subseteq service.shots
      BY <2>1, <3>1, <3>2
    <3> QED
      BY <1>1, <1>2, <1>3, <2>1, <3>1, <3>2, <3>3 DEF CustodyInv
  <2>4. CASE Describe
    <3>1. /\ Record'.files = Record.files /\ Record'.context = Record.context
          /\ pc' \in {"release", "idle", "down"}
      BY <1>1, <2>1, <2>4, DescribeDoes DEF RecordChange
    <3>2. Waiting = {}
      BY <1>1, <2>4 DEF CustodyInv, Describe
    <3> QED
      BY <1>1, <1>2, <1>3, <2>1, <3>1, <3>2 DEF CustodyInv
  <2> QED
    BY <1>5, <2>2, <2>3, <2>4
<1> QED
  BY <1>4, <1>5

LEMMA CustodyKeeps ==
  ASSUME ObserverInv, Next
  PROVE  CustodyInv'
<1>1. CASE Prepare \/ Adopt \/ Import \/ Context \/ Describe
  BY <1>1, WritesKeepCustody
<1> USE BoundsAssumption DEF ObserverInv, CustodyInv, TypeOK, Services, Journals,
    Observers, Records, Ids, None, Sessions, SessionInv, RecordInv, Starting, Recovering,
    Finalizing
<1>2. CASE ExposureMoves
  <2>1. UNCHANGED <<service, records, observer, pc>>
    BY <1>2 DEF ExposureMoves
  <2>2. Waiting' = Waiting /\ NextShot' = NextShot /\ Record' = Record
    BY <2>1, SameShot DEF Record
  <2> QED
    BY <2>1, <2>2
<1>3. CASE ShotTaken
  BY <1>3 DEF ShotTaken
<1>4. CASE SourceStops
  BY <1>4 DEF SourceStops
<1>5. CASE PreinitIgnored
  BY <1>5 DEF PreinitIgnored, Idle, Taken
<1>6. CASE PreinitStarts
  BY <1>6 DEF PreinitStarts, Idle, Taken
<1>7. CASE RunningSeen
  BY <1>7 DEF RunningSeen, Idle, Taken
<1>8. CASE StoppedSeen
  BY <1>8 DEF StoppedSeen, Idle, Taken
<1>9. CASE Begin
  BY <1>9 DEF Begin
<1>10. CASE Launch
  <2>1. /\ service' \in {service, Opened(journal.id)} /\ pc' \in {"prepare", "undo"}
        /\ UNCHANGED <<journal, records, observer>>
    BY <1>10 DEF Launch, Leads, Refused, Raised
  <2>2. /\ journal.id \in Sessions /\ records[journal.id].status = "none"
        /\ records[journal.id].files = {}
    BY <1>10, SessionOfJournal DEF Launch
  <2>3. service'.id # None => records'[service'.id].files \subseteq service'.shots
    BY <2>1, <2>2, Values DEF Sessions
  <2> QED
    BY <2>1, <2>3
<1>11. CASE Undo
  BY <1>11 DEF Undo, MayForget, NoJournal
<1>12. CASE Recover
  BY <1>12 DEF Recover, Leads, Refused, Raised
<1>13. CASE Mark
  BY <1>13 DEF Mark, Leads, Raised
<1>14. CASE Stop
  <2>1. /\ pc' \in {"import", "down", "idle"} /\ UNCHANGED <<journal, records, observer>>
        /\ \/ service' = service
           \/ service' = [service EXCEPT !.active = FALSE, !.asked = @ \/ service.active]
    BY <1>14 DEF Stop, Leads, Refused, Raised
  <2>2. service'.id = service.id /\ service'.shots = service.shots
    BY <2>1
  <2> QED
    BY <2>1, <2>2
<1>15. CASE Acknowledge
  BY <1>15 DEF Acknowledge, Leads, Raised
<1>16. CASE Release
  BY <1>16 DEF Release, Leads, Raised, NoSession
<1>17. CASE Clear
  BY <1>17 DEF Clear, GoesOn, Raised, NoJournal, NoRun
<1>18. CASE Close
  BY <1>18 DEF Close
<1>19. CASE Killed
  BY <1>19 DEF Killed
<1>20. CASE Restart
  BY <1>20 DEF Restart, NoRun
<1> QED
  BY <1>1, <1>2, <1>3, <1>4, <1>5, <1>6, <1>7, <1>8, <1>9, <1>10, <1>11,
     <1>12, <1>13, <1>14, <1>15, <1>16, <1>17, <1>18, <1>19, <1>20
     DEF Next, Handle, StartStep, RecoverStep, FinalizeStep

-----------------------------------------------------------------------------
(* Sessions that their source ended.                                        *)

LEMMA WritesKeepCut ==
  ASSUME ObserverInv, Prepare \/ Adopt \/ Import \/ Context \/ Describe
  PROVE  CutInv'
<1>1. /\ TypeOK /\ SessionInv /\ CutInv /\ UNCHANGED <<journal, service>>
      /\ journal.id \in Sessions /\ service.id = journal.id
      /\ past'.cut = past.cut /\ pc' # "launch"
  <2>1. past'.cut = past.cut
    BY LeadsKeepsPast DEF ObserverInv, Prepare, Adopt, Import, Context, Describe
  <2>2. pc' # "launch"
    BY PrepareDoes, AdoptDoes, ImportDoes, ContextDoes, DescribeDoes
       DEF RecordChange, ObserverInv
  <2> QED
    BY <2>1, <2>2, SessionOfJournal
       DEF ObserverInv, SessionInv, Prepare, Adopt, Import, Context, Describe,
           Finalizing, Starting
<1>2. \A id \in Sessions \ {journal.id} : records'[id] = records[id]
  BY <1>1, PrepareDoes, AdoptDoes, ImportDoes, ContextDoes, DescribeDoes, SessionOfJournal
     DEF Import, Context, Describe, Finalizing, RecordChange
<1>3. records'[journal.id].status = "complete" =>
        \/ records[journal.id].status = "complete"
        \/ service.asked /\ ~service.active
  <2>1. CASE Prepare \/ Adopt
    <3>1. \E r \in Runs : records'[journal.id] \in {records[journal.id],
                                                 Prepared(records[journal.id], r)}
      BY <1>1, <2>1, PrepareDoes, AdoptDoes DEF TypeOK, Journals
    <3>2. records[journal.id] \in Records
      BY <1>1 DEF TypeOK
    <3> QED
      BY <3>1, <3>2, Values
  <2>2. CASE Import \/ Context
    <3>1. observer.id = journal.id
      BY <1>1, <2>2, SessionOfJournal DEF Import, Context, Finalizing
    <3>2. records'[journal.id].status = records[journal.id].status
      BY <1>1, <2>2, <3>1, ImportDoes, ContextDoes DEF Record
    <3> QED
      BY <3>2
  <2>3. CASE Describe
    <3>1. observer.id = journal.id /\ ~service.active
      BY <1>1, <2>3, SessionOfJournal DEF Describe, Finalizing, SessionInv
    <3>2. records'[journal.id].status \in {records[journal.id].status, Outcome}
      BY <1>1, <2>3, <3>1, DescribeDoes DEF Record
    <3>3. Outcome = "complete" => service.asked
      BY DEF Outcome
    <3> QED
      BY <3>1, <3>2, <3>3
  <2> QED
    BY <2>1, <2>2, <2>3
<1> QED
  BY <1>1, <1>2, <1>3 DEF CutInv

LEMMA CutKeeps ==
  ASSUME ObserverInv, Next
  PROVE  CutInv'
<1>1. CASE Prepare \/ Adopt \/ Import \/ Context \/ Describe
  BY <1>1, WritesKeepCut
<1> USE BoundsAssumption DEF ObserverInv, CutInv, TypeOK, Services, Journals,
    Observers, Records, Pasts, Ids, None, Sessions, SessionInv, RecordInv, Starting,
    Recovering, Finalizing
<1>2. CASE ExposureMoves
  BY <1>2 DEF ExposureMoves, Publish
<1>3. CASE ShotTaken
  BY <1>3 DEF ShotTaken
<1>4. CASE SourceStops
  BY <1>4 DEF SourceStops
<1>5. CASE PreinitIgnored
  BY <1>5 DEF PreinitIgnored, Idle, Taken
<1>6. CASE PreinitStarts
  BY <1>6 DEF PreinitStarts, Idle, Taken
<1>7. CASE RunningSeen
  BY <1>7 DEF RunningSeen, Idle, Taken
<1>8. CASE StoppedSeen
  BY <1>8 DEF StoppedSeen, Idle, Taken
<1>9. CASE Begin
  BY <1>9 DEF Begin
<1>10. CASE Launch
  <2>1. /\ service' \in {service, Opened(journal.id)} /\ pc' \in {"prepare", "undo"}
        /\ UNCHANGED <<journal, records>>
    BY <1>10 DEF Launch, Leads, Refused, Raised
  <2>2. journal.id \in Sessions /\ records[journal.id].status = "none"
    BY <1>10, SessionOfJournal DEF Launch
  <2>3. past'.cut = past.cut
    BY <1>10, LeadsKeepsPast DEF Launch
  <2>4. service' = Opened(journal.id) =>
          /\ service'.id = journal.id /\ ~service'.asked /\ journal.id \notin past.cut
    BY <1>10, <2>2, Values DEF Launch, CutInv
  <2>5. service' = Opened(journal.id) => records'[service'.id].status # "complete"
    BY <2>1, <2>2, <2>4
  <2> QED
    BY <2>1, <2>3, <2>4, <2>5
<1>11. CASE Undo
  BY <1>11 DEF Undo, MayForget, NoJournal
<1>12. CASE Recover
  BY <1>12 DEF Recover, Leads, Refused, Raised
<1>13. CASE Mark
  <2>1. /\ pc' # "launch" /\ UNCHANGED <<service, records>> /\ journal'.id = journal.id
    BY <1>13 DEF Mark, Leads, Raised
  <2>2. past'.cut = past.cut
    BY <1>13, LeadsKeepsPast DEF Mark
  <2> QED
    BY <2>1, <2>2
<1>14. CASE Stop
  <2>1. /\ pc' # "launch" /\ UNCHANGED <<journal, records>>
        /\ \/ service' = service
           \/ service' = [service EXCEPT !.active = FALSE, !.asked = @ \/ service.active]
    BY <1>14 DEF Stop, Leads, Refused, Raised
  <2>2. past'.cut = past.cut
    BY <1>14, LeadsKeepsPast DEF Stop
  <2>3. CASE service' = [service EXCEPT !.active = FALSE, !.asked = @ \/ service.active]
    <3>1. /\ service'.id = service.id /\ ~service'.active
          /\ service'.asked => service.asked \/ service.active
      BY <2>3
    <3> QED
      BY <2>1, <2>2, <3>1
  <2> QED
    BY <2>1, <2>2, <2>3
<1>15. CASE Acknowledge
  <2>1. /\ pc' # "launch" /\ UNCHANGED <<journal, records>>
        /\ \/ service' = service
           \/ service' = [service EXCEPT !.acked = @ \cup {NextShot}]
    BY <1>15 DEF Acknowledge, Leads, Raised
  <2>2. past'.cut = past.cut
    BY <1>15, LeadsKeepsPast DEF Acknowledge
  <2>3. /\ service'.id = service.id /\ service'.active = service.active
        /\ service'.asked = service.asked
    BY <2>1
  <2> QED
    BY <2>1, <2>2, <2>3
<1>16. CASE Release
  <2>1. /\ pc' # "launch" /\ UNCHANGED <<journal, records>>
        /\ service' = service \/ service' = NoSession
    BY <1>16 DEF Release, Leads, Raised
  <2>2. past'.cut = past.cut
    BY <1>16, LeadsKeepsPast DEF Release
  <2>3. ~NoSession.active /\ ~NoSession.asked
    BY DEF NoSession
  <2> QED
    BY <2>1, <2>2, <2>3
<1>17. CASE Clear
  BY <1>17 DEF Clear, GoesOn, Raised, NoJournal, NoRun
<1>18. CASE Close
  BY <1>18 DEF Close
<1>19. CASE Killed
  BY <1>19 DEF Killed
<1>20. CASE Restart
  BY <1>20 DEF Restart, NoRun
<1> QED
  BY <1>1, <1>2, <1>3, <1>4, <1>5, <1>6, <1>7, <1>8, <1>9, <1>10, <1>11,
     <1>12, <1>13, <1>14, <1>15, <1>16, <1>17, <1>18, <1>19, <1>20
     DEF Next, Handle, StartStep, RecoverStep, FinalizeStep

-----------------------------------------------------------------------------
(* What the observer hears.                                                 *)

\* The exposure goes on, and an observer that runs hears of it last.

LEMMA ExposureDoes ==
  ASSUME TypeOK, ExposureMoves
  PROVE  /\ exposure' \in Exposures /\ exposure.run <= exposure'.run
         /\ \A r \in Runs : r <= exposure.run => (Over(exposure, r) => Over(exposure', r))
         /\ \A r \in Runs : Over(exposure', r) /\ ~Over(exposure, r) => exposure' = [run |-> r, phase |-> "STOPPED"]
         /\ ~Over(exposure', exposure'.run) \/ exposure'.phase = "STOPPED"
         /\ exposure'.phase = "STOPPED" => Over(exposure', exposure'.run)
         /\ events' = IF pc = "down" THEN events ELSE Append(events, exposure')
<1>1. exposure' \in Exposures /\ exposure.run \in Nat /\ exposure \in Exposures
  BY BoundsAssumption DEF ExposureMoves, Publish, TypeOK, Exposures, Runs
<1>2. events' = IF pc = "down" THEN events ELSE Append(events, exposure')
  BY DEF ExposureMoves, Publish
<1>3. \/ /\ exposure.phase = "STOPPED" /\ exposure'.run = exposure.run + 1
         /\ exposure'.phase = "PREINIT"
      \/ /\ exposure.phase # "STOPPED" /\ exposure'.run = exposure.run
         /\ exposure' = [run |-> exposure.run, phase |-> exposure'.phase]
  BY DEF ExposureMoves, Publish
<1> QED
  BY <1>1, <1>2, <1>3, BoundsAssumption DEF Ended, Over, Runs

\* Hearing of it keeps what is known of a run.

LEMMA ExposureFollowed ==
  ASSUME TypeOK, ExposureMoves, pc # "down", NEW r \in Runs
  PROVE  /\ Followed(r) => Followed(r)'
         /\ StopIsPending(r) => StopIsPending(r)'
         /\ Over(exposure', r) /\ ~Over(exposure, r) => StopIsPending(r)'
<1>1. /\ events' = Append(events, exposure') /\ exposure' \in Exposures
      /\ exposure.run <= exposure'.run /\ exposure.run \in Nat /\ exposure'.run \in Nat
      /\ r \in Nat
  BY ExposureDoes, BoundsAssumption DEF TypeOK, Exposures, Runs
<1>2. /\ DOMAIN events = 1..Len(events) /\ DOMAIN events' = 1..(Len(events) + 1)
      /\ Len(events) \in Nat
      /\ \A k \in 1..Len(events) : events'[k] = events[k]
      /\ events'[Len(events) + 1] = exposure'
  BY <1>1 DEF TypeOK
<1>3. Followed(r) => Followed(r)'
  BY <1>1, <1>2 DEF Followed
<1>4. StopIsPending(r) => StopIsPending(r)'
  BY <1>2 DEF StopIsPending
<1>5. Over(exposure', r) /\ ~Over(exposure, r) => StopIsPending(r)'
  BY <1>2, ExposureDoes DEF StopIsPending
<1> QED
  BY <1>3, <1>4, <1>5

\* A state is handled: the others move up.

LEMMA HandleDoes ==
  ASSUME TypeOK, events # <<>>, events' = Tail(events)
  PROVE  /\ DOMAIN events = 1..Len(events) /\ Len(events) \in Nat \ {0}
         /\ DOMAIN events' = 1..(Len(events) - 1)
         /\ \A k \in DOMAIN events' : k + 1 \in DOMAIN events /\ events'[k] = events[k + 1]
         /\ \A k \in DOMAIN events : k > 1 => k - 1 \in DOMAIN events' /\ events'[k - 1] = events[k]
         /\ Head(events) = events[1] /\ events[1] \in Exposures
BY DEF TypeOK

LEMMA HandleFollowed ==
  ASSUME ObserverInv, Handle, NEW r \in Runs
  PROVE  /\ Followed(r) => Followed(r)'
         /\ StopIsPending(r) /\ Head(events) # [run |-> r, phase |-> "STOPPED"] =>
              StopIsPending(r)'
         /\ Over(exposure', r) = Over(exposure, r)
<1>1. TypeOK /\ events # <<>> /\ events' = Tail(events) /\ exposure' = exposure
  BY DEF ObserverInv, Handle, PreinitIgnored, PreinitStarts, RunningSeen, StoppedSeen, Idle, Taken
<1>2. Followed(r) => Followed(r)'
  BY <1>1, HandleDoes DEF Followed
<1>3. ASSUME StopIsPending(r), Head(events) # [run |-> r, phase |-> "STOPPED"]
      PROVE  StopIsPending(r)'
  <2>1. PICK k \in DOMAIN events : events[k] = [run |-> r, phase |-> "STOPPED"]
    BY <1>3 DEF StopIsPending
  <2>2. k > 1
    BY <1>1, <1>3, <2>1, HandleDoes
  <2> QED
    BY <1>1, <2>1, <2>2, HandleDoes DEF StopIsPending
<1>4. Over(exposure', r) = Over(exposure, r)
  BY <1>1 DEF Ended, Over
<1> QED
  BY <1>2, <1>3, <1>4

LEMMA EventsKeep ==
  ASSUME ObserverInv, Next
  PROVE  EventsInv'
<1>1. TypeOK /\ EventsInv /\ exposure.run \in Nat
  BY BoundsAssumption DEF ObserverInv, TypeOK, Exposures, Runs
<1>2. CASE ExposureMoves
  <2>1. /\ \A k \in DOMAIN events : events[k] \in Exposures
        /\ DOMAIN events = 1..Len(events) /\ Len(events) \in Nat
    BY <1>1 DEF TypeOK
  <2>2. /\ exposure' \in Exposures /\ exposure.run <= exposure'.run
        /\ exposure'.run \in Runs /\ Runs \subseteq Nat /\ exposure'.run \in Nat
    BY <1>1, <1>2, ExposureDoes, BoundsAssumption DEF Exposures, Runs
  <2>3. \A k \in DOMAIN events :
          /\ events[k].run <= exposure'.run /\ events[k].run \in Runs
          /\ events[k].phase = "STOPPED" => Over(exposure', events[k].run)
    <3>1. \A k \in DOMAIN events :
            /\ events[k].run <= exposure.run /\ events[k].run \in Runs
            /\ events[k].phase = "STOPPED" => Over(exposure, events[k].run)
      BY <1>1, <2>1 DEF EventsInv, Ended, Exposures
    <3>2. \A r \in Runs : r <= exposure.run => (Over(exposure, r) => Over(exposure', r))
      BY <1>1, <1>2, ExposureDoes
    <3>3. \A r \in Runs : r <= exposure.run => r <= exposure'.run
      <4>1. \A r \in Nat : r <= exposure.run => r <= exposure'.run
        BY <1>1, <2>2
      <4> QED
        BY <2>2, <4>1
    <3> QED
      BY <3>1, <3>2, <3>3
  <2>4. CASE pc = "down"
    <3>1. events' = events /\ pc' = "down"
      BY <1>1, <1>2, <2>4, ExposureDoes DEF ExposureMoves
    <3> QED
      BY <1>1, <2>3, <3>1 DEF EventsInv, Ended
  <2>5. CASE pc # "down"
    <3>1. /\ events' = Append(events, exposure') /\ pc' = pc
          /\ DOMAIN events' = 1..(Len(events) + 1)
          /\ \A k \in 1..Len(events) : events'[k] = events[k]
          /\ events'[Len(events) + 1] = exposure'
      BY <1>1, <1>2, <2>2, <2>5, ExposureDoes DEF ExposureMoves, TypeOK
    <3>2. \A k \in DOMAIN events' : /\ events'[k].run <= exposure'.run
                                    /\ events'[k].phase = "STOPPED" => Over(exposure', events'[k].run)
      <4>1. /\ exposure'.run <= exposure'.run
            /\ exposure'.phase = "STOPPED" => Over(exposure', exposure'.run)
        <5>1. exposure'.run <= exposure'.run
          BY <2>2
        <5> QED
          BY <1>1, <1>2, <5>1, ExposureDoes
      <4>2. \A k \in DOMAIN events' : k \in DOMAIN events \/ k = Len(events) + 1
        BY <2>1, <3>1
      <4> QED
        BY <2>1, <2>3, <3>1, <4>1, <4>2
    <3>3. \A k, l \in DOMAIN events' : k <= l => events'[k].run <= events'[l].run
      <4>1. ASSUME NEW k \in DOMAIN events', NEW l \in DOMAIN events', k <= l
            PROVE  events'[k].run <= events'[l].run
        <5>1. CASE l = Len(events) + 1
          BY <3>1, <3>2, <5>1
        <5>2. CASE l # Len(events) + 1
          <6>1. k \in DOMAIN events /\ l \in DOMAIN events
            BY <2>1, <3>1, <4>1, <5>2
          <6> QED
            BY <1>1, <2>1, <3>1, <4>1, <6>1 DEF EventsInv
        <5> QED
          BY <5>1, <5>2
      <4> QED
        BY <4>1
    <3>4. ASSUME NEW k \in DOMAIN events', events'[k].phase # "STOPPED", Over(exposure', events'[k].run)
          PROVE  \E l \in DOMAIN events' :
                   k < l /\ events'[l] = [run |-> events'[k].run, phase |-> "STOPPED"]
      <4>1. k \in 1..Len(events)
        <5>1. ~Over(exposure', exposure'.run) \/ exposure'.phase = "STOPPED"
          BY <1>1, <1>2, ExposureDoes
        <5>2. k # Len(events) + 1
          BY <3>1, <3>4, <5>1
        <5> QED
          BY <2>1, <3>1, <5>2
      <4>2. events'[k] = events[k] /\ k < Len(events) + 1 /\ events[k].run \in Runs
        BY <2>1, <2>3, <3>1, <4>1
      <4>3. CASE Over(exposure, events[k].run)
        <5>1. PICK l \in DOMAIN events :
                k < l /\ events[l] = [run |-> events[k].run, phase |-> "STOPPED"]
          BY <1>1, <2>1, <2>5, <3>4, <4>1, <4>2, <4>3 DEF EventsInv, Ended
        <5> QED
          BY <2>1, <3>1, <4>2, <5>1
      <4>4. CASE ~Over(exposure, events[k].run)
        <5>1. exposure' = [run |-> events[k].run, phase |-> "STOPPED"]
          BY <1>1, <1>2, <3>4, <4>2, <4>4, ExposureDoes
        <5> QED
          BY <2>1, <3>1, <4>2, <5>1
      <4> QED
        BY <4>3, <4>4
    <3> QED
      BY <3>2, <3>3, <3>4 DEF EventsInv, Ended
  <2> QED
    BY <2>4, <2>5
<1>3. CASE Handle
  <2>1. events # <<>> /\ events' = Tail(events) /\ exposure' = exposure /\ pc = "idle"
    BY <1>3 DEF Handle, PreinitIgnored, PreinitStarts, RunningSeen, StoppedSeen, Idle, Taken
  <2>2. /\ DOMAIN events = 1..Len(events) /\ Len(events) \in Nat
        /\ DOMAIN events' = 1..(Len(events) - 1)
        /\ \A k \in DOMAIN events' : k + 1 \in DOMAIN events /\ events'[k] = events[k + 1]
        /\ \A k \in DOMAIN events : k > 1 => k - 1 \in DOMAIN events' /\ events'[k - 1] = events[k]
    BY <1>1, <2>1, HandleDoes
  <2>3. \A k \in DOMAIN events' : /\ events'[k].run <= exposure'.run
                                  /\ events'[k].phase = "STOPPED" => Over(exposure', events'[k].run)
    BY <1>1, <2>1, <2>2 DEF EventsInv, Ended, Over
  <2>4. \A k, l \in DOMAIN events' : k <= l => events'[k].run <= events'[l].run
    BY <1>1, <2>1, <2>2 DEF EventsInv, Ended
  <2>5. ASSUME NEW k \in DOMAIN events', events'[k].phase # "STOPPED", Over(exposure', events'[k].run)
        PROVE  \E l \in DOMAIN events' :
                 k < l /\ events'[l] = [run |-> events'[k].run, phase |-> "STOPPED"]
    <3>1. k + 1 \in DOMAIN events /\ events'[k] = events[k + 1] /\ Over(exposure, events[k + 1].run)
      BY <2>1, <2>2, <2>5 DEF Ended, Over
    <3>2. PICK l \in DOMAIN events :
            k + 1 < l /\ events[l] = [run |-> events[k + 1].run, phase |-> "STOPPED"]
      BY <1>1, <2>1, <2>5, <3>1 DEF EventsInv, Ended
    <3>3. l - 1 \in DOMAIN events' /\ events'[l - 1] = events[l] /\ k < l - 1
      BY <2>2, <3>2
    <3> QED
      BY <3>1, <3>2, <3>3
  <2> QED
    BY <2>3, <2>4, <2>5 DEF EventsInv, Ended
<1>4. CASE Restart
  <2>1. /\ DOMAIN events' = {1} /\ events'[1] = exposure /\ exposure' = exposure
        /\ exposure \in Exposures
    BY <1>1, <1>4 DEF Restart, TypeOK
  <2> QED
    BY <1>1, <2>1 DEF EventsInv, Ended, Over
<1>5. CASE ~(ExposureMoves \/ Handle \/ Restart)
  <2>1. UNCHANGED <<exposure, events>> /\ (pc = "down" => pc' = "down")
    BY <1>5 DEF Next, ShotTaken, SourceStops, StartStep, RecoverStep, FinalizeStep, Close, Killed,
      Begin, Launch, Prepare, Undo, Recover, Adopt, Mark, Stop, Import, Context, Acknowledge,
      Describe, Release, Clear, Finalizing
  <2> QED
    BY <1>1, <2>1 DEF EventsInv, Ended, Over
<1> QED
  BY <1>2, <1>3, <1>4, <1>5

-----------------------------------------------------------------------------
(* One whole exposure.                                                      *)

LEMMA ClosingKeeps ==
  ASSUME ObserverInv, Next
  PROVE  ClosingInv'
<1>1. CASE Close
  BY <1>1 DEF ObserverInv, ClosingInv, Close, TypeOK, Pasts, Finalizing
<1>2. CASE Restart
  BY <1>2 DEF Restart, ClosingInv
<1>3. CASE Handle
  BY <1>3 DEF ObserverInv, ClosingInv, Handle, PreinitIgnored, PreinitStarts, RunningSeen,
    StoppedSeen, Idle, Finalizing
<1>4. CASE StartStep \/ RecoverStep
  <2>1. then' = then /\ pc # "down" /\ pc \notin Finalizing
    BY <1>4 DEF StartStep, RecoverStep, Begin, Launch, Prepare, Undo, Recover, Adopt, Finalizing
  <2> QED
    BY <2>1 DEF ObserverInv, ClosingInv
<1>5. CASE FinalizeStep
  <2>1. then' = then /\ pc \in Finalizing
    BY <1>5 DEF FinalizeStep, Mark, Stop, Import, Context, Acknowledge, Describe, Release, Clear,
      Finalizing
  <2>2. CASE then # "down"
    BY <2>1, <2>2 DEF ClosingInv
  <2>3. CASE then = "down"
    <3>1. Raised = "down" /\ observer.id \in past.early
      BY <2>1, <2>3 DEF Raised, Finalizing, ObserverInv, ClosingInv
    <3>2. CASE Clear
      BY <3>1, <3>2, <2>3 DEF Clear, GoesOn, ClosingInv
    <3>3. CASE ~Clear
      <4>1. /\ pc' \in {"down"} \cup Finalizing /\ observer'.id = observer.id
            /\ past'.early = past.early
        BY <1>5, <3>1, <3>3, LeadsKeepsPast
           DEF FinalizeStep, Mark, Stop, Import, Context, Acknowledge, Describe, Release,
               Leads, Refused, Finalizing, BeforeAcknowledge, ObserverInv, TypeOK, Observers
      <4> QED
        BY <3>1, <4>1 DEF ClosingInv
    <3> QED
      BY <3>2, <3>3
  <2> QED
    BY <2>2, <2>3
<1>6. CASE ExposureMoves \/ ShotTaken \/ SourceStops
  <2>1. UNCHANGED <<then, pc>> /\ observer'.id = observer.id /\ past'.early = past.early
    BY <1>6 DEF ExposureMoves, ShotTaken, SourceStops, ObserverInv, TypeOK, Pasts, Observers
  <2> QED
    BY <2>1 DEF ObserverInv, ClosingInv
<1>7. CASE Killed
  BY <1>7 DEF Killed, ClosingInv
<1> QED
  BY <1>1, <1>2, <1>3, <1>4, <1>5, <1>6, <1>7 DEF Next

LEMMA TargetKeeps ==
  ASSUME ObserverInv, Next
  PROVE  TargetInv'
<1> DEFINE Bound == pc \in Starting \/ (then = "start" /\ pc \in Recovering \cup Finalizing)
<1>1. TypeOK /\ TargetInv /\ EventsInv /\ target \in Runs
  BY DEF ObserverInv, TypeOK
<1>2. CASE ExposureMoves
  <2>1. UNCHANGED <<pc, then, target>>
    BY <1>2 DEF ExposureMoves
  <2>2. SUFFICES ASSUME Bound
                 PROVE  Followed(target)' /\ (Ended(target)' => StopIsPending(target)')
    BY <2>1 DEF TargetInv
  <2>3. pc # "down" /\ Followed(target) /\ (Ended(target) => StopIsPending(target))
    BY <1>1, <2>2 DEF TargetInv, Starting, Recovering, Finalizing
  <2>4. ASSUME NEW r \in Runs, r = target
        PROVE  Followed(r)' /\ (Over(exposure', r) => StopIsPending(r)')
    BY <1>1, <1>2, <2>3, <2>4, ExposureFollowed DEF Ended
  <2> QED
    BY <1>1, <2>1, <2>4 DEF Ended, Followed, StopIsPending
<1>3. CASE PreinitStarts
  <2>1. /\ events # <<>> /\ events' = Tail(events) /\ exposure' = exposure
        /\ target' = events[1].run /\ events[1].phase = "PREINIT" /\ pc = "idle"
    BY <1>1, <1>3, HandleDoes DEF PreinitStarts, Idle, Taken
  <2>2. /\ DOMAIN events = 1..Len(events) /\ Len(events) \in Nat \ {0}
        /\ DOMAIN events' = 1..(Len(events) - 1)
        /\ \A k \in DOMAIN events' : k + 1 \in DOMAIN events /\ events'[k] = events[k + 1]
        /\ \A k \in DOMAIN events : k > 1 => k - 1 \in DOMAIN events' /\ events'[k - 1] = events[k]
    BY <1>1, <2>1, HandleDoes
  <2>3. 1 \in DOMAIN events
    BY <2>2
  <2>4. /\ target' <= exposure.run
        /\ \A k \in DOMAIN events' : target' <= events'[k].run
    BY <1>1, <2>1, <2>2, <2>3 DEF EventsInv
  <2>5. Over(exposure, target') =>
          \E l \in DOMAIN events' : events'[l] = [run |-> target', phase |-> "STOPPED"]
    BY <1>1, <2>1, <2>2, <2>3 DEF EventsInv, Ended
  <2> QED
    BY <2>1, <2>4, <2>5 DEF TargetInv, Followed, StopIsPending, Ended
<1>4. CASE Handle /\ ~PreinitStarts
  BY <1>4 DEF Handle, PreinitIgnored, RunningSeen, StoppedSeen, TargetInv, Idle, Starting,
    Recovering, Finalizing
<1>5. CASE Close \/ Killed \/ Restart
  BY <1>5 DEF Close, Killed, Restart, TargetInv, Starting, Recovering, Finalizing
<1>6. CASE StartStep \/ RecoverStep \/ FinalizeStep \/ ShotTaken \/ SourceStops
  <2>1. UNCHANGED <<exposure, events, target, then>>
    BY <1>6 DEF ShotTaken, SourceStops, StartStep, RecoverStep, FinalizeStep,
      Begin, Launch, Prepare, Undo, Recover, Adopt, Mark, Stop, Import, Context, Acknowledge,
      Describe, Release, Clear
  <2>2. Bound' => Bound
    <3>1. CASE StartStep \/ ShotTaken \/ SourceStops
      BY <3>1 DEF StartStep, ShotTaken, SourceStops, Begin, Launch, Prepare, Undo, Leads, Refused,
        Raised, Starting, Recovering, Finalizing
    <3>2. CASE RecoverStep \/ FinalizeStep
      <4>1. pc \in Recovering \cup Finalizing /\ pc' \notin {"launch", "prepare"}
        BY <3>2, RaisedIsAStep
           DEF RecoverStep, FinalizeStep, Recover, Adopt, Mark, Stop, Import, Context,
               Acknowledge, Describe, Release, Clear, Leads, Refused, GoesOn, BeforeAcknowledge,
               Recovering, Finalizing
      <4>2. pc' = "begin" => then = "start"
        BY <3>2, RaisedIsAStep
           DEF RecoverStep, FinalizeStep, Recover, Adopt, Mark, Stop, Import, Context,
               Acknowledge, Describe, Release, Clear, Leads, Refused, GoesOn, BeforeAcknowledge
      <4> QED
        BY <2>1, <4>1, <4>2 DEF Starting
    <3> QED
      BY <1>6, <3>1, <3>2
  <2> QED
    BY <1>1, <2>1, <2>2 DEF TargetInv, Followed, StopIsPending, Ended
<1> QED
  BY <1>2, <1>3, <1>4, <1>5, <1>6 DEF Next

\* The history only grows, and only a snapshot adds to what was taken.
LEMMA PastGrows ==
  ASSUME TypeOK, Next
  PROVE  /\ past.hurt \subseteq past'.hurt /\ past.early \subseteq past'.early
         /\ past'.taken = past.taken
            \/ (ShotTaken /\ past'.taken = past.taken \cup {<<service.id, exposure.run>>})
<1>1. CASE Launch \/ Prepare \/ Recover \/ Adopt \/ FinalizeStep
  <2>1. CASE Recover /\ journal.id = None
    BY <2>1 DEF Recover
  <2>2. CASE Import /\ Waiting = {}
    BY <2>2 DEF Import
  <2>3. CASE Clear
    BY <2>3 DEF Clear
  <2>4. CASE ~((Recover /\ journal.id = None) \/ (Import /\ Waiting = {}) \/ Clear)
    BY <1>1, <2>4, LeadsKeepsPast
       DEF FinalizeStep, Launch, Prepare, Recover, Adopt, Mark, Stop, Import, Context,
           Acknowledge, Describe, Release
  <2> QED
    BY <2>1, <2>2, <2>3, <2>4
<1>2. CASE ExposureMoves \/ Handle \/ Begin
  BY <1>2 DEF ExposureMoves, Handle, PreinitIgnored, PreinitStarts, RunningSeen, StoppedSeen,
    Begin
<1>8. CASE Restart
  BY <1>8 DEF Restart, TypeOK, Pasts
<1>3. CASE ShotTaken
  BY <1>3 DEF ShotTaken, TypeOK, Pasts
<1>4. CASE SourceStops
  BY <1>4 DEF SourceStops, TypeOK, Pasts
<1>5. CASE Undo
  <2>1. past' = past \/ past' = [past EXCEPT !.cut = @ \cup {service.id}]
    BY <1>5 DEF Undo
  <2> QED
    BY <2>1 DEF TypeOK, Pasts
<1>6. CASE Close
  BY <1>6 DEF Close, TypeOK, Pasts
<1>7. CASE Killed
  BY <1>7 DEF Killed, TypeOK, Pasts
<1> QED
  BY <1>1, <1>2, <1>3, <1>4, <1>5, <1>6, <1>7, <1>8 DEF Next, StartStep, RecoverStep

\* A record that becomes complete is the one that is being finalized.

LEMMA CompletedIsFinalized ==
  ASSUME ObserverInv, Next, NEW id \in Sessions, records'[id].status = "complete"
  PROVE  \/ records[id].status = "complete" /\ records'[id].run = records[id].run
         \/ /\ Describe /\ id = observer.id /\ id = journal.id
            /\ records'[id].run = records[id].run
<1>0. TypeOK /\ SessionInv /\ RecordInv /\ records[id] \in Records
  BY DEF ObserverInv, TypeOK
<1>1. CASE Prepare \/ Adopt
  <2>1. \/ records'[id] = records[id]
        \/ \E r \in Runs : records'[id] = Prepared(records[id], r)
    BY <1>0, <1>1, PrepareDoes, AdoptDoes DEF TypeOK, Journals
  <2> QED
    BY <1>0, <2>1, Values
<1>2. CASE Import \/ Context \/ Describe
  <2>1. observer.id \in Sessions /\ journal.id = observer.id
    BY <1>0, <1>2, SessionOfJournal DEF Import, Context, Describe, Finalizing
  <2>2. id # observer.id => records'[id] = records[id]
    BY <1>0, <1>2, ImportDoes, ContextDoes, DescribeDoes DEF RecordChange
  <2>3. records'[observer.id].run = Record.run
    BY <1>0, <1>2, ImportDoes, ContextDoes, DescribeDoes DEF Record
  <2>4. ~Describe => records'[observer.id].status = Record.status
    BY <1>0, <1>2, ImportDoes, ContextDoes DEF Record
  <2>5. CASE Describe
    BY <2>1, <2>2, <2>3, <2>5 DEF Record
  <2>6. CASE ~Describe
    BY <2>2, <2>3, <2>4, <2>6 DEF Record
  <2> QED
    BY <2>5, <2>6
<1>3. CASE ~(Prepare \/ Adopt \/ Import \/ Context \/ Describe)
  <2>1. UNCHANGED records
    BY <1>3 DEF Next, Handle, StartStep, RecoverStep, FinalizeStep, ExposureMoves, ShotTaken,
      SourceStops, PreinitIgnored, PreinitStarts, RunningSeen, StoppedSeen, Begin, Launch, Undo,
      Recover, Mark, Stop, Acknowledge, Release, Clear, Close, Killed, Restart
  <2> QED
    BY <2>1
<1> QED
  BY <1>1, <1>2, <1>3

\* The exposure of a run that is over stays over.

LEMMA OverStays ==
  ASSUME TypeOK, Next, NEW r \in Runs, Ended(r)
  PROVE  Over(exposure', r)
<1>1. CASE ExposureMoves
  <2>1. r <= exposure.run
    BY BoundsAssumption DEF Ended, Over, TypeOK, Exposures, Runs
  <2> QED
    BY <1>1, <2>1, ExposureDoes DEF Ended
<1>2. CASE ~ExposureMoves
  <2>1. UNCHANGED exposure
    BY <1>2 DEF Next, Handle, StartStep, RecoverStep, FinalizeStep, ShotTaken,
      SourceStops, PreinitIgnored, PreinitStarts, RunningSeen, StoppedSeen, Begin, Launch,
      Prepare, Undo, Recover, Adopt, Mark, Stop, Import, Context, Acknowledge, Describe, Release,
      Clear, Close, Killed, Restart
  <2> QED
    BY <2>1 DEF Ended
<1> QED
  BY <1>1, <1>2

LEMMA RecordsWholeKeep ==
  ASSUME ObserverInv, Next
  PROVE  RecordsAreWhole'
<1>1. TypeOK /\ RecordsAreWhole /\ JournalIsWhole /\ CutInv
  BY DEF ObserverInv
<1>2. ASSUME NEW id \in Sessions, records'[id].status = "complete",
             id \notin past'.hurt \cup past'.early
      PROVE  /\ \A t \in past'.taken : t[1] = id => t[2] = records'[id].run
             /\ Over(exposure', records'[id].run)
  <2>1. id \notin past.hurt \cup past.early
    BY <1>1, <1>2, PastGrows
  <2>2. records'[id].run = records[id].run /\ records[id].run \in Runs
    BY <1>1, <1>2, CompletedIsFinalized DEF TypeOK, Records
  <2>3. (\A t \in past.taken : t[1] = id => t[2] = records[id].run) /\ Ended(records[id].run)
    <3>1. CASE records[id].status = "complete"
      BY <1>1, <2>1, <3>1 DEF RecordsAreWhole
    <3>2. CASE records[id].status # "complete"
      <4>1. pc = "describe" /\ id = observer.id /\ id = journal.id /\ id # None
        BY <1>2, <3>2, CompletedIsFinalized DEF Describe, Sessions, None
      <4> QED
        BY <1>1, <2>1, <4>1 DEF JournalIsWhole, Unharmed, Finalizing
    <3> QED
      BY <3>1, <3>2
  <2>4. Over(exposure', records'[id].run)
    BY <1>1, <2>2, <2>3, OverStays
  <2>5. ASSUME ShotTaken
        PROVE  service.id # id
    <3>1. service.active /\ UNCHANGED records
      BY <2>5 DEF ShotTaken
    <3> QED
      BY <1>1, <1>2, <3>1 DEF CutInv
  <2> QED
    BY <1>1, <2>2, <2>3, <2>4, <2>5, PastGrows
<1> QED
  BY <1>2 DEF RecordsAreWhole, Ended
\* What JournalIsWhole says of the session of the journal.
OfOneExposure ==
  /\ \A t \in past.taken : t[1] = journal.id => t[2] = journal.run
  /\ \/ pc \in {"launch", "prepare"} /\ journal.run = target
     \/ /\ observer.id = journal.id /\ pc \in {"idle"} \cup Finalizing
        /\ records[journal.id].run = journal.run
        /\ Followed(journal.run)
        /\ pc = "idle" /\ service.active /\ Ended(journal.run) =>
             StopIsPending(journal.run)
        /\ pc \in Finalizing => Ended(journal.run)

LEMMA EnvironmentKeepsWhole ==
  ASSUME ObserverInv, ExposureMoves \/ ShotTaken \/ SourceStops, Unharmed, OfOneExposure
  PROVE  OfOneExposure'
<1>1. /\ TypeOK /\ SessionInv /\ RecordInv /\ TargetInv /\ journal.run \in Runs
      /\ target \in Runs /\ exposure.run \in Nat /\ Runs \subseteq Nat
      /\ journal.id \in Sessions
  BY BoundsAssumption, SessionOfJournal
     DEF ObserverInv, TypeOK, Journals, Exposures, Runs, Unharmed
<1>2. UNCHANGED <<journal, records, pc, target>> /\ observer'.id = observer.id
  BY <1>1 DEF ExposureMoves, ShotTaken, SourceStops, TypeOK, Observers
<1>3. CASE ExposureMoves
  <2>1. UNCHANGED <<service, observer, past>> /\ pc # "down"
    BY <1>3 DEF ExposureMoves, OfOneExposure, Finalizing
  <2>2. ASSUME NEW r \in Runs, r = journal.run
        PROVE  /\ Followed(r) => Followed(r)'
               /\ Followed(r) /\ Ended(r) => Over(exposure', r)
               /\ StopIsPending(r) => StopIsPending(r)'
               /\ Over(exposure', r) /\ ~Ended(r) => StopIsPending(r)'
    BY <1>1, <1>3, <2>1, ExposureFollowed, ExposureDoes DEF Ended, Followed
  <2>3. /\ Followed(journal.run) => Followed(journal.run)'
        /\ Followed(journal.run) /\ Ended(journal.run) => Ended(journal.run)'
        /\ StopIsPending(journal.run) => StopIsPending(journal.run)'
        /\ Ended(journal.run)' /\ ~Ended(journal.run) => StopIsPending(journal.run)'
    <3>1. journal'.run = journal.run
      BY <1>2
    <3>2. Followed(journal.run) => Followed(journal.run)'
      BY <1>1, <2>2, <3>1 DEF Followed
    <3>3. StopIsPending(journal.run) => StopIsPending(journal.run)'
      BY <1>1, <2>2, <3>1 DEF StopIsPending
    <3>4. Followed(journal.run) /\ Ended(journal.run) => Ended(journal.run)'
      BY <1>1, <2>2, <3>1 DEF Ended
    <3>5. Ended(journal.run)' /\ ~Ended(journal.run) => StopIsPending(journal.run)'
      BY <1>1, <2>2, <3>1 DEF Ended, StopIsPending
    <3> QED
      BY <3>2, <3>3, <3>4, <3>5
  <2> QED
    BY <1>2, <2>1, <2>3 DEF OfOneExposure
<1>4. CASE ShotTaken
  <2>1. /\ service.active /\ exposure.phase = "RUNNING" /\ pc \notin Finalizing
        /\ \A k \in DOMAIN events : events[k].run = exposure.run
        /\ UNCHANGED <<exposure, events>>
    BY <1>1, <1>4 DEF ShotTaken, TypeOK
  <2>2. ASSUME NEW r \in Runs, Followed(r), Ended(r) => StopIsPending(r)
        PROVE  r = exposure.run
    BY <1>1, <2>1, <2>2 DEF Followed, Ended, Over, StopIsPending
  <2>3. journal.run = exposure.run
    <3>1. CASE pc \in {"launch", "prepare"} /\ journal.run = target
      BY <1>1, <2>2, <3>1 DEF TargetInv, Starting
    <3>2. CASE pc = "idle" /\ Followed(journal.run)
               /\ (service.active /\ Ended(journal.run) => StopIsPending(journal.run))
      BY <1>1, <2>1, <2>2, <3>2
    <3> QED
      BY <2>1, <3>1, <3>2 DEF OfOneExposure
  <2>4. past'.taken = past.taken \cup {<<service.id, exposure.run>>}
    BY <1>1, <1>4 DEF ShotTaken, TypeOK, Pasts
  <2>5. \A t \in past'.taken : t[1] = journal.id => t[2] = journal.run
    BY <2>3, <2>4 DEF OfOneExposure
  <2>6. service'.active = service.active
    BY <1>1, <1>4 DEF ShotTaken, TypeOK, Services
  <2> QED
    BY <1>2, <2>1, <2>5, <2>6 DEF OfOneExposure, Followed, StopIsPending, Ended
<1>5. CASE SourceStops
  <2>1. /\ UNCHANGED <<exposure, events>> /\ past'.taken = past.taken /\ service.active
    BY <1>1, <1>5 DEF SourceStops, TypeOK, Pasts
  <2> QED
    BY <1>2, <2>1 DEF OfOneExposure, Followed, StopIsPending, Ended
<1> QED
  BY <1>3, <1>4, <1>5

LEMMA HandleKeepsWhole ==
  ASSUME ObserverInv, Handle, Unharmed, OfOneExposure
  PROVE  OfOneExposure'
<1>1. /\ TypeOK /\ EventsInv /\ journal.run \in Runs
      /\ exposure.run \in Nat /\ Runs \subseteq Nat
  BY BoundsAssumption DEF ObserverInv, TypeOK, Journals, Exposures, Runs
<1>2. UNCHANGED <<exposure, service, journal, records, observer, past>> /\ pc = "idle"
  BY DEF Handle, PreinitIgnored, PreinitStarts, RunningSeen, StoppedSeen, Idle
<1>3. observer.id = journal.id /\ observer.id # None
  BY <1>2 DEF OfOneExposure, Unharmed
<1>4. /\ Followed(journal.run) => Followed(journal.run)'
      /\ StopIsPending(journal.run) /\ Head(events) # [run |-> journal.run, phase |-> "STOPPED"] =>
           StopIsPending(journal.run)'
      /\ Ended(journal.run)' = Ended(journal.run)
  <2>1. ASSUME NEW r \in Runs, r = journal.run
        PROVE  /\ Followed(r) => Followed(r)'
               /\ StopIsPending(r) /\ Head(events) # [run |-> r, phase |-> "STOPPED"] =>
                    StopIsPending(r)'
    BY HandleFollowed
  <2> QED
    BY <1>1, <1>2, <2>1 DEF Followed, StopIsPending, Ended
<1>5. CASE PreinitIgnored \/ RunningSeen
  <2>1. pc' = pc /\ Head(events).phase # "STOPPED"
    BY <1>5 DEF PreinitIgnored, RunningSeen
  <2> QED
    BY <1>2, <1>4, <2>1 DEF OfOneExposure, Finalizing
<1>6. CASE StoppedSeen
  <2>1. pc' = "mark" /\ Head(events).phase = "STOPPED" /\ events # <<>> /\ events' = Tail(events)
    BY <1>3, <1>6 DEF StoppedSeen, Idle, Taken
  <2>2. 1 \in DOMAIN events /\ events[1].phase = "STOPPED" /\ events[1].run \in Nat
    <3>1. Len(events) \in Nat \ {0} /\ DOMAIN events = 1..Len(events)
          /\ Head(events) = events[1] /\ events[1] \in Exposures
      BY <1>1, <2>1, HandleDoes
    <3>2. 1 \in DOMAIN events
      BY <3>1
    <3>3. events[1].run \in Nat
      BY <1>1, <3>1 DEF Exposures
    <3> QED
      BY <2>1, <3>1, <3>2, <3>3
  <2>3. Over(exposure, events[1].run) /\ Followed(journal.run)
    BY <1>1, <1>2, <2>2 DEF EventsInv, Ended, OfOneExposure, Finalizing
  <2>4. journal.run <= events[1].run /\ journal.run \in Nat
    BY <1>1, <2>2, <2>3 DEF Followed
  <2>5. Ended(journal.run)
    BY <1>1, <2>2, <2>3, <2>4 DEF Ended, Over
  <2> QED
    BY <1>2, <1>4, <2>1, <2>5 DEF OfOneExposure, Finalizing
<1>7. ~PreinitStarts
  BY <1>3 DEF PreinitStarts
<1> QED
  BY <1>5, <1>6, <1>7 DEF Handle

LEMMA StartKeepsWhole ==
  ASSUME ObserverInv, StartStep, JournalIsWhole, Unharmed'
  PROVE  OfOneExposure'
<1>1. /\ TypeOK /\ SessionInv /\ RecordInv /\ TargetInv
      /\ UNCHANGED <<exposure, events, target>>
      /\ past'.taken = past.taken /\ past.hurt \subseteq past'.hurt
      /\ past.early \subseteq past'.early
  <2>1. TypeOK /\ Next
    BY DEF ObserverInv, Next
  <2>2. UNCHANGED <<exposure, events, target>>
    BY DEF StartStep, Begin, Launch, Prepare, Undo
  <2>3. ~ShotTaken
    <3>1. pc' # pc
      BY DEF StartStep, Begin, Launch, Prepare, Undo, Leads, Refused, Raised
    <3> QED
      BY <3>1 DEF ShotTaken
  <2> QED
    BY <2>1, <2>2, <2>3, PastGrows DEF ObserverInv
<1>2. CASE Begin
  <2>1. /\ journal'.id = sessions + 1 /\ journal'.run = target /\ pc' = "launch"
        /\ sessions \in Nat
    BY <1>1, <1>2, BoundsAssumption DEF Begin, TypeOK
  <2>2. \A t \in past.taken : t[1] # sessions + 1
    <3>1. \A t \in past.taken : t[1] \in Nat /\ t[1] <= sessions
      BY <1>1, BoundsAssumption DEF RecordInv, TypeOK, Pasts, Ids
    <3> QED
      BY <2>1, <3>1
  <2> QED
    BY <1>1, <2>1, <2>2 DEF OfOneExposure
<1>3. CASE Launch
  <2>1. UNCHANGED journal /\ journal.id \notin past'.hurt /\ journal.id # None
    BY <1>3 DEF Launch, Unharmed
  <2>2. service.id = None
    BY <1>1, <1>3 DEF Launch, SessionInv
  <2>3. pc' = "prepare"
    BY <1>1, <1>3, <2>1, <2>2, LeadsDoes DEF Launch
  <2>4. Unharmed /\ pc = "launch"
    BY <1>1, <1>3, <2>1 DEF Launch, Unharmed
  <2>5. OfOneExposure
    BY <2>4 DEF JournalIsWhole, OfOneExposure
  <2>6. journal.run = target
    BY <2>4, <2>5 DEF OfOneExposure, Finalizing
  <2> QED
    BY <1>1, <2>1, <2>3, <2>5, <2>6 DEF OfOneExposure
<1>4. CASE Prepare
  <2>1. UNCHANGED <<journal, service>> /\ journal.id \notin past'.hurt /\ pc = "prepare"
    BY <1>4 DEF Prepare, Unharmed
  <2>2. /\ pc' = "idle" /\ observer'.id = journal.id /\ journal.id \in Sessions
        /\ records'[journal.id] = Prepared(records[journal.id], target)
    BY <1>1, <1>4, <2>1, PrepareDoes
  <2>3. Unharmed
    BY <1>1, <1>4, <2>1 DEF Prepare, Unharmed
  <2>4. journal.run = target /\ \A t \in past.taken : t[1] = journal.id => t[2] = journal.run
    BY <2>1, <2>3 DEF JournalIsWhole, Finalizing
  <2>5. records'[journal.id].run = target
    <3>1. records[journal.id] \in Records /\ records[journal.id].status = "none" /\ target \in Runs
      BY <1>1, <2>1, <2>2 DEF RecordInv, TypeOK
    <3> QED
      BY <2>2, <3>1, Values
  <2>6. Followed(target) /\ (Ended(target) => StopIsPending(target))
    BY <1>1, <2>1 DEF TargetInv, Starting
  <2> QED
    BY <1>1, <2>1, <2>2, <2>4, <2>5, <2>6
       DEF OfOneExposure, Finalizing, Followed, StopIsPending, Ended
<1>5. CASE Undo
  <2>1. Unharmed /\ pc = "undo"
    BY <1>1, <1>5 DEF Undo, Unharmed, NoJournal
  <2> QED
    BY <2>1 DEF JournalIsWhole, Finalizing
<1> QED
  BY <1>2, <1>3, <1>4, <1>5 DEF StartStep

LEMMA FinalizeKeepsWhole ==
  ASSUME ObserverInv, FinalizeStep, JournalIsWhole, Unharmed'
  PROVE  OfOneExposure'
<1>1. /\ TypeOK /\ SessionInv /\ RecordInv /\ ClosingInv /\ CutInv
      /\ UNCHANGED <<exposure, events>>
      /\ past'.taken = past.taken /\ past.hurt \subseteq past'.hurt
      /\ past.early \subseteq past'.early /\ pc \in Finalizing
  BY PastGrows
     DEF ObserverInv, Next, FinalizeStep, Mark, Stop, Import, Context, Acknowledge, Describe,
         Release, Clear, ShotTaken, Finalizing
<1>2. ~Clear
  BY DEF Clear, Unharmed, NoJournal
<1>3. /\ journal'.id = journal.id /\ journal'.run = journal.run /\ observer'.id = observer.id
  <2>1. CASE Mark
    BY <1>1, <2>1 DEF Mark, Leads, TypeOK, Journals, Observers
  <2>2. CASE ~Mark
    BY <1>2, <2>2 DEF FinalizeStep, Stop, Import, Context, Acknowledge, Describe, Release
  <2> QED
    BY <2>1, <2>2
<1>4. Unharmed /\ observer.id = journal.id /\ journal.id \in Sessions
  BY <1>1, <1>3, SessionOfJournal DEF Unharmed
<1>5. OfOneExposure /\ Ended(journal.run) /\ Followed(journal.run)
      /\ records[journal.id].run = journal.run
  BY <1>1, <1>4 DEF JournalIsWhole, OfOneExposure, Finalizing
<1>6. then # "down"
  BY <1>1, <1>4 DEF ClosingInv, Unharmed, Finalizing
<1>7. records'[journal.id].run = records[journal.id].run
  <2>1. CASE Import \/ Context \/ Describe
    BY <1>1, <1>4, <2>1, ImportDoes, ContextDoes, DescribeDoes DEF Record
  <2>2. CASE ~(Import \/ Context \/ Describe)
    BY <1>2, <2>2 DEF FinalizeStep, Mark, Stop, Acknowledge, Release
  <2> QED
    BY <2>1, <2>2
<1>8. pc' \in {"idle"} \cup Finalizing
  BY <1>1, <1>2, <1>6
     DEF FinalizeStep, Mark, Stop, Import, Context, Acknowledge, Describe, Release, Leads, Refused,
         Raised, BeforeAcknowledge, Finalizing
<1>9. pc' = "idle" => ~service'.active
  <2>1. CASE Mark
    BY <1>4, <2>1, LeadsDoes, <1>1, <1>3 DEF Mark, Unharmed, Raised, Finalizing
  <2>2. CASE Stop
    <3>1. CASE service.id # observer.id
      BY <1>1, <1>4, <2>2, <3>1 DEF Stop, SessionInv
    <3>2. CASE service.id = observer.id
      BY <1>1, <1>3, <2>2, <3>2, LeadsDoes DEF Stop, Unharmed
    <3> QED
      BY <3>1, <3>2
  <2>3. CASE Import \/ Context \/ Describe
    BY <1>1, <2>3 DEF Import, Context, Describe, SessionInv, Finalizing
  <2>4. CASE Acknowledge
    <3>1. ~service.active /\ service'.active = service.active
      BY <1>1, <2>4 DEF Acknowledge, Leads, SessionInv, Finalizing, TypeOK, Services
    <3> QED
      BY <3>1
  <2>5. CASE Release
    <3>1. ~service.active /\ (service' = service \/ service' = NoSession)
      BY <1>1, <2>5 DEF Release, Leads, SessionInv, Finalizing
    <3> QED
      BY <3>1 DEF NoSession
  <2> QED
    BY <1>2, <2>1, <2>2, <2>3, <2>4, <2>5 DEF FinalizeStep
<1> QED
  BY <1>1, <1>3, <1>4, <1>5, <1>7, <1>8, <1>9
     DEF OfOneExposure, Followed, StopIsPending, Ended, Finalizing

LEMMA JournalWholeKeeps ==
  ASSUME ObserverInv, Next
  PROVE  JournalIsWhole'
<1>1. TypeOK /\ JournalIsWhole
  BY DEF ObserverInv
<1>2. SUFFICES ASSUME Unharmed' PROVE OfOneExposure'
  BY DEF JournalIsWhole, OfOneExposure
<1>3. CASE ExposureMoves \/ ShotTaken \/ SourceStops \/ Handle
  <2>1. UNCHANGED journal
    BY <1>3 DEF ExposureMoves, ShotTaken, SourceStops, Handle, PreinitIgnored, PreinitStarts,
      RunningSeen, StoppedSeen
  <2>2. Unharmed /\ OfOneExposure
    BY <1>1, <1>2, <2>1, PastGrows DEF Unharmed, JournalIsWhole, OfOneExposure
  <2> QED
    BY <1>3, <2>2, EnvironmentKeepsWhole, HandleKeepsWhole
<1>4. CASE StartStep
  BY <1>1, <1>2, <1>4, StartKeepsWhole
<1>5. CASE FinalizeStep
  BY <1>1, <1>2, <1>5, FinalizeKeepsWhole
<1>6. CASE RecoverStep \/ Restart
  <2>1. UNCHANGED journal /\ pc \in {"recover", "adopt", "down"}
    BY <1>6 DEF RecoverStep, Recover, Adopt, Restart
  <2>2. Unharmed
    BY <1>1, <1>2, <2>1, PastGrows DEF Unharmed
  <2> QED
    BY <1>1, <2>1, <2>2 DEF JournalIsWhole, Finalizing
<1>7. CASE Close
  <2>1. UNCHANGED journal /\ pc = "idle" /\ observer.id \in past'.early
    BY <1>1, <1>7 DEF Close, TypeOK, Pasts
  <2>2. Unharmed
    BY <1>1, <1>2, <2>1, PastGrows DEF Unharmed
  <2> QED
    BY <1>1, <1>2, <2>1, <2>2 DEF JournalIsWhole, Unharmed, Finalizing
<1>8. CASE Killed
  BY <1>1, <1>2, <1>8 DEF Killed, Unharmed, TypeOK, Pasts
<1> QED
  BY <1>3, <1>4, <1>5, <1>6, <1>7, <1>8 DEF Next

-----------------------------------------------------------------------------
(* The invariant.                                                           *)

LEMMA ObserverStarts == Init => ObserverInv
<1> SUFFICES ASSUME Init PROVE ObserverInv
  OBVIOUS
<1>1. /\ exposure \in Exposures /\ events = <<>> /\ DOMAIN events = {}
      /\ service = NoSession /\ journal = NoJournal /\ observer = NoRun
      /\ pc = "idle" /\ then = "idle" /\ target = 0 /\ sessions = 0 /\ faults = 0
      /\ past = [taken |-> {}, cut |-> {}, early |-> {}, hurt |-> {}, torn |-> {}]
      /\ records \in [Sessions -> Records] /\ \A id \in Sessions : records[id] = NoRecord
  BY Values, BoundsAssumption DEF Init, Exposures, Runs, None
<1>2. /\ NoRecord.status = "none" /\ NoRecord.files = {} /\ DOMAIN NoRecord.context = {}
      /\ service.id = 0 /\ ~service.active /\ ~service.asked /\ service.shots = {}
      /\ service.acked = {} /\ journal.id = 0 /\ observer.id = 0
  BY <1>1 DEF NoRecord, NoSession, NoJournal, NoRun, None
<1>3. TypeOK
  <2>1. past \in Pasts /\ events \in Seq(Exposures)
    BY <1>1 DEF Pasts
  <2>2. target \in Runs /\ sessions \in 0..MaxSessions /\ faults \in 0..MaxFaults
    BY <1>1, BoundsAssumption DEF Runs
  <2> QED
    BY <1>1, <1>2, <2>1, <2>2, Values DEF TypeOK, Steps
<1>4. SessionInv
  BY <1>1, <1>2 DEF SessionInv, None, Starting, Finalizing
<1>5. RecordInv
  BY <1>1, <1>2 DEF RecordInv, None
<1>6. CapturingIsHeld
  BY <1>1, <1>2 DEF CapturingIsHeld
<1>7. CustodyInv
  BY <1>1, <1>2 DEF CustodyInv, None
<1>8. CutInv
  BY <1>1, <1>2 DEF CutInv
<1>9. EventsInv
  BY <1>1 DEF EventsInv
<1>10. TargetInv /\ ClosingInv
  BY <1>1 DEF TargetInv, ClosingInv, Starting
<1>11. JournalIsWhole /\ RecordsAreWhole
  BY <1>1, <1>2 DEF JournalIsWhole, RecordsAreWhole, Unharmed, None
<1> QED
  BY <1>3, <1>4, <1>5, <1>6, <1>7, <1>8, <1>9, <1>10, <1>11 DEF ObserverInv

LEMMA ObserverKeeps ==
  ASSUME ObserverInv, [Next]_vars
  PROVE  ObserverInv'
<1>1. CASE Next
  <2>1. TypeOK'
    <3>1. TypeOK /\ (pc \in {"context", "acknowledge"} => Waiting # {})
      BY DEF ObserverInv, CustodyInv
    <3> QED
      BY <1>1, <3>1, EnvironmentTypes, StartTypes, RecoverTypes, FinalizeTypes DEF Next
  <2> QED
    BY <1>1, <2>1, SessionKeeps, RecordsKeep, CapturingKeeps, CustodyKeeps, CutKeeps, EventsKeep,
       TargetKeeps, ClosingKeeps, JournalWholeKeeps, RecordsWholeKeep DEF ObserverInv
<1>2. CASE UNCHANGED vars
  <2>1. UNCHANGED <<exposure, events, service, journal, records, observer, pc, then, target,
                    sessions, faults, past>>
    BY <1>2 DEF vars
  <2>2. Waiting' = Waiting /\ NextShot' = NextShot /\ Record' = Record
    BY <2>1, SameShot DEF Record
  <2>3. TypeOK' /\ SessionInv' /\ RecordInv' /\ CapturingIsHeld'
    BY <2>1 DEF ObserverInv, TypeOK, SessionInv, RecordInv, CapturingIsHeld
  <2>4. CustodyInv' /\ CutInv'
    BY <2>1, <2>2 DEF ObserverInv, CustodyInv, CutInv
  <2>5. EventsInv' /\ TargetInv' /\ ClosingInv'
    BY <2>1 DEF ObserverInv, EventsInv, TargetInv, ClosingInv, Followed, StopIsPending, Ended
  <2>6. JournalIsWhole' /\ RecordsAreWhole'
    BY <2>1 DEF ObserverInv, JournalIsWhole, RecordsAreWhole, Unharmed, Followed,
      StopIsPending, Ended
  <2> QED
    BY <2>3, <2>4, <2>5, <2>6 DEF ObserverInv
<1> QED
  BY <1>1, <1>2

\* Every step of the exposure controller, of the acquisition service and of the
\* observer keeps the inductive invariant, from the first state on.
THEOREM ObserverInvariant == Spec => []ObserverInv
BY ObserverStarts, ObserverKeeps, PTL DEF Spec

\* The variables have their types, and nothing is acknowledged that the
\* service did not spool.
THEOREM ObserverTypes == Spec => []TypeOK
<1>1. ObserverInv => TypeOK
  BY DEF ObserverInv
<1> QED
  BY <1>1, ObserverInvariant, PTL

-----------------------------------------------------------------------------
(* The entries of an open record.                                           *)

Agrees(context, acked, seen) ==
  \A s \in DOMAIN context \ acked :
    context[s] = IF s \in seen THEN "timed" ELSE "unknown"

\* What is in the context of a snapshot that waits is what the observer would
\* enter again, or a process ended in between.
EntriesInv ==
  /\ observer.id = None => observer.seen = {}
  /\ \A id \in Sessions : records[id].status = "capturing" =>
       Agrees(records[id].context, service.acked, observer.seen) \/ id \in past.torn

LEMMA EntriesStand ==
  ASSUME EntriesInv, past.torn \subseteq past'.torn,
         observer'.id = observer.id, observer'.seen = observer.seen,
         service.acked \subseteq service'.acked,
         \A id \in Sessions : records'[id].status = "capturing" =>
           /\ records[id].status = "capturing"
           /\ records'[id].context = records[id].context
  PROVE  EntriesInv'
<1> SUFFICES ASSUME NEW id \in Sessions, records'[id].status = "capturing", id \notin past'.torn
             PROVE  Agrees(records'[id].context, service'.acked, observer'.seen)
  BY DEF EntriesInv
<1>1. Agrees(records[id].context, service.acked, observer.seen)
  BY DEF EntriesInv
<1>2. records'[id].context = records[id].context
  OBVIOUS
<1> QED
  BY <1>1, <1>2 DEF Agrees

\* No record is open while the service holds no session.
LEMMA NothingIsOpen ==
  ASSUME ObserverInv, service.id = None
  PROVE  \A id \in Sessions : records[id].status # "capturing"
BY BoundsAssumption DEF ObserverInv, CapturingIsHeld, Sessions, None

LEMMA StepsGrowTorn ==
  ASSUME ObserverInv, Next
  PROVE  past.torn \subseteq past'.torn
<1>1. past' = past \/ (\E T, I :
        \/ past' = [past EXCEPT !.taken = @ \cup T] \/ past' = [past EXCEPT !.cut = @ \cup I]
        \/ past' = [past EXCEPT !.early = @ \cup I] \/ past' = [past EXCEPT !.hurt = @ \cup I]
        \/ past' = [past EXCEPT !.torn = @ \cup I])
  <2>1. CASE ExposureMoves \/ Handle \/ Begin \/ Clear
    BY <2>1 DEF ExposureMoves, Handle, PreinitIgnored, PreinitStarts, RunningSeen, StoppedSeen,
      Begin, Clear
  <2>2. CASE ShotTaken \/ SourceStops \/ Undo
    BY <2>2 DEF ShotTaken, SourceStops, Undo
  <2>3. CASE Launch \/ Prepare \/ Recover \/ Adopt
    BY <2>3 DEF Launch, Prepare, Recover, Adopt, Leads, Refused
  <2>4. CASE Mark \/ Stop \/ Import \/ Context
    BY <2>4 DEF Mark, Stop, Import, Context, Leads, Refused
  <2>5. CASE Acknowledge \/ Describe \/ Release
    BY <2>5 DEF Acknowledge, Describe, Release, Leads
  <2>6. CASE Close \/ Killed \/ Restart
    BY <2>6 DEF Close, Killed, Restart
  <2> QED
    BY <2>1, <2>2, <2>3, <2>4, <2>5, <2>6 DEF Next, StartStep, RecoverStep, FinalizeStep
<1>2. past \in Pasts
  BY DEF ObserverInv, TypeOK
<1> QED
  BY <1>1, <1>2 DEF Pasts

LEMMA ContextEnters ==
  ASSUME ObserverInv, Context
  PROVE  /\ observer.id \in Sessions /\ UNCHANGED <<observer, service>>
         /\ \A id \in Sessions \ {observer.id} : records'[id] = records[id]
         /\ records'[observer.id].status = Record.status
         /\ \A s \in DOMAIN records'[observer.id].context :
              \/ s \in DOMAIN Record.context /\ records'[observer.id].context[s] = Record.context[s]
              \/ records'[observer.id].context[s] = Evidence(s)
<1>1. observer.id \in Sessions /\ TypeOK /\ SessionInv
  BY SessionOfJournal DEF ObserverInv, Context, Finalizing
<1>2. /\ \A id \in Sessions \ {observer.id} : records'[id] = records[id]
      /\ records'[observer.id].status = Record.status
  BY <1>1, ContextDoes
<1> DEFINE new == [t \in DOMAIN Record.context \cup {NextShot} |->
                     IF t = NextShot THEN Evidence(NextShot) ELSE Record.context[t]]
<1>3. \/ records' = records
      \/ records' = [records EXCEPT ![observer.id].context = new]
  BY DEF Context, Leads, Record
<1>4. Record \in Records /\ records \in [Sessions -> Records]
  BY <1>1 DEF Record, TypeOK
<1>6. \A s \in DOMAIN new : \/ s \in DOMAIN Record.context /\ new[s] = Record.context[s]
                          \/ new[s] = Evidence(s)
  OBVIOUS
<1>7. UNCHANGED <<observer, service>>
  BY DEF Context
<1> HIDE DEF new
<1>5. records'[observer.id].context \in {Record.context, new}
  <2>1. CASE records' = records
    BY <2>1 DEF Record
  <2>2. CASE records' = [records EXCEPT ![observer.id].context = new]
    <3>1. records'[observer.id] = [Record EXCEPT !.context = new]
      BY <1>1, <1>4, <2>2 DEF Record
    <3> QED
      BY <1>4, <3>1 DEF Records
  <2> QED
    BY <1>3, <2>1, <2>2
<1> QED
  BY <1>1, <1>2, <1>5, <1>6, <1>7

LEMMA EntriesKeep ==
  ASSUME ObserverInv, EntriesInv, Next
  PROVE  EntriesInv'
<1> USE DEF ObserverInv
<1>1. /\ TypeOK /\ SessionInv /\ past.torn \subseteq past'.torn
      /\ records \in [Sessions -> Records] /\ service \in Services /\ observer \in Observers
  BY StepsGrowTorn DEF TypeOK
<1>2. CASE ExposureMoves \/ Handle \/ Begin \/ Recover \/ Close \/ Killed
  <2>1. UNCHANGED <<records, service, observer>>
    BY <1>2 DEF ExposureMoves, Handle, PreinitIgnored, PreinitStarts, RunningSeen, StoppedSeen,
      Begin, Recover, Close, Killed
  <2> QED
    BY <1>1, <2>1, EntriesStand
<1>3. CASE SourceStops \/ Undo \/ Stop \/ Acknowledge \/ Mark
  <2>1. records' = records
    BY <1>3 DEF SourceStops, Undo, Stop, Acknowledge, Mark
  <2>2. service.acked \subseteq service'.acked
    BY <1>1, <1>3 DEF SourceStops, Undo, Stop, Acknowledge, Mark, Leads, Services
  <2>3. observer'.id = observer.id /\ observer'.seen = observer.seen
    BY <1>1, <1>3 DEF SourceStops, Undo, Stop, Acknowledge, Mark, Observers
  <2> QED
    BY <1>1, <2>1, <2>2, <2>3, EntriesStand
<1>4. CASE Import \/ Describe
  <2>1. /\ observer.id \in Sessions /\ UNCHANGED <<service, observer>>
        /\ \A id \in Sessions \ {observer.id} : records'[id] = records[id]
        /\ records'[observer.id].context = Record.context
        /\ records'[observer.id].status \in {Record.status, Outcome}
    BY <1>1, <1>4, ImportDoes, DescribeDoes, SessionOfJournal
       DEF Import, Describe, RecordChange, Finalizing, Record
  <2>2. Outcome # "capturing"
    BY DEF Outcome
  <2> QED
    BY <1>1, <2>1, <2>2, EntriesStand DEF Record
<1>5. CASE ShotTaken
  <2>1. /\ records' = records /\ service'.acked = service.acked /\ past'.torn = past.torn
        /\ service.active
        /\ \E s \in Shots \ service.shots : observer'.seen \in {observer.seen, observer.seen \cup {s}}
        /\ observer'.id = observer.id
        /\ observer'.seen # observer.seen => observer.id = service.id
    BY <1>1, <1>5 DEF ShotTaken, Services, Observers, TypeOK, Pasts
  <2>2. service.id # None
    BY <2>1 DEF SessionInv
  <2>3. PICK s \in Shots \ service.shots : observer'.seen \in {observer.seen, observer.seen \cup {s}}
    BY <2>1
  <2>4. ASSUME NEW id \in Sessions, records'[id].status = "capturing"
        PROVE  Agrees(records'[id].context, service'.acked, observer'.seen) \/ id \in past'.torn
    <3>1. service.id = id
      BY <2>1, <2>4 DEF CapturingIsHeld
    <3>2. s \notin DOMAIN records[id].context
      BY <2>2, <2>3, <3>1 DEF CustodyInv
    <3>3. Agrees(records[id].context, service.acked, observer.seen) \/ id \in past.torn
      BY <2>1, <2>4 DEF EntriesInv
    <3> QED
      BY <2>1, <2>3, <3>2, <3>3 DEF Agrees
  <2> QED
    BY <2>1, <2>2, <2>4 DEF EntriesInv
<1>6. CASE Launch \/ Release
  <2>1. records' = records /\ observer' = observer
    BY <1>6 DEF Launch, Release
  <2>2. CASE service' = service
    BY <1>1, <2>1, <2>2, EntriesStand
  <2>3. CASE service' # service
    <3>1. CASE Launch
      <4>1. service.id = None
        BY <2>3, <3>1 DEF Launch
      <4> QED
        BY <2>1, <4>1, NothingIsOpen DEF EntriesInv
    <3>2. CASE Release
      <4>1. \A id \in Sessions : records[id].status # "capturing"
        BY <1>1, <3>2, SessionOfJournal
           DEF Release, RecordInv, SessionInv, CapturingIsHeld, Finalizing
      <4> QED
        BY <2>1, <4>1 DEF EntriesInv
    <3> QED
      BY <1>6, <3>1, <3>2
  <2> QED
    BY <2>2, <2>3
<1>7. CASE Clear
  <2>1. service.id = None /\ records' = records /\ observer' = NoRun
    BY <1>7 DEF Clear, SessionInv
  <2> QED
    BY <2>1, NothingIsOpen DEF EntriesInv, NoRun
<1>8. CASE Prepare \/ Adopt
  <2>1. /\ journal.id \in Sessions /\ observer.id = None /\ service' = service
        /\ \A id \in Sessions \ {journal.id} : records'[id] = records[id]
        /\ \/ records'[journal.id] = records[journal.id]
           \/ \E r \in Runs : records'[journal.id] = Prepared(records[journal.id], r)
    BY <1>1, <1>8, PrepareDoes, AdoptDoes
       DEF Prepare, Adopt, SessionInv, Starting, TypeOK, Journals
  <2>2. observer.seen = {} /\ observer'.seen = {}
    <3>1. observer.seen = {} /\ NoRun.seen = {}
      BY <2>1 DEF EntriesInv, NoRun
    <3>2. \/ observer' = observer
          \/ observer' = [NoRun EXCEPT !.id = journal.id, !.run = target]
          \/ observer' = [id |-> journal.id, run |-> journal.run,
                           stopped |-> journal.stopped, seen |-> {}]
      BY <1>8 DEF Prepare, Adopt
    <3>3. CASE observer' = observer
      BY <3>1, <3>3
    <3>4. CASE observer' = [NoRun EXCEPT !.id = journal.id, !.run = target]
      BY <3>1, <3>4 DEF NoRun
    <3>5. CASE observer' = [id |-> journal.id, run |-> journal.run,
                            stopped |-> journal.stopped, seen |-> {}]
      BY <3>1, <3>5
    <3> QED
      BY <3>2, <3>3, <3>4, <3>5
  <2>3. ASSUME NEW id \in Sessions, records'[id].status = "capturing"
        PROVE  Agrees(records'[id].context, service'.acked, observer'.seen) \/ id \in past'.torn
    <3>1. CASE records'[id] = records[id]
      BY <1>1, <2>1, <2>2, <2>3, <3>1 DEF EntriesInv
    <3>2. CASE records'[id] # records[id]
      <4>1. DOMAIN records'[id].context = {}
        BY <1>1, <2>1, <3>2, Values
      <4> QED
        BY <4>1 DEF Agrees
    <3> QED
      BY <3>1, <3>2
  <2> QED
    BY <2>2, <2>3 DEF EntriesInv
<1>9. CASE Context
  <2>1. ASSUME NEW id \in Sessions, records'[id].status = "capturing"
        PROVE  Agrees(records'[id].context, service'.acked, observer'.seen) \/ id \in past'.torn
    <3>1. records[id].status = "capturing"
      BY <1>9, <2>1, ContextEnters DEF Record
    <3>2. Agrees(records[id].context, service.acked, observer.seen) \/ id \in past.torn
      BY <3>1 DEF EntriesInv
    <3>3. \A s \in DOMAIN records'[id].context :
            \/ s \in DOMAIN records[id].context /\ records'[id].context[s] = records[id].context[s]
            \/ records'[id].context[s] = Evidence(s)
      BY <1>9, ContextEnters DEF Record
    <3> QED
      BY <1>1, <1>9, <3>2, <3>3, ContextEnters DEF Agrees, Evidence
  <2> QED
    BY <1>9, <2>1, ContextEnters DEF EntriesInv
<1>10. CASE Restart
  <2>1. /\ records' = records /\ service' = service /\ observer'.id = None /\ observer'.seen = {}
        /\ past'.torn = past.torn \cup {id \in Sessions : id = service.id /\ Unanswered(id) # {}}
    BY <1>10 DEF Restart, NoRun, TypeOK, Pasts
  <2>2. ASSUME NEW id \in Sessions, records'[id].status = "capturing", id \notin past'.torn
        PROVE  Agrees(records'[id].context, service'.acked, observer'.seen)
    <3>1. Unanswered(id) = {}
      BY <2>1, <2>2 DEF CapturingIsHeld
    <3> QED
      BY <2>1, <3>1 DEF Agrees, Unanswered
  <2> QED
    BY <2>1, <2>2 DEF EntriesInv
<1> QED
  BY <1>2, <1>3, <1>4, <1>5, <1>6, <1>7, <1>8, <1>9, <1>10
     DEF Next, StartStep, RecoverStep, FinalizeStep

\* Whatever step of a start, a recovery or a finalization fails, is repeated or
\* is cut short by a kill, a record that says "capturing" is the one of the
\* session that the service holds and the journal names, and no entry of its
\* context stands in the way of the next finalization, unless a process ended
\* between an entry and the acknowledgement of its snapshot (_start, _recover,
\* _finalize, _append_snapshot_context).
THEOREM CapturingStaysRecoverable == Spec => []CapturingIsRecoverable
<1>1. Init => EntriesInv
  BY DEF Init, EntriesInv, NoRun, NoRecord
<1>2. ASSUME ObserverInv, EntriesInv, [Next]_vars PROVE EntriesInv'
  <2>1. CASE UNCHANGED vars
    BY <1>2, <2>1 DEF vars, EntriesInv
  <2> QED
    BY <1>2, <2>1, EntriesKeep
<1>3. ASSUME ObserverInv, EntriesInv PROVE CapturingIsRecoverable
  BY <1>3 DEF ObserverInv, CapturingIsHeld, EntriesInv, CapturingIsRecoverable, Agrees,
    Unanswered, Evidence
<1> QED
  BY <1>1, <1>2, <1>3, ObserverInvariant, PTL DEF Spec

\* A record that says "complete" was served to its end and, unless a step
\* failed in it or the observer was closed in it, is of one exposure only, the
\* whole of it (observe_phase, _finalize, finalize_run).
THEOREM CompleteRecordsAreWhole == Spec => []CompleteIsWhole
<1>1. ASSUME ObserverInv PROVE CompleteIsWhole
  <2>1. \A id \in Sessions : records[id].status = "complete" =>
          /\ id \notin past.cut
          /\ \/ id \in past.hurt \cup past.early
             \/ /\ \A t \in past.taken : t[1] = id => t[2] = records[id].run
                /\ Ended(records[id].run)
    BY <1>1 DEF ObserverInv, CutInv, RecordsAreWhole
  <2>2. \A r : Ended(r) => exposure.run > r \/ exposure.phase = "STOPPED"
    BY DEF Ended, Over
  <2> QED
    BY <2>1, <2>2 DEF CompleteIsWhole
<1> QED
  BY <1>1, ObserverInvariant, PTL

-----------------------------------------------------------------------------
(* The observer implements SnapshotCustody.                                 *)

LEMMA CustodyStarts == Init => Custody!Init
<1> SUFFICES ASSUME Init PROVE Custody!Init
  OBVIOUS
<1>1. service.shots = {} /\ \A id \in Sessions : records[id] = NoRecord
  BY DEF Init, NoSession
<1>2. NoRecord.files = {} /\ NoRecord.status = "none"
  BY DEF NoRecord
<1>3. Spooled = {} /\ Kept = {} /\ Analysed = {}
  BY <1>1, <1>2 DEF Spooled, Kept, Analysed
<1> QED
  BY <1>3 DEF Custody!Init

\* What the abstract state depends on.

LEMMA CustodyDependsOn ==
  /\ service'.id = service.id /\ service'.shots \ service'.acked = service.shots \ service.acked =>
       Spooled' = Spooled
  /\ (\A id \in Sessions : /\ records'[id].files = records[id].files
                           /\ DOMAIN records'[id].context = DOMAIN records[id].context) =>
       Kept' = Kept
  /\ (\A id \in Sessions : records'[id].status = records[id].status) => Analysed' = Analysed
BY DEF Spooled, Kept, Analysed

\* Only the digitizer, an acknowledgement and the end of a spool change the
\* snapshots that the service has to answer for.
LEMMA ServiceStutters ==
  ASSUME ObserverInv, Next, ~ShotTaken, ~Acknowledge
  PROVE  Spooled' = Spooled
<1>1. TypeOK /\ SessionInv /\ CustodyInv
  BY DEF ObserverInv
<1>2. CASE Launch
  <2>1. service.shots = {} /\ service' \in {service, Opened(journal.id)} /\ journal.id \in Ids
    BY <1>1, <1>2 DEF Launch, SessionInv, Leads, TypeOK, Journals
  <2>2. Opened(journal.id).shots = {}
    BY <2>1, Values
  <2> QED
    BY <2>1, <2>2 DEF Spooled
<1>3. CASE Release
  <2>1. Waiting = {} /\ service' \in {service, NoSession}
    BY <1>1, <1>3 DEF Release, Leads, CustodyInv
  <2> QED
    BY <2>1 DEF Spooled, Waiting, NoSession
<1>4. CASE SourceStops \/ Undo \/ Stop
  <2>1. /\ service'.id = service.id /\ service'.shots = service.shots
        /\ service'.acked = service.acked
    <3>1. \/ service' = service
          \/ service' = [service EXCEPT !.active = FALSE]
          \/ service' = [service EXCEPT !.active = FALSE, !.asked = @ \/ service.active]
      BY <1>4 DEF SourceStops, Undo, Stop, Leads
    <3> QED
      BY <1>1, <3>1 DEF TypeOK, Services
  <2> QED
    BY <2>1 DEF Spooled
<1>5. CASE ~(Launch \/ Release \/ SourceStops \/ Undo \/ Stop)
  <2>1. UNCHANGED service
    BY <1>5 DEF Next, Handle, StartStep, RecoverStep, FinalizeStep, ExposureMoves,
      PreinitIgnored, PreinitStarts, RunningSeen, StoppedSeen, Begin, Prepare, Recover, Adopt,
      Mark, Import, Context, Describe, Clear, Close, Killed, Restart
  <2> QED
    BY <2>1 DEF Spooled
<1> QED
  BY <1>2, <1>3, <1>4, <1>5

\* Only the context of a snapshot completes its copy.

LEMMA RecordStutters ==
  ASSUME ObserverInv, Next, ~Context
  PROVE  Kept' = Kept
<1>1. TypeOK /\ SessionInv /\ CustodyInv /\ RecordInv
  BY DEF ObserverInv
<1>2. CASE Prepare \/ Adopt
  <2>1. ASSUME NEW id \in Sessions
        PROVE  /\ records'[id].files = records[id].files
               /\ DOMAIN records'[id].context = DOMAIN records[id].context
    <3>1. \/ records'[id] = records[id]
          \/ \E r \in Runs : records'[id] = Prepared(records[id], r)
      BY <1>1, <1>2, PrepareDoes, AdoptDoes DEF TypeOK, Journals
    <3>2. records[id] \in Records
      BY <1>1 DEF TypeOK
    <3>3. \/ records'[id] = records[id]
          \/ /\ records[id].status = "none"
             /\ records'[id].files = {} /\ DOMAIN records'[id].context = {}
      BY <3>1, <3>2, Values
    <3>4. records[id].status = "none" =>
            records[id].files = {} /\ DOMAIN records[id].context = {}
      BY <1>1 DEF RecordInv
    <3> QED
      BY <3>3, <3>4
  <2> QED
    BY <2>1, CustodyDependsOn
<1>3. CASE Describe
  <2>1. \A id \in Sessions : /\ records'[id].files = records[id].files
                             /\ DOMAIN records'[id].context = DOMAIN records[id].context
    BY <1>1, <1>3, DescribeDoes DEF Record, RecordChange
  <2> QED
    BY <2>1, CustodyDependsOn
<1>4. CASE Import
  <2>1. CASE Waiting = {}
    <3>1. UNCHANGED records
      BY <1>4, <2>1 DEF Import
    <3> QED
      BY <3>1 DEF Kept
  <2>2. CASE Waiting # {}
    <3>1. /\ \A id \in Sessions \ {observer.id} : records'[id] = records[id]
          /\ records'[observer.id].context = records[observer.id].context
          /\ records'[observer.id].files \in
               {records[observer.id].files, records[observer.id].files \cup {NextShot}}
      BY <1>1, <1>4, <2>2, ImportDoes DEF RecordChange, Record
    <3>2. \A id \in Sessions : DOMAIN records[id].context \subseteq records[id].files
      BY <1>1 DEF CustodyInv
    <3>3. \A id \in Sessions, s \in Shots :
            s \in records'[id].files /\ s \in DOMAIN records'[id].context <=>
            s \in records[id].files /\ s \in DOMAIN records[id].context
      BY <3>1, <3>2
    <3> QED
      BY <3>3 DEF Kept
  <2> QED
    BY <2>1, <2>2
<1>5. CASE ~(Prepare \/ Adopt \/ Describe \/ Import)
  <2>1. UNCHANGED records
    BY <1>5 DEF Next, Handle, StartStep, RecoverStep, FinalizeStep, ExposureMoves, ShotTaken,
      SourceStops, PreinitIgnored, PreinitStarts, RunningSeen, StoppedSeen, Begin, Launch, Undo,
      Recover, Mark, Stop, Acknowledge, Release, Clear, Close, Killed, Restart
  <2> QED
    BY <2>1 DEF Kept
<1> QED
  BY <1>2, <1>3, <1>4, <1>5

LEMMA AnalysisStutters ==
  ASSUME ObserverInv, Next, ~Describe
  PROVE  Analysed' = Analysed
<1>1. TypeOK /\ SessionInv
  BY DEF ObserverInv
<1>2. CASE Prepare \/ Adopt
  <2>1. ASSUME NEW id \in Sessions
        PROVE  records'[id].status \in {"complete", "incomplete"} <=>
               records[id].status \in {"complete", "incomplete"}
    <3>1. \/ records'[id] = records[id]
          \/ \E r \in Runs : records'[id] = Prepared(records[id], r)
      BY <1>1, <1>2, PrepareDoes, AdoptDoes DEF TypeOK, Journals
    <3>2. records[id] \in Records
      BY <1>1 DEF TypeOK
    <3>3. \/ records'[id] = records[id]
          \/ records[id].status = "none" /\ records'[id].status = "capturing"
      BY <3>1, <3>2, Values
    <3> QED
      BY <3>3
  <2> QED
    BY <2>1 DEF Analysed
<1>3. CASE Import \/ Context
  <2>1. \A id \in Sessions : records'[id].status = records[id].status
    BY <1>1, <1>3, ImportDoes, ContextDoes DEF Record, RecordChange
  <2> QED
    BY <2>1, CustodyDependsOn
<1>4. CASE ~(Prepare \/ Adopt \/ Import \/ Context)
  <2>1. UNCHANGED records
    BY <1>4 DEF Next, Handle, StartStep, RecoverStep, FinalizeStep, ExposureMoves, ShotTaken,
      SourceStops, PreinitIgnored, PreinitStarts, RunningSeen, StoppedSeen, Begin, Launch, Undo,
      Recover, Mark, Stop, Acknowledge, Release, Clear, Close, Killed, Restart
  <2> QED
    BY <2>1 DEF Analysed
<1> QED
  BY <1>2, <1>3, <1>4

\* A shot is spooled, and is not in the record yet.

LEMMA ShotIsSpooled ==
  ASSUME ObserverInv, ShotTaken
  PROVE  \E s \in Sessions \X Shots : Custody!Spool(s)
<1>1. TypeOK /\ SessionInv /\ CustodyInv /\ Next
  BY DEF ObserverInv, Next
<1>2. service.active /\ service.id \in Sessions
  BY <1>1, SessionOfJournal DEF ShotTaken, SessionInv
<1>3. PICK s \in Shots \ service.shots : service' = [service EXCEPT !.shots = @ \cup {s}]
  BY DEF ShotTaken
<1>4. /\ service'.id = service.id /\ service'.shots = service.shots \cup {s}
      /\ service'.acked = service.acked /\ s \notin service.acked
  BY <1>1, <1>3 DEF TypeOK, Services
<1>5. Spooled' = Spooled \cup {<<service.id, s>>}
  BY <1>4 DEF Spooled
<1>6. <<service.id, s>> \notin Spooled /\ <<service.id, s>> \notin Kept
  <2>1. s \notin records[service.id].files
    BY <1>1, <1>2, <1>3 DEF CustodyInv, Sessions, None
  <2> QED
    BY <1>3, <2>1 DEF Spooled, Kept
<1>7. Kept' = Kept /\ Analysed' = Analysed
  BY <1>1, RecordStutters, AnalysisStutters DEF ShotTaken, Context, Describe, Finalizing
<1>8. <<service.id, s>> \in Sessions \X Shots
  BY <1>2, <1>3
<1> QED
  BY <1>5, <1>6, <1>7, <1>8 DEF Custody!Spool

\* The context of a snapshot completes its copy, unless it was complete.

LEMMA ContextCopies ==
  ASSUME ObserverInv, Context
  PROVE  \/ UNCHANGED <<Spooled, Kept, Analysed>>
         \/ \E s \in Sessions \X Shots : Custody!Copy(s, FALSE)
<1>1. TypeOK /\ SessionInv /\ CustodyInv /\ Next /\ ~ShotTaken /\ ~Acknowledge /\ ~Describe
  BY DEF ObserverInv, Next, FinalizeStep, Context, ShotTaken, Acknowledge, Describe, Finalizing
<1>2. Spooled' = Spooled /\ Analysed' = Analysed
  BY <1>1, ServiceStutters, AnalysisStutters
<1>3. /\ observer.id \in Sessions /\ service.id = observer.id
      /\ NextShot \in Waiting /\ NextShot \in records[observer.id].files
      /\ NextShot \in Shots
  <2>1. pc = "context" /\ observer.id \in Sessions /\ journal.id = observer.id
    BY <1>1, SessionOfJournal DEF Context, Finalizing
  <2>2. service.id = observer.id
    BY <1>1, <2>1 DEF SessionInv, Finalizing
  <2>3. NextShot \in Waiting /\ NextShot \in records[observer.id].files
    BY <1>1, <2>1, NextShotWaits DEF CustodyInv, Record
  <2>4. NextShot \in Shots
    BY <1>1, <2>3 DEF Waiting, TypeOK, Services
  <2> QED
    BY <2>1, <2>2, <2>3, <2>4
<1> DEFINE k == <<observer.id, NextShot>>
<1>4. k \in Spooled /\ k \in Sessions \X Shots
  BY <1>3 DEF Spooled, Waiting
<1>5. /\ \A id \in Sessions \ {observer.id} : records'[id] = records[id]
      /\ records'[observer.id].files = records[observer.id].files
      /\ DOMAIN records'[observer.id].context \in
           {DOMAIN records[observer.id].context,
            DOMAIN records[observer.id].context \cup {NextShot}}
  BY <1>1, ContextDoes DEF Record
<1>6. CASE DOMAIN records'[observer.id].context = DOMAIN records[observer.id].context
  <2>1. \A id \in Sessions : /\ records'[id].files = records[id].files
                             /\ DOMAIN records'[id].context = DOMAIN records[id].context
    BY <1>5, <1>6
  <2> QED
    BY <1>2, <2>1, CustodyDependsOn
<1>7. CASE DOMAIN records'[observer.id].context =
             DOMAIN records[observer.id].context \cup {NextShot}
  <2>1. Kept' = Kept \cup {k}
    <3>1. ASSUME NEW id \in Sessions, NEW s \in Shots
          PROVE  (s \in records'[id].files /\ s \in DOMAIN records'[id].context) <=>
                 ((s \in records[id].files /\ s \in DOMAIN records[id].context)
                  \/ (id = observer.id /\ s = NextShot))
      BY <1>3, <1>5, <1>7
    <3>2. ASSUME NEW p \in Sessions \X Shots PROVE p \in Kept' <=> p \in Kept \cup {k}
      BY <3>1, <3>2 DEF Kept
    <3>3. Kept' \subseteq Sessions \X Shots /\ Kept \cup {k} \subseteq Sessions \X Shots
      BY <1>4 DEF Kept
    <3> QED
      BY <3>2, <3>3
  <2> QED
    BY <1>2, <1>4, <2>1 DEF Custody!Copy
<1> QED
  BY <1>5, <1>6, <1>7

\* Only what is in the record is acknowledged.

LEMMA AcknowledgedIsKept ==
  ASSUME ObserverInv, Acknowledge
  PROVE  \/ UNCHANGED <<Spooled, Kept, Analysed>>
         \/ \E s \in Sessions \X Shots : Custody!Acknowledge(s)
<1>1. TypeOK /\ SessionInv /\ CustodyInv /\ Next /\ ~Context /\ ~Describe
  BY DEF ObserverInv, Next, FinalizeStep, Acknowledge, Context, Describe
<1>2. Kept' = Kept /\ Analysed' = Analysed
  BY <1>1, RecordStutters, AnalysisStutters
<1>3. /\ observer.id \in Sessions /\ service.id = observer.id
      /\ NextShot \in Waiting /\ NextShot \in records[observer.id].files
      /\ NextShot \in DOMAIN records[observer.id].context /\ NextShot \in Shots
  <2>1. pc = "acknowledge" /\ observer.id \in Sessions /\ journal.id = observer.id
    BY <1>1, SessionOfJournal DEF Acknowledge, Finalizing
  <2>2. service.id = observer.id
    BY <1>1, <2>1 DEF SessionInv, Finalizing
  <2>3. /\ NextShot \in Waiting /\ NextShot \in records[observer.id].files
        /\ NextShot \in DOMAIN records[observer.id].context
    BY <1>1, <2>1, NextShotWaits DEF CustodyInv, Record
  <2>4. NextShot \in Shots
    BY <1>1, <2>3 DEF Waiting, TypeOK, Services
  <2> QED
    BY <2>1, <2>2, <2>3, <2>4
<1> DEFINE k == <<observer.id, NextShot>>
<1>4. k \in Spooled /\ k \in Kept /\ k \in Sessions \X Shots
  BY <1>3 DEF Spooled, Kept, Waiting
<1>5. \/ service' = service
      \/ service' = [service EXCEPT !.acked = @ \cup {NextShot}]
  BY DEF Acknowledge, Leads
<1>6. CASE service' = service
  BY <1>2, <1>6 DEF Spooled
<1>7. CASE service' = [service EXCEPT !.acked = @ \cup {NextShot}]
  <2>1. /\ service'.id = service.id /\ service'.shots = service.shots
        /\ service'.acked = service.acked \cup {NextShot}
    BY <1>1, <1>7 DEF TypeOK, Services
  <2>2. Spooled' = Spooled \ {k}
    BY <1>3, <2>1 DEF Spooled
  <2> QED
    BY <1>2, <1>4, <2>2 DEF Custody!Acknowledge
<1> QED
  BY <1>5, <1>6, <1>7

\* The descriptor is written when nothing waits in the spool.

LEMMA DescribedIsWhole ==
  ASSUME ObserverInv, Describe
  PROVE  \/ UNCHANGED <<Spooled, Kept, Analysed>>
         \/ \E r \in Sessions : Custody!Analyse(r)
<1>1. TypeOK /\ SessionInv /\ CustodyInv /\ Next /\ ~Context /\ ~ShotTaken /\ ~Acknowledge
  BY DEF ObserverInv, Next, FinalizeStep, Acknowledge, Context, Describe, ShotTaken, Finalizing
<1>2. Kept' = Kept /\ Spooled' = Spooled
  BY <1>1, RecordStutters, ServiceStutters
<1>3. Spooled = {} /\ observer.id \in Sessions
  BY <1>1, SessionOfJournal DEF Describe, CustodyInv, Spooled, Waiting, Finalizing
<1>4. /\ \A id \in Sessions \ {observer.id} : records'[id] = records[id]
      /\ records'[observer.id].status \in {records[observer.id].status, Outcome}
  BY <1>1, DescribeDoes DEF RecordChange, Record
<1>5. Analysed' = Analysed \/ Analysed' = Analysed \cup {observer.id}
  BY <1>3, <1>4 DEF Analysed, Outcome
<1> QED
  BY <1>2, <1>3, <1>5 DEF Custody!Analyse

LEMMA CustodySteps ==
  ASSUME ObserverInv, [Next]_vars
  PROVE  [Custody!Next]_(Custody!custody)
<1>1. CASE ShotTaken
  BY <1>1, ShotIsSpooled DEF Custody!Next
<1>2. CASE Context
  BY <1>2, ContextCopies DEF Custody!Next, Custody!custody
<1>3. CASE Acknowledge
  BY <1>3, AcknowledgedIsKept DEF Custody!Next, Custody!custody
<1>4. CASE Describe
  BY <1>4, DescribedIsWhole DEF Custody!Next, Custody!custody
<1>5. CASE Next /\ ~ShotTaken /\ ~Context /\ ~Acknowledge /\ ~Describe
  BY <1>5, ServiceStutters, RecordStutters, AnalysisStutters DEF Custody!custody
<1>6. CASE UNCHANGED vars
  BY <1>6 DEF vars, Spooled, Kept, Analysed, Custody!custody
<1> QED
  BY <1>1, <1>2, <1>3, <1>4, <1>5, <1>6

\* No snapshot is lost on its way from the digitizer to the record, whatever
\* fails or is killed on the way: a snapshot leaves the spool only when both
\* its file and its timing context are in the record of its session, and a
\* descriptor is finished only when nothing waits in the spool (import_snapshot,
\* before_ack, finalize_run, release_snapshots).
THEOREM SnapshotsStayFiled == Spec => SnapshotsAreFiled
BY CustodyStarts, CustodySteps, ObserverInvariant, PTL
   DEF Spec, SnapshotsAreFiled, Custody!Spec

-----------------------------------------------------------------------------
\* A behaviour of the composition is one of each part.
THEOREM RecordsAreTheirParts ==
  RecordsSpec => Spec /\ Cadence!Spec /\ Saver!Spec /\ Timing!Spec
<1>1. RecordsInit => Init /\ Cadence!Init /\ Saver!Init /\ Timing!Init
  BY DEF RecordsInit
<1>2. [RecordsNext]_recordsVars => [Next]_vars
  BY DEF RecordsNext, recordsVars
<1>3. [RecordsNext]_recordsVars => [Cadence!Next]_(Cadence!cadenceVars)
  BY DEF RecordsNext, recordsVars, cadenceVars, Cadence!cadenceVars
<1>4. [RecordsNext]_recordsVars => [Saver!Next]_(Saver!saverVars)
  BY DEF RecordsNext, recordsVars, saverVars, Saver!saverVars
<1>5. [RecordsNext]_recordsVars => [Timing!Next]_(Timing!timingVars)
  BY DEF RecordsNext, recordsVars, timingVars, Timing!timingVars
<1> QED
  BY <1>1, <1>2, <1>3, <1>4, <1>5, PTL
  DEF RecordsSpec, Spec, Cadence!Spec, Saver!Spec, Timing!Spec

-----------------------------------------------------------------------------
(* The capture cadence (CaptureCadence).                                    *)

\* The cadence counts with the same operator.
LEMMA CountsAlike ==
  \A S : Cadence!Cardinality(S) = Cardinality(S)
BY DEF Cadence!Cardinality, Cardinality

(* Sums over positions.  The fold that adds them up exists on the sets of   *)
(* at most n positions for every n, as a smallest n without one could be    *)
(* made from the one before it.  So the sum of a set is that of the set     *)
(* without any one of its elements, and that one.                           *)

Pick(s) == CHOOSE x \in s : TRUE

\* g adds up f over every set in D, one element after the other.
Adds(g, f, D) ==
  g = [s \in D |-> IF s = {} THEN 0 ELSE f[Pick(s)] + g[s \ {Pick(s)}]]

UpTo(S, n) == {s \in SUBSET S : Cardinality(s) <= n}

\* A nonempty set has one element more than without the chosen one.
LEMMA OneLess ==
  ASSUME NEW S, IsFiniteSet(S), NEW s \in SUBSET S, s # {}
  PROVE  /\ Pick(s) \in s /\ s \ {Pick(s)} \in SUBSET S
         /\ Cardinality(s) \in Nat /\ Cardinality(s \ {Pick(s)}) \in Nat
         /\ Cardinality(s \ {Pick(s)}) = Cardinality(s) - 1
<1>1. Pick(s) \in s
  BY DEF Pick
<1>2. IsFiniteSet(s)
  BY FS_Subset
<1>3. Cardinality(s) \in Nat /\ Cardinality(s \ {Pick(s)}) = Cardinality(s) - 1
  BY <1>1, <1>2, FS_RemoveElement, FS_CardinalityType
<1>4. Cardinality(s \ {Pick(s)}) \in Nat
  BY <1>2, FS_RemoveElement, FS_CardinalityType, FS_Subset
<1> QED BY <1>1, <1>3, <1>4

\* The fold that adds up f exists on the subsets of a finite set.
LEMMA AddingWorks ==
  ASSUME NEW S, IsFiniteSet(S), NEW f
  PROVE  \E g : Adds(g, f, SUBSET S)
<1> DEFINE Works(n) == \E g : Adds(g, f, UpTo(S, n))
           Bad == {n \in Nat : ~Works(n)}
<1>1. Bad = {}
  <2> SUFFICES ASSUME Bad # {} PROVE FALSE
    OBVIOUS
  <2>1. PICK n \in Bad : \A m \in Bad : n <= m
    <3>1. Bad \subseteq Nat
      OBVIOUS
    <3> HIDE DEF Bad
    <3> QED BY <3>1, LeastExists
  <2>2. n \in Nat /\ ~Works(n)
    OBVIOUS
  <2>3. CASE n = 0
    <3> DEFINE g == [s \in UpTo(S, 0) |-> 0]
    <3>1. \A s \in UpTo(S, 0) : s = {}
      <4> TAKE s \in UpTo(S, 0)
      <4>1. s \in SUBSET S /\ Cardinality(s) <= 0
        BY DEF UpTo
      <4> SUFFICES ASSUME s # {} PROVE FALSE
        OBVIOUS
      <4>2. /\ Cardinality(s) \in Nat /\ Cardinality(s \ {Pick(s)}) \in Nat
            /\ Cardinality(s \ {Pick(s)}) = Cardinality(s) - 1
        BY <4>1, OneLess
      <4> QED BY <4>1, <4>2
    <3>2. Adds(g, f, UpTo(S, 0))
      BY <3>1 DEF Adds
    <3> QED BY <2>2, <2>3, <3>2
  <2>4. CASE n # 0
    <3> DEFINE m == n - 1
    <3>1. m \in Nat /\ m < n /\ n = m + 1
      BY <2>2, <2>4
    <3> HIDE DEF m
    <3>2. Works(m)
      BY <2>1, <2>2, <3>1
    <3>3. PICK h : Adds(h, f, UpTo(S, m))
      BY <3>2
    <3> DEFINE Total(s) == IF s = {} THEN 0 ELSE f[Pick(s)] + h[s \ {Pick(s)}]
               g == [s \in UpTo(S, n) |-> Total(s)]
    <3>4. \A s \in UpTo(S, m) : h[s] = Total(s) /\ s \in UpTo(S, n)
      <4> TAKE s \in UpTo(S, m)
      <4>1. h[s] = Total(s)
        BY <3>3 DEF Adds
      <4>2. s \in SUBSET S /\ Cardinality(s) <= m /\ Cardinality(s) \in Nat
        BY FS_Subset, FS_CardinalityType DEF UpTo
      <4>3. Cardinality(s) <= n
        BY <3>1, <4>2
      <4> QED BY <4>1, <4>2, <4>3 DEF UpTo
    <3>5. \A s \in UpTo(S, m) : g[s] = h[s]
      BY <3>4
    <3>6. \A s \in UpTo(S, n) : s # {} => s \ {Pick(s)} \in UpTo(S, m)
      <4> TAKE s \in UpTo(S, n)
      <4> HAVE s # {}
      <4>1. s \in SUBSET S /\ Cardinality(s) <= n
        BY DEF UpTo
      <4>2. /\ s \ {Pick(s)} \in SUBSET S /\ Cardinality(s) \in Nat
            /\ Cardinality(s \ {Pick(s)}) = Cardinality(s) - 1
        BY <4>1, OneLess
      <4>3. Cardinality(s \ {Pick(s)}) <= m
        BY <3>1, <4>1, <4>2
      <4> QED BY <4>2, <4>3 DEF UpTo
    <3>7. g = [s \in UpTo(S, n) |->
                 IF s = {} THEN 0 ELSE f[Pick(s)] + g[s \ {Pick(s)}]]
      <4>1. \A s \in UpTo(S, n) :
              Total(s) = IF s = {} THEN 0 ELSE f[Pick(s)] + g[s \ {Pick(s)}]
        <5> HIDE DEF g
        <5> QED BY <3>5, <3>6
      <4> DEFINE After(s) == IF s = {} THEN 0 ELSE f[Pick(s)] + g[s \ {Pick(s)}]
      <4>2. g = [s \in UpTo(S, n) |-> After(s)]
        <5>1. \A s \in UpTo(S, n) : Total(s) = After(s)
          BY <4>1
        <5> HIDE DEF Total, After
        <5> QED BY <5>1
      <4> QED BY <4>2
    <3>8. Adds(g, f, UpTo(S, n))
      <4> HIDE DEF g
      <4> QED BY <3>7 DEF Adds
    <3> QED BY <2>2, <3>8
  <2> QED BY <2>3, <2>4
<1>2. Cardinality(S) \in Nat
  BY FS_CardinalityType
<1>3. UpTo(S, Cardinality(S)) = SUBSET S
  BY FS_Subset DEF UpTo
<1>4. Works(Cardinality(S))
  <2> HIDE DEF Works
  <2> QED BY <1>1, <1>2
<1> QED BY <1>3, <1>4

\* What holds of a finite set as soon as it holds of it without any one element.
LEMMA BySubsets ==
  ASSUME NEW S, IsFiniteSet(S), NEW B, {} \in B,
         \A s \in SUBSET S : s # {} /\ (\A x \in s : s \ {x} \in B) => s \in B
  PROVE  \A s \in SUBSET S : s \in B
<1> DEFINE Sizes == {n \in Nat : \E s \in SUBSET S : Cardinality(s) = n /\ s \notin B}
<1>1. \A s \in SUBSET S : IsFiniteSet(s) /\ Cardinality(s) \in Nat
  BY FS_Subset, FS_CardinalityType
<1> SUFFICES ASSUME Sizes # {} PROVE FALSE
  BY <1>1
<1>2. PICK n \in Sizes : \A m \in Sizes : n <= m
  <2>1. Sizes \subseteq Nat
    OBVIOUS
  <2> HIDE DEF Sizes
  <2> QED BY <2>1, LeastExists
<1>3. PICK s \in SUBSET S : Cardinality(s) = n /\ s \notin B
  OBVIOUS
<1>4. \A x \in s : s \ {x} \in B
  <2> TAKE x \in s
  <2>1. Cardinality(s \ {x}) = n - 1 /\ n \in Nat /\ s \ {x} \in SUBSET S
    BY <1>1, <1>3, FS_RemoveElement
  <2>2. Cardinality(s \ {x}) \in Nat
    BY <1>1, <2>1
  <2>3. ~(n <= Cardinality(s \ {x}))
    BY <2>1, <2>2
  <2>4. Cardinality(s \ {x}) \notin Sizes
    BY <1>2, <2>3
  <2> QED BY <2>1, <2>2, <2>4
<1> QED BY <1>3, <1>4

\* Folds on a set and on a part of it agree on the part.
LEMMA AddsAgree ==
  ASSUME NEW S, IsFiniteSet(S), NEW T \in SUBSET S, NEW f, NEW g, NEW h,
         Adds(g, f, SUBSET S), Adds(h, f, SUBSET T)
  PROVE  \A s \in SUBSET T : g[s] = h[s]
<1> DEFINE B == {s \in SUBSET T : g[s] = h[s]}
<1>1. \A s \in SUBSET T :
        /\ g[s] = IF s = {} THEN 0 ELSE f[Pick(s)] + g[s \ {Pick(s)}]
        /\ h[s] = IF s = {} THEN 0 ELSE f[Pick(s)] + h[s \ {Pick(s)}]
  <2> TAKE s \in SUBSET T
  <2>1. s \in SUBSET S
    OBVIOUS
  <2>2. g[s] = IF s = {} THEN 0 ELSE f[Pick(s)] + g[s \ {Pick(s)}]
    BY <2>1 DEF Adds
  <2>3. h[s] = IF s = {} THEN 0 ELSE f[Pick(s)] + h[s \ {Pick(s)}]
    BY DEF Adds
  <2> QED BY <2>2, <2>3
<1>2. {} \in B
  BY <1>1
<1>3. ASSUME NEW s \in SUBSET T, s # {}, \A x \in s : s \ {x} \in B PROVE s \in B
  <2>1. Pick(s) \in s
    BY <1>3 DEF Pick
  <2>2. g[s \ {Pick(s)}] = h[s \ {Pick(s)}]
    BY <1>3, <2>1
  <2> QED BY <1>1, <1>3, <2>2
<1>4. IsFiniteSet(T)
  BY FS_Subset
<1> HIDE DEF B
<1>5. \A s \in SUBSET T : s \in B
  BY <1>2, <1>3, <1>4, BySubsets
<1> QED BY <1>5 DEF B

\* The equation of the fold: the chosen element, and the sum of the others.
LEMMA SumUnfolds ==
  ASSUME NEW S, IsFiniteSet(S), NEW f
  PROVE  /\ Cadence!SumFunctionOnSet(f, {}) = 0
         /\ S # {} => Cadence!SumFunctionOnSet(f, S)
                        = f[Pick(S)] + Cadence!SumFunctionOnSet(f, S \ {Pick(S)})
<1>1. PICK g : Adds(g, f, SUBSET S)
  BY AddingWorks
<1>2. ASSUME NEW s \in SUBSET S PROVE Cadence!SumFunctionOnSet(f, s) = g[s]
  <2>1. \E h : Adds(h, f, SUBSET s)
    BY AddingWorks, FS_Subset
  <2> DEFINE h == CHOOSE r : Adds(r, f, SUBSET s)
  <2>2. Adds(h, f, SUBSET s)
    BY <2>1
  <2>3. Cadence!SumFunctionOnSet(f, s) = h[s]
    BY DEF Cadence!SumFunctionOnSet, Cadence!FoldFunctionOnSet, Cadence!MapThenFoldSet, Adds, Pick
  <2> HIDE DEF h
  <2>4. g[s] = h[s]
    BY <1>1, <2>2, AddsAgree
  <2> QED BY <2>3, <2>4
<1>3. \A s \in SUBSET S : g[s] = IF s = {} THEN 0 ELSE f[Pick(s)] + g[s \ {Pick(s)}]
  BY <1>1 DEF Adds
<1>4. Cadence!SumFunctionOnSet(f, {}) = 0
  BY <1>2, <1>3
<1>5. ASSUME S # {}
      PROVE  Cadence!SumFunctionOnSet(f, S) = f[Pick(S)] + Cadence!SumFunctionOnSet(f, S \ {Pick(S)})
  <2>1. S \ {Pick(S)} \in SUBSET S /\ S \in SUBSET S
    OBVIOUS
  <2>2. g[S] = f[Pick(S)] + g[S \ {Pick(S)}]
    BY <1>3, <1>5, <2>1
  <2> QED BY <1>2, <2>1, <2>2
<1> QED BY <1>4, <1>5

\* A sum of natural numbers is one.
LEMMA PartsAreNatural ==
  ASSUME NEW S, IsFiniteSet(S), NEW f, \A x \in S : f[x] \in Nat
  PROVE  \A s \in SUBSET S : Cadence!SumFunctionOnSet(f, s) \in Nat
<1> DEFINE B == {s \in SUBSET S : Cadence!SumFunctionOnSet(f, s) \in Nat}
<1>1. {} \in B
  <2>1. Cadence!SumFunctionOnSet(f, {}) = 0
    BY SumUnfolds
  <2> QED BY <2>1
<1>2. ASSUME NEW s \in SUBSET S, s # {}, \A x \in s : s \ {x} \in B PROVE s \in B
  <2>1. Pick(s) \in s
    BY <1>2 DEF Pick
  <2>2. Cadence!SumFunctionOnSet(f, s) = f[Pick(s)] + Cadence!SumFunctionOnSet(f, s \ {Pick(s)})
    BY <1>2, SumUnfolds, FS_Subset
  <2> QED BY <1>2, <2>1, <2>2
<1> HIDE DEF B
<1>3. \A s \in SUBSET S : s \in B
  BY <1>1, <1>2, BySubsets
<1> QED BY <1>3 DEF B

LEMMA SumIsNatural ==
  ASSUME NEW S, IsFiniteSet(S), NEW f, \A x \in S : f[x] \in Nat
  PROVE  Cadence!SumFunctionOnSet(f, S) \in Nat
<1>1. \A s \in SUBSET S : Cadence!SumFunctionOnSet(f, s) \in Nat
  BY PartsAreNatural
<1> QED BY <1>1

\* Any element can be taken out of a sum.
LEMMA SumTakesOut ==
  ASSUME NEW S, IsFiniteSet(S), NEW f, \A x \in S : f[x] \in Nat
  PROVE  \A x \in S : Cadence!SumFunctionOnSet(f, S) = f[x] + Cadence!SumFunctionOnSet(f, S \ {x})
<1> DEFINE B == {s \in SUBSET S : \A x \in s :
                   Cadence!SumFunctionOnSet(f, s) = f[x] + Cadence!SumFunctionOnSet(f, s \ {x})}
<1>1. {} \in B
  OBVIOUS
<1>2. ASSUME NEW s \in SUBSET S, s # {}, \A x \in s : s \ {x} \in B PROVE s \in B
  <2> SUFFICES ASSUME NEW x \in s
               PROVE  Cadence!SumFunctionOnSet(f, s) = f[x] + Cadence!SumFunctionOnSet(f, s \ {x})
    OBVIOUS
  <2> DEFINE p == Pick(s)
  <2>1. p \in s
    BY <1>2 DEF Pick
  <2>2. Cadence!SumFunctionOnSet(f, s) = f[p] + Cadence!SumFunctionOnSet(f, s \ {p})
    BY <1>2, SumUnfolds, FS_Subset
  <2>3. CASE x = p
    BY <2>2, <2>3
  <2>4. CASE x # p
    <3> HIDE DEF p
    <3>1. x \in s \ {p} /\ p \in s \ {x}
      BY <2>1, <2>4
    <3>2. s \ {p} \in B /\ s \ {x} \in B
      BY <1>2, <2>1
    <3>3. Cadence!SumFunctionOnSet(f, s \ {p})
            = f[x] + Cadence!SumFunctionOnSet(f, (s \ {p}) \ {x})
      BY <3>1, <3>2
    <3>4. Cadence!SumFunctionOnSet(f, s \ {x})
            = f[p] + Cadence!SumFunctionOnSet(f, (s \ {x}) \ {p})
      BY <3>1, <3>2
    <3>5. (s \ {p}) \ {x} = (s \ {x}) \ {p} /\ (s \ {p}) \ {x} \in SUBSET S
      OBVIOUS
    <3>6. Cadence!SumFunctionOnSet(f, (s \ {p}) \ {x}) \in Nat
      BY <3>5, PartsAreNatural
    <3>7. f[p] \in Nat /\ f[x] \in Nat
      BY <2>1
    <3> DEFINE q == Cadence!SumFunctionOnSet(f, (s \ {p}) \ {x})
               a == Cadence!SumFunctionOnSet(f, s)
               b == Cadence!SumFunctionOnSet(f, s \ {p})
               c == Cadence!SumFunctionOnSet(f, s \ {x})
    <3>8. /\ a = f[p] + b /\ b = f[x] + q /\ c = f[p] + q
          /\ q \in Nat /\ f[p] \in Nat /\ f[x] \in Nat
      BY <2>2, <3>3, <3>4, <3>5, <3>6, <3>7
    <3>9. a = f[x] + c
      <4> HIDE DEF a, b, c, q
      <4> QED BY <3>8
    <3> QED BY <3>9
  <2> QED BY <2>3, <2>4
<1> HIDE DEF B
<1>3. \A s \in SUBSET S : s \in B
  BY <1>1, <1>2, BySubsets
<1> QED BY <1>3 DEF B

\* The positions of T are those of S moved by d, and have the same values.
Shifted(f, S, g, T, d) ==
  /\ S \in SUBSET Int /\ T \in SUBSET Int /\ d \in Int /\ IsFiniteSet(S)
  /\ \A k \in S : f[k] \in Nat /\ g[k + d] = f[k] /\ k + d \in T
  /\ \A j \in T : j - d \in S

\* A sum does not change when its positions are moved.
LEMMA SumIsShifted ==
  ASSUME NEW f, NEW S, NEW g, NEW T, NEW d, Shifted(f, S, g, T, d)
  PROVE  Cadence!SumFunctionOnSet(g, T) = Cadence!SumFunctionOnSet(f, S)
<1> USE DEF Shifted
<1> DEFINE Moved(s) == {k + d : k \in s}
           B == {s \in SUBSET S : Cadence!SumFunctionOnSet(g, Moved(s)) = Cadence!SumFunctionOnSet(f, s)}
<1>0. \A s \in SUBSET S : IsFiniteSet(Moved(s))
  <2> TAKE s \in SUBSET S
  <2>1. IsFiniteSet(s)
    BY FS_Subset
  <2> DEFINE m == [k \in s |-> k + d]
  <2>2. m \in Surjection(s, Moved(s))
    BY DEF Surjection
  <2> HIDE DEF m, Moved
  <2> QED BY <2>1, <2>2, FS_Surjection
<1>1. {} \in B
  <2>1. Moved({}) = {}
    OBVIOUS
  <2>2. Cadence!SumFunctionOnSet(f, {}) = 0
    BY SumUnfolds
  <2>3. Cadence!SumFunctionOnSet(g, {}) = 0
    BY SumUnfolds
  <2> QED BY <2>1, <2>2, <2>3
<1>2. ASSUME NEW s \in SUBSET S, s # {}, \A x \in s : s \ {x} \in B PROVE s \in B
  <2>1. PICK x \in s : TRUE
    BY <1>2
  <2>2. Cadence!SumFunctionOnSet(f, s) = f[x] + Cadence!SumFunctionOnSet(f, s \ {x})
    <3>1. IsFiniteSet(s) /\ \A k \in s : f[k] \in Nat
      BY FS_Subset
    <3> QED BY <3>1, SumTakesOut
  <2>3. x + d \in Moved(s) /\ Moved(s) \ {x + d} = Moved(s \ {x})
    <3>1. \A k \in s : k \in Int
      OBVIOUS
    <3>2. \A k \in s : k + d = x + d => k = x
      BY <3>1
    <3> QED BY <3>2
  <2>4. \A t \in Moved(s) : g[t] \in Nat
    OBVIOUS
  <2>5. Cadence!SumFunctionOnSet(g, Moved(s)) = g[x + d] + Cadence!SumFunctionOnSet(g, Moved(s) \ {x + d})
    <3> HIDE DEF Moved
    <3>1. IsFiniteSet(Moved(s))
      BY <1>0
    <3> QED BY <2>3, <2>4, <3>1, SumTakesOut
  <2>6. Cadence!SumFunctionOnSet(g, Moved(s \ {x})) = Cadence!SumFunctionOnSet(f, s \ {x})
    BY <1>2, <2>1
  <2>7. g[x + d] = f[x]
    BY <2>1
  <2> HIDE DEF Moved
  <2> QED BY <2>2, <2>3, <2>5, <2>6, <2>7
<1>3. Moved(S) = T
  <2>1. \A j \in T : (j - d) + d = j
    OBVIOUS
  <2> QED BY <2>1
<1> HIDE DEF B
<1>4. \A s \in SUBSET S : s \in B
  BY <1>1, <1>2, BySubsets
<1>5. S \in B
  BY <1>4
<1> QED BY <1>3, <1>5 DEF B

-----------------------------------------------------------------------------
(* What the operators of the cadence return.                                *)

Obs == [sequence : Int, captured : Int, at : Int]

Gap == {g \in [before : Int, after : Int, lost : Nat, interval : Int,
               sure : BOOLEAN, crosses : BOOLEAN, at : Int] : Cadence!GapDecodable(g)}

Counts == [window : Nat, duration : Nat, captured : Nat, lost : Nat]
Shown == {w \in [1..Len(Windows) -> Counts] :
            \A k \in 1..Len(Windows) : w[k].window = Windows[k]}
Point == [at : Int, windows : Shown]

Tracker ==
  [rate : {Cadence!Off, Period}, pending : BOOLEAN, offset : Int,
   observations : Seq(Obs), gaps : Seq(Gap), points : Seq(Point),
   segment : Seq(Obs), segmentGaps : Seq(Gap), lastSample : Nat, dirty : BOOLEAN]

\* The sequence r is s without its first d elements.
Drops(r, s, d) ==
  /\ d \in Nat /\ Len(s) = Len(r) + d
  /\ \A k \in 1..Len(r) : r[k] = s[k + d]

\* A beginning is dropped, up to the first position to be kept.
LEMMA FromDrops ==
  ASSUME NEW T, NEW s \in Seq(T), NEW fresh \in SUBSET DOMAIN s
  PROVE  /\ Cadence!From(s, fresh) \in Seq(T)
         /\ \E d \in Nat : /\ Drops(Cadence!From(s, fresh), s, d)
                           /\ \A k \in 1..d : k \notin fresh
                           /\ d < Len(s) => d + 1 \in fresh
<1>0. Len(s) \in Nat /\ DOMAIN s = 1..Len(s)
  OBVIOUS
<1>1. CASE fresh = {}
  <2>1. Cadence!From(s, fresh) = <<>>
    BY <1>1 DEF Cadence!From
  <2>2. Drops(<<>>, s, Len(s))
    BY <1>0 DEF Drops
  <2>3. <<>> \in Seq(T) /\ \A k \in 1..Len(s) : k \notin fresh
    BY <1>1
  <2>4. /\ Drops(<<>>, s, Len(s)) /\ \A k \in 1..Len(s) : k \notin fresh
        /\ Len(s) < Len(s) => Len(s) + 1 \in fresh
    BY <1>0, <2>2, <2>3
  <2> QED BY <1>0, <2>1, <2>3, <2>4
<1>2. CASE fresh # {}
  <2> DEFINE k0 == CHOOSE k \in fresh : \A j \in fresh : k <= j
             r == SubSeq(s, k0, Len(s))
  <2>1. k0 \in fresh /\ \A j \in fresh : k0 <= j
    <3>1. fresh \subseteq Nat
      BY <1>0
    <3> QED BY <1>2, <3>1, LeastExists
  <2>2. Cadence!From(s, fresh) = r
    BY <1>2 DEF Cadence!From
  <2>3. k0 \in 1..Len(s)
    BY <1>0, <2>1
  <2> HIDE DEF k0
  <2>4. r \in Seq(T) /\ Len(r) = Len(s) - k0 + 1
        /\ \A i \in 1..(Len(s) - k0 + 1) : r[i] = s[k0 + i - 1]
    BY <1>0, <2>3
  <2> HIDE DEF r
  <2>5. Drops(r, s, k0 - 1)
    <3>1. \A i \in 1..Len(r) : r[i] = s[i + (k0 - 1)]
      <4> TAKE i \in 1..Len(r)
      <4>1. r[i] = s[k0 + i - 1] /\ k0 + i - 1 = i + (k0 - 1)
        BY <1>0, <2>3, <2>4
      <4> QED BY <4>1
    <3> QED BY <1>0, <2>3, <2>4, <3>1 DEF Drops
  <2>6. \A k \in 1..(k0 - 1) : k \notin fresh
    BY <2>1, <2>3
  <2>7. k0 - 1 \in Nat /\ (k0 - 1) + 1 \in fresh
    BY <2>1, <2>3
  <2> QED BY <2>2, <2>4, <2>5, <2>6, <2>7
<1> QED BY <1>1, <1>2

\* What is dropped of a deque is older than the cut.
LEMMA RecentDrops ==
  ASSUME NEW T, NEW s \in Seq(T), \A x \in T : x.at \in Int, NEW cut \in Int
  PROVE  /\ Cadence!Recent(s, cut) \in Seq(T)
         /\ \E d \in Nat : Drops(Cadence!Recent(s, cut), s, d) /\ \A k \in 1..d : s[k].at < cut
<1> DEFINE fresh == {k \in DOMAIN s : s[k].at >= cut}
<1>1. fresh \in SUBSET DOMAIN s /\ Cadence!Recent(s, cut) = Cadence!From(s, fresh)
  BY DEF Cadence!Recent
<1>2. \A k \in DOMAIN s : s[k].at \in Int
  OBVIOUS
<1>3. DOMAIN s = 1..Len(s) /\ Len(s) \in Nat
  OBVIOUS
<1> HIDE DEF fresh
<1>4. PICK d \in Nat : Drops(Cadence!From(s, fresh), s, d) /\ \A k \in 1..d : k \notin fresh
  BY <1>1, FromDrops
<1>5. Len(Cadence!From(s, fresh)) \in Nat
  BY <1>1, FromDrops
<1>6. \A k \in 1..d : s[k].at < cut
  <2> TAKE k \in 1..d
  <2>1. k \in DOMAIN s
    BY <1>3, <1>4, <1>5 DEF Drops
  <2> QED BY <1>2, <1>4, <2>1 DEF fresh
<1> QED BY <1>1, <1>4, <1>6, FromDrops

\* Of a segment something stays; if it does not start with the first
\* observation, it starts with one older than the cut.
LEMMA PrunedSegmentDrops ==
  ASSUME NEW s \in Seq(Obs), NEW cut \in Int
  PROVE  /\ Cadence!PrunedSegment(s, cut) \in Seq(Obs)
         /\ s # <<>> => Cadence!PrunedSegment(s, cut) # <<>>
         /\ \E d \in Nat : /\ Drops(Cadence!PrunedSegment(s, cut), s, d)
                           /\ d > 0 => Cadence!PrunedSegment(s, cut)[1].at < cut
<1> DEFINE fresh == {k \in DOMAIN s : k = Len(s) \/ s[k + 1].at >= cut}
           r == Cadence!PrunedSegment(s, cut)
<1>1. fresh \in SUBSET DOMAIN s /\ r = Cadence!From(s, fresh)
  BY DEF Cadence!PrunedSegment
<1>2. DOMAIN s = 1..Len(s) /\ Len(s) \in Nat /\ \A k \in 1..Len(s) : s[k].at \in Int
  <2>1. \A o \in Obs : o.at \in Int
    BY DEF Obs
  <2>2. \A k \in 1..Len(s) : s[k] \in Obs
    OBVIOUS
  <2> QED BY <2>1, <2>2
<1> HIDE DEF r
<1>3. r \in Seq(Obs) /\ Len(r) \in Nat
  BY <1>1, FromDrops
<1>4. PICK d \in Nat : /\ Drops(r, s, d) /\ \A k \in 1..d : k \notin fresh
                       /\ d < Len(s) => d + 1 \in fresh
  <2> HIDE DEF fresh
  <2> QED BY <1>1, FromDrops
<1>5. s # <<>> => r # <<>>
  <2> SUFFICES ASSUME s # <<>>, r = <<>> PROVE FALSE
    OBVIOUS
  <2>1. Len(s) > 0 /\ Len(s) \in fresh /\ d = Len(s)
    BY <1>2, <1>4 DEF Drops
  <2> QED BY <1>4, <2>1
<1>6. ASSUME d > 0 PROVE r[1].at < cut
  <2>1. d \in DOMAIN s /\ d \notin fresh
    BY <1>2, <1>3, <1>4, <1>6 DEF Drops
  <2>2. d # Len(s) /\ ~(s[d + 1].at >= cut)
    BY <2>1
  <2>3. r[1] = s[1 + d] /\ d + 1 \in 1..Len(s) /\ 1 + d = d + 1
    BY <1>2, <1>3, <1>4, <2>1, <2>2 DEF Drops
  <2>4. s[d + 1].at \in Int
    BY <1>2, <2>3
  <2>5. s[d + 1].at < cut
    BY <2>2, <2>4
  <2> QED BY <2>3, <2>5
<1> QED BY <1>3, <1>4, <1>5, <1>6 DEF r

\* Dropping twice is dropping once.
LEMMA DropsTwice ==
  ASSUME NEW r, NEW s, NEW t, Len(r) \in Nat, Len(s) \in Nat,
         NEW d, NEW e, Drops(r, s, d), Drops(s, t, e)
  PROVE  Drops(r, t, d + e)
<1>1. d \in Nat /\ e \in Nat /\ d + e \in Nat /\ Len(t) = Len(r) + (d + e)
  BY DEF Drops
<1>2. \A k \in 1..Len(r) : r[k] = t[k + (d + e)]
  <2> TAKE k \in 1..Len(r)
  <2>1. r[k] = s[k + d] /\ k + d \in 1..Len(s)
    BY <1>1 DEF Drops
  <2>2. s[k + d] = t[(k + d) + e] /\ (k + d) + e = k + (d + e)
    BY <1>1, <2>1 DEF Drops
  <2> QED BY <2>1, <2>2
<1> QED BY <1>1, <1>2 DEF Drops

-----------------------------------------------------------------------------
\* The windows and the durations.
LEMMA WindowsTyped ==
  /\ Len(Windows) \in Nat /\ Len(Windows) > 0 /\ DOMAIN Windows = 1..Len(Windows)
  /\ \A k \in 1..Len(Windows) : Windows[k] \in Nat /\ Windows[k] > 0
                                /\ Windows[k] <= Windows[Len(Windows)]
  /\ Cadence!Retention \in Nat /\ Period \in Nat /\ Period > 0
  /\ DisplayHorizon \in Nat /\ DisplayHorizon > 0
<1>1. /\ Len(Windows) \in Nat /\ Len(Windows) > 0 /\ DOMAIN Windows = 1..Len(Windows)
      /\ \A k \in 1..Len(Windows) : Windows[k] \in Nat /\ Windows[k] > 0
  BY CadenceAssumption
<1>2. \A k \in 1..Len(Windows) : Windows[k] <= Windows[Len(Windows)]
  <2> TAKE k \in 1..Len(Windows)
  <2>1. k = Len(Windows) \/ k < Len(Windows)
    <3> DEFINE n == Len(Windows)
    <3>1. n \in Nat /\ k \in 1..n
      BY <1>1
    <3> HIDE DEF n
    <3>2. k = n \/ k < n
      BY <3>1
    <3> QED BY <3>2 DEF n
  <2>2. k < Len(Windows) => Windows[k] < Windows[Len(Windows)]
    BY <1>1, CadenceAssumption
  <2>3. Windows[k] \in Nat /\ Windows[Len(Windows)] \in Nat
    BY <1>1
  <2> QED BY <2>1, <2>2, <2>3
<1> QED BY <1>1, <1>2, CadenceAssumption DEF Cadence!Retention

LEMMA QuotientIsInteger ==
  ASSUME NEW a \in Int, NEW b \in Int, b > 0
  PROVE  a \div b \in Int
OBVIOUS

\* A gap is over one period at least.
LEMMA PeriodsCount ==
  ASSUME NEW delta \in Int
  PROVE  Cadence!Periods(delta) \in Nat /\ Cadence!Periods(delta) >= 1
<1>1. 2 * Period \in Int /\ 2 * Period > 0 /\ 2 * delta + Period \in Int
  BY WindowsTyped
<1>2. (2 * delta + Period) \div (2 * Period) \in Int
  BY <1>1, QuotientIsInteger
<1> DEFINE q == (2 * delta + Period) \div (2 * Period)
<1>3. Cadence!Periods(delta) = IF 1 > q THEN 1 ELSE q
  BY DEF Cadence!Periods, Cadence!AtLeast
<1> HIDE DEF q
<1>4. q \in Int
  BY <1>2 DEF q
<1> QED BY <1>3, <1>4

\* Between observations in order the gap can be decoded.
LEMMA InferredGapTyped ==
  ASSUME NEW a \in Obs, NEW b \in Obs, a.sequence < b.sequence, a.captured < b.captured
  PROVE  Cadence!InferredGap(a, b) \in Gap /\ Cadence!InferredGap(a, b).at = b.at
<1> DEFINE delta == b.captured - a.captured
           n == Cadence!Periods(delta)
           residual == delta - n * Period
           sure == 4 * Cadence!Absolute(residual) <= Period
<1>1. delta \in Int /\ delta > 0
  BY DEF Obs
<1>2. n \in Nat /\ n >= 1
  BY <1>1, PeriodsCount
<1>3. sure \in BOOLEAN
  OBVIOUS
<1>4. Cadence!InferredGap(a, b) = [before |-> a.sequence, after |-> b.sequence, lost |-> n - 1,
                           interval |-> delta, sure |-> sure, crosses |-> FALSE, at |-> b.at]
  BY DEF Cadence!InferredGap
<1> HIDE DEF delta, n, residual, sure
<1>5. n - 1 \in Nat
  BY <1>2
<1> QED BY <1>1, <1>3, <1>4, <1>5 DEF Obs, Gap, Cadence!GapDecodable

\* An annotation changes the mark alone.
LEMMA AnnotatedTyped ==
  ASSUME NEW g \in Gap, NEW boundaries
  PROVE  /\ Cadence!Annotated(g, boundaries) \in Gap
         /\ Cadence!Annotated(g, boundaries).at = g.at /\ Cadence!Annotated(g, boundaries).lost = g.lost
         /\ Cadence!Annotated(g, boundaries).before = g.before
         /\ Cadence!Annotated(g, boundaries).after = g.after
         /\ Cadence!Annotated(g, boundaries).crosses =
              (g.crosses \/ \E b \in boundaries : Cadence!Crosses(g, b))
<1> DEFINE c == (g.crosses \/ \E b \in boundaries : Cadence!Crosses(g, b))
<1>1. c \in BOOLEAN
  OBVIOUS
<1>2. Cadence!Annotated(g, boundaries) = [g EXCEPT !.crosses = c]
  BY DEF Cadence!Annotated
<1> HIDE DEF c
<1>3. Cadence!Annotated(g, boundaries).crosses = c
  BY <1>2 DEF Gap
<1> QED BY <1>1, <1>2, <1>3 DEF Gap, Cadence!GapDecodable, c

-----------------------------------------------------------------------------
(* Rolling counts: what they are, and that they do not change when what is  *)
(* older than the window is dropped.                                        *)

LEMMA WithinTyped ==
  ASSUME NEW T, NEW s \in Seq(T), NEW a, NEW b
  PROVE  /\ Cadence!Within(s, a, b) \in SUBSET (1..Len(s)) /\ Cadence!Within(s, a, b) \in SUBSET Int
         /\ IsFiniteSet(Cadence!Within(s, a, b)) /\ Cardinality(Cadence!Within(s, a, b)) \in Nat
<1>1. Cadence!Within(s, a, b) \in SUBSET (1..Len(s)) /\ Len(s) \in Nat
  BY DEF Cadence!Within
<1>2. IsFiniteSet(1..Len(s))
  BY <1>1, FS_Interval
<1>3. IsFiniteSet(Cadence!Within(s, a, b))
  BY <1>1, <1>2, FS_Subset
<1> QED BY <1>1, <1>3, FS_CardinalityType

LEMMA LostTyped ==
  ASSUME NEW g \in Seq(Gap), NEW a, NEW b
  PROVE  Cadence!LostIn(g, Cadence!Within(g, a, b)) \in Nat
<1> DEFINE f == [k \in DOMAIN g |-> g[k].lost]
           S == Cadence!Within(g, a, b)
<1>1. \A k \in S : f[k] \in Nat
  <2>1. \A x \in Gap : x.lost \in Nat
    BY DEF Gap
  <2>2. \A k \in DOMAIN g : g[k] \in Gap
    OBVIOUS
  <2>3. S \subseteq DOMAIN g
    BY DEF Cadence!Within
  <2> QED BY <2>1, <2>2, <2>3
<1>2. IsFiniteSet(S)
  BY WithinTyped
<1>3. Cadence!LostIn(g, S) = Cadence!SumFunctionOnSet(f, S)
  BY DEF Cadence!LostIn
<1> HIDE DEF f, S
<1>4. Cadence!SumFunctionOnSet(f, S) \in Nat
  BY <1>1, <1>2, SumIsNatural
<1> QED BY <1>3, <1>4 DEF S

LEMMA ProvisionalTyped ==
  ASSUME NEW rate, NEW s \in Seq(Obs), NEW at \in Int
  PROVE  Cadence!Provisional(rate, s, at) \in Nat
<1>1. CASE rate = Cadence!Off \/ s = <<>>
  BY <1>1 DEF Cadence!Provisional
<1>2. CASE ~(rate = Cadence!Off \/ s = <<>>)
  <2> DEFINE elapsed == Cadence!AtLeast(0, at - s[Len(s)].at)
             q == (4 * elapsed - Period) \div (4 * Period)
  <2>1. s[Len(s)] \in Obs
    BY <1>2
  <2>2. elapsed \in Int
    BY <2>1 DEF Obs, Cadence!AtLeast
  <2>3. Cadence!Provisional(rate, s, at) = Cadence!AtLeast(0, q)
    BY <1>2 DEF Cadence!Provisional
  <2>4. q \in Int
    <3> HIDE DEF elapsed
    <3>1. 4 * elapsed - Period \in Int /\ 4 * Period \in Int /\ 4 * Period > 0
      BY <2>2, WindowsTyped
    <3> QED BY <3>1, QuotientIsInteger
  <2> HIDE DEF q
  <2> QED BY <2>3, <2>4 DEF Cadence!AtLeast
<1> QED BY <1>1, <1>2

LEMMA RollingTyped ==
  ASSUME NEW rate, NEW s \in Seq(Obs), NEW g \in Seq(Gap), NEW at \in Int, NEW window \in Nat
  PROVE  /\ Cadence!Rolling(rate, s, g, at, window) \in Counts
         /\ Cadence!Rolling(rate, s, g, at, window).window = window
<1>1. CASE s = <<>>
  <2>1. Cadence!Rolling(rate, s, g, at, window)
          = [window |-> window, duration |-> 0, captured |-> 0, lost |-> 0]
    BY <1>1 DEF Cadence!Rolling
  <2> QED BY <2>1 DEF Counts
<1>2. CASE s # <<>>
  <2> DEFINE start == Cadence!AtLeast(s[1].at, at - window)
             duration == Cadence!AtLeast(0, at - start)
             captured == Cardinality(Cadence!Within(s, start, at))
             lost == Cadence!Provisional(rate, s, at) + Cadence!LostIn(g, Cadence!Within(g, start, at))
  <2>1. s[1].at \in Int
    <3>1. s[1] \in Obs
      BY <1>2
    <3> QED BY <3>1 DEF Obs
  <2>2. start \in Int
    BY <2>1 DEF Cadence!AtLeast
  <2>3. duration \in Nat
    <3> HIDE DEF start
    <3> QED BY <2>2 DEF Cadence!AtLeast
  <2>4. captured \in Nat
    BY WithinTyped
  <2>5. lost \in Nat
    <3>1. Cadence!Provisional(rate, s, at) \in Nat
      BY ProvisionalTyped
    <3>2. Cadence!LostIn(g, Cadence!Within(g, start, at)) \in Nat
      BY LostTyped
    <3> QED BY <3>1, <3>2
  <2>6. Cadence!Rolling(rate, s, g, at, window)
          = [window |-> window, duration |-> duration, captured |-> captured, lost |-> lost]
    BY <1>2, CountsAlike DEF Cadence!Rolling
  <2> HIDE DEF duration, captured, lost
  <2> QED BY <2>3, <2>4, <2>5, <2>6 DEF Counts
<1> QED BY <1>1, <1>2

\* There is one count for each window, and none is negative.
LEMMA RollingAllTyped ==
  ASSUME NEW rate, NEW s \in Seq(Obs), NEW g \in Seq(Gap), NEW at \in Int
  PROVE  Cadence!RollingAll(rate, s, g, at) \in Shown
<1>1. ASSUME NEW k \in 1..Len(Windows)
      PROVE  /\ Cadence!Rolling(rate, s, g, at, Windows[k]) \in Counts
             /\ Cadence!Rolling(rate, s, g, at, Windows[k]).window = Windows[k]
  BY RollingTyped, WindowsTyped
<1> DEFINE R(k) == Cadence!Rolling(rate, s, g, at, Windows[k])
<1>2. Cadence!RollingAll(rate, s, g, at) = [k \in 1..Len(Windows) |-> R(k)]
  BY DEF Cadence!RollingAll
<1>3. \A k \in 1..Len(Windows) : R(k) \in Counts /\ R(k).window = Windows[k]
  BY <1>1
<1> HIDE DEF R
<1> QED BY <1>2, <1>3 DEF Shown

\* Gaps g are those of f without the first e, but for their marks.
DropsGaps(g, f, e) ==
  /\ e \in Nat /\ Len(f) = Len(g) + e
  /\ \A k \in 1..Len(g) : g[k].at = f[k + e].at /\ g[k].lost = f[k + e].lost

Increasing(w) == \A j, k \in DOMAIN w : j < k => w[j].at < w[k].at

\* The segment is the whole one without a beginning that is too old to count.
SegmentHolds(s, w, now) ==
  /\ s = <<>> => w = <<>>
  /\ \E d \in Nat : Drops(s, w, d) /\ (d > 0 => s[1].at < now - Cadence!Retention)

\* So are its gaps.
GapsHold(g, f, now) ==
  \E e \in Nat : DropsGaps(g, f, e) /\ \A j \in 1..e : f[j].at < now - Cadence!Retention

\* Gaps that are dropped lost nothing in a window that starts after the cut.
LEMMA LostSame ==
  ASSUME NEW g \in Seq(Gap), NEW f \in Seq(Gap), NEW now \in Int, GapsHold(g, f, now),
         NEW start \in Int, start >= now - Cadence!Retention, NEW at \in Int
  PROVE  Cadence!LostIn(g, Cadence!Within(g, start, at)) = Cadence!LostIn(f, Cadence!Within(f, start, at))
<1> DEFINE cut == now - Cadence!Retention
<1>d. cut \in Int /\ start >= cut
  BY WindowsTyped
<1>e. PICK e \in Nat : DropsGaps(g, f, e) /\ \A j \in 1..e : f[j].at < cut
  BY DEF GapsHold
<1> HIDE DEF cut
<1>0. /\ Len(g) \in Nat /\ Len(f) \in Nat /\ Len(f) = Len(g) + e /\ e \in Nat
      /\ DOMAIN g = 1..Len(g) /\ DOMAIN f = 1..Len(f)
  BY <1>e DEF DropsGaps
<1>2. \A k \in 1..Len(f) : f[k].at \in Int /\ f[k].lost \in Nat
  <2>1. \A x \in Gap : x.at \in Int /\ x.lost \in Nat
    BY DEF Gap
  <2>2. \A k \in 1..Len(f) : f[k] \in Gap
    OBVIOUS
  <2> QED BY <2>1, <2>2
<1> DEFINE A == Cadence!Within(g, start, at)
           lg == [k \in DOMAIN g |-> g[k].lost]
           lf == [k \in DOMAIN f |-> f[k].lost]
<1>s. \A k \in 1..Len(g) : /\ g[k].at = f[k + e].at /\ g[k].lost = f[k + e].lost
                           /\ k + e \in 1..Len(f)
  <2>1. \A k \in 1..Len(g) : k + e \in 1..Len(f)
    BY <1>0
  <2> QED BY <1>e, <2>1 DEF DropsGaps
<1> DEFINE B == Cadence!Within(f, start, at)
<1>p. \A j \in B : j - e \in A
  <2> TAKE j \in B
  <2>1. j \in 1..Len(f) /\ start < f[j].at /\ f[j].at <= at
    BY <1>0 DEF Cadence!Within
  <2>2. j > e
    <3> SUFFICES ASSUME j <= e PROVE FALSE
      BY <1>0, <2>1
    <3>1. f[j].at < cut /\ f[j].at \in Int
      BY <1>e, <1>0, <1>2, <2>1
    <3> QED BY <1>d, <2>1, <3>1
  <2>3. j - e \in 1..Len(g) /\ (j - e) + e = j
    BY <1>0, <2>1, <2>2
  <2>4. g[j - e].at = f[j].at
    BY <1>s, <2>3
  <2> QED BY <1>0, <2>1, <2>3, <2>4 DEF Cadence!Within
<1>b. \A k \in A : k + e \in B
  <2> TAKE k \in A
  <2>1. k \in 1..Len(g) /\ start < g[k].at /\ g[k].at <= at
    BY <1>0 DEF Cadence!Within
  <2> QED BY <1>0, <1>s, <2>1 DEF Cadence!Within
<1>3. \A k \in A : lg[k] \in Nat /\ lf[k + e] = lg[k]
  <2> TAKE k \in A
  <2>1. k \in 1..Len(g)
    BY <1>0 DEF Cadence!Within
  <2> QED BY <1>0, <1>2, <1>s, <2>1
<1>4. A \in SUBSET Int /\ IsFiniteSet(A) /\ B \in SUBSET Int
  BY WithinTyped
<1>5. /\ Cadence!LostIn(g, A) = Cadence!SumFunctionOnSet(lg, A)
      /\ Cadence!LostIn(f, B) = Cadence!SumFunctionOnSet(lf, B)
  BY DEF Cadence!LostIn
<1>a. (\A k \in A : lg[k] \in Nat) /\ (\A k \in A : lf[k + e] = lg[k])
  BY <1>3
<1> HIDE DEF A, B, lg, lf
<1>6. Shifted(lg, A, lf, B, e)
  BY <1>0, <1>a, <1>p, <1>b, <1>4 DEF Shifted
<1>7. Cadence!SumFunctionOnSet(lf, B) = Cadence!SumFunctionOnSet(lg, A)
  BY <1>6, SumIsShifted
<1> QED BY <1>5, <1>7 DEF A, B

\* A count over a window that starts after the cut is the same over the
\* segment and over the whole one.
LEMMA RollingSame ==
  ASSUME NEW rate, NEW s \in Seq(Obs), NEW w \in Seq(Obs), NEW now \in Int,
         SegmentHolds(s, w, now), s # <<>>, Increasing(w),
         NEW g \in Seq(Gap), NEW f \in Seq(Gap), GapsHold(g, f, now),
         NEW at \in Int, NEW window \in Nat, at - window >= now - Cadence!Retention
  PROVE  Cadence!Rolling(rate, s, g, at, window) = Cadence!Rolling(rate, w, f, at, window)
<1> DEFINE cut == now - Cadence!Retention
<1>a. cut \in Int /\ at - window >= cut
  BY WindowsTyped
<1>b. PICK d \in Nat : Drops(s, w, d) /\ (d > 0 => s[1].at < cut)
  BY DEF SegmentHolds
<1>c. PICK e \in Nat : DropsGaps(g, f, e) /\ \A j \in 1..e : f[j].at < cut
  BY DEF GapsHold
<1> HIDE DEF cut
<1>0. /\ Len(s) \in Nat /\ Len(w) \in Nat /\ Len(s) > 0 /\ Len(w) = Len(s) + d /\ d \in Nat
      /\ DOMAIN s = 1..Len(s) /\ DOMAIN w = 1..Len(w)
      /\ \A k \in 1..Len(s) : s[k] = w[k + d] /\ k + d \in 1..Len(w)
      /\ Len(g) \in Nat /\ Len(f) \in Nat /\ Len(f) = Len(g) + e /\ e \in Nat
      /\ DOMAIN g = 1..Len(g) /\ DOMAIN f = 1..Len(f)
  BY <1>b, <1>c DEF Drops, DropsGaps
<1>1. /\ \A k \in 1..Len(s) : s[k].at \in Int
      /\ \A k \in 1..Len(w) : w[k].at \in Int
  <2>1. \A o \in Obs : o.at \in Int
    BY DEF Obs
  <2>2. /\ \A k \in 1..Len(s) : s[k] \in Obs
        /\ \A k \in 1..Len(w) : w[k] \in Obs
    OBVIOUS
  <2> QED BY <2>1, <2>2
<1>2. \A k \in 1..Len(f) : f[k].at \in Int /\ f[k].lost \in Nat
  <2>1. \A x \in Gap : x.at \in Int /\ x.lost \in Nat
    BY DEF Gap
  <2>2. \A k \in 1..Len(f) : f[k] \in Gap
    OBVIOUS
  <2> QED BY <2>1, <2>2
<1> DEFINE start == Cadence!AtLeast(s[1].at, at - window)
<1>3. Cadence!AtLeast(w[1].at, at - window) = start
  <2>1. CASE d = 0
    <3>1. s[1] = w[1]
      BY <1>0, <2>1
    <3> QED BY <3>1
  <2>2. CASE d # 0
    <3>1. s[1] = w[1 + d] /\ 1 + d \in 1..Len(w) /\ 1 \in 1..Len(w) /\ 1 < 1 + d
      BY <1>0, <2>2
    <3>2. w[1].at < s[1].at
      BY <1>0, <3>1 DEF Increasing
    <3>3. s[1].at < cut /\ s[1].at \in Int /\ w[1].at \in Int
      BY <1>b, <1>0, <1>1, <2>2, <3>1
    <3> QED BY <1>a, <3>2, <3>3 DEF Cadence!AtLeast
  <2> QED BY <2>1, <2>2
<1>4. start \in Int /\ start >= cut
  <2>1. s[1].at \in Int
    BY <1>0, <1>1
  <2> QED BY <1>a, <2>1 DEF Cadence!AtLeast
<1> HIDE DEF start
<1>5. Cardinality(Cadence!Within(s, start, at)) = Cardinality(Cadence!Within(w, start, at))
  <2> DEFINE A == Cadence!Within(s, start, at)
             B == Cadence!Within(w, start, at)
             m == [k \in A |-> k + d]
  <2>1. \A k \in A : k + d \in B
    BY <1>0 DEF Cadence!Within
  <2>2. \A j \in B : \E k \in A : k + d = j
    <3> TAKE j \in B
    <3>1. j \in 1..Len(w) /\ start < w[j].at /\ w[j].at <= at
      BY <1>0 DEF Cadence!Within
    <3>2. j > d
      <4> SUFFICES ASSUME j <= d PROVE FALSE
        BY <1>0, <3>1
      <4>1. d > 0 /\ s[1] = w[1 + d] /\ 1 + d \in 1..Len(w) /\ j < 1 + d
        BY <1>0, <3>1
      <4>2. w[j].at < s[1].at
        BY <1>0, <3>1, <4>1 DEF Increasing
      <4>3. w[j].at \in Int /\ s[1].at \in Int /\ s[1].at < cut
        BY <1>b, <1>0, <1>1, <3>1, <4>1
      <4> QED BY <1>a, <1>4, <3>1, <4>2, <4>3
    <3>3. j - d \in 1..Len(s) /\ (j - d) + d = j
      BY <1>0, <3>1, <3>2
    <3>4. s[j - d] = w[j]
      BY <1>0, <3>3
    <3>5. j - d \in A
      BY <1>0, <3>1, <3>3, <3>4 DEF Cadence!Within
    <3> QED BY <3>3, <3>5
  <2>3. m \in Bijection(A, B)
    <3>1. A \subseteq Int
      BY WithinTyped
    <3>2. m \in [A -> B]
      BY <2>1
    <3>3. \A k, l \in A : m[k] = m[l] => k = l
      BY <1>0, <3>1
    <3>4. \A j \in B : \E k \in A : m[k] = j
      BY <2>2
    <3> HIDE DEF A, B, m
    <3> QED BY <3>2, <3>3, <3>4 DEF Bijection, Injection, Surjection, IsInjective
  <2>4. IsFiniteSet(A)
    BY WithinTyped
  <2> HIDE DEF A, B, m
  <2>5. Cardinality(A) = Cardinality(B)
    BY <2>3, <2>4, FS_Bijection DEF ExistsBijection
  <2> QED BY <2>5 DEF A, B
<1>6. Cadence!LostIn(g, Cadence!Within(g, start, at)) = Cadence!LostIn(f, Cadence!Within(f, start, at))
  BY <1>4, LostSame DEF cut
<1>7. Cadence!Provisional(rate, s, at) = Cadence!Provisional(rate, w, at)
  <2>1. s[Len(s)] = w[Len(w)] /\ w # <<>>
    BY <1>0
  <2> QED BY <2>1 DEF Cadence!Provisional
<1>8. w # <<>>
  BY <1>0
<1>9. Cadence!Rolling(rate, s, g, at, window)
        = [window |-> window, duration |-> Cadence!AtLeast(0, at - start),
           captured |-> Cardinality(Cadence!Within(s, start, at)),
           lost |-> Cadence!Provisional(rate, s, at) + Cadence!LostIn(g, Cadence!Within(g, start, at))]
  BY CountsAlike DEF Cadence!Rolling, start
<1>10. Cadence!Rolling(rate, w, f, at, window)
        = [window |-> window, duration |-> Cadence!AtLeast(0, at - start),
           captured |-> Cardinality(Cadence!Within(w, start, at)),
           lost |-> Cadence!Provisional(rate, w, at) + Cadence!LostIn(f, Cadence!Within(f, start, at))]
  BY <1>3, <1>8, CountsAlike DEF Cadence!Rolling
<1> QED BY <1>5, <1>6, <1>7, <1>9, <1>10

-----------------------------------------------------------------------------
(* The invariant of a tracker t, of the observations w of its segment, n     *)
(* pulses, and the time now.                                                *)

FullGaps(rate, w) == IF rate = Cadence!Off \/ w = <<>> THEN <<>> ELSE Cadence!InferredGaps(w)

\* The segment is in order, and projected with one offset.
WholeHolds(t, w, n, now) ==
  /\ \A k \in 1..Len(w) : /\ w[k].at = w[k].captured + t.offset
                          /\ w[k].sequence <= n /\ w[k].captured \in 1..now
  /\ \A j, k \in 1..Len(w) :
       j < k => w[j].captured < w[k].captured /\ w[j].sequence < w[k].sequence
  /\ w # <<>> => ~t.pending

\* Points are in order, and the last one is of this sample interval.
PointsHold(p, last, now) ==
  /\ \A j, k \in 1..Len(p) : j < k => p[j].at < p[k].at
  /\ p # <<>> => p[Len(p)].at <= now /\ last # Cadence!Off /\ p[Len(p)].at - last < SampleInterval

IsExact(p, rate, w, now) ==
  w # <<>> /\ p.at >= w[1].at /\ p.at >= now - DisplayHorizon =>
    p.windows = Cadence!RollingAll(rate, w, FullGaps(rate, w), p.at)

AllExact(p, rate, w, now) == \A k \in 1..Len(p) : IsExact(p[k], rate, w, now)

AllMarked(g, boundaries) ==
  \A k \in 1..Len(g) : g[k].crosses <=> \E b \in boundaries : Cadence!Crosses(g[k], b)

TrackerHolds(t, w, n, now) ==
  /\ t \in Tracker /\ w \in Seq(Obs) /\ n \in Nat /\ now \in Nat
  /\ SegmentHolds(t.segment, w, now)
  /\ GapsHold(t.segmentGaps, FullGaps(t.rate, w), now)
  /\ WholeHolds(t, w, n, now)
  /\ PointsHold(t.points, t.lastSample, now)

-----------------------------------------------------------------------------
LEMMA TrackerTyped ==
  ASSUME NEW t \in Tracker
  PROVE  /\ t.rate \in {Cadence!Off, Period} /\ t.pending \in BOOLEAN /\ t.offset \in Int
         /\ t.observations \in Seq(Obs) /\ t.gaps \in Seq(Gap) /\ t.points \in Seq(Point)
         /\ t.segment \in Seq(Obs) /\ t.segmentGaps \in Seq(Gap)
         /\ t.lastSample \in Nat /\ t.dirty \in BOOLEAN
BY DEF Tracker

\* The whole gaps are a sequence of gaps.
LEMMA FullGapsTyped ==
  ASSUME NEW t \in Tracker, NEW w \in Seq(Obs), NEW n, NEW now, WholeHolds(t, w, n, now),
         NEW rate
  PROVE  /\ FullGaps(rate, w) \in Seq(Gap)
         /\ rate # Cadence!Off /\ w # <<>> =>
              /\ Len(FullGaps(rate, w)) = Len(w) - 1
              /\ \A k \in 1..(Len(w) - 1) :
                   FullGaps(rate, w)[k] = Cadence!InferredGap(w[k], w[k + 1])
<1>0. Len(w) \in Nat
  OBVIOUS
<1>1. CASE rate = Cadence!Off \/ w = <<>>
  BY <1>1 DEF FullGaps
<1>2. CASE ~(rate = Cadence!Off \/ w = <<>>)
  <2> DEFINE m == Len(w) - 1
             G(k) == Cadence!InferredGap(w[k], w[k + 1])
  <2>1. m \in Nat
    BY <1>0, <1>2
  <2>2. FullGaps(rate, w) = [k \in 1..m |-> G(k)]
    BY <1>2 DEF FullGaps, Cadence!InferredGaps
  <2>3. \A k \in 1..m : G(k) \in Gap
    <3> TAKE k \in 1..m
    <3>1. k \in 1..Len(w) /\ k + 1 \in 1..Len(w) /\ k < k + 1
      BY <1>0, <2>1
    <3>2. w[k] \in Obs /\ w[k + 1] \in Obs
      BY <3>1
    <3>3. w[k].sequence < w[k + 1].sequence /\ w[k].captured < w[k + 1].captured
      BY <3>1 DEF WholeHolds
    <3> QED BY <3>2, <3>3, InferredGapTyped
  <2>4. \A k \in 1..m : [j \in 1..m |-> G(j)][k] = Cadence!InferredGap(w[k], w[k + 1])
    OBVIOUS
  <2> HIDE DEF m, G
  <2>5. [k \in 1..m |-> G(k)] \in Seq(Gap) /\ Len([k \in 1..m |-> G(k)]) = m
    BY <2>1, <2>3
  <2> QED BY <1>2, <2>2, <2>4, <2>5 DEF m
<1> QED BY <1>1, <1>2

\* One offset keeps the order of the captures.
LEMMA WholeIncreasing ==
  ASSUME NEW t \in Tracker, NEW w \in Seq(Obs), NEW n, NEW now, WholeHolds(t, w, n, now)
  PROVE  Increasing(w)
<1>1. ASSUME NEW j \in DOMAIN w, NEW k \in DOMAIN w, j < k PROVE w[j].at < w[k].at
  <2>1. w[j] \in Obs /\ w[k] \in Obs /\ j \in 1..Len(w) /\ k \in 1..Len(w)
    OBVIOUS
  <2>2. w[j].captured < w[k].captured
    BY <1>1, <2>1 DEF WholeHolds
  <2>3. w[j].at = w[j].captured + t.offset /\ w[k].at = w[k].captured + t.offset
    BY <2>1 DEF WholeHolds
  <2>4. w[j].captured \in Int /\ w[k].captured \in Int /\ t.offset \in Int
    BY <2>1, TrackerTyped DEF Obs
  <2> QED BY <2>2, <2>3, <2>4
<1> QED BY <1>1 DEF Increasing

\* What is displayed is counted over the segment as over the whole one.
LEMMA RollingAllSame ==
  ASSUME NEW t, NEW w, NEW n, NEW now, TrackerHolds(t, w, n, now), t.segment # <<>>,
         NEW at \in Int, at >= now - DisplayHorizon
  PROVE  Cadence!RollingAll(t.rate, t.segment, t.segmentGaps, at)
           = Cadence!RollingAll(t.rate, w, FullGaps(t.rate, w), at)
<1> DEFINE f == FullGaps(t.rate, w)
           cut == now - Cadence!Retention
<1>1. /\ t \in Tracker /\ w \in Seq(Obs) /\ now \in Int /\ t.segment \in Seq(Obs)
      /\ t.segmentGaps \in Seq(Gap) /\ f \in Seq(Gap) /\ Increasing(w) /\ cut \in Int
  BY TrackerTyped, FullGapsTyped, WholeIncreasing, WindowsTyped DEF TrackerHolds
<1>4. \A k \in 1..Len(Windows) : at - Windows[k] >= cut /\ Windows[k] \in Nat
  <2> TAKE k \in 1..Len(Windows)
  <2>1. /\ Windows[k] \in Nat /\ Windows[Len(Windows)] \in Nat
        /\ Windows[k] <= Windows[Len(Windows)] /\ DisplayHorizon \in Nat
    BY WindowsTyped
  <2> QED BY <1>1, <2>1 DEF Cadence!Retention
<1> HIDE DEF f, cut
<1>5. \A k \in 1..Len(Windows) :
        Cadence!Rolling(t.rate, t.segment, t.segmentGaps, at, Windows[k])
          = Cadence!Rolling(t.rate, w, f, at, Windows[k])
  <2> TAKE k \in 1..Len(Windows)
  <2> DEFINE s == t.segment
             g == t.segmentGaps
             u == Windows[k]
  <2>1. /\ s \in Seq(Obs) /\ SegmentHolds(s, w, now) /\ s # <<>>
        /\ g \in Seq(Gap) /\ GapsHold(g, f, now) /\ u \in Nat /\ at - u >= now - Cadence!Retention
    BY <1>1, <1>4 DEF TrackerHolds, f, cut
  <2> HIDE DEF s, g, u
  <2>2. Cadence!Rolling(t.rate, s, g, at, u) = Cadence!Rolling(t.rate, w, f, at, u)
    BY <1>1, <2>1, RollingSame
  <2> QED BY <2>2 DEF s, g, u
<1>6. Cadence!RollingAll(t.rate, t.segment, t.segmentGaps, at) = Cadence!RollingAll(t.rate, w, f, at)
  BY <1>5 DEF Cadence!RollingAll
<1> QED BY <1>6 DEF f

-----------------------------------------------------------------------------
(* Pruning.                                                                 *)
LEMMA PrunedFields ==
  ASSUME NEW t \in Tracker, NEW now \in Int
  PROVE  /\ Cadence!Pruned(t, now) \in Tracker
         /\ Cadence!Pruned(t, now).rate = t.rate /\ Cadence!Pruned(t, now).pending = t.pending
         /\ Cadence!Pruned(t, now).offset = t.offset /\ Cadence!Pruned(t, now).lastSample = t.lastSample
         /\ Cadence!Pruned(t, now).dirty = t.dirty
         /\ Cadence!Pruned(t, now).gaps = Cadence!Recent(t.gaps, now - Cadence!Retention)
         /\ Cadence!Pruned(t, now).points = Cadence!Recent(t.points, now - Cadence!Retention)
         /\ Cadence!Pruned(t, now).segment = Cadence!PrunedSegment(t.segment, now - Cadence!Retention)
         /\ Cadence!Pruned(t, now).segmentGaps = Cadence!Recent(t.segmentGaps, now - Cadence!Retention)
<1> DEFINE cut == now - Cadence!Retention
           o == Cadence!Recent(t.observations, cut)
           g == Cadence!Recent(t.gaps, cut)
           p == Cadence!Recent(t.points, cut)
           s == Cadence!PrunedSegment(t.segment, cut)
           h == Cadence!Recent(t.segmentGaps, cut)
<1>1. cut \in Int
  BY WindowsTyped
<1>2. (\A x \in Obs : x.at \in Int) /\ (\A x \in Gap : x.at \in Int)
      /\ (\A x \in Point : x.at \in Int)
  BY DEF Obs, Gap, Point
<1>3. Cadence!Pruned(t, now) = [t EXCEPT !.observations = o, !.gaps = g, !.points = p,
                                 !.segment = s, !.segmentGaps = h]
  BY DEF Cadence!Pruned
<1> HIDE DEF cut
<1>4. o \in Seq(Obs) /\ g \in Seq(Gap) /\ p \in Seq(Point) /\ h \in Seq(Gap)
  BY <1>1, <1>2, RecentDrops, TrackerTyped
<1>5. s \in Seq(Obs)
  BY <1>1, PrunedSegmentDrops, TrackerTyped
<1> HIDE DEF o, g, p, s, h
<1>6. /\ Cadence!Pruned(t, now).gaps = g /\ Cadence!Pruned(t, now).points = p
      /\ Cadence!Pruned(t, now).segment = s /\ Cadence!Pruned(t, now).segmentGaps = h
  BY <1>3 DEF Tracker
<1>7. /\ Cadence!Pruned(t, now).rate = t.rate /\ Cadence!Pruned(t, now).pending = t.pending
      /\ Cadence!Pruned(t, now).offset = t.offset /\ Cadence!Pruned(t, now).lastSample = t.lastSample
      /\ Cadence!Pruned(t, now).dirty = t.dirty
  BY <1>3 DEF Tracker
<1>8. Cadence!Pruned(t, now) \in Tracker
  BY <1>3, <1>4, <1>5 DEF Tracker
<1> QED BY <1>6, <1>7, <1>8 DEF g, p, s, h, cut

LEMMA PrunedSegmentHolds ==
  ASSUME NEW s \in Seq(Obs), NEW w \in Seq(Obs), NEW now \in Int, SegmentHolds(s, w, now)
  PROVE  SegmentHolds(Cadence!PrunedSegment(s, now - Cadence!Retention), w, now)
<1> DEFINE cut == now - Cadence!Retention
           r == Cadence!PrunedSegment(s, cut)
<1>1. cut \in Int
  BY WindowsTyped
<1>2. PICK d \in Nat : Drops(s, w, d) /\ (d > 0 => s[1].at < cut)
  BY DEF SegmentHolds
<1> HIDE DEF cut
<1>3. PICK e \in Nat : Drops(r, s, e) /\ (e > 0 => r[1].at < cut)
  BY <1>1, PrunedSegmentDrops
<1>4. r \in Seq(Obs) /\ (s # <<>> => r # <<>>)
  BY <1>1, PrunedSegmentDrops
<1> HIDE DEF r
<1>5. Drops(r, w, e + d)
  <2>1. Len(r) \in Nat /\ Len(s) \in Nat
    BY <1>4
  <2> QED BY <1>2, <1>3, <2>1, DropsTwice
<1>6. e + d > 0 => r[1].at < cut
  <2> SUFFICES ASSUME e + d > 0, e = 0 PROVE r[1].at < cut
    BY <1>3
  <2>1. d > 0 /\ s[1].at < cut
    BY <1>2
  <2>2. Len(s) = Len(r) /\ \A k \in 1..Len(r) : r[k] = s[k]
    BY <1>3, <1>4 DEF Drops
  <2>3. s # <<>>
    <3>1. Len(w) > 0
      BY <1>2, <2>1 DEF Drops
    <3> QED BY <3>1 DEF SegmentHolds
  <2>4. r[1] = s[1]
    BY <1>4, <2>2, <2>3
  <2> QED BY <2>1, <2>4
<1>7. r = <<>> => w = <<>>
  BY <1>4 DEF SegmentHolds
<1>8. e + d \in Nat
  OBVIOUS
<1>9. SegmentHolds(r, w, now)
  BY <1>5, <1>6, <1>7, <1>8 DEF SegmentHolds, cut
<1> QED BY <1>9 DEF r, cut

LEMMA PrunedGapsHold ==
  ASSUME NEW g \in Seq(Gap), NEW f \in Seq(Gap), NEW now \in Int, GapsHold(g, f, now)
  PROVE  GapsHold(Cadence!Recent(g, now - Cadence!Retention), f, now)
<1> DEFINE cut == now - Cadence!Retention
           r == Cadence!Recent(g, cut)
<1>1. cut \in Int /\ \A x \in Gap : x.at \in Int
  BY WindowsTyped DEF Gap
<1>2. PICK e \in Nat : DropsGaps(g, f, e) /\ \A j \in 1..e : f[j].at < cut
  BY DEF GapsHold
<1> HIDE DEF cut
<1>3. PICK d \in Nat : Drops(r, g, d) /\ \A k \in 1..d : g[k].at < cut
  BY <1>1, RecentDrops
<1>4. r \in Seq(Gap)
  BY <1>1, RecentDrops
<1> HIDE DEF r
<1>5. /\ Len(r) \in Nat /\ Len(g) \in Nat /\ Len(f) \in Nat
      /\ Len(g) = Len(r) + d /\ Len(f) = Len(g) + e
  BY <1>2, <1>3, <1>4 DEF Drops, DropsGaps
<1>6. DropsGaps(r, f, d + e)
  <2>1. \A k \in 1..Len(r) : r[k].at = f[k + (d + e)].at /\ r[k].lost = f[k + (d + e)].lost
    <3> TAKE k \in 1..Len(r)
    <3>1. r[k] = g[k + d] /\ k + d \in 1..Len(g)
      BY <1>3, <1>5 DEF Drops
    <3>2. g[k + d].at = f[(k + d) + e].at /\ g[k + d].lost = f[(k + d) + e].lost
      BY <1>2, <3>1 DEF DropsGaps
    <3>3. (k + d) + e = k + (d + e)
      OBVIOUS
    <3> QED BY <3>1, <3>2, <3>3
  <2>2. d + e \in Nat /\ Len(f) = Len(r) + (d + e)
    BY <1>5
  <2> QED BY <2>1, <2>2 DEF DropsGaps
<1>7. \A j \in 1..(d + e) : f[j].at < cut
  <2> TAKE j \in 1..(d + e)
  <2>1. CASE j \in 1..e
    BY <1>2, <2>1
  <2>2. CASE j \notin 1..e
    <3>1. j - e \in 1..d /\ j - e \in 1..Len(g) /\ (j - e) + e = j
      BY <1>5, <2>2
    <3>2. g[j - e].at < cut
      BY <1>3, <3>1
    <3>3. g[j - e].at = f[(j - e) + e].at
      BY <1>2, <3>1 DEF DropsGaps
    <3> QED BY <3>1, <3>2, <3>3
  <2> QED BY <2>1, <2>2
<1>8. d + e \in Nat
  OBVIOUS
<1>9. GapsHold(r, f, now)
  BY <1>6, <1>7, <1>8 DEF GapsHold, cut
<1> QED BY <1>9 DEF r, cut

\* What is left was there.
LEMMA RecentElements ==
  ASSUME NEW T, NEW s \in Seq(T), \A x \in T : x.at \in Int, NEW cut \in Int,
         NEW k \in 1..Len(Cadence!Recent(s, cut))
  PROVE  \E j \in 1..Len(s) : Cadence!Recent(s, cut)[k] = s[j]
<1>1. PICK d \in Nat : Drops(Cadence!Recent(s, cut), s, d)
  BY RecentDrops
<1>2. Len(Cadence!Recent(s, cut)) \in Nat
  BY RecentDrops
<1>3. k + d \in 1..Len(s) /\ Cadence!Recent(s, cut)[k] = s[k + d]
  BY <1>1, <1>2 DEF Drops
<1> QED BY <1>3

LEMMA PrunedPointsHold ==
  ASSUME NEW p \in Seq(Point), NEW cut \in Int, NEW last, NEW now,
         PointsHold(p, last, now)
  PROVE  PointsHold(Cadence!Recent(p, cut), last, now)
<1> DEFINE r == Cadence!Recent(p, cut)
<1>1. \A x \in Point : x.at \in Int
  BY DEF Point
<1>2. PICK d \in Nat : Drops(r, p, d)
  BY <1>1, RecentDrops
<1>3. r \in Seq(Point)
  BY <1>1, RecentDrops
<1> HIDE DEF r
<1>4. /\ Len(r) \in Nat /\ Len(p) = Len(r) + d /\ Len(p) \in Nat
      /\ \A k \in 1..Len(r) : r[k] = p[k + d]
  BY <1>2, <1>3 DEF Drops
<1>5. ASSUME NEW j \in 1..Len(r), NEW k \in 1..Len(r), j < k PROVE r[j].at < r[k].at
  <2>1. j + d \in 1..Len(p) /\ k + d \in 1..Len(p) /\ j + d < k + d
    BY <1>4, <1>5
  <2>2. r[j] = p[j + d] /\ r[k] = p[k + d]
    BY <1>4
  <2> QED BY <2>1, <2>2 DEF PointsHold
<1>6. ASSUME r # <<>>
      PROVE  r[Len(r)].at <= now /\ last # Cadence!Off /\ r[Len(r)].at - last < SampleInterval
  <2>1. Len(r) \in 1..Len(r) /\ Len(r) + d = Len(p) /\ p # <<>>
    BY <1>3, <1>4, <1>6
  <2>2. r[Len(r)] = p[Len(p)]
    BY <1>4, <2>1
  <2> QED BY <2>1, <2>2 DEF PointsHold
<1>7. PointsHold(r, last, now)
  BY <1>5, <1>6 DEF PointsHold
<1> QED BY <1>7 DEF r

\* Pruning keeps the invariant, what is exact and what is marked.
LEMMA PrunedHolds ==
  ASSUME NEW t, NEW w, NEW n, NEW now, TrackerHolds(t, w, n, now)
  PROVE  /\ TrackerHolds(Cadence!Pruned(t, now), w, n, now)
         /\ AllExact(t.points, t.rate, w, now) =>
              AllExact(Cadence!Pruned(t, now).points, t.rate, w, now)
         /\ \A boundaries : AllMarked(t.gaps, boundaries) =>
                              AllMarked(Cadence!Pruned(t, now).gaps, boundaries)
<1> DEFINE r == Cadence!Pruned(t, now)
<1>1. t \in Tracker /\ w \in Seq(Obs) /\ n \in Nat /\ now \in Nat /\ now - Cadence!Retention \in Int
  BY WindowsTyped DEF TrackerHolds
<1>2. /\ r \in Tracker /\ r.rate = t.rate /\ r.pending = t.pending /\ r.offset = t.offset
      /\ r.lastSample = t.lastSample /\ r.gaps = Cadence!Recent(t.gaps, now - Cadence!Retention)
      /\ r.points = Cadence!Recent(t.points, now - Cadence!Retention)
      /\ r.segment = Cadence!PrunedSegment(t.segment, now - Cadence!Retention)
      /\ r.segmentGaps = Cadence!Recent(t.segmentGaps, now - Cadence!Retention)
  BY <1>1, PrunedFields
<1>3. (\A x \in Gap : x.at \in Int) /\ (\A x \in Point : x.at \in Int)
  BY DEF Gap, Point
<1> HIDE DEF r
<1>4. SegmentHolds(r.segment, w, now)
  BY <1>1, <1>2, PrunedSegmentHolds, TrackerTyped DEF TrackerHolds
<1>5. GapsHold(r.segmentGaps, FullGaps(r.rate, w), now)
  <2>1. FullGaps(t.rate, w) \in Seq(Gap) /\ t.segmentGaps \in Seq(Gap)
    BY <1>1, FullGapsTyped, TrackerTyped DEF TrackerHolds
  <2> QED BY <1>1, <1>2, <2>1, PrunedGapsHold DEF TrackerHolds
<1>6. WholeHolds(r, w, n, now)
  BY <1>2 DEF TrackerHolds, WholeHolds
<1>7. PointsHold(r.points, r.lastSample, now)
  BY <1>1, <1>2, PrunedPointsHold, TrackerTyped DEF TrackerHolds
<1>8. TrackerHolds(r, w, n, now)
  BY <1>1, <1>2, <1>4, <1>5, <1>6, <1>7 DEF TrackerHolds
<1>9. ASSUME AllExact(t.points, t.rate, w, now) PROVE AllExact(r.points, t.rate, w, now)
  <2> SUFFICES ASSUME NEW k \in 1..Len(r.points)
               PROVE  IsExact(r.points[k], t.rate, w, now)
    BY DEF AllExact
  <2>0. t.points \in Seq(Point) /\ k \in 1..Len(Cadence!Recent(t.points, now - Cadence!Retention))
    BY <1>1, <1>2, TrackerTyped
  <2>1. PICK j \in 1..Len(t.points) : Cadence!Recent(t.points, now - Cadence!Retention)[k] = t.points[j]
    BY <1>1, <1>3, <2>0, RecentElements
  <2> QED BY <1>2, <1>9, <2>1 DEF AllExact
<1>10. ASSUME NEW boundaries, AllMarked(t.gaps, boundaries)
       PROVE  AllMarked(r.gaps, boundaries)
  <2> SUFFICES ASSUME NEW k \in 1..Len(r.gaps)
               PROVE  r.gaps[k].crosses <=> \E b \in boundaries : Cadence!Crosses(r.gaps[k], b)
    BY DEF AllMarked
  <2>0. t.gaps \in Seq(Gap) /\ k \in 1..Len(Cadence!Recent(t.gaps, now - Cadence!Retention))
    BY <1>1, <1>2, TrackerTyped
  <2>1. PICK j \in 1..Len(t.gaps) : Cadence!Recent(t.gaps, now - Cadence!Retention)[k] = t.gaps[j]
    BY <1>1, <1>3, <2>0, RecentElements
  <2>2. t.gaps[j].crosses <=> \E b \in boundaries : Cadence!Crosses(t.gaps[j], b)
    BY <1>10 DEF AllMarked
  <2> QED BY <1>2, <2>1, <2>2
<1> QED BY <1>8, <1>9, <1>10 DEF r

-----------------------------------------------------------------------------
(* Sampling.                                                                *)
\* What was shown is exact after it is counted again.
LEMMA ReconciledHolds ==
  ASSUME NEW t, NEW w, NEW n, NEW now, TrackerHolds(t, w, n, now),
         ~t.dirty => AllExact(t.points, t.rate, w, now)
  PROVE  /\ TrackerHolds(Cadence!Reconciled(t), w, n, now)
         /\ AllExact(Cadence!Reconciled(t).points, t.rate, w, now)
         /\ Cadence!Reconciled(t).rate = t.rate /\ Cadence!Reconciled(t).gaps = t.gaps
         /\ Cadence!Reconciled(t).segment = t.segment
         /\ Cadence!Reconciled(t).segmentGaps = t.segmentGaps
<1>0. t \in Tracker /\ w \in Seq(Obs) /\ n \in Nat /\ now \in Nat
  BY DEF TrackerHolds
<1>1. CASE ~t.dirty
  BY <1>1 DEF Cadence!Reconciled
<1>2. CASE t.dirty /\ t.segment = <<>>
  <2>1. w = <<>>
    BY <1>2 DEF TrackerHolds, SegmentHolds
  <2>2. AllExact(t.points, t.rate, w, now)
    BY <2>1 DEF AllExact, IsExact
  <2>3. Cadence!Reconciled(t) = t
    BY <1>2 DEF Cadence!Reconciled
  <2> QED BY <2>2, <2>3
<1>3. CASE t.dirty /\ t.segment # <<>>
  <2> DEFINE r == Cadence!Reconciled(t)
             A(k) == Cadence!RollingAll(t.rate, t.segment, t.segmentGaps, t.points[k].at)
             P(k) == IF t.points[k].at < t.segment[1].at THEN t.points[k]
                     ELSE [at |-> t.points[k].at, windows |-> A(k)]
             p == [k \in 1..Len(t.points) |-> P(k)]
  <2>1. r = [t EXCEPT !.dirty = FALSE, !.points = p]
    BY <1>3 DEF Cadence!Reconciled
  <2>2. t.points \in Seq(Point) /\ t.segment \in Seq(Obs) /\ t.segmentGaps \in Seq(Gap)
        /\ Len(t.points) \in Nat
    BY <1>0, TrackerTyped
  <2>3. \A k \in 1..Len(t.points) :
          t.points[k] \in Point /\ t.points[k].at \in Int /\ A(k) \in Shown
    <3> TAKE k \in 1..Len(t.points)
    <3>1. t.points[k] \in Point
      BY <2>2
    <3>2. t.points[k].at \in Int
      BY <3>1 DEF Point
    <3> QED BY <2>2, <3>1, <3>2, RollingAllTyped
  <2> HIDE DEF A
  <2>4. \A k \in 1..Len(t.points) : P(k) \in Point /\ P(k).at = t.points[k].at
    BY <2>3 DEF Point
  <2>5. \A k \in 1..Len(t.points) : IsExact(P(k), t.rate, w, now)
    <3> SUFFICES ASSUME NEW k \in 1..Len(t.points), w # <<>>, P(k).at >= w[1].at,
                        P(k).at >= now - DisplayHorizon
                 PROVE  P(k).windows = Cadence!RollingAll(t.rate, w, FullGaps(t.rate, w), P(k).at)
      BY DEF IsExact
    <3> DEFINE at == t.points[k].at
    <3>1. at \in Int /\ P(k).at = at /\ at >= w[1].at /\ at >= now - DisplayHorizon
      BY <2>3, <2>4
    <3>2. at >= t.segment[1].at
      <4>1. PICK d \in Nat : Drops(t.segment, w, d)
                             /\ (d > 0 => t.segment[1].at < now - Cadence!Retention)
        BY DEF TrackerHolds, SegmentHolds
      <4>2. t.segment[1].at \in Int
        <5>1. t.segment[1] \in Obs
          BY <1>3, <2>2
        <5> QED BY <5>1 DEF Obs
      <4>3. CASE d = 0
        <5>1. t.segment[1] = w[1]
          BY <1>3, <2>2, <4>1, <4>3 DEF Drops
        <5> QED BY <3>1, <5>1
      <4>4. CASE d # 0
        <5>1. t.segment[1].at < now - Cadence!Retention /\ Cadence!Retention >= DisplayHorizon
              /\ Cadence!Retention \in Int /\ DisplayHorizon \in Int
          BY <4>1, <4>4, WindowsTyped DEF Cadence!Retention
        <5> HIDE DEF at
        <5> QED BY <1>0, <3>1, <4>2, <5>1
      <4> QED BY <4>3, <4>4
    <3>3. P(k) = [at |-> at, windows |-> A(k)]
      <4>1. t.segment[1].at \in Int
        <5>1. t.segment[1] \in Obs
          BY <1>3, <2>2
        <5> QED BY <5>1 DEF Obs
      <4>2. ~(at < t.segment[1].at)
        BY <3>1, <3>2, <4>1
      <4> QED BY <4>2
    <3>4. A(k) = Cadence!RollingAll(t.rate, w, FullGaps(t.rate, w), at)
      <4> HIDE DEF at
      <4>1. Cadence!RollingAll(t.rate, t.segment, t.segmentGaps, at)
              = Cadence!RollingAll(t.rate, w, FullGaps(t.rate, w), at)
        BY <1>3, <3>1, RollingAllSame
      <4> QED BY <4>1 DEF A, at
    <3> QED BY <3>3, <3>4
  <2> HIDE DEF P
  <2>6. /\ p \in Seq(Point) /\ Len(p) = Len(t.points)
        /\ \A k \in 1..Len(t.points) : p[k] = P(k)
    BY <2>2, <2>4
  <2> HIDE DEF p, r
  <2>7. /\ r \in Tracker /\ r.points = p /\ r.rate = t.rate /\ r.segment = t.segment
        /\ r.segmentGaps = t.segmentGaps /\ r.lastSample = t.lastSample
        /\ r.pending = t.pending /\ r.offset = t.offset /\ r.gaps = t.gaps
    BY <1>0, <2>1, <2>6 DEF Tracker
  <2>8. PointsHold(p, t.lastSample, now)
    <3>1. PointsHold(t.points, t.lastSample, now)
      BY DEF TrackerHolds
    <3>2. ASSUME NEW j \in 1..Len(p), NEW k \in 1..Len(p), j < k PROVE p[j].at < p[k].at
      BY <2>4, <2>6, <3>1, <3>2 DEF PointsHold
    <3>3. ASSUME p # <<>> PROVE p[Len(p)].at = t.points[Len(t.points)].at /\ t.points # <<>>
      <4>1. Len(t.points) \in 1..Len(t.points)
        BY <2>2, <2>6, <3>3
      <4> QED BY <2>4, <2>6, <4>1
    <3> QED BY <3>1, <3>2, <3>3 DEF PointsHold
  <2>9. WholeHolds(r, w, n, now)
    BY <2>7 DEF TrackerHolds, WholeHolds
  <2>10. TrackerHolds(r, w, n, now)
    BY <1>0, <2>7, <2>8, <2>9 DEF TrackerHolds
  <2>11. AllExact(r.points, t.rate, w, now)
    BY <2>5, <2>6, <2>7 DEF AllExact
  <2> QED BY <2>7, <2>10, <2>11 DEF r
<1> QED BY <1>0, <1>1, <1>2, <1>3, TrackerTyped

\* A sample keeps the invariant, and after it all that is shown is exact.
LEMMA SampledHolds ==
  ASSUME NEW t, NEW w, NEW n, NEW now, TrackerHolds(t, w, n, now), now > 0,
         ~t.dirty => AllExact(t.points, t.rate, w, now)
  PROVE  /\ TrackerHolds(Cadence!Sampled(t, now), w, n, now)
         /\ Cadence!Sampled(t, now).rate = t.rate
         /\ AllExact(Cadence!Sampled(t, now).points, t.rate, w, now)
         /\ \A boundaries : AllMarked(t.gaps, boundaries) =>
                              AllMarked(Cadence!Sampled(t, now).gaps, boundaries)
<1> DEFINE r == Cadence!Reconciled(t)
           point == [at |-> now, windows |-> Cadence!RollingAll(r.rate, r.segment, r.segmentGaps, now)]
           due == r.lastSample = Cadence!Off \/ now - r.lastSample >= SampleInterval
           p == IF due THEN Append(r.points, point)
                ELSE IF r.points = <<>> THEN r.points
                ELSE [r.points EXCEPT ![Len(r.points)] = point]
           last == IF due THEN now ELSE r.lastSample
           q == [r EXCEPT !.points = p, !.lastSample = last]
<1>1. Cadence!Sampled(t, now) = Cadence!Pruned(q, now)
  BY DEF Cadence!Sampled
<1>2. /\ TrackerHolds(r, w, n, now) /\ AllExact(r.points, t.rate, w, now)
      /\ r.rate = t.rate /\ r.gaps = t.gaps
  BY ReconciledHolds
<1> HIDE DEF r
<1>3. /\ r \in Tracker /\ w \in Seq(Obs) /\ n \in Nat /\ now \in Nat
      /\ r.points \in Seq(Point) /\ r.segment \in Seq(Obs) /\ r.segmentGaps \in Seq(Gap)
      /\ r.lastSample \in Nat /\ Len(r.points) \in Nat
      /\ \A k \in 1..Len(r.points) : r.points[k].at \in Int
  <2>1. r \in Tracker /\ w \in Seq(Obs) /\ n \in Nat /\ now \in Nat
    BY <1>2 DEF TrackerHolds
  <2>2. r.points \in Seq(Point)
    BY <2>1, TrackerTyped
  <2>3. \A x \in Point : x.at \in Int
    BY DEF Point
  <2>4. \A k \in 1..Len(r.points) : r.points[k] \in Point
    BY <2>2
  <2> QED BY <2>1, <2>2, <2>3, <2>4, TrackerTyped
<1>4. point \in Point /\ point.at = now
  <2>1. Cadence!RollingAll(r.rate, r.segment, r.segmentGaps, now) \in Shown
    BY <1>3, RollingAllTyped
  <2> QED BY <1>3, <2>1 DEF Point
<1>5. IsExact(point, t.rate, w, now)
  <2> SUFFICES ASSUME w # <<>>
               PROVE  Cadence!RollingAll(r.rate, r.segment, r.segmentGaps, now)
                        = Cadence!RollingAll(r.rate, w, FullGaps(r.rate, w), now)
    BY <1>2 DEF IsExact
  <2>1. r.segment # <<>>
    BY <1>2 DEF TrackerHolds, SegmentHolds
  <2>2. now \in Int /\ now >= now - DisplayHorizon
    BY <1>3, WindowsTyped
  <2> QED BY <1>2, <2>1, <2>2, RollingAllSame
<1>6. PointsHold(r.points, r.lastSample, now)
  BY <1>2 DEF TrackerHolds
<1> HIDE DEF point
<1>7. p \in Seq(Point) /\ last \in Nat /\ PointsHold(p, last, now)
      /\ \A k \in 1..Len(p) : p[k] = point \/ \E j \in 1..Len(r.points) : p[k] = r.points[j]
  <2>0. SampleInterval \in Nat /\ SampleInterval > 0 /\ Cadence!Off = 0
    BY CadenceAssumption DEF Cadence!Off
  <2> DEFINE m == Len(r.points)
  <2>a. \A j, k \in 1..m : j < k => r.points[j].at < r.points[k].at
    BY <1>6 DEF PointsHold
  <2>b. ASSUME r.points # <<>>
        PROVE  /\ m \in 1..m /\ r.points[m].at <= now /\ r.lastSample # Cadence!Off
               /\ r.points[m].at - r.lastSample < SampleInterval
    BY <1>3, <1>6, <2>b DEF PointsHold
  <2>1. CASE due
    <3>1. last = now /\ p = Append(r.points, point)
      BY <2>1
    <3>2. /\ p \in Seq(Point) /\ Len(p) = m + 1 /\ p[m + 1] = point
          /\ \A k \in 1..m : p[k] = r.points[k]
      BY <1>3, <1>4, <3>1
    <3>3. ASSUME r.points # <<>> PROVE r.points[m].at < now
      <4>1. now - r.lastSample >= SampleInterval
        BY <2>1, <2>b, <3>3
      <4>2. r.points[m].at \in Int
        BY <1>3, <2>b, <3>3
      <4> QED BY <1>3, <2>0, <2>b, <3>3, <4>1, <4>2
    <3>4. \A k \in 1..m : r.points[k].at < now
      <4> TAKE k \in 1..m
      <4>1. r.points # <<>>
        BY <1>3
      <4>2. m \in 1..m /\ r.points[m].at < now /\ r.points[m].at \in Int /\ r.points[k].at \in Int
        BY <1>3, <2>b, <3>3, <4>1
      <4>3. k = m \/ k < m
        BY <1>3
      <4>4. k < m => r.points[k].at < r.points[m].at
        BY <2>a, <4>2
      <4> QED BY <1>3, <4>2, <4>3, <4>4
    <3> HIDE DEF p, last, m
    <3>m. m \in Nat
      BY <1>3 DEF m
    <3>5. ASSUME NEW j \in 1..Len(p), NEW k \in 1..Len(p), j < k PROVE p[j].at < p[k].at
      <4>1. j \in 1..m
        BY <3>2, <3>5, <3>m
      <4>2. CASE k = m + 1
        BY <1>4, <3>2, <3>4, <4>1, <4>2
      <4>3. CASE k # m + 1
        <5>1. k \in 1..m
          BY <3>2, <3>m, <4>3
        <5> QED BY <2>a, <3>2, <3>5, <4>1, <5>1
      <4> QED BY <4>2, <4>3
    <3>6. p[Len(p)].at <= now /\ last # Cadence!Off /\ p[Len(p)].at - last < SampleInterval
      <4>1. p[Len(p)] = point
        BY <3>2
      <4> QED BY <1>3, <1>4, <2>0, <3>1, <4>1
    <3>7. PointsHold(p, last, now)
      BY <3>5, <3>6 DEF PointsHold
    <3>8. \A k \in 1..Len(p) : p[k] = point \/ \E j \in 1..m : p[k] = r.points[j]
      <4> TAKE k \in 1..Len(p)
      <4>1. k = m + 1 \/ k \in 1..m
        BY <3>2, <3>m
      <4> QED BY <3>2, <4>1
    <3> QED BY <1>3, <3>1, <3>2, <3>7, <3>8 DEF m
  <2>2. CASE ~due /\ r.points = <<>>
    <3>1. p = r.points /\ last = r.lastSample
      BY <2>2
    <3> HIDE DEF p, last
    <3> QED BY <1>3, <1>6, <3>1
  <2>3. CASE ~due /\ r.points # <<>>
    <3>1. p = [r.points EXCEPT ![m] = point] /\ last = r.lastSample
      BY <2>3
    <3>2. m \in 1..m /\ m \in Nat
      BY <1>3, <2>3, <2>b
    <3> HIDE DEF m
    <3>3. /\ p \in Seq(Point) /\ Len(p) = m /\ p[m] = point
          /\ \A k \in 1..m : k # m => p[k] = r.points[k]
      BY <1>3, <1>4, <3>1, <3>2 DEF m
    <3> HIDE DEF p, last
    <3>4. now - r.lastSample < SampleInterval
      BY <1>3, <2>0, <2>3
    <3>5. ASSUME NEW j \in 1..Len(p), NEW k \in 1..Len(p), j < k PROVE p[j].at < p[k].at
      <4>1. j \in 1..m /\ j # m /\ k \in 1..m
        BY <3>2, <3>3, <3>5
      <4>2. p[j] = r.points[j] /\ j < m
        BY <3>2, <3>3, <4>1
      <4>3. CASE k = m
        <5>1. r.points[j].at < r.points[m].at
          BY <2>a, <3>2, <4>1, <4>2 DEF m
        <5>2. r.points[m].at <= now
          BY <2>3, <2>b DEF m
        <5>3. r.points[j].at \in Int /\ r.points[m].at \in Int
          BY <1>3, <3>2, <4>1 DEF m
        <5>4. p[k].at = now
          <6>1. p[k] = point
            BY <3>3, <4>3
          <6> QED BY <1>4, <6>1
        <5>5. r.points[j].at < now
          <6> DEFINE a == r.points[j].at
                     b == r.points[m].at
          <6>1. a \in Int /\ b \in Int /\ now \in Int /\ a < b /\ b <= now
            BY <1>3, <5>1, <5>2, <5>3
          <6> HIDE DEF a, b
          <6>2. a < now
            BY <6>1
          <6> QED BY <6>2 DEF a
        <5> QED BY <4>2, <5>4, <5>5
      <4>4. CASE k # m
        <5>1. r.points[j].at < r.points[k].at
          BY <2>a, <3>5, <4>1
        <5>2. p[k] = r.points[k]
          BY <3>3, <4>1, <4>4
        <5> QED BY <4>2, <5>1, <5>2
      <4> QED BY <4>3, <4>4
    <3>6. p[Len(p)].at <= now /\ last # Cadence!Off /\ p[Len(p)].at - last < SampleInterval
      <4>1. p[Len(p)].at = now
        BY <1>4, <3>3
      <4> QED BY <1>3, <2>3, <2>b, <3>1, <3>4, <4>1
    <3>7. PointsHold(p, last, now)
      BY <3>5, <3>6 DEF PointsHold
    <3>8. \A k \in 1..Len(p) : p[k] = point \/ \E j \in 1..m : p[k] = r.points[j]
      BY <3>3
    <3> QED BY <1>3, <3>1, <3>3, <3>7, <3>8 DEF m
  <2> QED BY <2>1, <2>2, <2>3
<1> HIDE DEF p, last, q
<1>8. /\ q \in Tracker /\ q.points = p /\ q.lastSample = last /\ q.rate = r.rate
      /\ q.segment = r.segment /\ q.segmentGaps = r.segmentGaps
      /\ q.pending = r.pending /\ q.offset = r.offset /\ q.gaps = r.gaps
  BY <1>3, <1>7 DEF Tracker, q
<1>9. TrackerHolds(q, w, n, now)
  <2>1. WholeHolds(q, w, n, now)
    BY <1>2, <1>8 DEF TrackerHolds, WholeHolds
  <2> QED BY <1>2, <1>7, <1>8, <2>1 DEF TrackerHolds
<1>10. AllExact(q.points, q.rate, w, now)
  <2> SUFFICES ASSUME NEW k \in 1..Len(p) PROVE IsExact(p[k], t.rate, w, now)
    BY <1>2, <1>8 DEF AllExact
  <2>1. p[k] = point \/ \E j \in 1..Len(r.points) : p[k] = r.points[j]
    BY <1>7
  <2> QED BY <1>2, <1>5, <2>1 DEF AllExact
<1>11. /\ TrackerHolds(Cadence!Pruned(q, now), w, n, now)
       /\ AllExact(Cadence!Pruned(q, now).points, q.rate, w, now)
       /\ \A boundaries : AllMarked(q.gaps, boundaries) =>
                            AllMarked(Cadence!Pruned(q, now).gaps, boundaries)
  BY <1>9, <1>10, PrunedHolds
<1>12. Cadence!Pruned(q, now).rate = q.rate
  BY <1>3, <1>8, PrunedFields
<1> QED BY <1>1, <1>2, <1>8, <1>11, <1>12

-----------------------------------------------------------------------------
(* The steps.                                                               *)
CadenceInv ==
  /\ TrackerHolds(tracker, whole, pulses, clock)
  /\ ~tracker.dirty => AllExact(tracker.points, tracker.rate, whole, clock)
  /\ AllMarked(tracker.gaps, marks)

LEMMA CadenceInit ==
  Cadence!Init => CadenceInv
<1> SUFFICES ASSUME Cadence!Init PROVE CadenceInv
  OBVIOUS
<1>1. /\ clock = 0 /\ whole = <<>> /\ pulses = 0
      /\ tracker = [rate |-> Period, pending |-> TRUE, offset |-> 0,
                    observations |-> <<>>, gaps |-> <<>>, points |-> <<>>,
                    segment |-> <<>>, segmentGaps |-> <<>>, lastSample |-> Cadence!Off,
                    dirty |-> FALSE]
  BY DEF Cadence!Init
<1>2. tracker \in Tracker
  BY <1>1 DEF Tracker, Cadence!Off
<1>3. Drops(<<>>, <<>>, 0) /\ DropsGaps(<<>>, <<>>, 0)
  BY DEF Drops, DropsGaps
<1>4. SegmentHolds(tracker.segment, whole, clock)
  BY <1>1, <1>3 DEF SegmentHolds
<1>5. GapsHold(tracker.segmentGaps, FullGaps(tracker.rate, whole), clock)
  <2>1. FullGaps(tracker.rate, whole) = <<>> /\ tracker.segmentGaps = <<>>
    BY <1>1 DEF FullGaps
  <2>2. \A j \in 1..0 : <<>>[j].at < clock - Cadence!Retention
    OBVIOUS
  <2>3. 0 \in Nat
    OBVIOUS
  <2>4. GapsHold(<<>>, <<>>, clock)
    BY <1>3, <2>2, <2>3 DEF GapsHold
  <2> QED BY <2>1, <2>4
<1>6. WholeHolds(tracker, whole, pulses, clock) /\ PointsHold(tracker.points, tracker.lastSample, clock)
  BY <1>1 DEF WholeHolds, PointsHold
<1>7. AllExact(tracker.points, tracker.rate, whole, clock) /\ AllMarked(tracker.gaps, marks)
  BY <1>1 DEF AllExact, AllMarked
<1>8. whole \in Seq(Obs)
  BY <1>1
<1> QED BY <1>1, <1>2, <1>4, <1>5, <1>6, <1>7, <1>8 DEF CadenceInv, TrackerHolds

LEMMA CadenceTick ==
  CadenceInv /\ Cadence!Tick => CadenceInv'
<1> SUFFICES ASSUME CadenceInv, Cadence!Tick PROVE CadenceInv'
  OBVIOUS
<1>1. /\ clock' = clock + 1 /\ tracker' = tracker /\ whole' = whole /\ pulses' = pulses
      /\ marks' = marks
  BY DEF Cadence!Tick
<1> DEFINE later == clock + 1
<1>2. /\ tracker \in Tracker /\ whole \in Seq(Obs) /\ clock \in Nat /\ pulses \in Nat
      /\ later \in Nat /\ clock < later
  BY DEF CadenceInv, TrackerHolds
<1>3. Cadence!Retention \in Nat /\ DisplayHorizon \in Nat
  BY WindowsTyped
<1>4. clock' = later
  BY <1>1
<1> HIDE DEF later
<1>5. SegmentHolds(tracker.segment, whole, later)
  <2>1. PICK d \in Nat : Drops(tracker.segment, whole, d)
                         /\ (d > 0 => tracker.segment[1].at < clock - Cadence!Retention)
    BY DEF CadenceInv, TrackerHolds, SegmentHolds
  <2>2. d > 0 => tracker.segment[1].at < later - Cadence!Retention
    <3> SUFFICES ASSUME d > 0 PROVE tracker.segment[1].at < later - Cadence!Retention
      OBVIOUS
    <3>1. tracker.segment # <<>>
      <4>1. Len(whole) > 0
        BY <2>1, <1>2, TrackerTyped DEF Drops
      <4> QED BY <4>1 DEF CadenceInv, TrackerHolds, SegmentHolds
    <3>2. tracker.segment[1] \in Obs
      BY <1>2, <3>1, TrackerTyped
    <3>3. tracker.segment[1].at \in Int
      BY <3>2 DEF Obs
    <3> QED BY <1>2, <1>3, <2>1, <3>3
  <2> QED BY <2>1, <2>2 DEF CadenceInv, TrackerHolds, SegmentHolds
<1>6. GapsHold(tracker.segmentGaps, FullGaps(tracker.rate, whole), later)
  <2> DEFINE f == FullGaps(tracker.rate, whole)
  <2>1. f \in Seq(Gap)
    BY <1>2, FullGapsTyped DEF CadenceInv, TrackerHolds
  <2>2. PICK e \in Nat : DropsGaps(tracker.segmentGaps, f, e)
                         /\ \A j \in 1..e : f[j].at < clock - Cadence!Retention
    BY DEF CadenceInv, TrackerHolds, GapsHold
  <2> HIDE DEF f
  <2>3. \A j \in 1..e : f[j].at < later - Cadence!Retention
    <3> TAKE j \in 1..e
    <3>1. j \in 1..Len(f)
      BY <1>2, <2>1, <2>2, TrackerTyped DEF DropsGaps
    <3>2. f[j] \in Gap
      BY <2>1, <3>1
    <3>3. f[j].at \in Int
      BY <3>2 DEF Gap
    <3>4. f[j].at < clock - Cadence!Retention
      BY <2>2
    <3> QED BY <1>2, <1>3, <3>3, <3>4
  <2>4. GapsHold(tracker.segmentGaps, f, later)
    BY <2>2, <2>3 DEF GapsHold
  <2> QED BY <2>4 DEF f
<1>7. WholeHolds(tracker, whole, pulses, later)
  <2>1. WholeHolds(tracker, whole, pulses, clock)
    BY DEF CadenceInv, TrackerHolds
  <2>2. \A x \in 1..clock : x \in 1..(later)
    BY <1>2
  <2> QED BY <2>1, <2>2 DEF WholeHolds
<1>8. PointsHold(tracker.points, tracker.lastSample, later)
  <2>1. PointsHold(tracker.points, tracker.lastSample, clock)
    BY DEF CadenceInv, TrackerHolds
  <2>2. ASSUME tracker.points # <<>>
        PROVE  tracker.points[Len(tracker.points)].at <= later
    <3>1. tracker.points[Len(tracker.points)] \in Point
      BY <1>2, <2>2, TrackerTyped
    <3>2. tracker.points[Len(tracker.points)].at \in Int
      BY <3>1 DEF Point
    <3>3. tracker.points[Len(tracker.points)].at <= clock
      BY <2>1, <2>2 DEF PointsHold
    <3> QED BY <1>2, <3>2, <3>3
  <2> QED BY <2>1, <2>2 DEF PointsHold
<1>9. ASSUME ~tracker.dirty PROVE AllExact(tracker.points, tracker.rate, whole, later)
  <2> SUFFICES ASSUME NEW k \in 1..Len(tracker.points)
               PROVE  IsExact(tracker.points[k], tracker.rate, whole, later)
    BY DEF AllExact
  <2>1. IsExact(tracker.points[k], tracker.rate, whole, clock)
    BY <1>9 DEF CadenceInv, AllExact
  <2>2. tracker.points[k] \in Point
    BY <1>2, TrackerTyped
  <2>3. tracker.points[k].at \in Int
    BY <2>2 DEF Point
  <2>4. tracker.points[k].at >= later - DisplayHorizon =>
          tracker.points[k].at >= clock - DisplayHorizon
    BY <1>2, <1>3, <2>3
  <2> QED BY <2>1, <2>4 DEF IsExact
<1> QED BY <1>1, <1>2, <1>4, <1>5, <1>6, <1>7, <1>8, <1>9 DEF CadenceInv, TrackerHolds

LEMMA CadenceSetsRate ==
  CadenceInv /\ Cadence!SetExpectedRate => CadenceInv'
<1> SUFFICES ASSUME CadenceInv, Cadence!SetExpectedRate PROVE CadenceInv'
  OBVIOUS
<1> DEFINE rate == IF tracker.rate = Cadence!Off THEN Period ELSE Cadence!Off
<1>1. /\ tracker' = [tracker EXCEPT !.rate = rate, !.pending = TRUE, !.segment = <<>>,
                                    !.segmentGaps = <<>>]
      /\ whole' = <<>> /\ clock' = clock /\ marks' = marks /\ pulses' = pulses
  BY DEF Cadence!SetExpectedRate
<1>2. tracker \in Tracker /\ clock \in Nat /\ pulses \in Nat
  BY DEF CadenceInv, TrackerHolds
<1>3. rate \in {Cadence!Off, Period}
  OBVIOUS
<1> HIDE DEF rate
<1>4. /\ tracker' \in Tracker /\ tracker'.segment = <<>> /\ tracker'.segmentGaps = <<>>
      /\ tracker'.gaps = tracker.gaps /\ tracker'.points = tracker.points
      /\ tracker'.lastSample = tracker.lastSample
  <2> DEFINE r == [tracker EXCEPT !.rate = rate, !.pending = TRUE, !.segment = <<>>,
                                  !.segmentGaps = <<>>]
  <2>1. r \in Tracker
    <3>1. <<>> \in Seq(Obs) /\ <<>> \in Seq(Gap)
      OBVIOUS
    <3> QED BY <1>2, <1>3, <3>1 DEF Tracker
  <2>2. /\ r.segment = <<>> /\ r.segmentGaps = <<>> /\ r.gaps = tracker.gaps
        /\ r.points = tracker.points /\ r.lastSample = tracker.lastSample
    BY <1>2 DEF Tracker
  <2>3. tracker' = r
    BY <1>1
  <2> HIDE DEF r
  <2> QED BY <2>1, <2>2, <2>3
<1>5. Drops(<<>>, <<>>, 0) /\ DropsGaps(<<>>, <<>>, 0)
  BY DEF Drops, DropsGaps
<1>6. SegmentHolds(tracker'.segment, whole', clock')
  BY <1>1, <1>4, <1>5 DEF SegmentHolds
<1>7. GapsHold(tracker'.segmentGaps, FullGaps(tracker'.rate, whole'), clock')
  <2>1. FullGaps(tracker'.rate, whole') = <<>>
    BY <1>1 DEF FullGaps
  <2>2. \A j \in 1..0 : <<>>[j].at < clock' - Cadence!Retention
    OBVIOUS
  <2>3. GapsHold(<<>>, <<>>, clock')
    BY <1>5, <2>2 DEF GapsHold
  <2> QED BY <1>4, <2>1, <2>3
<1>8. WholeHolds(tracker', whole', pulses', clock')
  BY <1>1 DEF WholeHolds
<1>9. PointsHold(tracker'.points, tracker'.lastSample, clock')
  BY <1>1, <1>4 DEF CadenceInv, TrackerHolds
<1>10. AllExact(tracker'.points, tracker'.rate, whole', clock')
  BY <1>1 DEF AllExact, IsExact
<1>11. AllMarked(tracker'.gaps, marks')
  BY <1>1, <1>4 DEF CadenceInv
<1>12. whole' \in Seq(Obs)
  BY <1>1
<1> QED BY <1>1, <1>2, <1>4, <1>6, <1>7, <1>8, <1>9, <1>10, <1>11, <1>12
        DEF CadenceInv, TrackerHolds

LEMMA CadenceSamples ==
  CadenceInv /\ Cadence!Sample => CadenceInv'
<1> SUFFICES ASSUME CadenceInv, Cadence!Sample PROVE CadenceInv'
  OBVIOUS
<1>1. /\ tracker' = Cadence!Sampled(tracker, clock) /\ clock > 0 /\ clock' = clock
      /\ whole' = whole /\ pulses' = pulses /\ marks' = marks
  BY DEF Cadence!Sample
<1>2. /\ TrackerHolds(tracker, whole, pulses, clock)
      /\ ~tracker.dirty => AllExact(tracker.points, tracker.rate, whole, clock)
      /\ AllMarked(tracker.gaps, marks)
  BY DEF CadenceInv
<1>3. /\ TrackerHolds(Cadence!Sampled(tracker, clock), whole, pulses, clock)
      /\ Cadence!Sampled(tracker, clock).rate = tracker.rate
      /\ AllExact(Cadence!Sampled(tracker, clock).points, tracker.rate, whole, clock)
      /\ AllMarked(Cadence!Sampled(tracker, clock).gaps, marks)
  BY <1>1, <1>2, SampledHolds
<1> QED BY <1>1, <1>3 DEF CadenceInv

\* Marking changes the marks of gaps alone.
LEMMA MarkedIs ==
  ASSUME NEW g \in Seq(Gap), NEW boundary
  PROVE  /\ Cadence!Marked(g, boundary) \in Seq(Gap) /\ Len(Cadence!Marked(g, boundary)) = Len(g)
         /\ \A k \in 1..Len(g) :
              /\ Cadence!Marked(g, boundary)[k].at = g[k].at
              /\ Cadence!Marked(g, boundary)[k].lost = g[k].lost
              /\ Cadence!Marked(g, boundary)[k].before = g[k].before
              /\ Cadence!Marked(g, boundary)[k].after = g[k].after
              /\ Cadence!Marked(g, boundary)[k].crosses = (g[k].crosses \/ Cadence!Crosses(g[k], boundary))
<1> DEFINE A(k) == Cadence!Annotated(g[k], {boundary})
<1>1. Cadence!Marked(g, boundary) = [k \in 1..Len(g) |-> A(k)]
  BY DEF Cadence!Marked
<1>2. ASSUME NEW k \in 1..Len(g)
      PROVE  /\ A(k) \in Gap /\ A(k).at = g[k].at /\ A(k).lost = g[k].lost
             /\ A(k).before = g[k].before /\ A(k).after = g[k].after
             /\ A(k).crosses = (g[k].crosses \/ Cadence!Crosses(g[k], boundary))
  <2>1. g[k] \in Gap
    OBVIOUS
  <2>2. /\ A(k) \in Gap /\ A(k).at = g[k].at /\ A(k).lost = g[k].lost
        /\ A(k).before = g[k].before /\ A(k).after = g[k].after
        /\ A(k).crosses = (g[k].crosses \/ \E b \in {boundary} : Cadence!Crosses(g[k], b))
    BY <2>1, AnnotatedTyped
  <2>3. (\E b \in {boundary} : Cadence!Crosses(g[k], b)) = Cadence!Crosses(g[k], boundary)
    BY DEF Cadence!Crosses
  <2> HIDE DEF A
  <2> QED BY <2>2, <2>3
<1>3. Len(g) \in Nat
  OBVIOUS
<1> HIDE DEF A
<1> QED BY <1>1, <1>2, <1>3

LEMMA CadenceMarks ==
  CadenceInv /\ Cadence!MarkSnapshotBoundary => CadenceInv'
<1> SUFFICES ASSUME CadenceInv, Cadence!MarkSnapshotBoundary PROVE CadenceInv'
  OBVIOUS
<1>1. PICK boundary \in 1..pulses :
        /\ marks' = marks \cup {boundary}
        /\ tracker' = [tracker EXCEPT !.gaps = Cadence!Marked(@, boundary),
                                      !.segmentGaps = Cadence!Marked(@, boundary)]
  BY DEF Cadence!MarkSnapshotBoundary
<1>2. clock' = clock /\ whole' = whole /\ pulses' = pulses
  BY DEF Cadence!MarkSnapshotBoundary
<1>3. /\ tracker \in Tracker /\ whole \in Seq(Obs) /\ clock \in Nat /\ pulses \in Nat
      /\ tracker.gaps \in Seq(Gap) /\ tracker.segmentGaps \in Seq(Gap)
  BY TrackerTyped DEF CadenceInv, TrackerHolds
<1> DEFINE g == Cadence!Marked(tracker.gaps, boundary)
           h == Cadence!Marked(tracker.segmentGaps, boundary)
<1>4. /\ g \in Seq(Gap) /\ Len(g) = Len(tracker.gaps)
      /\ h \in Seq(Gap) /\ Len(h) = Len(tracker.segmentGaps)
      /\ \A k \in 1..Len(tracker.segmentGaps) : /\ h[k].at = tracker.segmentGaps[k].at
                                                /\ h[k].lost = tracker.segmentGaps[k].lost
  BY <1>3, MarkedIs
<1>5. tracker' = [tracker EXCEPT !.gaps = g, !.segmentGaps = h]
  BY <1>1
<1>6. AllMarked(g, marks')
  <2> SUFFICES ASSUME NEW k \in 1..Len(g)
               PROVE  g[k].crosses <=> \E b \in marks' : Cadence!Crosses(g[k], b)
    BY DEF AllMarked
  <2>1. k \in 1..Len(tracker.gaps)
    BY <1>4
  <2>2. /\ g[k].before = tracker.gaps[k].before /\ g[k].after = tracker.gaps[k].after
        /\ g[k].crosses = (tracker.gaps[k].crosses \/ Cadence!Crosses(tracker.gaps[k], boundary))
    BY <1>3, <2>1, MarkedIs
  <2>3. tracker.gaps[k].crosses <=> \E b \in marks : Cadence!Crosses(tracker.gaps[k], b)
    BY <2>1 DEF CadenceInv, AllMarked
  <2>4. \A b : Cadence!Crosses(g[k], b) <=> Cadence!Crosses(tracker.gaps[k], b)
    BY <2>2 DEF Cadence!Crosses
  <2> HIDE DEF g
  <2> QED BY <1>1, <2>2, <2>3, <2>4
<1> HIDE DEF g, h
<1>7. /\ tracker' \in Tracker /\ tracker'.gaps = g /\ tracker'.segmentGaps = h
      /\ tracker'.rate = tracker.rate /\ tracker'.pending = tracker.pending
      /\ tracker'.offset = tracker.offset /\ tracker'.points = tracker.points
      /\ tracker'.segment = tracker.segment /\ tracker'.lastSample = tracker.lastSample
      /\ tracker'.dirty = tracker.dirty
  BY <1>3, <1>4, <1>5 DEF Tracker
<1>8. GapsHold(h, FullGaps(tracker.rate, whole), clock)
  <2> DEFINE f == FullGaps(tracker.rate, whole)
  <2>1. PICK e \in Nat : DropsGaps(tracker.segmentGaps, f, e)
                         /\ \A j \in 1..e : f[j].at < clock - Cadence!Retention
    BY DEF CadenceInv, TrackerHolds, GapsHold
  <2> HIDE DEF f
  <2>2. DropsGaps(h, f, e)
    BY <1>4, <2>1 DEF DropsGaps
  <2>3. GapsHold(h, f, clock)
    BY <2>1, <2>2 DEF GapsHold
  <2> QED BY <2>3 DEF f
<1>9. WholeHolds(tracker', whole, pulses, clock)
  BY <1>7 DEF CadenceInv, TrackerHolds, WholeHolds
<1>10. TrackerHolds(tracker', whole, pulses, clock)
  BY <1>3, <1>7, <1>8, <1>9 DEF CadenceInv, TrackerHolds
<1> QED BY <1>2, <1>6, <1>7, <1>10 DEF CadenceInv

-----------------------------------------------------------------------------
\* A new observation adds the gap before it.
LEMMA GapsAppend ==
  ASSUME NEW t, NEW w, NEW n, NEW now, TrackerHolds(t, w, n, now), w # <<>>, t.rate # Cadence!Off,
         NEW v \in Seq(Obs), NEW o \in Obs, v = Append(w, o), NEW u, NEW m, NEW later,
         u \in Tracker, WholeHolds(u, v, m, later)
  PROVE  /\ FullGaps(t.rate, v) = Append(FullGaps(t.rate, w), Cadence!InferredGap(w[Len(w)], o))
         /\ Cadence!InferredGap(w[Len(w)], o) \in Gap /\ Cadence!InferredGap(w[Len(w)], o).at = o.at
<1> DEFINE f == FullGaps(t.rate, w)
           h == FullGaps(t.rate, v)
           last == Cadence!InferredGap(w[Len(w)], o)
<1>0. w \in Seq(Obs) /\ t \in Tracker /\ WholeHolds(t, w, n, now) /\ Len(w) \in Nat
      /\ Len(w) > 0
  BY DEF TrackerHolds
<1>1. v # <<>> /\ Len(v) = Len(w) + 1 /\ v[Len(w) + 1] = o /\ \A k \in 1..Len(w) : v[k] = w[k]
  BY <1>0
<1>2. /\ f \in Seq(Gap) /\ Len(f) = Len(w) - 1
      /\ \A k \in 1..(Len(w) - 1) : f[k] = Cadence!InferredGap(w[k], w[k + 1])
  BY <1>0, FullGapsTyped
<1>3. /\ h \in Seq(Gap) /\ Len(h) = Len(v) - 1
      /\ \A k \in 1..(Len(v) - 1) : h[k] = Cadence!InferredGap(v[k], v[k + 1])
  BY <1>1, FullGapsTyped
<1> HIDE DEF f, h
<1>4. h[Len(w)] = last /\ last \in Gap
  <2>1. Len(w) \in 1..(Len(v) - 1) /\ Len(w) \in 1..Len(w) /\ Len(w) \in 1..Len(h)
    BY <1>0, <1>1, <1>3
  <2>2. h[Len(w)] = Cadence!InferredGap(v[Len(w)], v[Len(w) + 1])
    BY <1>3, <2>1
  <2>3. h[Len(w)] \in Gap
    BY <1>3, <2>1
  <2> QED BY <1>1, <2>1, <2>2, <2>3
<1>5. last.at = o.at
  BY DEF Cadence!InferredGap
<1> HIDE DEF last
<1>6. h = Append(f, last)
  <2>1. Append(f, last) \in Seq(Gap) /\ Len(Append(f, last)) = Len(w)
        /\ Append(f, last)[Len(w)] = last /\ \A k \in 1..(Len(w) - 1) : Append(f, last)[k] = f[k]
    BY <1>0, <1>2, <1>4
  <2>2. Len(h) = Len(w)
    BY <1>0, <1>1, <1>3
  <2>3. \A k \in 1..Len(w) : h[k] = Append(f, last)[k]
    <3> TAKE k \in 1..Len(w)
    <3>1. CASE k = Len(w)
      BY <1>4, <2>1, <3>1
    <3>2. CASE k # Len(w)
      <4>1. k \in 1..(Len(w) - 1) /\ k + 1 \in 1..Len(w) /\ k \in 1..(Len(v) - 1)
        BY <1>0, <1>1, <3>2
      <4>2. h[k] = Cadence!InferredGap(v[k], v[k + 1]) /\ f[k] = Cadence!InferredGap(w[k], w[k + 1])
        BY <1>2, <1>3, <4>1
      <4>3. v[k] = w[k] /\ v[k + 1] = w[k + 1]
        BY <1>1, <4>1
      <4> QED BY <2>1, <4>1, <4>2, <4>3
    <3> QED BY <3>1, <3>2
  <2> DEFINE a == Append(f, last)
  <2>4. a \in Seq(Gap) /\ Len(a) = Len(h) /\ \A k \in 1..Len(h) : h[k] = a[k]
    BY <2>1, <2>2, <2>3
  <2> HIDE DEF a
  <2>5. h = a
    BY <1>3, <2>4
  <2> QED BY <2>5 DEF a
<1> QED BY <1>4, <1>5, <1>6 DEF f, h, last

LEMMA CadenceIngests ==
  CadenceInv /\ Cadence!Ingest => CadenceInv'
<1> SUFFICES ASSUME CadenceInv, Cadence!Ingest PROVE CadenceInv'
  OBVIOUS
<1> DEFINE t == tracker
           w == whole
<1>1. pulses' = pulses + 1 /\ clock' = clock /\ marks' = marks
  BY DEF Cadence!Ingest
<1>2. PICK captured \in 1..clock :
        /\ Cadence!InOrder(captured)
        /\ LET offset == IF t.pending THEN clock - captured ELSE t.offset
               o == Cadence!Observation(captured, offset)
               found == IF t.segment = <<>> \/ t.rate = Cadence!Off THEN <<>>
                        ELSE <<Cadence!Annotated(Cadence!InferredGap(
                                 t.segment[Len(t.segment)], o), marks)>> IN
           /\ tracker' = Cadence!Pruned([t EXCEPT
                !.pending = FALSE, !.offset = offset,
                !.observations = Append(@, o), !.segment = Append(@, o),
                !.gaps = @ \o found, !.segmentGaps = @ \o found,
                !.dirty = t.points # <<>>], clock)
           /\ whole' = Append(whole, o)
  BY DEF Cadence!Ingest
<1> DEFINE offset == IF t.pending THEN clock - captured ELSE t.offset
           o == Cadence!Observation(captured, offset)
           found == IF t.segment = <<>> \/ t.rate = Cadence!Off THEN <<>>
                    ELSE <<Cadence!Annotated(Cadence!InferredGap(t.segment[Len(t.segment)], o), marks)>>
           dirty == t.points # <<>>
           q == [t EXCEPT
                !.pending = FALSE, !.offset = offset,
                !.observations = Append(t.observations, o), !.segment = Append(t.segment, o),
                !.gaps = t.gaps \o found, !.segmentGaps = t.segmentGaps \o found,
                !.dirty = dirty]
           v == Append(w, o)
<1>3. tracker' = Cadence!Pruned(q, clock) /\ whole' = v
  BY <1>2
<1>4. /\ t \in Tracker /\ w \in Seq(Obs) /\ clock \in Nat /\ pulses \in Nat
      /\ TrackerHolds(t, w, pulses, clock) /\ WholeHolds(t, w, pulses, clock)
      /\ SegmentHolds(t.segment, w, clock) /\ PointsHold(t.points, t.lastSample, clock)
      /\ GapsHold(t.segmentGaps, FullGaps(t.rate, w), clock)
      /\ AllMarked(t.gaps, marks)
  BY DEF CadenceInv, TrackerHolds
<1>5. /\ t.segment \in Seq(Obs) /\ t.observations \in Seq(Obs) /\ t.gaps \in Seq(Gap)
      /\ t.segmentGaps \in Seq(Gap) /\ t.offset \in Int /\ t.rate \in {Cadence!Off, Period}
      /\ t.points \in Seq(Point) /\ Len(w) \in Nat /\ Len(t.segment) \in Nat
  BY <1>4, TrackerTyped
<1>6. offset \in Int /\ captured \in Int
  BY <1>4, <1>5
<1>7. \A k \in 1..Len(w) : w[k].captured < captured
  <2> TAKE k \in 1..Len(w)
  <2>1. w[k] \in Cadence!Range(w)
    BY <1>4 DEF Cadence!Range
  <2> QED BY <1>2, <2>1 DEF Cadence!InOrder
<1>8. w # <<>> => offset = t.offset
  BY <1>4 DEF WholeHolds
<1>9. dirty \in BOOLEAN
  OBVIOUS
<1> HIDE DEF t, w, offset, dirty
<1>10. o \in Obs /\ o.sequence = pulses + 1 /\ o.captured = captured /\ o.at = captured + offset
  BY <1>4, <1>6 DEF Cadence!Observation, Obs
<1> HIDE DEF o
<1>11. /\ v \in Seq(Obs) /\ v # <<>> /\ Len(v) = Len(w) + 1 /\ v[Len(w) + 1] = o
       /\ \A k \in 1..Len(w) : v[k] = w[k]
  BY <1>4, <1>10
<1> HIDE DEF v
<1>12. WholeHolds([pending |-> FALSE, offset |-> offset], v, pulses + 1, clock)
  <2>0. \A k \in 1..Len(w) : /\ w[k].captured \in Int /\ w[k].sequence \in Int
                             /\ w[k].sequence <= pulses
    <3>1. \A k \in 1..Len(w) : w[k] \in Obs
      BY <1>4
    <3> QED BY <1>4, <3>1 DEF Obs, WholeHolds
  <2>s. \A k \in 1..Len(v) : k = Len(w) + 1 \/ k \in 1..Len(w)
    BY <1>5, <1>11
  <2>1. ASSUME NEW k \in 1..Len(v)
        PROVE  v[k].at = v[k].captured + offset /\ v[k].sequence <= pulses + 1
               /\ v[k].captured \in 1..clock
    <3>1. CASE k = Len(w) + 1
      <4>1. v[k] = o
        BY <1>11, <3>1
      <4> QED BY <1>4, <1>10, <4>1
    <3>2. CASE k \in 1..Len(w)
      <4>1. v[k] = w[k] /\ w # <<>>
        BY <1>11, <3>2
      <4>2. w[k].at = w[k].captured + t.offset /\ w[k].captured \in 1..clock
        BY <1>4, <3>2 DEF WholeHolds
      <4>3. w[k].sequence <= pulses + 1
        BY <1>4, <2>0, <3>2
      <4> QED BY <1>8, <4>1, <4>2, <4>3
    <3> QED BY <2>s, <3>1, <3>2
  <2>2. ASSUME NEW j \in 1..Len(v), NEW k \in 1..Len(v), j < k
        PROVE  v[j].captured < v[k].captured /\ v[j].sequence < v[k].sequence
    <3>1. j \in 1..Len(w)
      BY <1>5, <1>11, <2>2
    <3>2. CASE k = Len(w) + 1
      <4>1. v[k] = o /\ v[j] = w[j]
        BY <1>11, <3>1, <3>2
      <4> QED BY <1>4, <1>7, <1>10, <2>0, <3>1, <4>1
    <3>3. CASE k \in 1..Len(w)
      <4>1. v[k] = w[k] /\ v[j] = w[j]
        BY <1>11, <3>1, <3>3
      <4> QED BY <1>4, <2>2, <3>1, <3>3, <4>1 DEF WholeHolds
    <3> QED BY <2>s, <3>2, <3>3
  <2> QED BY <2>1, <2>2 DEF WholeHolds
<1>13. SegmentHolds(Append(t.segment, o), v, clock)
  <2>1. PICK d \in Nat : Drops(t.segment, w, d)
                         /\ (d > 0 => t.segment[1].at < clock - Cadence!Retention)
    BY <1>4 DEF SegmentHolds
  <2> DEFINE r == Append(t.segment, o)
  <2>2. /\ r \in Seq(Obs) /\ Len(r) = Len(t.segment) + 1 /\ r[Len(t.segment) + 1] = o
        /\ \A k \in 1..Len(t.segment) : r[k] = t.segment[k]
    BY <1>5, <1>10
  <2> HIDE DEF r
  <2>3. Drops(r, v, d)
    <3>1. Len(v) = Len(r) + d
      BY <1>5, <1>11, <2>1, <2>2 DEF Drops
    <3>2. \A k \in 1..Len(r) : r[k] = v[k + d]
      <4> TAKE k \in 1..Len(r)
      <4>1. CASE k = Len(t.segment) + 1
        <5>1. k + d = Len(w) + 1
          BY <1>5, <2>1, <4>1 DEF Drops
        <5> QED BY <1>11, <2>2, <4>1, <5>1
      <4>2. CASE k # Len(t.segment) + 1
        <5>1. k \in 1..Len(t.segment) /\ k + d \in 1..Len(w)
          BY <1>5, <2>1, <2>2, <4>2 DEF Drops
        <5>2. t.segment[k] = w[k + d]
          BY <2>1, <5>1 DEF Drops
        <5> QED BY <1>11, <2>2, <5>1, <5>2
      <4> QED BY <4>1, <4>2
    <3> QED BY <3>1, <3>2 DEF Drops
  <2>4. ASSUME d > 0 PROVE r[1].at < clock - Cadence!Retention
    <3>1. t.segment # <<>>
      <4>1. Len(w) > 0
        BY <1>5, <2>1, <2>4 DEF Drops
      <4> QED BY <1>4, <4>1 DEF SegmentHolds
    <3>2. r[1] = t.segment[1]
      BY <1>5, <2>2, <3>1
    <3> QED BY <2>1, <2>4, <3>2
  <2>5. r # <<>>
    BY <1>5, <2>2
  <2>6. SegmentHolds(r, v, clock)
    BY <2>3, <2>4, <2>5 DEF SegmentHolds
  <2> QED BY <2>6 DEF r
<1>14. /\ found \in Seq(Gap)
       /\ \A k \in 1..Len(found) :
            found[k].crosses <=> \E b \in marks : Cadence!Crosses(found[k], b)
       /\ GapsHold(t.segmentGaps \o found, FullGaps(t.rate, v), clock)
  <2> DEFINE f == FullGaps(t.rate, w)
  <2>0. f \in Seq(Gap)
    BY <1>4, FullGapsTyped
  <2>1. PICK e \in Nat : DropsGaps(t.segmentGaps, f, e)
                         /\ \A j \in 1..e : f[j].at < clock - Cadence!Retention
    BY <1>4 DEF GapsHold
  <2>2. CASE t.rate = Cadence!Off
    <3>1. FullGaps(t.rate, v) = f /\ found = <<>>
      BY <2>2 DEF FullGaps
    <3>2. t.segmentGaps \o <<>> = t.segmentGaps
      BY <1>5
    <3> HIDE DEF found
    <3>3. found \in Seq(Gap) /\ Len(found) = 0
      BY <3>1
    <3>4. GapsHold(t.segmentGaps \o found, FullGaps(t.rate, v), clock)
      BY <1>4, <3>1, <3>2
    <3> QED BY <3>3, <3>4
  <2>3. CASE t.rate # Cadence!Off /\ w = <<>>
    <3>1. t.segment = <<>>
      <4>1. PICK d \in Nat : Drops(t.segment, w, d)
        BY <1>4 DEF SegmentHolds
      <4> QED BY <1>5, <2>3, <4>1 DEF Drops
    <3>2. found = <<>> /\ t.segmentGaps \o <<>> = t.segmentGaps
      BY <1>5, <3>1
    <3>3. f = <<>>
      BY <2>3 DEF FullGaps
    <3>4. FullGaps(t.rate, v) = <<>>
      <4>1. /\ FullGaps(t.rate, v) \in Seq(Gap) /\ Len(FullGaps(t.rate, v)) = Len(v) - 1
        <5>1. [t EXCEPT !.pending = FALSE, !.offset = offset] \in Tracker
          BY <1>4, <1>6 DEF Tracker
        <5>2. WholeHolds([t EXCEPT !.pending = FALSE, !.offset = offset], v, pulses + 1, clock)
          <6>1. /\ [t EXCEPT !.pending = FALSE, !.offset = offset].pending = FALSE
                /\ [t EXCEPT !.pending = FALSE, !.offset = offset].offset = offset
            BY <1>4 DEF Tracker
          <6> QED BY <1>12, <6>1 DEF WholeHolds
        <5> QED BY <1>11, <2>3, <5>1, <5>2, FullGapsTyped
      <4>2. Len(v) = 1
        BY <1>11, <2>3
      <4> QED BY <4>1, <4>2
    <3> HIDE DEF found
    <3>5. found \in Seq(Gap) /\ Len(found) = 0
      BY <3>2
    <3>6. GapsHold(t.segmentGaps \o found, FullGaps(t.rate, v), clock)
      BY <1>4, <3>2, <3>3, <3>4
    <3> QED BY <3>5, <3>6
  <2>4. CASE t.rate # Cadence!Off /\ w # <<>>
    <3> DEFINE g == Cadence!InferredGap(w[Len(w)], o)
               u == [t EXCEPT !.pending = FALSE, !.offset = offset]
               a == Cadence!Annotated(g, marks)
    <3>1. u \in Tracker /\ WholeHolds(u, v, pulses + 1, clock)
      <4>1. u \in Tracker /\ u.pending = FALSE /\ u.offset = offset
        BY <1>4, <1>6 DEF Tracker
      <4> HIDE DEF u
      <4> QED BY <1>12, <4>1 DEF WholeHolds
    <3> HIDE DEF u
    <3>2. FullGaps(t.rate, v) = Append(f, g) /\ g \in Gap /\ g.at = o.at
      <4>1. v = Append(w, o)
        BY DEF v
      <4>2. TrackerHolds(t, w, pulses, clock) /\ v \in Seq(Obs) /\ o \in Obs
        BY <1>4, <1>10, <1>11
      <4> QED BY <2>4, <3>1, <4>1, <4>2, GapsAppend
    <3>3. t.segment # <<>> /\ t.segment[Len(t.segment)] = w[Len(w)]
      <4>1. t.segment # <<>>
        BY <1>4, <2>4 DEF SegmentHolds
      <4>2. PICK d \in Nat : Drops(t.segment, w, d)
        BY <1>4 DEF SegmentHolds
      <4>3. Len(t.segment) \in 1..Len(t.segment) /\ Len(t.segment) + d = Len(w)
        BY <1>5, <4>1, <4>2 DEF Drops
      <4> QED BY <4>1, <4>2, <4>3 DEF Drops
    <3>4. found = <<a>>
      BY <2>4, <3>3
    <3>g. g.crosses = FALSE
      BY DEF Cadence!InferredGap
    <3> HIDE DEF g, found
    <3>5. /\ a \in Gap /\ a.at = g.at /\ a.lost = g.lost /\ a.before = g.before
          /\ a.after = g.after /\ a.crosses = (g.crosses \/ \E b \in marks : Cadence!Crosses(g, b))
      BY <3>2, AnnotatedTyped
    <3> HIDE DEF a
    <3>6. a.crosses <=> \E b \in marks : Cadence!Crosses(a, b)
      <4>1. \A b : Cadence!Crosses(a, b) <=> Cadence!Crosses(g, b)
        BY <3>5 DEF Cadence!Crosses
      <4> QED BY <3>5, <3>g, <4>1
    <3> DEFINE h == Append(f, g)
               s == t.segmentGaps \o <<a>>
    <3> HIDE DEF f
    <3>7. /\ h \in Seq(Gap) /\ Len(h) = Len(f) + 1 /\ h[Len(f) + 1] = g
          /\ \A k \in 1..Len(f) : h[k] = f[k]
      BY <2>0, <3>2
    <3>8. /\ s \in Seq(Gap) /\ Len(s) = Len(t.segmentGaps) + 1 /\ s[Len(t.segmentGaps) + 1] = a
          /\ \A k \in 1..Len(t.segmentGaps) : s[k] = t.segmentGaps[k]
      BY <1>5, <3>5
    <3> HIDE DEF h, s
    <3>9. /\ Len(f) \in Nat /\ Len(t.segmentGaps) \in Nat
          /\ Len(f) = Len(t.segmentGaps) + e
          /\ \A k \in 1..Len(t.segmentGaps) : /\ t.segmentGaps[k].at = f[k + e].at
                                              /\ t.segmentGaps[k].lost = f[k + e].lost
      BY <1>5, <2>0, <2>1 DEF DropsGaps
    <3>10. DropsGaps(s, h, e)
      <4>1. \A k \in 1..Len(s) : s[k].at = h[k + e].at /\ s[k].lost = h[k + e].lost
        <5> TAKE k \in 1..Len(s)
        <5>1. CASE k = Len(t.segmentGaps) + 1
          <6>1. k + e = Len(f) + 1
            BY <3>9, <5>1
          <6> QED BY <3>5, <3>7, <3>8, <5>1, <6>1
        <5>2. CASE k # Len(t.segmentGaps) + 1
          <6>1. k \in 1..Len(t.segmentGaps) /\ k + e \in 1..Len(f)
            BY <3>8, <3>9, <5>2
          <6> QED BY <3>7, <3>8, <3>9, <6>1
        <5> QED BY <5>1, <5>2
      <4> QED BY <3>7, <3>8, <3>9, <4>1 DEF DropsGaps
    <3>11. \A j \in 1..e : h[j].at < clock - Cadence!Retention
      <4> TAKE j \in 1..e
      <4>1. j \in 1..Len(f)
        BY <3>9
      <4> QED BY <2>1, <3>7, <4>1
    <3>12. GapsHold(s, h, clock)
      BY <3>10, <3>11 DEF GapsHold
    <3>13. found \in Seq(Gap) /\ Len(found) = 1 /\ found[1] = a
      BY <3>4, <3>5
    <3>14. \A k \in 1..Len(found) : found[k] = a
      BY <3>13
    <3> QED BY <3>2, <3>4, <3>6, <3>12, <3>13, <3>14 DEF h, s
  <2> QED BY <2>2, <2>3, <2>4
<1> HIDE DEF found, q
<1>15. /\ q \in Tracker /\ q.pending = FALSE /\ q.offset = offset /\ q.rate = t.rate
       /\ q.segment = Append(t.segment, o) /\ q.gaps = t.gaps \o found
       /\ q.segmentGaps = t.segmentGaps \o found /\ q.points = t.points
       /\ q.lastSample = t.lastSample /\ q.dirty = dirty
  <2>1. /\ Append(t.segment, o) \in Seq(Obs) /\ Append(t.observations, o) \in Seq(Obs)
        /\ t.gaps \o found \in Seq(Gap) /\ t.segmentGaps \o found \in Seq(Gap)
    BY <1>5, <1>10, <1>14
  <2> QED BY <1>4, <1>6, <1>9, <2>1 DEF Tracker, q
<1>16. TrackerHolds(q, v, pulses + 1, clock)
  <2>1. WholeHolds(q, v, pulses + 1, clock)
    BY <1>12, <1>15 DEF WholeHolds
  <2>2. pulses + 1 \in Nat
    BY <1>4
  <2> QED BY <1>4, <1>11, <1>13, <1>14, <1>15, <2>1, <2>2 DEF TrackerHolds
<1>17. AllMarked(q.gaps, marks)
  <2> SUFFICES ASSUME NEW k \in 1..Len(q.gaps)
               PROVE  q.gaps[k].crosses <=> \E b \in marks : Cadence!Crosses(q.gaps[k], b)
    BY DEF AllMarked
  <2>0. Len(t.gaps) \in Nat /\ Len(found) \in Nat /\ q.gaps = t.gaps \o found
        /\ Len(q.gaps) = Len(t.gaps) + Len(found)
    BY <1>5, <1>14, <1>15
  <2>1. CASE k \in 1..Len(t.gaps)
    <3>1. q.gaps[k] = t.gaps[k]
      BY <1>5, <1>14, <2>0, <2>1
    <3> QED BY <1>4, <2>1, <3>1 DEF AllMarked
  <2>2. CASE k \notin 1..Len(t.gaps)
    <3>1. k - Len(t.gaps) \in 1..Len(found)
      BY <2>0, <2>2
    <3>2. q.gaps[k] = found[k - Len(t.gaps)]
      BY <1>5, <1>14, <2>0, <3>1
    <3> QED BY <1>14, <3>1, <3>2
  <2> QED BY <2>1, <2>2
<1>18. /\ TrackerHolds(Cadence!Pruned(q, clock), v, pulses + 1, clock)
       /\ AllExact(q.points, q.rate, v, clock) =>
            AllExact(Cadence!Pruned(q, clock).points, q.rate, v, clock)
       /\ AllMarked(Cadence!Pruned(q, clock).gaps, marks)
  BY <1>16, <1>17, PrunedHolds
<1>19. Cadence!Pruned(q, clock).dirty = dirty /\ Cadence!Pruned(q, clock).rate = q.rate
  <2>1. q \in Tracker /\ clock \in Int
    BY <1>4, <1>15
  <2>2. Cadence!Pruned(q, clock).dirty = q.dirty /\ Cadence!Pruned(q, clock).rate = q.rate
    BY <2>1, PrunedFields
  <2> QED BY <1>15, <2>2
<1>20. ~dirty => AllExact(q.points, q.rate, v, clock)
  BY <1>5, <1>15 DEF dirty, AllExact
<1> QED BY <1>1, <1>3, <1>18, <1>19, <1>20 DEF CadenceInv

-----------------------------------------------------------------------------
LEMMA CadenceExact ==
  CadenceInv => Cadence!WindowsAreExact
<1> SUFFICES ASSUME CadenceInv PROVE Cadence!WindowsAreExact
  OBVIOUS
<1>1. /\ TrackerHolds(tracker, whole, pulses, clock) /\ clock \in Nat
      /\ ~tracker.dirty => AllExact(tracker.points, tracker.rate, whole, clock)
  BY DEF CadenceInv, TrackerHolds
<1> DEFINE t == Cadence!Sampled(tracker, clock)
<1> SUFFICES ASSUME NEW k \in Cadence!Displayed(t, clock), whole # <<>>,
                    t.points[k].at >= whole[1].at
             PROVE  t.points[k].windows =
                      Cadence!RollingAll(tracker.rate, whole,
                                 IF tracker.rate = Cadence!Off THEN <<>> ELSE Cadence!InferredGaps(whole),
                                 t.points[k].at)
  BY DEF Cadence!WindowsAreExact
<1>2. clock > 0
  <2>1. whole \in Seq(Obs) /\ WholeHolds(tracker, whole, pulses, clock)
    BY <1>1 DEF TrackerHolds
  <2>2. 1 \in 1..Len(whole)
    BY <2>1
  <2>3. whole[1].captured \in 1..clock
    BY <2>1, <2>2 DEF WholeHolds
  <2> QED BY <1>1, <2>3
<1>3. TrackerHolds(t, whole, pulses, clock) /\ AllExact(t.points, tracker.rate, whole, clock)
  BY <1>1, <1>2, SampledHolds
<1> HIDE DEF t
<1>4. t.points \in Seq(Point)
  BY <1>3, TrackerTyped DEF TrackerHolds
<1>5. k \in 1..Len(t.points) /\ t.points[k].at >= clock - DisplayHorizon
  BY <1>4 DEF Cadence!Displayed
<1>6. IsExact(t.points[k], tracker.rate, whole, clock)
  BY <1>3, <1>5 DEF AllExact
<1>7. FullGaps(tracker.rate, whole) = IF tracker.rate = Cadence!Off THEN <<>> ELSE Cadence!InferredGaps(whole)
  BY DEF FullGaps
<1> QED BY <1>5, <1>6, <1>7 DEF IsExact

LEMMA CadenceMarked ==
  CadenceInv => Cadence!BoundariesAreMarked
BY DEF CadenceInv, AllMarked, Cadence!BoundariesAreMarked

LEMMA LatestIs ==
  ASSUME NEW S \in SUBSET Nat, NEW m \in Nat, \A k \in S : k <= m, S # {}
  PROVE  Cadence!Latest(S) \in S /\ \A j \in S : j <= Cadence!Latest(S)
<1> DEFINE T == {m - k : k \in S}
<1>1. T \subseteq Nat /\ T # {}
  <2>1. \A k \in S : k \in Nat /\ k <= m
    OBVIOUS
  <2>2. \A k \in S : m - k \in Nat
    BY <2>1
  <2> QED BY <2>2
<1>2. PICK l \in T : \A i \in T : l <= i
  BY <1>1, LeastExists
<1>3. PICK k \in S : l = m - k
  BY <1>2
<1>4. \A j \in S : j <= k
  <2> TAKE j \in S
  <2>1. m - j \in T /\ l <= m - j
    BY <1>2
  <2> QED BY <1>3, <2>1
<1> QED BY <1>3, <1>4 DEF Cadence!Latest

\* The newest gaps fit: all but the first of them are newer than it.
LEMMA NewestFit ==
  ASSUME NEW n \in Nat, NEW S \in SUBSET (1..n)
  PROVE  Cardinality(Cadence!Newest(S)) <= MaxMarkers
<1> DEFINE N == Cadence!Newest(S)
<1>0. MaxMarkers \in Nat /\ MaxMarkers > 0
  BY CadenceAssumption
<1>1. /\ S \subseteq Nat /\ IsFiniteSet(S) /\ N \subseteq S /\ IsFiniteSet(N)
  <2>1. S \subseteq Nat /\ N \subseteq S /\ S \subseteq 1..n
    BY DEF Cadence!Newest
  <2> HIDE DEF N
  <2>2. IsFiniteSet(1..n)
    BY FS_Interval
  <2>3. IsFiniteSet(S)
    BY <2>1, <2>2, FS_Subset
  <2>4. IsFiniteSet(N)
    BY <2>1, <2>3, FS_Subset
  <2> QED BY <2>1, <2>3, <2>4
<1>2. CASE N = {}
  BY <1>0, <1>2, FS_EmptySet
<1>3. CASE N # {}
  <2>1. PICK l \in N : \A i \in N : l <= i
    <3>1. N \subseteq Nat
      BY <1>1
    <3> HIDE DEF N
    <3> QED BY <1>3, <3>1, LeastExists
  <2> DEFINE A == {j \in S : j > l}
  <2>2. Cardinality(A) < MaxMarkers
    BY <2>1, CountsAlike DEF Cadence!Newest
  <2>3. IsFiniteSet(A)
    BY <1>1, FS_Subset
  <2>4. N \subseteq A \cup {l}
    <3> SUFFICES ASSUME NEW i \in N, i # l PROVE i \in A
      OBVIOUS
    <3>1. l <= i /\ l \in Nat /\ i \in Nat /\ i \in S
      BY <1>1, <2>1
    <3> QED BY <3>1
  <2> HIDE DEF A, N
  <2>5. IsFiniteSet(A \cup {l}) /\ Cardinality(A \cup {l}) <= Cardinality(A) + 1
        /\ Cardinality(A \cup {l}) \in Nat
    <3>1. Cardinality(A) \in Nat
      BY <2>3, FS_CardinalityType
    <3>2. IsFiniteSet(A \cup {l})
      BY <2>3, FS_AddElement
    <3>3. l \in A \/ l \notin A
      OBVIOUS
    <3>4. l \in A => Cardinality(A \cup {l}) = Cardinality(A)
      BY <2>3, FS_AddElement
    <3>5. l \notin A => Cardinality(A \cup {l}) = Cardinality(A) + 1
      BY <2>3, FS_AddElement
    <3> QED BY <3>1, <3>2, <3>3, <3>4, <3>5
  <2>6. Cardinality(N) <= Cardinality(A \cup {l}) /\ Cardinality(N) \in Nat
    BY <2>4, <2>5, FS_Subset, FS_CardinalityType
  <2>7. Cardinality(A) \in Nat
    BY <2>3, FS_CardinalityType
  <2>8. Cardinality(N) <= MaxMarkers
    BY <1>0, <2>2, <2>5, <2>6, <2>7
  <2> QED BY <2>8 DEF N
<1> QED BY <1>2, <1>3

LEMMA PointIsDecodable ==
  ASSUME NEW p \in Point, NEW r
  PROVE  Cadence!PointDecodable([relative |-> r, windows |-> p.windows])
<1> DEFINE w == p.windows
<1>1. w \in [1..Len(Windows) -> Counts] /\ \A k \in 1..Len(Windows) : w[k].window = Windows[k]
  BY DEF Point, Shown
<1> HIDE DEF w
<1>2. Len(Windows) \in Nat /\ DOMAIN Windows = 1..Len(Windows) /\ Windows \in Seq(Nat \ {0})
  BY WindowsTyped, CadenceAssumption
<1>3. w \in Seq(Counts) /\ Len(w) = Len(Windows)
  BY <1>1, <1>2
<1>4. [k \in 1..Len(w) |-> w[k].window] = Windows
  BY <1>1, <1>2, <1>3
<1>5. \A k \in 1..Len(w) : Cadence!WindowDecodable(w[k])
  <2> TAKE k \in 1..Len(w)
  <2>1. w[k] \in Counts /\ w[k].window = Windows[k] /\ Windows[k] > 0
    BY <1>1, <1>3, WindowsTyped
  <2> QED BY <2>1 DEF Counts, Cadence!WindowDecodable
<1> QED BY <1>4, <1>5 DEF Cadence!PointDecodable, w

LEMMA CadenceDecodable ==
  CadenceInv => Cadence!TelemetryIsDecodable
<1> SUFFICES ASSUME CadenceInv, clock > 0
             PROVE  Cadence!Decodable(Cadence!Payload(Cadence!Sampled(tracker, clock), clock))
  BY DEF Cadence!TelemetryIsDecodable
<1>1. /\ TrackerHolds(tracker, whole, pulses, clock) /\ clock \in Nat
      /\ ~tracker.dirty => AllExact(tracker.points, tracker.rate, whole, clock)
  BY DEF CadenceInv, TrackerHolds
<1> DEFINE t == Cadence!Sampled(tracker, clock)
           points == Cadence!Displayed(t, clock)
           gaps == Cadence!Losses(t, clock)
           last == t.points[Cadence!Latest(points)].at
           P == [k \in points |-> [relative |-> t.points[k].at - last,
                                   windows |-> t.points[k].windows]]
           G == [k \in Cadence!Newest(gaps) |-> t.gaps[k]]
           out == Cardinality(gaps \ Cadence!Newest(gaps))
<1>2. TrackerHolds(t, whole, pulses, clock)
  BY <1>1, SampledHolds
<1>3. Cadence!Payload(t, clock) = [points |-> P, gaps |-> G, omitted |-> out]
  BY CountsAlike DEF Cadence!Payload
<1> HIDE DEF t
<1>4. /\ t.points \in Seq(Point) /\ t.gaps \in Seq(Gap)
      /\ PointsHold(t.points, t.lastSample, clock)
  BY <1>2, TrackerTyped DEF TrackerHolds
<1>5. /\ points \subseteq 1..Len(t.points) /\ Len(t.points) \in Nat
      /\ \A k \in points : t.points[k].at >= clock - DisplayHorizon
      /\ gaps \subseteq 1..Len(t.gaps) /\ Len(t.gaps) \in Nat
  BY <1>4 DEF Cadence!Displayed, Cadence!Losses
<1> HIDE DEF points, gaps
<1>6. Cadence!Newest(gaps) \subseteq gaps /\ Cardinality(Cadence!Newest(gaps)) <= MaxMarkers
  BY <1>5, NewestFit DEF Cadence!Newest
<1>7. \A k \in points : t.points[k] \in Point /\ t.points[k].at \in Int
  <2>1. \A x \in Point : x.at \in Int
    BY DEF Point
  <2> QED BY <1>4, <1>5, <2>1
<1>8. ASSUME NEW k \in points
      PROVE  /\ last \in Int /\ t.points[k].at <= last /\ last <= clock
  <2>1. Cadence!Latest(points) \in points /\ \A j \in points : j <= Cadence!Latest(points)
    <3>1. points \subseteq Nat /\ \A j \in points : j <= Len(t.points)
      BY <1>5
    <3> QED BY <1>5, <3>1, LatestIs
  <2> DEFINE l == Cadence!Latest(points)
             m == Len(t.points)
  <2> HIDE DEF l
  <2>2. l \in points /\ l \in 1..m /\ k \in 1..m /\ k <= l /\ last = t.points[l].at
    BY <1>5, <2>1 DEF l
  <2>3. m \in 1..m /\ l <= m /\ t.points # <<>>
    BY <1>5, <2>2
  <2>4. t.points[m].at \in Int /\ t.points[m].at <= clock
    <3>1. t.points[m] \in Point
      BY <1>4, <2>3
    <3> QED BY <1>4, <2>3, <3>1 DEF PointsHold, Point
  <2>5. \A i, j \in 1..m : i < j => t.points[i].at < t.points[j].at
    BY <1>4 DEF PointsHold
  <2>6. last \in Int /\ t.points[k].at \in Int
    BY <1>7, <2>2
  <2> HIDE DEF m, last
  <2>7. t.points[k].at <= last
    <3>1. k = l \/ k < l
      BY <2>2
    <3> QED BY <2>2, <2>5, <2>6, <3>1
  <2>8. last <= clock
    <3>1. l = m \/ l < m
      BY <2>2, <2>3
    <3> QED BY <1>1, <2>2, <2>3, <2>4, <2>5, <2>6, <3>1
  <2> QED BY <2>6, <2>7, <2>8 DEF last
<1> HIDE DEF last
<1>9. \A k \in points : P[k].relative = t.points[k].at - last
                        /\ Cadence!PointDecodable(P[k]) /\ P[k].relative \in (-DisplayHorizon)..0
  <2> TAKE k \in points
  <2>1. P[k] = [relative |-> t.points[k].at - last, windows |-> t.points[k].windows]
    OBVIOUS
  <2>2. Cadence!PointDecodable(P[k])
    BY <1>7, <2>1, PointIsDecodable
  <2>3. t.points[k].at - last \in (-DisplayHorizon)..0
    <3>1. /\ t.points[k].at \in Int /\ last \in Int /\ t.points[k].at <= last /\ last <= clock
          /\ t.points[k].at >= clock - DisplayHorizon /\ DisplayHorizon \in Nat /\ clock \in Nat
      BY <1>1, <1>5, <1>7, <1>8, WindowsTyped
    <3> QED BY <3>1
  <2> QED BY <2>1, <2>2, <2>3
<1>10. \A j, k \in points : j < k => P[j].relative < P[k].relative
  <2> SUFFICES ASSUME NEW j \in points, NEW k \in points, j < k
               PROVE  P[j].relative < P[k].relative
    OBVIOUS
  <2>1. t.points[j].at < t.points[k].at
    BY <1>4, <1>5 DEF PointsHold
  <2>2. t.points[j].at - last < t.points[k].at - last
    BY <1>7, <1>8, <2>1
  <2> QED BY <1>9, <2>2
<1>11. \A k \in Cadence!Newest(gaps) : Cadence!GapDecodable(G[k])
  <2> TAKE k \in Cadence!Newest(gaps)
  <2>1. k \in 1..Len(t.gaps)
    BY <1>5, <1>6
  <2>2. t.gaps[k] \in Gap
    BY <1>4, <2>1
  <2> QED BY <2>2 DEF Gap
<1>12. DOMAIN P = points /\ DOMAIN G = Cadence!Newest(gaps)
  OBVIOUS
<1> HIDE DEF P, G, out
<1>13. Cadence!Decodable([points |-> P, gaps |-> G, omitted |-> out])
  BY <1>6, <1>9, <1>10, <1>11, <1>12, CountsAlike DEF Cadence!Decodable
<1> QED BY <1>3, <1>13 DEF t

LEMMA CadenceInvariant ==
  Cadence!Spec => []CadenceInv
<1>1. CadenceInv /\ [Cadence!Next]_(Cadence!cadenceVars) => CadenceInv'
  <2> SUFFICES ASSUME CadenceInv, [Cadence!Next]_(Cadence!cadenceVars) PROVE CadenceInv'
    OBVIOUS
  <2>1. CASE Cadence!Tick
    BY <2>1, CadenceTick
  <2>2. CASE Cadence!SetExpectedRate
    BY <2>2, CadenceSetsRate
  <2>3. CASE Cadence!Ingest
    BY <2>3, CadenceIngests
  <2>4. CASE Cadence!MarkSnapshotBoundary
    BY <2>4, CadenceMarks
  <2>5. CASE Cadence!Sample
    BY <2>5, CadenceSamples
  <2>6. CASE UNCHANGED Cadence!cadenceVars
    BY <2>6 DEF Cadence!cadenceVars, CadenceInv
  <2> QED BY <2>1, <2>2, <2>3, <2>4, <2>5, <2>6 DEF Cadence!Next
<1> QED BY <1>1, CadenceInit, PTL DEF Cadence!Spec

\* The counts shown of the present segment are those of all of its pulses,
\* whatever was pruned and however late a pulse came; a gap is marked as one
\* over a snapshot boundary if it is; and a reader decodes what is sent
\* (ingest, sample, mark_snapshot_boundary, _prune, snapshot,
\* decode_live_cadence).
THEOREM CadenceStaysSound == RecordsSpec => []CadenceIsSound
BY CadenceInvariant, CadenceExact, CadenceMarked, CadenceDecodable,
   RecordsAreTheirParts, PTL
   DEF CadenceIsSound

-----------------------------------------------------------------------------
(* The saved states (StateSaver).                                           *)

Request == [op : {"save", "close"}, payload : Int]
Busy == {"taken", "saving", "writing"}

SaverTypes ==
  /\ owner \in {"target", "laser"}
  /\ live \in Int /\ file \in Int /\ asked \in Int /\ newest \in Int
  /\ held \in [Saver!Requesters -> Int]
  /\ queue \in Seq(Request)
  /\ saver \in [at : Busy \cup {"wait", "ended"}, payload : Int]
  /\ saving \in BOOLEAN /\ faulted \in BOOLEAN

\* The saver says so while it rewrites the file.
Announced == saving <=> saver.at \in {"saving", "writing"}

\* What close has encoded and not yet queued is what it asks to be saved; the
\* laser encodes nothing before it writes.
InHand ==
  /\ owner = "laser" => held["main"] = Saver!Nothing
  /\ Saver!Alive /\ held["main"] # Saver!Nothing =>
       closing = "asking" /\ held["main"] = asked

\* The file is as new as what was asked for, or will be once it is written.
KeepsAsked == IF saver.at \in Busy THEN Saver!Written >= asked ELSE file >= asked

\* Before the library is closed only saves are queued, the newest one last.
OnlySaves ==
  closing \in {"open", "asking", "waiting"} =>
    /\ saver.at # "ended"
    /\ \A k \in 1..Len(queue) : queue[k].op = "save"
    /\ owner = "target" /\ queue # <<>> => queue[Len(queue)].payload = newest

\* While close waits, what it asked for is queued or kept.
WaitingFor ==
  closing = "waiting" =>
    /\ IF owner = "target" THEN newest >= asked ELSE live >= asked
    /\ queue = <<>> => KeepsAsked

\* Once it waits for the library, what it asked for is kept, and the saver
\* closes the library before it takes anything else.
ClosingNext ==
  closing = "closing" =>
    /\ owner = "target" /\ KeepsAsked
    /\ saver.at # "ended" => queue # <<>> /\ Head(queue).op = "close"

Orderly == OnlySaves /\ WaitingFor /\ ClosingNext

\* Nothing is promised in a life in which something went wrong, nor after it.
SaverInv ==
  /\ SaverTypes /\ Announced /\ InHand
  /\ Saver!Alive /\ ~faulted => Orderly

-----------------------------------------------------------------------------
LEMMA SaverStarts == Saver!Init => SaverInv
<1> SUFFICES ASSUME Saver!Init PROVE SaverInv
  OBVIOUS
<1>1. SaverTypes
  <2>1. Saver!Idle = [at |-> "wait", payload |-> -2] /\ Saver!Nothing = -2
    BY DEF Saver!Idle, Saver!Nothing
  <2>2. <<>> \in Seq(Request)
    OBVIOUS
  <2>3. Saver!Idle \in [at : Busy \cup {"wait", "ended"}, payload : Int]
    BY <2>1
  <2>4. /\ owner \in {"target", "laser"} /\ live = 0 /\ file = 0 /\ queue = <<>>
        /\ held = [r \in Saver!Requesters |-> Saver!Nothing] /\ saver = Saver!Idle
        /\ saving = FALSE /\ faulted = FALSE /\ asked = -2 /\ newest = -2
    BY <2>1 DEF Saver!Init
  <2>5. held \in [Saver!Requesters -> Int]
    BY <2>1, <2>4
  <2>6. live \in Int /\ file \in Int /\ asked \in Int /\ newest \in Int
    BY <2>4
  <2>7. saver \in [at : Busy \cup {"wait", "ended"}, payload : Int]
    BY <2>3, <2>4
  <2> QED BY <2>2, <2>4, <2>5, <2>6, <2>7 DEF SaverTypes
<1>2. Announced /\ InHand
  BY DEF Saver!Init, Announced, InHand, Saver!Idle, Saver!Requesters
<1>3. Orderly
  BY DEF Saver!Init, Orderly, OnlySaves, WaitingFor, ClosingNext, Saver!Idle
<1> QED BY <1>1, <1>2, <1>3 DEF SaverInv

\* A queue that only holds saves is taken whole.
LEMMA AllTaken ==
  ASSUME queue \in Seq(Request), queue # <<>>,
         \A k \in 1..Len(queue) : queue[k].op = "save"
  PROVE  /\ Saver!Coalesced(queue) = queue[Len(queue)].payload
         /\ Saver!Remaining(queue) = <<>>
<1>1. DOMAIN queue = 1..Len(queue) /\ Len(queue) \in Nat
  OBVIOUS
<1>2. {k \in DOMAIN queue : queue[k].op # "save"} = {}
  BY <1>1
<1>3. Saver!Saves(queue) = Len(queue)
  BY <1>2 DEF Saver!Saves
<1>4. SubSeq(queue, Len(queue) + 1, Len(queue)) = <<>>
  BY <1>1, SubSeqEmpty
<1> QED BY <1>3, <1>4 DEF Saver!Coalesced, Saver!Remaining

-----------------------------------------------------------------------------
LEMMA SaverTyped ==
  ASSUME SaverInv, Saver!Next
  PROVE  SaverTypes'
<1>1. /\ Saver!Idle \in [at : Busy \cup {"wait", "ended"}, payload : Int]
      /\ Saver!Torn \in Int /\ Saver!Nothing \in Int
      /\ [r \in Saver!Requesters |-> Saver!Nothing] \in [Saver!Requesters -> Int]
      /\ <<>> \in Seq(Request)
  BY DEF Saver!Idle, Saver!Nothing, Saver!Torn, Busy
<1>2. ASSUME NEW p \in Int, NEW o \in {"save", "close"}
      PROVE  Saver!Queued(o, p) \in Seq(Request)
  <2>1. [op |-> o, payload |-> p] \in Request
    BY DEF Request
  <2> QED BY <2>1, AppendProperties DEF Saver!Queued, SaverInv, SaverTypes
<1>3. CASE Saver!Change
  BY <1>3 DEF Saver!Change, SaverInv, SaverTypes
<1>4. ASSUME NEW r \in Saver!Requesters, Saver!Encode(r) PROVE SaverTypes'
  <2>1. held' = [held EXCEPT ![r] = live]
    BY <1>4 DEF Saver!Encode
  <2>2. held' \in [Saver!Requesters -> Int]
    BY <2>1 DEF SaverInv, SaverTypes
  <2>3. asked' \in Int
    BY <1>4 DEF Saver!Encode, SaverInv, SaverTypes
  <2> QED BY <1>4, <2>2, <2>3 DEF Saver!Encode, Saver!Bookkeeping, SaverInv, SaverTypes
<1>5. ASSUME NEW r \in Saver!Requesters, Saver!Put(r) PROVE SaverTypes'
  <2>1. /\ held' = [held EXCEPT ![r] = Saver!Nothing]
        /\ queue' = Saver!Queued("save", held[r])
        /\ newest' = IF held[r] > newest THEN held[r] ELSE newest
        /\ faulted' = (faulted \/ held[r] < newest)
    BY <1>5 DEF Saver!Put
  <2>2. held[r] \in Int
    BY DEF SaverInv, SaverTypes
  <2>3. held' \in [Saver!Requesters -> Int] /\ newest' \in Int
    BY <1>1, <2>1, <2>2 DEF SaverInv, SaverTypes
  <2>4. queue' \in Seq(Request) /\ faulted' \in BOOLEAN
    BY <1>2, <2>1, <2>2
  <2> QED BY <1>5, <2>3, <2>4 DEF Saver!Put, Saver!Bookkeeping, SaverInv, SaverTypes
<1>6. ASSUME NEW r \in Saver!Requesters, Saver!Ask(r) PROVE SaverTypes'
  <2>1. queue' \in Seq(Request)
    BY <1>1, <1>2, <1>6 DEF Saver!Ask
  <2>2. asked' \in Int
    BY <1>6 DEF Saver!Ask, SaverInv, SaverTypes
  <2> QED BY <1>6, <2>1, <2>2 DEF Saver!Ask, Saver!Bookkeeping, SaverInv, SaverTypes
<1>7. CASE Saver!TakeSaves
  <2>1. /\ saver' = [at |-> "taken", payload |-> Saver!Coalesced(queue)]
        /\ queue' = Saver!Remaining(queue) /\ queue # <<>> /\ Head(queue).op = "save"
    BY <1>7 DEF Saver!TakeSaves
  <2>2. queue \in Seq(Request) /\ Len(queue) \in Nat \ {0} /\ DOMAIN queue = 1..Len(queue)
    BY <2>1 DEF SaverInv, SaverTypes
  <2> DEFINE other == {k \in DOMAIN queue : queue[k].op # "save"}
  <2>3. Saver!Saves(queue) \in 1..Len(queue)
    <3>1. CASE other = {}
      BY <2>2, <3>1 DEF Saver!Saves
    <3>2. CASE other # {}
      <4>1. other \subseteq 1..Len(queue) /\ 1 \notin other
        BY <2>1, <2>2
      <4>2. PICK m \in other : \A k \in other : m <= k
        <5>1. other \subseteq Nat
          BY <2>2, <4>1
        <5> HIDE DEF other
        <5> QED BY <3>2, <5>1, LeastExists
      <4>3. Saver!Min(other) \in other
        <5> HIDE DEF other
        <5> QED BY <4>2 DEF Saver!Min
      <4>4. Saver!Saves(queue) = Saver!Min(other) - 1
        BY <3>2 DEF Saver!Saves
      <4>5. PICK least \in other : Saver!Saves(queue) = least - 1
        BY <4>3, <4>4
      <4>6. least \in 1..Len(queue) /\ least # 1
        BY <4>1
      <4> QED BY <2>2, <4>5, <4>6
    <3> QED BY <3>1, <3>2
  <2> HIDE DEF other
  <2>4. saver' \in [at : Busy \cup {"wait", "ended"}, payload : Int]
    <3>1. queue[Saver!Saves(queue)] \in Request
      BY <2>2, <2>3, ElementOfSeq
    <3>2. Saver!Coalesced(queue) \in Int
      BY <3>1 DEF Saver!Coalesced, Request
    <3> QED BY <2>1, <3>2 DEF Busy
  <2>5. queue' \in Seq(Request)
    <3> DEFINE rest == SubSeq(queue, Saver!Saves(queue) + 1, Len(queue))
    <3>1. rest \in Seq(Request)
      <4>1. \A k \in (Saver!Saves(queue) + 1)..Len(queue) : queue[k] \in Request
        BY <2>2, <2>3, ElementOfSeq
      <4> QED BY <2>2, <2>3, <4>1, SubSeqProperties
    <3>2. queue' = IF rest = <<>> THEN <<>> ELSE Append(Tail(rest), Head(rest))
      BY <2>1 DEF Saver!Remaining
    <3> HIDE DEF rest
    <3> QED BY <3>1, <3>2, HeadTailProperties, AppendProperties
  <2> QED BY <1>7, <2>4, <2>5 DEF Saver!TakeSaves, Saver!Bookkeeping, SaverInv, SaverTypes
<1>8. CASE Saver!BeginSave
  <2>1. saver' = [saver EXCEPT !.at = "saving"] /\ saving' = TRUE
    BY <1>8 DEF Saver!BeginSave
  <2>2. saver' \in [at : Busy \cup {"wait", "ended"}, payload : Int]
    BY <2>1 DEF SaverInv, SaverTypes, Busy
  <2> QED BY <1>8, <2>1, <2>2 DEF Saver!BeginSave, Saver!Bookkeeping, SaverInv, SaverTypes
<1>9. CASE Saver!OpenFile
  <2>1. saver' = [saver EXCEPT !.at = "writing"] /\ file' \in Int
    BY <1>1, <1>9 DEF Saver!OpenFile
  <2>2. saver' \in [at : Busy \cup {"wait", "ended"}, payload : Int]
    BY <2>1 DEF SaverInv, SaverTypes, Busy
  <2> QED BY <1>9, <2>1, <2>2 DEF Saver!OpenFile, Saver!Bookkeeping, SaverInv, SaverTypes
<1>10. CASE Saver!WriteFile
  <2>1. file' \in Int
    BY <1>10 DEF Saver!WriteFile, Saver!Written, SaverInv, SaverTypes
  <2>2. saver' \in [at : Busy \cup {"wait", "ended"}, payload : Int] /\ saving' = FALSE
    BY <1>1, <1>10 DEF Saver!WriteFile
  <2> QED BY <1>10, <2>1, <2>2 DEF Saver!WriteFile, Saver!Bookkeeping, SaverInv, SaverTypes
<1>11. CASE Saver!FailSave
  <2>1. saver' \in [at : Busy \cup {"wait", "ended"}, payload : Int] /\ saving' = FALSE
    BY <1>1, <1>11 DEF Saver!FailSave
  <2> QED BY <1>11, <2>1 DEF Saver!FailSave, Saver!Bookkeeping, SaverInv, SaverTypes
<1>12. CASE Saver!CloseLibrary
  <2>1. saver' = [saver EXCEPT !.at = "ended"] /\ queue' = Tail(queue) /\ queue # <<>>
    BY <1>12 DEF Saver!CloseLibrary
  <2>2. saver' \in [at : Busy \cup {"wait", "ended"}, payload : Int]
    BY <2>1 DEF SaverInv, SaverTypes
  <2>3. queue' \in Seq(Request)
    BY <2>1, HeadTailProperties DEF SaverInv, SaverTypes
  <2> QED BY <1>12, <2>2, <2>3 DEF Saver!CloseLibrary, Saver!Bookkeeping, SaverInv, SaverTypes
<1>13. CASE Saver!Close
  BY <1>13 DEF Saver!Close, Saver!Bookkeeping, SaverInv, SaverTypes
<1>14. CASE Saver!EndWait
  <2>1. queue' \in Seq(Request)
    <3>1. queue' = Saver!Queued("close", Saver!Nothing) \/ queue' = queue
      BY <1>14 DEF Saver!EndWait
    <3> QED BY <1>1, <1>2, <3>1 DEF SaverInv, SaverTypes
  <2>2. faulted' \in BOOLEAN
    BY <1>14 DEF Saver!EndWait, SaverInv, SaverTypes
  <2> QED BY <1>14, <2>1, <2>2 DEF Saver!EndWait, Saver!Bookkeeping, SaverInv, SaverTypes
<1>15. CASE Saver!EndClose
  <2>1. faulted' \in BOOLEAN
    BY <1>15 DEF Saver!EndClose, SaverInv, SaverTypes
  <2> QED BY <1>15, <2>1 DEF Saver!EndClose, Saver!Bookkeeping, SaverInv, SaverTypes
<1>16. CASE Saver!Die
  BY <1>16 DEF Saver!Die, Saver!Bookkeeping, SaverInv, SaverTypes
<1>17. CASE Saver!Start
  <2>1. /\ owner' = owner /\ live' = Saver!Loaded /\ file' = Saver!Loaded
        /\ held' = [r \in Saver!Requesters |-> Saver!Nothing] /\ queue' = <<>>
        /\ saver' = Saver!Idle /\ saving' = FALSE /\ faulted' = FALSE
        /\ asked' = Saver!Nothing /\ newest' = Saver!Nothing
    BY <1>17 DEF Saver!Start
  <2>2. Saver!Loaded \in Int
    BY DEF Saver!Loaded, SaverInv, SaverTypes
  <2>3. owner \in {"target", "laser"}
    BY DEF SaverInv, SaverTypes
  <2>4. live' \in Int /\ file' \in Int /\ asked' \in Int /\ newest' \in Int
    BY <1>1, <2>1, <2>2
  <2>5. held' \in [Saver!Requesters -> Int] /\ queue' \in Seq(Request)
    BY <1>1, <2>1
  <2>6. saver' \in [at : Busy \cup {"wait", "ended"}, payload : Int]
    BY <1>1, <2>1
  <2> QED BY <2>1, <2>3, <2>4, <2>5, <2>6 DEF SaverTypes
<1> QED
  BY <1>3, <1>4, <1>5, <1>6, <1>7, <1>8, <1>9, <1>10, <1>11, <1>12, <1>13,
     <1>14, <1>15, <1>16, <1>17 DEF Saver!Next, Saver!RequestSave, Saver!Saver

LEMMA SaverKeepsItsWord ==
  ASSUME SaverInv, Saver!Next
  PROVE  Announced' /\ InHand'
<1>1. "main" \in Saver!Requesters
  BY DEF Saver!Requesters
<1>2. ASSUME NEW r \in Saver!Requesters, Saver!Encode(r) PROVE Announced' /\ InHand'
  <2>1. Announced'
    BY <1>2 DEF Saver!Encode, SaverInv, Announced
  <2>2. held' = [held EXCEPT ![r] = live] /\ asked' = IF r = "main" THEN live ELSE asked
    BY <1>2 DEF Saver!Encode
  <2>3. /\ closing' = closing /\ owner' = owner /\ owner = "target"
        /\ r = "main" => closing = "asking"
    BY <1>2 DEF Saver!Encode, Saver!MayAsk, Saver!Bookkeeping
  <2>4. held'["main"] = IF r = "main" THEN live ELSE held["main"]
    BY <1>1, <2>2 DEF SaverInv, SaverTypes
  <2> QED BY <2>1, <2>2, <2>3, <2>4 DEF SaverInv, InHand, Saver!Alive
<1>3. ASSUME NEW r \in Saver!Requesters, Saver!Put(r) PROVE Announced' /\ InHand'
  <2>1. Announced'
    BY <1>3 DEF Saver!Put, SaverInv, Announced
  <2>2. held' = [held EXCEPT ![r] = Saver!Nothing] /\ asked' = asked /\ owner' = owner
    BY <1>3 DEF Saver!Put, Saver!Bookkeeping
  <2>3. r # "main" => closing' = closing
    BY <1>3 DEF Saver!Put
  <2>4. held'["main"] = IF r = "main" THEN Saver!Nothing ELSE held["main"]
    BY <1>1, <2>2 DEF SaverInv, SaverTypes
  <2> QED BY <2>1, <2>2, <2>3, <2>4 DEF SaverInv, InHand, Saver!Alive
<1>4. ASSUME NEW r \in Saver!Requesters, Saver!Ask(r) PROVE Announced' /\ InHand'
  <2>1. Announced'
    BY <1>4 DEF Saver!Ask, SaverInv, Announced
  <2>2. held' = held /\ owner' = owner /\ owner = "laser"
    BY <1>4 DEF Saver!Ask, Saver!Bookkeeping
  <2> QED BY <2>1, <2>2 DEF SaverInv, InHand
<1>5. CASE Saver!Change \/ Saver!Close \/ Saver!EndWait \/ Saver!EndClose \/ Saver!Die
  <2>1. /\ held' = held /\ asked' = asked /\ owner' = owner
        /\ saver' = saver /\ saving' = saving
    BY <1>5 DEF Saver!Change, Saver!Close, Saver!EndWait, Saver!EndClose, Saver!Die,
      Saver!Bookkeeping
  <2>2. closing # "asking" \/ closing' \in {closing, "closed"}
    BY <1>5 DEF Saver!Change, Saver!Close, Saver!EndWait, Saver!EndClose, Saver!Die
  <2>3. closing # "closed"
    BY <1>5 DEF Saver!Change, Saver!Close, Saver!EndWait, Saver!EndClose, Saver!Die,
      Saver!Alive
  <2> QED BY <2>1, <2>2, <2>3 DEF SaverInv, InHand, Announced, Saver!Alive
<1>6. CASE Saver!Saver
  <2>1. /\ held' = held /\ asked' = asked /\ owner' = owner /\ closing' = closing
    BY <1>6 DEF Saver!Saver, Saver!TakeSaves, Saver!BeginSave, Saver!OpenFile,
      Saver!WriteFile, Saver!FailSave, Saver!CloseLibrary, Saver!Bookkeeping
  <2>2. InHand'
    BY <2>1 DEF SaverInv, InHand, Saver!Alive
  <2>3. CASE Saver!TakeSaves
    BY <2>2, <2>3 DEF Saver!TakeSaves, SaverInv, Announced
  <2>4. CASE Saver!BeginSave \/ Saver!OpenFile \/ Saver!CloseLibrary
    BY <2>2, <2>4 DEF Saver!BeginSave, Saver!OpenFile, Saver!CloseLibrary,
      SaverInv, SaverTypes, Announced
  <2>5. CASE Saver!WriteFile \/ Saver!FailSave
    BY <2>2, <2>5 DEF Saver!WriteFile, Saver!FailSave, Saver!Idle, Announced
  <2> QED BY <1>6, <2>3, <2>4, <2>5 DEF Saver!Saver
<1>7. CASE Saver!Start
  <2>1. /\ held' = [r \in Saver!Requesters |-> Saver!Nothing]
        /\ saver' = Saver!Idle /\ saving' = FALSE
    BY <1>7 DEF Saver!Start
  <2> QED BY <1>1, <2>1 DEF Announced, InHand, Saver!Idle
<1> QED
  BY <1>2, <1>3, <1>4, <1>5, <1>6, <1>7 DEF Saver!Next, Saver!RequestSave

\* A request joins the end of the queue.
LEMMA Joins ==
  ASSUME SaverTypes, NEW p \in Int, NEW o \in {"save", "close"},
         queue' = Saver!Queued(o, p)
  PROVE  /\ queue' # <<>> /\ Len(queue') = Len(queue) + 1 /\ Len(queue) \in Nat
         /\ queue'[Len(queue')] = [op |-> o, payload |-> p]
         /\ \A k \in 1..Len(queue) : queue'[k] = queue[k]
         /\ queue # <<>> => Head(queue') = Head(queue)
         /\ queue = <<>> => Head(queue').op = o
<1>1. [op |-> o, payload |-> p] \in Request
  BY DEF Request
<1>2. queue \in Seq(Request) /\ queue' = Append(queue, [op |-> o, payload |-> p])
  BY DEF Saver!Queued, SaverTypes
<1>3. Len(queue) \in Nat /\ (queue = <<>> <=> Len(queue) = 0)
  BY <1>2, EmptySeq
<1> QED BY <1>1, <1>2, <1>3, AppendProperties, HeadTailAppend

LEMMA SaverStaysOrderly ==
  ASSUME SaverInv, Saver!Next, (Saver!Alive /\ ~faulted)'
  PROVE  Orderly'
<1>1. CASE Saver!Start
  BY <1>1 DEF Saver!Start, Saver!Idle, Orderly, OnlySaves, WaitingFor, ClosingNext
<1>2. CASE ~Saver!Start
  <2>1. Saver!Alive /\ ~faulted
    <3>1. Saver!Alive
      BY <1>2 DEF Saver!Next, Saver!RequestSave, Saver!Saver, Saver!Change,
        Saver!Encode, Saver!MayAsk, Saver!Put, Saver!Ask, Saver!TakeSaves,
        Saver!BeginSave, Saver!OpenFile, Saver!WriteFile, Saver!FailSave,
        Saver!CloseLibrary, Saver!Close, Saver!EndWait, Saver!EndClose, Saver!Die,
        Saver!Alive
    <3>2. ASSUME NEW r \in Saver!Requesters, Saver!Put(r) PROVE ~faulted
      BY <3>2 DEF Saver!Put
    <3>3. ASSUME NEW r \in Saver!Requesters, Saver!Encode(r) \/ Saver!Ask(r) PROVE ~faulted
      BY <3>3 DEF Saver!Encode, Saver!Ask
    <3>4. ASSUME faulted' = faulted \/ faulted' = TRUE PROVE ~faulted
      BY <3>4
    <3>5. CASE Saver!Change \/ Saver!Close \/ Saver!Die \/ Saver!EndClose \/ Saver!EndWait
      <4>1. faulted' = faulted \/ faulted' = TRUE
        BY <3>5 DEF Saver!Change, Saver!Close, Saver!Die, Saver!EndClose, Saver!EndWait
      <4> QED BY <3>1, <3>4, <4>1
    <3>6. CASE Saver!Saver
      <4>1. faulted' = faulted \/ faulted' = TRUE
        BY <3>6 DEF Saver!Saver, Saver!TakeSaves, Saver!BeginSave, Saver!OpenFile,
          Saver!WriteFile, Saver!FailSave, Saver!CloseLibrary
      <4> QED BY <3>1, <3>4, <4>1
    <3> QED
      BY <1>2, <3>1, <3>2, <3>3, <3>5, <3>6 DEF Saver!Next, Saver!RequestSave
  <2>2. Orderly /\ SaverTypes
    BY <2>1 DEF SaverInv
  <2>3. CASE Saver!Change
    <3>1. /\ live' = live + 1
          /\ UNCHANGED <<owner, queue, saver, file, closing, asked, newest>>
      BY <2>3 DEF Saver!Change
    <3>2. /\ live \in Int /\ asked \in Int
      BY <2>2 DEF SaverTypes
    <3>3. KeepsAsked => KeepsAsked'
      BY <3>1, <3>2 DEF KeepsAsked, Saver!Written
    <3>4. live >= asked => live' >= asked'
      BY <3>1, <3>2
    <3> QED BY <2>2, <3>1, <3>3, <3>4 DEF Orderly, OnlySaves, WaitingFor, ClosingNext
  <2>4. ASSUME NEW r \in Saver!Requesters, Saver!Encode(r) PROVE Orderly'
    <3>1. UNCHANGED <<owner, queue, live, saver, file, closing, newest>>
      BY <2>4 DEF Saver!Encode, Saver!Bookkeeping
    <3>2. closing = "asking" \/ asked' = asked
      BY <2>4 DEF Saver!Encode, Saver!MayAsk
    <3>3. asked' = asked => (KeepsAsked => KeepsAsked')
      BY <3>1 DEF KeepsAsked, Saver!Written
    <3> QED BY <2>2, <3>1, <3>2, <3>3 DEF Orderly, OnlySaves, WaitingFor, ClosingNext
  <2>5. ASSUME NEW r \in Saver!Requesters, Saver!Put(r) PROVE Orderly'
    <3>1. /\ queue' = Saver!Queued("save", held[r])
          /\ newest' = IF held[r] > newest THEN held[r] ELSE newest
          /\ closing' = IF r = "main" THEN "waiting" ELSE closing
          /\ UNCHANGED <<owner, live, saver, file, asked>>
          /\ held[r] # Saver!Nothing
      BY <2>5 DEF Saver!Put, Saver!Bookkeeping
    <3>2. held[r] \in Int /\ newest \in Int /\ asked \in Int
      BY <2>2 DEF SaverTypes
    <3>3. ~(held[r] < newest)
      BY <2>5 DEF Saver!Put
    <3>4. newest' = held[r] /\ newest' >= newest
      BY <3>1, <3>2, <3>3
    <3>5. /\ queue' # <<>> /\ Len(queue') = Len(queue) + 1 /\ Len(queue) \in Nat
          /\ queue'[Len(queue')] = [op |-> "save", payload |-> held[r]]
          /\ \A k \in 1..Len(queue) : queue'[k] = queue[k]
          /\ queue # <<>> => Head(queue') = Head(queue)
      BY <2>2, <3>1, <3>2, Joins
    <3>6. r = "main" => /\ closing = "asking" /\ held[r] = asked /\ owner = "target"
      BY <2>1, <3>1, <2>2 DEF SaverInv, InHand, SaverTypes
    <3>7. OnlySaves'
      <4>1. closing' \in {"open", "asking", "waiting"} => closing \in {"open", "asking", "waiting"}
        BY <3>1, <3>6
      <4>2. ASSUME closing' \in {"open", "asking", "waiting"}, NEW k \in 1..Len(queue')
            PROVE  queue'[k].op = "save"
        BY <2>2, <3>5, <4>1, <4>2 DEF Orderly, OnlySaves
      <4> QED BY <2>2, <3>1, <3>4, <3>5, <4>1, <4>2 DEF Orderly, OnlySaves
    <3>8. WaitingFor'
      BY <2>2, <3>1, <3>2, <3>4, <3>5, <3>6 DEF Orderly, WaitingFor, SaverTypes
    <3>9. ClosingNext'
      <4>1. KeepsAsked => KeepsAsked'
        BY <3>1 DEF KeepsAsked, Saver!Written
      <4> QED BY <2>2, <3>1, <3>5, <4>1 DEF Orderly, ClosingNext
    <3> QED BY <3>7, <3>8, <3>9 DEF Orderly
  <2>6. ASSUME NEW r \in Saver!Requesters, Saver!Ask(r) PROVE Orderly'
    <3>1. /\ queue' = Saver!Queued("save", Saver!Nothing) /\ owner = "laser"
          /\ asked' = IF r = "main" THEN live ELSE asked
          /\ closing' = IF r = "main" THEN "waiting" ELSE closing
          /\ r = "main" => closing = "asking"
          /\ UNCHANGED <<owner, live, saver, file, newest>>
      BY <2>6 DEF Saver!Ask, Saver!MayAsk, Saver!Bookkeeping
    <3>2. Saver!Nothing \in Int /\ live \in Int
      BY <2>2 DEF Saver!Nothing, SaverTypes
    <3>5. /\ queue' # <<>> /\ Len(queue') = Len(queue) + 1 /\ Len(queue) \in Nat
          /\ queue'[Len(queue')] = [op |-> "save", payload |-> Saver!Nothing]
          /\ \A k \in 1..Len(queue) : queue'[k] = queue[k]
      BY <2>2, <3>1, <3>2, Joins
    <3>7. OnlySaves'
      <4>1. closing' \in {"open", "asking", "waiting"} => closing \in {"open", "asking", "waiting"}
        BY <3>1
      <4>2. ASSUME closing' \in {"open", "asking", "waiting"}, NEW k \in 1..Len(queue')
            PROVE  queue'[k].op = "save"
        BY <2>2, <3>5, <4>1, <4>2 DEF Orderly, OnlySaves
      <4> QED BY <2>2, <3>1, <3>5, <4>1, <4>2 DEF Orderly, OnlySaves
    <3>8. WaitingFor'
      BY <2>2, <3>1, <3>2, <3>5 DEF Orderly, WaitingFor
    <3>9. ClosingNext'
      BY <2>2, <3>1 DEF Orderly, ClosingNext
    <3> QED BY <3>7, <3>8, <3>9 DEF Orderly
  <2>7. CASE Saver!Saver
    <3>1. UNCHANGED <<owner, live, asked, newest, closing>>
      BY <2>7 DEF Saver!Saver, Saver!TakeSaves, Saver!BeginSave, Saver!OpenFile,
        Saver!WriteFile, Saver!FailSave, Saver!CloseLibrary, Saver!Bookkeeping
    <3>2. CASE Saver!TakeSaves
      <4>1. /\ saver.at = "wait" /\ queue # <<>> /\ Head(queue).op = "save"
            /\ saver' = [at |-> "taken", payload |-> Saver!Coalesced(queue)]
            /\ queue' = Saver!Remaining(queue)
        BY <3>2 DEF Saver!TakeSaves
      <4>2. closing \in {"open", "asking", "waiting"} =>
              /\ queue' = <<>> /\ saver'.payload = queue[Len(queue)].payload
        BY <2>2, <4>1, AllTaken DEF Orderly, OnlySaves, SaverTypes
      <4>3. closing # "closing"
        BY <2>2, <4>1 DEF Orderly, ClosingNext
      <4>4. OnlySaves'
        BY <3>1, <4>1, <4>2 DEF OnlySaves
      <4>5. ASSUME closing = "waiting" PROVE KeepsAsked'
        <5>1. saver'.at \in Busy
          BY <4>1 DEF Busy
        <5>2. CASE owner = "target"
          <6>1. Saver!Written' = queue[Len(queue)].payload
            BY <3>1, <4>2, <4>5, <5>2 DEF Saver!Written
          <6>2. queue[Len(queue)].payload = newest /\ newest >= asked
            BY <2>2, <4>1, <4>5, <5>2 DEF Orderly, OnlySaves, WaitingFor
          <6> QED BY <3>1, <5>1, <6>1, <6>2 DEF KeepsAsked
        <5>3. CASE owner # "target"
          <6>1. Saver!Written' = live /\ live >= asked
            BY <2>2, <3>1, <4>5, <5>3 DEF Saver!Written, Orderly, WaitingFor
          <6> QED BY <3>1, <5>1, <6>1 DEF KeepsAsked
        <5> QED BY <5>2, <5>3
      <4>6. WaitingFor' /\ ClosingNext'
        BY <2>2, <3>1, <4>3, <4>5 DEF Orderly, WaitingFor, ClosingNext
      <4> QED BY <4>4, <4>6 DEF Orderly
    <3>3. CASE Saver!BeginSave \/ Saver!OpenFile
      <4>1. /\ queue' = queue /\ saver.at \in Busy /\ saver'.at \in Busy
            /\ saver'.payload = saver.payload
        BY <2>2, <3>3 DEF Saver!BeginSave, Saver!OpenFile, SaverTypes, Busy
      <4>2. KeepsAsked => KeepsAsked'
        BY <3>1, <4>1 DEF KeepsAsked, Saver!Written
      <4>3. saver'.at # "ended" /\ saver.at # "ended"
        BY <4>1 DEF Busy
      <4> QED BY <2>2, <3>1, <4>1, <4>2, <4>3 DEF Orderly, OnlySaves, WaitingFor, ClosingNext
    <3>4. CASE Saver!WriteFile
      <4>1. /\ queue' = queue /\ saver.at = "writing" /\ saver'.at = "wait"
            /\ file' = Saver!Written
        BY <3>4 DEF Saver!WriteFile, Saver!Idle
      <4>2. KeepsAsked => KeepsAsked'
        BY <3>1, <4>1 DEF KeepsAsked, Busy
      <4> QED BY <2>2, <3>1, <4>1, <4>2 DEF Orderly, OnlySaves, WaitingFor, ClosingNext
    <3>5. CASE Saver!FailSave
      BY <3>5 DEF Saver!FailSave
    <3>6. CASE Saver!CloseLibrary
      <4>1. /\ saver.at = "wait" /\ queue # <<>> /\ Head(queue).op = "close"
            /\ saver'.at = "ended" /\ file' = file
        BY <2>2, <3>6 DEF Saver!CloseLibrary, SaverTypes
      <4>2. closing \notin {"open", "asking", "waiting"}
        <5>1. Len(queue) \in Nat \ {0} /\ Head(queue) = queue[1]
          BY <2>2, <4>1 DEF SaverTypes
        <5> QED BY <2>2, <4>1, <5>1 DEF Orderly, OnlySaves
      <4>3. KeepsAsked => KeepsAsked'
        BY <3>1, <4>1 DEF KeepsAsked, Busy
      <4> QED BY <2>2, <3>1, <4>1, <4>2, <4>3 DEF Orderly, OnlySaves, WaitingFor, ClosingNext
    <3> QED BY <2>7, <3>2, <3>3, <3>4, <3>5, <3>6 DEF Saver!Saver
  <2>8. CASE Saver!Close
    <3>1. closing = "open" /\ closing' = "asking"
      BY <2>8 DEF Saver!Close
    <3>2. UNCHANGED <<owner, queue, saver, newest>>
      BY <2>8 DEF Saver!Close, Saver!Bookkeeping
    <3> QED BY <2>2, <3>1, <3>2 DEF Orderly, OnlySaves, WaitingFor, ClosingNext
  <2>9. CASE Saver!EndWait
    <3>1. /\ closing = "waiting" /\ queue = <<>>
          /\ UNCHANGED <<owner, live, saver, file, asked, newest>>
      BY <2>9 DEF Saver!EndWait, Saver!Drained, Saver!Bookkeeping
    <3>2. CASE owner = "target" /\ closing' = "closing" /\ queue' = Saver!Queued("close", Saver!Nothing)
      <4>1. Saver!Nothing \in Int
        BY DEF Saver!Nothing
      <4>2. queue' # <<>> /\ Head(queue').op = "close"
        BY <2>2, <3>1, <3>2, <4>1, Joins
      <4>3. KeepsAsked'
        BY <2>2, <3>1 DEF Orderly, WaitingFor, KeepsAsked, Saver!Written
      <4> QED BY <3>1, <3>2, <4>2, <4>3 DEF Orderly, OnlySaves, WaitingFor, ClosingNext
    <3>3. CASE closing' = "closed"
      BY <3>3 DEF Saver!Alive
    <3> QED BY <2>9, <3>2, <3>3 DEF Saver!EndWait
  <2>10. CASE Saver!EndClose \/ Saver!Die
    BY <2>10 DEF Saver!EndClose, Saver!Die, Saver!Alive
  <2> QED
    BY <1>2, <2>3, <2>4, <2>5, <2>6, <2>7, <2>8, <2>9, <2>10
    DEF Saver!Next, Saver!RequestSave
<1> QED BY <1>1, <1>2

LEMMA SaverKeeps ==
  ASSUME SaverInv, [Saver!Next]_saverVars
  PROVE  SaverInv'
<1>1. CASE Saver!Next
  BY <1>1, SaverTyped, SaverKeepsItsWord, SaverStaysOrderly DEF SaverInv
<1>2. CASE UNCHANGED saverVars
  BY <1>2 DEF saverVars, SaverInv, SaverTypes, Announced, InHand, Orderly, OnlySaves,
    WaitingFor, ClosingNext, KeepsAsked, Saver!Alive, Saver!Written
<1> QED BY <1>1, <1>2

\* A process that ends while nothing went wrong has kept what was asked for.
LEMMA SaverEnds ==
  ASSUME SaverInv, Saver!Next, Saver!Alive, closing' = "closed", ~faulted',
         ~Saver!Unannounced
  PROVE  file >= asked
<1>1. CASE Saver!EndWait
  <2>1. /\ closing = "waiting" /\ ~faulted /\ saver.at \in Busy \cup {"wait", "ended"}
        /\ queue = <<>> /\ ~saving /\ owner = "laser"
    BY <1>1 DEF Saver!EndWait, Saver!Drained, SaverInv, SaverTypes
  <2>2. saver.at \notin Busy
    BY <2>1 DEF SaverInv, Announced, Saver!Unannounced, Busy
  <2> QED BY <2>1, <2>2 DEF SaverInv, Orderly, WaitingFor, KeepsAsked
<1>2. CASE Saver!EndClose
  <2>1. closing = "closing" /\ ~faulted /\ saver.at = "ended"
    BY <1>2 DEF Saver!EndClose
  <2> QED BY <2>1 DEF SaverInv, Orderly, ClosingNext, KeepsAsked, Busy
<1>3. CASE Saver!Die
  BY <1>3 DEF Saver!Die
<1>4. CASE Saver!Change \/ Saver!RequestSave \/ Saver!Saver \/ Saver!Close \/ Saver!Start
  <2>1. closing' # "closed"
    BY <1>4 DEF Saver!RequestSave, Saver!Saver, Saver!Change,
      Saver!Encode, Saver!MayAsk, Saver!Put, Saver!Ask, Saver!TakeSaves,
      Saver!BeginSave, Saver!OpenFile, Saver!WriteFile, Saver!FailSave,
      Saver!CloseLibrary, Saver!Close, Saver!Start, Saver!Alive
  <2> QED BY <2>1
<1> QED BY <1>1, <1>2, <1>3, <1>4 DEF Saver!Next

\* A process that is closed in order leaves its last state in its file.
THEOREM LastStateStaysSaved == RecordsSpec => LastStateIsSaved
<1>1. Saver!Init => SaverInv
  BY SaverStarts
<1>2. SaverInv /\ [Saver!Next]_(Saver!saverVars) => SaverInv'
  BY SaverKeeps DEF saverVars, Saver!saverVars
<1>3. SaverInv /\ [Saver!Next]_(Saver!saverVars) =>
        [Saver!Alive /\ closing' = "closed" /\ ~faulted' /\ ~Saver!Unannounced =>
           file >= asked]_(Saver!saverVars)
  BY SaverEnds DEF Saver!saverVars
<1> QED
  BY <1>1, <1>2, <1>3, RecordsAreTheirParts, PTL
  DEF Saver!Spec, LastStateIsSaved, Saver!LastStateIsSaved

-----------------------------------------------------------------------------
(* The timing events (TimingEvents).                                        *)

Told == [kind : Timing!Kinds \cup {"start", "end"}, value : BOOLEAN, next : Nat]
Phases == {"gone", "reserved", "open", "finalizing", "releasing"}

TimedRuns ==
  [phase : Phases, expected : BOOLEAN, initial : BOOLEAN, last : Timing!Statuses,
   closed : BOOLEAN, sequence : Nat, events : Seq(Told), graph : BOOLEAN]

TimingTypes ==
  /\ timing \in Timing!Statuses
  /\ wire \in Seq(Timing!Statuses)
  /\ stored \in [status : Timing!Statuses, known : BOOLEAN, fresh : BOOLEAN]
  /\ thread \in [busy : BOOLEAN, status : Timing!Statuses]
  /\ timed \in TimedRuns

\* Events numbered up to n: they start once, are in order, and none follows
\* the end.
Ordered(es, n) ==
  \A k \in 1..Len(es) :
    /\ es[k].kind = "start" <=> k = 1
    /\ es[k].kind = "end" => k = Len(es)
    /\ es[k].next <= n
    /\ k > 1 => es[k - 1].next <= es[k].next

\* Of a kind none is told but in turn, and the last is the value given.
Alternate(es, kind) ==
  \A j, k \in 1..Len(es) :
    /\ j < k /\ es[j].kind = kind /\ es[k].kind = kind
    /\ \A m \in (j + 1)..(k - 1) : es[m].kind # kind
    => es[j].value # es[k].value

LastIs(es, kind, value) ==
  \E k \in 1..Len(es) :
    /\ es[k].kind = kind /\ es[k].value = value
    /\ \A m \in (k + 1)..Len(es) : es[m].kind # kind

Untold(es, kind) == \A k \in 1..Len(es) : es[k].kind # kind
Unended(es) == Untold(es, "end")

\* The stream of a run: nothing is told of a laser before its state is known,
\* and then the last of each kind is the state the run remembers.
Stream(run) ==
  /\ Ordered(run.events, run.sequence + 1)
  /\ \A kind \in Timing!Kinds :
       /\ Alternate(run.events, kind)
       /\ IF run.initial THEN LastIs(run.events, kind, run.last[kind])
          ELSE Untold(run.events, kind)
  /\ run.closed \/ Unended(run.events)
  /\ Timing!HasStream(run) => run.events # <<>>

\* A run that is reserved has no events.
Fresh(run) ==
  run.phase = "reserved" => run.events = <<>> /\ ~run.initial /\ ~run.closed

\* What is being handled is what was stored last.
Handling == thread.busy => stored.known /\ thread.status = stored.status

\* Otherwise a stream that is open has it.
Heard ==
  Timing!HasStream(timed) /\ ~timed.closed /\ stored.known /\ ~thread.busy =>
    timed.initial /\ timed.last = stored.status

Expecting ==
  timed.phase \in {"reserved", "open"} /\ timed.expected /\ ~thread.busy =>
    stored.status["triggers"]

TimingInv ==
  /\ TimingTypes /\ Stream(timed) /\ Fresh(timed) /\ Handling /\ Heard /\ Expecting

-----------------------------------------------------------------------------
\* What an event at the end of a stream leaves as it was.
LEMMA EventJoins ==
  ASSUME NEW es \in Seq(Told), NEW e \in Told, NEW fs, fs = Append(es, e)
  PROVE  /\ fs \in Seq(Told) /\ fs # <<>>
         /\ Len(es) \in Nat /\ Len(fs) = Len(es) + 1
         /\ \A k \in 1..Len(es) : fs[k] = es[k]
         /\ fs[Len(es) + 1] = e
         /\ es = <<>> <=> Len(es) = 0
BY AppendProperties, EmptySeq

LEMMA OrderGrows ==
  ASSUME NEW es \in Seq(Told), NEW e \in Told, NEW fs, fs = Append(es, e),
         NEW n \in Nat, Ordered(es, n), Unended(es), e.next = n,
         e.kind = "start" <=> es = <<>>
  PROVE  Ordered(fs, n)
<1>1. SUFFICES ASSUME NEW k \in 1..Len(fs)
      PROVE  /\ fs[k].kind = "start" <=> k = 1
             /\ fs[k].kind = "end" => k = Len(fs)
             /\ fs[k].next <= n
             /\ k > 1 => fs[k - 1].next <= fs[k].next
  BY DEF Ordered
<1>2. CASE k \in 1..Len(es)
  <2>1. es[k].kind # "end" /\ fs[k] = es[k] /\ (k > 1 => fs[k - 1] = es[k - 1])
    BY <1>2, EventJoins DEF Unended, Untold
  <2> QED BY <1>2, <2>1 DEF Ordered
<1>3. CASE k = Len(es) + 1
  <2>1. /\ fs[k] = e /\ k = Len(fs) /\ (es = <<>> <=> k = 1)
    BY <1>3, EventJoins
  <2>2. ASSUME k > 1 PROVE fs[k - 1].next <= n
    <3>1. k - 1 \in 1..Len(es) /\ fs[k - 1] = es[k - 1]
      BY <1>3, <2>2, EventJoins
    <3> QED BY <3>1 DEF Ordered
  <2> QED BY <2>1, <2>2
<1> QED BY <1>1, <1>2, <1>3, EventJoins

\* An event of another kind.
LEMMA OthersGrow ==
  ASSUME NEW es \in Seq(Told), NEW e \in Told, NEW fs, fs = Append(es, e),
         NEW kind, e.kind # kind
  PROVE  /\ Untold(es, kind) => Untold(fs, kind)
         /\ \A value : LastIs(es, kind, value) => LastIs(fs, kind, value)
         /\ Alternate(es, kind) => Alternate(fs, kind)
<1>1. Untold(es, kind) => Untold(fs, kind)
  BY EventJoins DEF Untold
<1>2. ASSUME NEW value, LastIs(es, kind, value) PROVE LastIs(fs, kind, value)
  <2>1. PICK k \in 1..Len(es) :
          /\ es[k].kind = kind /\ es[k].value = value
          /\ \A m \in (k + 1)..Len(es) : es[m].kind # kind
    BY <1>2 DEF LastIs
  <2>2. k \in 1..Len(fs) /\ fs[k].kind = kind /\ fs[k].value = value
    BY <2>1, EventJoins
  <2>3. ASSUME NEW m \in (k + 1)..Len(fs) PROVE fs[m].kind # kind
    <3>1. CASE m = Len(es) + 1
      BY <3>1, EventJoins
    <3>2. CASE m # Len(es) + 1
      <4>1. m \in (k + 1)..Len(es) /\ m \in 1..Len(es)
        BY <2>1, <2>3, <3>2, EventJoins
      <4> QED BY <2>1, <4>1, EventJoins
    <3> QED BY <3>1, <3>2
  <2> QED BY <2>2, <2>3 DEF LastIs
<1>3. ASSUME Alternate(es, kind) PROVE Alternate(fs, kind)
  <2>1. SUFFICES ASSUME NEW j \in 1..Len(fs), NEW k \in 1..Len(fs),
                 j < k, fs[j].kind = kind, fs[k].kind = kind,
                 \A m \in (j + 1)..(k - 1) : fs[m].kind # kind
        PROVE  fs[j].value # fs[k].value
    BY DEF Alternate
  <2>2. j \in 1..Len(es) /\ k \in 1..Len(es) /\ fs[j] = es[j] /\ fs[k] = es[k]
    BY <2>1, EventJoins
  <2>3. \A m \in (j + 1)..(k - 1) : m \in 1..Len(es) /\ fs[m] = es[m]
    BY <2>2, EventJoins
  <2>4. \A m \in (j + 1)..(k - 1) : es[m].kind # kind
    BY <2>1, <2>3
  <2>5. es[j].kind = kind /\ es[k].kind = kind
    BY <2>1, <2>2
  <2>6. es[j].value # es[k].value
    BY <1>3, <2>1, <2>2, <2>4, <2>5 DEF Alternate
  <2> QED BY <2>2, <2>6
<1> QED BY <1>1, <1>2, <1>3

\* An event that tells another value than the last of its kind.
LEMMA KindGrows ==
  ASSUME NEW es \in Seq(Told), NEW e \in Told, NEW fs, fs = Append(es, e),
         Alternate(es, e.kind), NEW value,
         Untold(es, e.kind) \/ (LastIs(es, e.kind, value) /\ value # e.value)
  PROVE  Alternate(fs, e.kind) /\ LastIs(fs, e.kind, e.value)
<1>1. LastIs(fs, e.kind, e.value)
  <2>1. Len(es) + 1 \in 1..Len(fs) /\ (Len(es) + 2)..Len(fs) = {}
    BY EventJoins
  <2>2. fs[Len(es) + 1] = e
    BY EventJoins
  <2> QED BY <2>1, <2>2, EventJoins DEF LastIs
<1>2. Alternate(fs, e.kind)
  <2>1. SUFFICES ASSUME NEW j \in 1..Len(fs), NEW k \in 1..Len(fs),
                 j < k, fs[j].kind = e.kind, fs[k].kind = e.kind,
                 \A m \in (j + 1)..(k - 1) : fs[m].kind # e.kind
        PROVE  fs[j].value # fs[k].value
    BY DEF Alternate
  <2>2. j \in 1..Len(es) /\ fs[j] = es[j] /\ es[j].kind = e.kind
    BY <2>1, EventJoins
  <2>3. CASE k \in 1..Len(es)
    <3>1. fs[k] = es[k] /\ es[k].kind = e.kind
      BY <2>1, <2>3, EventJoins
    <3>2. \A m \in (j + 1)..(k - 1) : m \in 1..Len(es) /\ fs[m] = es[m]
      BY <2>2, <2>3, EventJoins
    <3>3. \A m \in (j + 1)..(k - 1) : es[m].kind # e.kind
      BY <2>1, <3>2
    <3>4. es[j].value # es[k].value
      BY <2>1, <2>2, <2>3, <3>1, <3>3 DEF Alternate
    <3> QED BY <2>2, <3>1, <3>4
  <2>4. CASE k = Len(es) + 1
    <3>1. fs[k] = e
      BY <2>4, EventJoins
    <3>2. ~Untold(es, e.kind)
      BY <2>2 DEF Untold
    <3>3. PICK l \in 1..Len(es) :
            /\ es[l].kind = e.kind /\ es[l].value = value
            /\ \A m \in (l + 1)..Len(es) : es[m].kind # e.kind
      BY <3>2 DEF LastIs
    <3>4. l \in (j + 1)..(k - 1) => fs[l].kind = e.kind
      BY <3>3, EventJoins
    <3>5. ~(l < j)
      BY <2>2, <3>3, EventJoins
    <3>6. l = j
      BY <2>1, <2>2, <2>4, <3>3, <3>4, <3>5, EventJoins
    <3> QED BY <2>2, <3>1, <3>2, <3>3, <3>6
  <2> QED BY <2>3, <2>4, EventJoins
<1> QED BY <1>1, <1>2

\* How a run tells the value of a kind, if it has not or it is another one.
Telling(es, kind, fs, status, n, known, last) ==
  \/ /\ ~known \/ last[kind] # status[kind]
     /\ fs = Append(es, [kind |-> kind, value |-> status[kind], next |-> n])
  \/ known /\ last[kind] = status[kind] /\ fs = es

\* Then the last of the kind is the value, and the stream is one still.
LEMMA TellingKeeps ==
  ASSUME NEW es \in Seq(Told), NEW kind \in Timing!Kinds, NEW fs,
         NEW status \in Timing!Statuses, NEW last \in Timing!Statuses,
         NEW n \in Nat, NEW known \in BOOLEAN,
         Ordered(es, n), Unended(es), es # <<>>, Alternate(es, kind),
         IF known THEN LastIs(es, kind, last[kind]) ELSE Untold(es, kind),
         Telling(es, kind, fs, status, n, known, last)
  PROVE  /\ fs \in Seq(Told) /\ Ordered(fs, n) /\ Unended(fs) /\ fs # <<>>
         /\ Alternate(fs, kind) /\ LastIs(fs, kind, status[kind])
         /\ \A other \in Timing!Kinds \ {kind} :
              /\ Alternate(es, other) => Alternate(fs, other)
              /\ Untold(es, other) => Untold(fs, other)
              /\ \A value : LastIs(es, other, value) => LastIs(fs, other, value)
<1> DEFINE e == [kind |-> kind, value |-> status[kind], next |-> n]
<1>1. CASE known /\ last[kind] = status[kind] /\ fs = es
  BY <1>1
<1>2. CASE (~known \/ last[kind] # status[kind]) /\ fs = Append(es, e)
  <2>1. /\ kind \in Timing!Kinds \cup {"start", "end"} /\ kind # "start" /\ kind # "end"
        /\ status[kind] \in BOOLEAN
    BY DEF Timing!Kinds, Timing!Statuses
  <2>2. /\ e \in Told /\ e.kind = kind /\ e.value = status[kind] /\ e.next = n
    BY <2>1 DEF Told
  <2> HIDE DEF e
  <2>3. fs \in Seq(Told) /\ fs # <<>>
    BY <1>2, <2>2, EventJoins
  <2>4. Ordered(fs, n)
    BY <1>2, <2>1, <2>2, OrderGrows
  <2>5. Unended(fs)
    BY <1>2, <2>1, <2>2, OthersGrow DEF Unended
  <2>6. Alternate(fs, e.kind) /\ LastIs(fs, e.kind, e.value)
    <3>1. Untold(es, e.kind) \/ (LastIs(es, e.kind, last[kind]) /\ last[kind] # e.value)
      BY <1>2, <2>2
    <3>2. Alternate(es, e.kind)
      BY <2>2
    <3> QED BY <1>2, <2>2, <3>1, <3>2, KindGrows
  <2>7. \A other \in Timing!Kinds \ {kind} :
          /\ Alternate(es, other) => Alternate(fs, other)
          /\ Untold(es, other) => Untold(fs, other)
          /\ \A value : LastIs(es, other, value) => LastIs(fs, other, value)
    BY <1>2, <2>2, OthersGrow
  <2> QED BY <2>2, <2>3, <2>4, <2>5, <2>6, <2>7
<1> QED BY <1>1, <1>2 DEF Telling

\* What a run does with a state it is told.
LEMMA RecordedTells ==
  ASSUME NEW run \in TimedRuns, NEW status \in Timing!Statuses
  PROVE  /\ Timing!Recorded(run, status) =
              [phase |-> run.phase, expected |-> run.expected, initial |-> TRUE,
               last |-> status, closed |-> run.closed, sequence |-> run.sequence,
               events |-> Timing!Recorded(run, status).events, graph |-> run.graph]
         /\ \E mid \in Seq(Told) :
              /\ Telling(run.events, "triggers", mid, status, run.sequence + 1,
                         run.initial, run.last)
              /\ Telling(mid, "transmitting", Timing!Recorded(run, status).events,
                         status, run.sequence + 1, run.initial, run.last)
<1> DEFINE r == Timing!Recorded(run, status)
           es == run.events
           n == run.sequence + 1
           a == [kind |-> "triggers", value |-> status["triggers"], next |-> n]
           b == [kind |-> "transmitting", value |-> status["transmitting"], next |-> n]
<1>1. /\ es \in Seq(Told) /\ run.initial \in BOOLEAN /\ n \in Nat
  BY DEF TimedRuns
<1>2. a \in Told /\ b \in Told
  BY <1>1 DEF Told, Timing!Kinds, Timing!Statuses
<1>3. /\ Timing!TimingEvent(run, "triggers", status) = <<a>>
      /\ Timing!TimingEvent(run, "transmitting", status) = <<b>>
  BY DEF Timing!TimingEvent, Timing!Event
<1>4. r.events = es \o (IF ~run.initial THEN <<a>> \o <<b>>
                        ELSE Timing!Changed(run, "triggers", status)
                               \o Timing!Changed(run, "transmitting", status))
  BY <1>3 DEF Timing!Recorded, TimedRuns
<1>5. r = [phase |-> run.phase, expected |-> run.expected, initial |-> TRUE,
           last |-> status, closed |-> run.closed, sequence |-> run.sequence,
           events |-> r.events, graph |-> run.graph]
  <2> DEFINE yes == TRUE
             added == IF ~run.initial
                      THEN Timing!TimingEvent(run, "triggers", status)
                             \o Timing!TimingEvent(run, "transmitting", status)
                      ELSE Timing!Changed(run, "triggers", status)
                             \o Timing!Changed(run, "transmitting", status)
             all == es \o added
  <2>1. r = [run EXCEPT !.initial = yes, !.last = status, !.events = all]
    BY DEF Timing!Recorded
  <2>2. run = [phase |-> run.phase, expected |-> run.expected, initial |-> run.initial,
               last |-> run.last, closed |-> run.closed, sequence |-> run.sequence,
               events |-> run.events, graph |-> run.graph]
    BY DEF TimedRuns
  <2> HIDE DEF yes, all, r
  <2>3. r = [phase |-> run.phase, expected |-> run.expected, initial |-> yes,
             last |-> status, closed |-> run.closed, sequence |-> run.sequence,
             events |-> all, graph |-> run.graph]
    BY <2>1, <2>2
  <2>4. r.events = all
    BY <2>3
  <2> QED BY <2>3, <2>4 DEF yes
<1> DEFINE tellsA == ~run.initial \/ run.last["triggers"] # status["triggers"]
           tellsB == ~run.initial \/ run.last["transmitting"] # status["transmitting"]
           mid == IF tellsA THEN Append(es, a) ELSE es
<1>6. r.events = es \o ((IF tellsA THEN <<a>> ELSE <<>>) \o (IF tellsB THEN <<b>> ELSE <<>>))
  BY <1>3, <1>4 DEF Timing!Changed
<1>7. mid \in Seq(Told) /\ mid = es \o (IF tellsA THEN <<a>> ELSE <<>>)
  <2>1. CASE tellsA
    <3>1. mid = Append(es, a)
      BY <2>1
    <3> HIDE DEF a, es, mid
    <3> QED BY <1>1, <1>2, <2>1, <3>1, AppendProperties, AppendIsConcat
  <2>2. CASE ~tellsA
    <3>1. mid = es
      BY <2>2
    <3> HIDE DEF a, es, mid
    <3> QED BY <1>1, <2>2, <3>1, ConcatEmptySeq
  <2> QED BY <2>1, <2>2
<1>8. r.events = mid \o (IF tellsB THEN <<b>> ELSE <<>>)
  <2> DEFINE first == IF tellsA THEN <<a>> ELSE <<>>
             second == IF tellsB THEN <<b>> ELSE <<>>
  <2>1. first \in Seq(Told) /\ second \in Seq(Told)
    BY <1>2
  <2>2. r.events = es \o (first \o second) /\ mid = es \o first
    BY <1>6, <1>7
  <2> HIDE DEF first, es, r, mid
  <2> QED
    <3> HIDE DEF second
    <3>1. es \in Seq(Told)
      BY <1>1
    <3>2. (es \o first) \o second = es \o (first \o second)
      BY <2>1, <3>1, ConcatAssociative
    <3>3. r.events = mid \o second
      BY <2>2, <3>2
    <3> QED BY <3>3 DEF second
<1>9. r.events = IF tellsB THEN Append(mid, b) ELSE mid
  <2> HIDE DEF mid, b, r
  <2> QED BY <1>2, <1>7, <1>8, AppendIsConcat, ConcatEmptySeq
<1>10. Telling(es, "triggers", mid, status, n, run.initial, run.last)
  BY DEF Telling
<1>11. Telling(mid, "transmitting", r.events, status, n, run.initial, run.last)
  <2> HIDE DEF mid, r
  <2> QED BY <1>9 DEF Telling
<1> HIDE DEF mid, r
<1> QED BY <1>5, <1>7, <1>10, <1>11 DEF r

\* It is still a stream, and ends at that state.
LEMMA RecordedKeeps ==
  ASSUME NEW run \in TimedRuns, NEW status \in Timing!Statuses,
         Stream(run), Timing!HasStream(run), ~run.closed,
         NEW r, r = Timing!Recorded(run, status)
  PROVE  /\ r \in TimedRuns /\ Stream(r) /\ r.initial /\ r.last = status
         /\ r.phase = run.phase /\ r.closed = run.closed /\ r.expected = run.expected
<1> DEFINE n == run.sequence + 1
           es == run.events
<1>1. PICK mid \in Seq(Told) :
        /\ Telling(es, "triggers", mid, status, n, run.initial, run.last)
        /\ Telling(mid, "transmitting", r.events, status, n, run.initial, run.last)
  BY RecordedTells
<1>2. r = [phase |-> run.phase, expected |-> run.expected, initial |-> TRUE,
           last |-> status, closed |-> run.closed, sequence |-> run.sequence,
           events |-> r.events, graph |-> run.graph]
  BY RecordedTells
<1>3. /\ es \in Seq(Told) /\ n \in Nat /\ run.initial \in BOOLEAN
      /\ run.last \in Timing!Statuses
  BY DEF TimedRuns
<1>4. /\ "triggers" \in Timing!Kinds /\ "transmitting" \in Timing!Kinds
      /\ "triggers" # "transmitting" /\ Timing!Kinds = {"triggers", "transmitting"}
  BY DEF Timing!Kinds
<1>5. /\ Ordered(es, n) /\ Unended(es) /\ es # <<>>
      /\ \A kind \in Timing!Kinds :
           /\ Alternate(es, kind)
           /\ IF run.initial THEN LastIs(es, kind, run.last[kind]) ELSE Untold(es, kind)
  BY DEF Stream
<1> HIDE DEF es, n
<1>6. /\ Ordered(mid, n) /\ Unended(mid) /\ mid # <<>>
      /\ Alternate(mid, "triggers") /\ LastIs(mid, "triggers", status["triggers"])
      /\ Alternate(mid, "transmitting")
      /\ IF run.initial THEN LastIs(mid, "transmitting", run.last["transmitting"])
         ELSE Untold(mid, "transmitting")
  <2>1. IF run.initial THEN LastIs(es, "triggers", run.last["triggers"])
        ELSE Untold(es, "triggers")
    BY <1>4, <1>5
  <2>2. /\ Ordered(mid, n) /\ Unended(mid) /\ mid # <<>>
        /\ Alternate(mid, "triggers") /\ LastIs(mid, "triggers", status["triggers"])
        /\ \A other \in Timing!Kinds \ {"triggers"} :
              /\ Alternate(es, other) => Alternate(mid, other)
              /\ Untold(es, other) => Untold(mid, other)
              /\ \A value : LastIs(es, other, value) => LastIs(mid, other, value)
    BY <1>1, <1>3, <1>4, <1>5, <2>1, TellingKeeps
  <2> QED BY <1>4, <1>5, <2>2
<1>7. /\ r.events \in Seq(Told) /\ Ordered(r.events, n) /\ Unended(r.events)
      /\ r.events # <<>>
      /\ Alternate(r.events, "transmitting")
      /\ LastIs(r.events, "transmitting", status["transmitting"])
      /\ Alternate(r.events, "triggers")
      /\ LastIs(r.events, "triggers", status["triggers"])
  <2>2. /\ r.events \in Seq(Told) /\ Ordered(r.events, n) /\ Unended(r.events)
        /\ r.events # <<>>
        /\ Alternate(r.events, "transmitting")
        /\ LastIs(r.events, "transmitting", status["transmitting"])
        /\ \A other \in Timing!Kinds \ {"transmitting"} :
              /\ Alternate(mid, other) => Alternate(r.events, other)
              /\ Untold(mid, other) => Untold(r.events, other)
              /\ \A value : LastIs(mid, other, value) => LastIs(r.events, other, value)
    <3> DEFINE fs == r.events
    <3>1. /\ Telling(mid, "transmitting", fs, status, n, run.initial, run.last)
          /\ IF run.initial THEN LastIs(mid, "transmitting", run.last["transmitting"])
             ELSE Untold(mid, "transmitting")
          /\ Ordered(mid, n) /\ Unended(mid) /\ mid # <<>> /\ Alternate(mid, "transmitting")
      BY <1>1, <1>6
    <3> HIDE DEF fs
    <3>2. /\ fs \in Seq(Told) /\ Ordered(fs, n) /\ Unended(fs) /\ fs # <<>>
          /\ Alternate(fs, "transmitting")
          /\ LastIs(fs, "transmitting", status["transmitting"])
          /\ \A other \in Timing!Kinds \ {"transmitting"} :
               /\ Alternate(mid, other) => Alternate(fs, other)
               /\ Untold(mid, other) => Untold(fs, other)
               /\ \A value : LastIs(mid, other, value) => LastIs(fs, other, value)
      BY <1>3, <1>4, <3>1, TellingKeeps
    <3> QED BY <3>2 DEF fs
  <2> QED BY <1>4, <1>6, <2>2
<1>8. r \in TimedRuns
  <2> DEFINE yes == TRUE
             all == r.events
  <2>1. r = [phase |-> run.phase, expected |-> run.expected, initial |-> yes,
             last |-> status, closed |-> run.closed, sequence |-> run.sequence,
             events |-> all, graph |-> run.graph]
    BY <1>2
  <2>2. yes \in BOOLEAN /\ all \in Seq(Told)
    BY <1>7
  <2> HIDE DEF yes, all
  <2> QED BY <2>1, <2>2 DEF TimedRuns
<1>9. /\ r.initial = TRUE /\ r.last = status /\ r.sequence = run.sequence
      /\ r.phase = run.phase /\ r.closed = run.closed /\ r.expected = run.expected
  BY <1>2
<1>10. Stream(r)
  <2>1. Ordered(r.events, r.sequence + 1)
    BY <1>7, <1>9 DEF n
  <2>2. \A kind \in Timing!Kinds :
          Alternate(r.events, kind) /\ LastIs(r.events, kind, r.last[kind])
    BY <1>4, <1>7, <1>9
  <2> QED BY <1>7, <1>9, <2>1, <2>2 DEF Stream
<1> QED BY <1>8, <1>9, <1>10

\* Closing a stream ends it once.
LEMMA ClosedKeeps ==
  ASSUME NEW run \in TimedRuns, Stream(run), Timing!HasStream(run),
         NEW r, r = Timing!Closed(run)
  PROVE  /\ r \in TimedRuns /\ Stream(r) /\ r.closed
<1>1. CASE run.closed
  BY <1>1 DEF Timing!Closed
<1>2. CASE ~run.closed
  <2> DEFINE e == Timing!Event(run, "end", TRUE)
             all == Append(run.events, e)
             yes == TRUE
  <2>1. /\ e \in Told /\ e.kind = "end" /\ e.next = run.sequence + 1
        /\ run.events \in Seq(Told) /\ run.sequence + 1 \in Nat
    BY DEF Timing!Event, Told, TimedRuns
  <2>2. r = [run EXCEPT !.closed = yes, !.events = all]
    BY <1>2 DEF Timing!Closed
  <2>3. run = [phase |-> run.phase, expected |-> run.expected, initial |-> run.initial,
               last |-> run.last, closed |-> run.closed, sequence |-> run.sequence,
               events |-> run.events, graph |-> run.graph]
    BY DEF TimedRuns
  <2>4. Ordered(run.events, run.sequence + 1) /\ Unended(run.events) /\ run.events # <<>>
    BY <1>2 DEF Stream
  <2> HIDE DEF e
  <2>5. all \in Seq(Told) /\ all # <<>> /\ Ordered(all, run.sequence + 1)
    <3>1. all \in Seq(Told) /\ all # <<>>
      BY <2>1, EventJoins
    <3>2. e.kind = "start" <=> run.events = <<>>
      BY <2>1, <2>4
    <3> QED BY <2>1, <2>4, <3>1, <3>2, OrderGrows
  <2>6. ASSUME NEW kind \in Timing!Kinds
        PROVE  /\ Alternate(all, kind)
               /\ IF run.initial THEN LastIs(all, kind, run.last[kind]) ELSE Untold(all, kind)
    <3>1. e.kind # kind
      BY <2>1 DEF Timing!Kinds
    <3>2. /\ Alternate(run.events, kind)
          /\ IF run.initial THEN LastIs(run.events, kind, run.last[kind])
             ELSE Untold(run.events, kind)
      BY DEF Stream
    <3>3. /\ Alternate(run.events, kind) => Alternate(all, kind)
          /\ Untold(run.events, kind) => Untold(all, kind)
          /\ \A value : LastIs(run.events, kind, value) => LastIs(all, kind, value)
      <4> DEFINE es == run.events
      <4>1. es \in Seq(Told) /\ e \in Told /\ all = Append(es, e)
        BY <2>1
      <4> HIDE DEF all, es
      <4>2. /\ Alternate(es, kind) => Alternate(all, kind)
            /\ Untold(es, kind) => Untold(all, kind)
            /\ \A value : LastIs(es, kind, value) => LastIs(all, kind, value)
        BY <3>1, <4>1, OthersGrow
      <4> QED BY <4>2 DEF es
    <3> HIDE DEF all
    <3> QED BY <3>2, <3>3
  <2> HIDE DEF all, yes
  <2>7. r = [phase |-> run.phase, expected |-> run.expected, initial |-> run.initial,
             last |-> run.last, closed |-> yes, sequence |-> run.sequence,
             events |-> all, graph |-> run.graph]
    BY <2>2, <2>3
  <2>8. yes \in BOOLEAN /\ yes
    BY DEF yes
  <2>9. r \in TimedRuns
    BY <2>5, <2>7, <2>8 DEF TimedRuns
  <2>10. /\ r.events = all /\ r.sequence = run.sequence /\ r.closed = yes
         /\ r.initial = run.initial /\ r.last = run.last
    BY <2>7
  <2> QED BY <2>5, <2>6, <2>8, <2>9, <2>10 DEF Stream
<1> QED BY <1>1, <1>2

-----------------------------------------------------------------------------
LEMMA NoStatusTyped == Timing!NoStatus \in Timing!Statuses
BY DEF Timing!NoStatus, Timing!Statuses

LEMMA ReservedIsEmpty ==
  /\ Timing!Reserved \in TimedRuns /\ Stream(Timing!Reserved) /\ Fresh(Timing!Reserved)
  /\ Timing!Reserved.phase = "reserved" /\ ~Timing!Reserved.expected
  /\ Timing!Gone \in TimedRuns /\ Stream(Timing!Gone) /\ Timing!Gone.phase = "gone"
<1> DEFINE no == FALSE
           none == Timing!NoStatus
           nil == <<>>
<1>1. Timing!Reserved = [phase |-> "reserved", expected |-> no, initial |-> no,
        last |-> none, closed |-> no, sequence |-> 0, events |-> nil, graph |-> no]
  BY DEF Timing!Reserved
<1>2. no \in BOOLEAN /\ ~no /\ none \in Timing!Statuses /\ nil \in Seq(Told) /\ Len(nil) = 0
  BY NoStatusTyped
<1>3. Timing!Gone = [Timing!Reserved EXCEPT !.phase = "gone"]
  BY DEF Timing!Gone
<1> HIDE DEF no, none, nil
<1>4. Timing!Gone = [phase |-> "gone", expected |-> no, initial |-> no,
        last |-> none, closed |-> no, sequence |-> 0, events |-> nil, graph |-> no]
  BY <1>1, <1>3
<1>5. Timing!Reserved \in TimedRuns /\ Timing!Gone \in TimedRuns
  BY <1>1, <1>2, <1>4 DEF TimedRuns, Phases
<1>6. ASSUME NEW run \in {Timing!Reserved, Timing!Gone} PROVE Stream(run)
  <2>1. run.events = nil /\ ~run.initial /\ ~Timing!HasStream(run)
    BY <1>1, <1>2, <1>4 DEF Timing!HasStream
  <2> QED BY <1>2, <2>1 DEF Stream, Ordered, Alternate, Untold, Unended
<1> QED BY <1>1, <1>2, <1>4, <1>5, <1>6 DEF Fresh, nil

LEMMA TimingStarts == Timing!Init => TimingInv
<1> SUFFICES ASSUME Timing!Init PROVE TimingInv
  OBVIOUS
<1>1. /\ timing \in Timing!Statuses /\ wire = <<>> /\ stored = Timing!Unknown
      /\ thread = [busy |-> FALSE, status |-> Timing!NoStatus] /\ timed = Timing!Gone
  BY DEF Timing!Init
<1>2. stored \in [status : Timing!Statuses, known : BOOLEAN, fresh : BOOLEAN]
  BY <1>1, NoStatusTyped DEF Timing!Unknown
<1>3. thread \in [busy : BOOLEAN, status : Timing!Statuses] /\ ~thread.busy
  BY <1>1, NoStatusTyped
<1>4. timed \in TimedRuns /\ Stream(timed) /\ timed.phase = "gone"
  BY <1>1, ReservedIsEmpty
<1>5. wire \in Seq(Timing!Statuses)
  BY <1>1
<1> QED
  BY <1>1, <1>2, <1>3, <1>4, <1>5
  DEF TimingInv, TimingTypes, Fresh, Handling, Heard, Expecting, Timing!HasStream

\* What a run is apart from its events and what it was told.
LEMMA RefreshedKeeps ==
  ASSUME NEW run \in TimedRuns, Stream(run), NEW expects \in BOOLEAN,
         NEW r, r = [run EXCEPT !.expected = expects]
  PROVE  /\ r \in TimedRuns /\ Stream(r) /\ (Fresh(run) => Fresh(r))
         /\ r.expected = expects /\ r.phase = run.phase /\ r.closed = run.closed
         /\ r.initial = run.initial /\ r.last = run.last /\ r.events = run.events
<1>1. /\ r.expected = expects /\ r.phase = run.phase /\ r.closed = run.closed
      /\ r.initial = run.initial /\ r.last = run.last /\ r.events = run.events
      /\ r.sequence = run.sequence /\ r \in TimedRuns
  BY DEF TimedRuns
<1> QED BY <1>1 DEF Stream, Fresh, Timing!HasStream

\* A run that goes on to another phase of its stream, or is over.
LEMMA PhaseKeeps ==
  ASSUME NEW run \in TimedRuns, Stream(run), Timing!HasStream(run),
         NEW phase \in Phases \ {"reserved"}, NEW r, r = [run EXCEPT !.phase = phase]
  PROVE  /\ r \in TimedRuns /\ Stream(r) /\ Fresh(r)
         /\ r.phase = phase /\ r.expected = run.expected /\ r.closed = run.closed
         /\ r.initial = run.initial /\ r.last = run.last
<1>1. /\ r.expected = run.expected /\ r.phase = phase /\ r.closed = run.closed
      /\ r.initial = run.initial /\ r.last = run.last /\ r.events = run.events
      /\ r.sequence = run.sequence /\ r \in TimedRuns
  BY DEF TimedRuns
<1> QED BY <1>1 DEF Stream, Fresh, Timing!HasStream

LEMMA ReportedKeeps ==
  ASSUME NEW run \in TimedRuns, Stream(run),
         NEW r, r = [run EXCEPT !.sequence = @ + 1]
  PROVE  /\ r \in TimedRuns /\ Stream(r) /\ (Fresh(run) => Fresh(r))
         /\ r.expected = run.expected /\ r.phase = run.phase /\ r.closed = run.closed
         /\ r.initial = run.initial /\ r.last = run.last
<1>1. /\ r.expected = run.expected /\ r.phase = run.phase /\ r.closed = run.closed
      /\ r.initial = run.initial /\ r.last = run.last /\ r.events = run.events
      /\ r.sequence = run.sequence + 1 /\ r \in TimedRuns
  BY DEF TimedRuns
<1>2. /\ run.sequence \in Nat /\ run.events \in Seq(Told)
  BY DEF TimedRuns
<1>3. Ordered(r.events, r.sequence + 1)
  <2>1. \A k \in 1..Len(run.events) : run.events[k].next \in Nat
    <3>1. ASSUME NEW k \in 1..Len(run.events) PROVE run.events[k].next \in Nat
      <4>1. run.events[k] \in Told
        BY <1>2, ElementOfSeq
      <4> QED BY <4>1 DEF Told
    <3> QED BY <3>1
  <2> QED BY <1>1, <1>2, <2>1 DEF Stream, Ordered
<1> QED BY <1>1, <1>3 DEF Stream, Fresh, Timing!HasStream

\* The stream of a reserved run is opened with the state stored so far.
LEMMA OpenedKeeps ==
  ASSUME TimingTypes, NEW run \in TimedRuns, Stream(run), Fresh(run),
         run.phase = "reserved", NEW r, r = Timing!Opened(run)
  PROVE  /\ r \in TimedRuns /\ Stream(r)
         /\ r.phase = "open" /\ r.expected = run.expected
         /\ stored.known => r.initial /\ r.last = stored.status
<1> DEFINE e == Timing!Event(run, "start", TRUE)
           all == Append(run.events, e)
           started == [run EXCEPT !.phase = "open", !.events = all]
<1>1. r = IF stored.known THEN Timing!Recorded(started, stored.status) ELSE started
  BY DEF Timing!Opened
<1>2. /\ e \in Told /\ e.kind = "start" /\ e.next = run.sequence + 1
      /\ run.events = <<>> /\ ~run.initial /\ ~run.closed /\ run.sequence \in Nat
  BY DEF Timing!Event, Told, TimedRuns, Fresh
<1>3. all = <<e>>
  BY <1>2
<1> HIDE DEF e
<1>4. all \in Seq(Told) /\ Len(all) = 1 /\ all[1] = e /\ all # <<>>
  BY <1>2, <1>3
<1> HIDE DEF all
<1>5. /\ started.phase = "open" /\ started.events = all /\ started.sequence = run.sequence
      /\ started.initial = run.initial /\ started.closed = run.closed
      /\ started.expected = run.expected /\ started \in TimedRuns
  BY <1>4 DEF TimedRuns, Phases
<1> HIDE DEF started
<1>6. Stream(started)
  <2>1. Ordered(all, run.sequence + 1)
    BY <1>2, <1>4 DEF Ordered
  <2>2. \A kind \in Timing!Kinds : Alternate(all, kind) /\ Untold(all, kind)
    BY <1>2, <1>4 DEF Alternate, Untold, Timing!Kinds
  <2>3. Unended(all)
    BY <1>2, <1>4 DEF Unended, Untold
  <2> QED BY <1>2, <1>4, <1>5, <2>1, <2>2, <2>3 DEF Stream
<1>7. CASE stored.known
  <2>1. Timing!HasStream(started) /\ ~started.closed /\ stored.status \in Timing!Statuses
    BY <1>2, <1>5 DEF Timing!HasStream, TimingTypes
  <2> QED BY <1>1, <1>5, <1>6, <1>7, <2>1, RecordedKeeps
<1>8. CASE ~stored.known
  BY <1>1, <1>5, <1>6, <1>8
<1> QED BY <1>7, <1>8

\* A run that is told a state.
LEMMA ToldKeeps ==
  ASSUME NEW run \in TimedRuns, Stream(run), Fresh(run), NEW status \in Timing!Statuses,
         NEW r, r = Timing!Told(run, status)
  PROVE  /\ r \in TimedRuns /\ Stream(r) /\ Fresh(r)
         /\ r.phase = run.phase /\ r.closed = run.closed
         /\ r.expected => status["triggers"]
         /\ Timing!HasStream(run) /\ ~run.closed => r.initial /\ r.last = status
<1> DEFINE expects == Timing!Expects(run, status)
           rated == [run EXCEPT !.expected = expects]
<1>1. expects \in BOOLEAN /\ (expects => status["triggers"])
  BY DEF Timing!Expects, Timing!Statuses, Timing!Kinds
<1>2. r = IF Timing!HasStream(run) /\ ~run.closed THEN Timing!Recorded(rated, status)
          ELSE rated
  BY DEF Timing!Told
<1> HIDE DEF expects
<1>3. /\ rated \in TimedRuns /\ Stream(rated) /\ Fresh(rated)
      /\ rated.expected = expects /\ rated.phase = run.phase /\ rated.closed = run.closed
  BY <1>1, RefreshedKeeps
<1> HIDE DEF rated
<1>4. CASE Timing!HasStream(run) /\ ~run.closed
  <2>1. Timing!HasStream(rated) /\ ~rated.closed
    BY <1>3, <1>4 DEF Timing!HasStream
  <2>2. /\ r \in TimedRuns /\ Stream(r) /\ r.initial /\ r.last = status
        /\ r.phase = rated.phase /\ r.closed = rated.closed /\ r.expected = rated.expected
    BY <1>2, <1>3, <1>4, <2>1, RecordedKeeps
  <2>3. Fresh(r)
    BY <1>3, <1>4, <2>2 DEF Fresh, Timing!HasStream
  <2> QED BY <1>1, <1>3, <2>2, <2>3
<1>5. CASE ~(Timing!HasStream(run) /\ ~run.closed)
  BY <1>1, <1>2, <1>3, <1>5
<1> QED BY <1>4, <1>5

LEMMA TimingKeeps ==
  ASSUME TimingInv, [Timing!Next]_timingVars
  PROVE  TimingInv'
<1> USE DEF TimingInv
<1>1. /\ timing \in Timing!Statuses /\ wire \in Seq(Timing!Statuses)
      /\ stored \in [status : Timing!Statuses, known : BOOLEAN, fresh : BOOLEAN]
      /\ thread \in [busy : BOOLEAN, status : Timing!Statuses]
      /\ timed \in TimedRuns /\ Stream(timed) /\ Fresh(timed)
  BY DEF TimingTypes
<1>2. CASE Timing!LaserTurns \/ Timing!PublishTiming
  <2>1. UNCHANGED <<stored, thread, timed>>
    BY <1>2 DEF Timing!LaserTurns, Timing!PublishTiming
  <2>2. timing' \in Timing!Statuses /\ wire' \in Seq(Timing!Statuses)
    <3>1. CASE Timing!LaserTurns
      BY <1>1, <3>1 DEF Timing!LaserTurns
    <3>2. CASE Timing!PublishTiming
      BY <1>1, <3>2, AppendProperties DEF Timing!PublishTiming
    <3> QED BY <1>2, <3>1, <3>2
  <2> QED BY <1>1, <2>1, <2>2 DEF TimingTypes, Handling, Heard, Expecting
<1>3. CASE Timing!StoreStatus
  <2> DEFINE yes == TRUE
  <2>1. /\ wire # <<>> /\ wire' = Tail(wire) /\ UNCHANGED <<timing, timed>>
        /\ thread' = [busy |-> yes, status |-> Head(wire)]
        /\ stored' = [status |-> Head(wire), known |-> yes, fresh |-> yes]
    BY <1>3 DEF Timing!StoreStatus
  <2>2. yes \in BOOLEAN /\ yes
    OBVIOUS
  <2> HIDE DEF yes
  <2>3. Head(wire) \in Timing!Statuses /\ wire' \in Seq(Timing!Statuses)
    BY <1>1, <2>1, HeadTailProperties
  <2>4. /\ thread' \in [busy : BOOLEAN, status : Timing!Statuses]
        /\ stored' \in [status : Timing!Statuses, known : BOOLEAN, fresh : BOOLEAN]
        /\ thread'.busy /\ thread'.status = stored'.status /\ stored'.known
    BY <2>1, <2>2, <2>3
  <2> QED BY <1>1, <2>1, <2>3, <2>4 DEF TimingTypes, Handling, Heard, Expecting
<1>4. CASE Timing!TellRun
  <2>1. /\ thread.busy /\ thread' = [thread EXCEPT !.busy = FALSE]
        /\ timed' = IF timed.phase = "gone" THEN timed ELSE Timing!Told(timed, thread.status)
        /\ UNCHANGED <<timing, wire, stored>>
    BY <1>4 DEF Timing!TellRun
  <2>2. thread' \in [busy : BOOLEAN, status : Timing!Statuses] /\ ~thread'.busy
    BY <1>1, <2>1
  <2>3. thread.status = stored.status /\ thread.status \in Timing!Statuses /\ stored.known
    BY <1>1, <2>1 DEF Handling
  <2>4. CASE timed.phase = "gone"
    <3>1. timed' = timed
      BY <2>1, <2>4
    <3> QED
      BY <1>1, <2>1, <2>2, <2>4, <3>1
      DEF TimingTypes, Handling, Heard, Expecting, Timing!HasStream
  <2>5. CASE timed.phase # "gone"
    <3>1. timed' = Timing!Told(timed, thread.status)
      BY <2>1, <2>5
    <3>2. /\ timed' \in TimedRuns /\ Stream(timed') /\ Fresh(timed')
          /\ timed'.phase = timed.phase /\ timed'.closed = timed.closed
          /\ timed'.expected => thread.status["triggers"]
          /\ Timing!HasStream(timed) /\ ~timed.closed =>
               timed'.initial /\ timed'.last = thread.status
      BY <1>1, <2>3, <3>1, ToldKeeps
    <3>3. Heard' /\ Expecting'
      BY <2>1, <2>3, <3>2 DEF Heard, Expecting, Timing!HasStream
    <3> QED BY <1>1, <2>1, <2>2, <3>2, <3>3 DEF TimingTypes, Handling
  <2> QED BY <2>4, <2>5
<1>5. CASE Timing!StatusAges
  <2>1. /\ stored' = [stored EXCEPT !.fresh = FALSE]
        /\ UNCHANGED <<timing, wire, thread, timed>>
    BY <1>5 DEF Timing!StatusAges
  <2>2. /\ stored' \in [status : Timing!Statuses, known : BOOLEAN, fresh : BOOLEAN]
        /\ stored'.status = stored.status /\ stored'.known = stored.known
    BY <1>1, <2>1
  <2> QED BY <1>1, <2>1, <2>2 DEF TimingTypes, Handling, Heard, Expecting
<1>6. ASSUME UNCHANGED <<timing, wire, stored, thread>>,
             timed' \in TimedRuns, Stream(timed'), Fresh(timed'), Heard', Expecting'
      PROVE  TimingInv'
  BY <1>1, <1>6 DEF TimingTypes, Handling
<1>7. CASE Timing!Reserve
  <2>1. timed' = Timing!Reserved /\ UNCHANGED <<timing, wire, stored, thread>>
    BY <1>7 DEF Timing!Reserve
  <2>2. Heard' /\ Expecting'
    BY <2>1, ReservedIsEmpty DEF Heard, Expecting, Timing!HasStream
  <2> QED BY <1>6, <2>1, <2>2, ReservedIsEmpty
<1>8. ASSUME NEW r, r = Timing!Refreshed(timed)
      PROVE  /\ r \in TimedRuns /\ Stream(r) /\ Fresh(r) /\ r.phase = timed.phase
             /\ r.closed = timed.closed /\ r.initial = timed.initial /\ r.last = timed.last
             /\ r.expected => stored.status["triggers"]
  <2> DEFINE expects == stored.fresh /\ Timing!Expects(timed, stored.status)
  <2>1. r = [timed EXCEPT !.expected = expects]
    BY <1>8 DEF Timing!Refreshed
  <2>2. expects \in BOOLEAN /\ (expects => stored.status["triggers"])
    BY DEF Timing!Expects
  <2> HIDE DEF expects
  <2>3. /\ r \in TimedRuns /\ Stream(r) /\ Fresh(r) /\ r.phase = timed.phase
        /\ r.closed = timed.closed /\ r.initial = timed.initial /\ r.last = timed.last
        /\ r.expected = expects
    BY <1>1, <2>1, <2>2, RefreshedKeeps
  <2> QED BY <2>2, <2>3
<1>9. CASE Timing!OpenStream
  <2> DEFINE r == Timing!Refreshed(timed)
  <2>1. /\ timed.phase = "reserved" /\ timed' = Timing!Opened(r)
        /\ UNCHANGED <<timing, wire, stored, thread>>
    BY <1>9 DEF Timing!OpenStream
  <2> HIDE DEF r
  <2>2. /\ r \in TimedRuns /\ Stream(r) /\ Fresh(r) /\ r.phase = "reserved"
        /\ r.expected => stored.status["triggers"]
    BY <1>8, <2>1 DEF r
  <2>3. /\ timed' \in TimedRuns /\ Stream(timed')
        /\ timed'.phase = "open" /\ timed'.expected = r.expected
        /\ stored.known => timed'.initial /\ timed'.last = stored.status
    BY <2>1, <2>2, OpenedKeeps
  <2>4. Fresh(timed') /\ Heard' /\ Expecting'
    BY <2>1, <2>2, <2>3 DEF Fresh, Heard, Expecting
  <2> QED BY <1>6, <2>1, <2>3, <2>4
<1>10. CASE Timing!PublishCadence
  <2>1. timed' = Timing!Refreshed(timed) /\ UNCHANGED <<timing, wire, stored, thread>>
    BY <1>10 DEF Timing!PublishCadence
  <2>2. /\ timed' \in TimedRuns /\ Stream(timed') /\ Fresh(timed')
        /\ timed'.phase = timed.phase
        /\ timed'.closed = timed.closed /\ timed'.initial = timed.initial
        /\ timed'.last = timed.last
        /\ timed'.expected => stored.status["triggers"]
    BY <1>8, <2>1
  <2>3. Heard' /\ Expecting'
    BY <2>1, <2>2 DEF Heard, Expecting, Timing!HasStream
  <2> QED BY <1>6, <2>1, <2>2, <2>3
<1>11. CASE Timing!Report
  <2>1. /\ timed' = [timed EXCEPT !.sequence = @ + 1]
        /\ UNCHANGED <<timing, wire, stored, thread>>
    BY <1>11 DEF Timing!Report
  <2>2. /\ timed' \in TimedRuns /\ Stream(timed') /\ Fresh(timed')
        /\ timed'.phase = timed.phase /\ timed'.expected = timed.expected
        /\ timed'.closed = timed.closed /\ timed'.initial = timed.initial
        /\ timed'.last = timed.last
    BY <1>1, <2>1, ReportedKeeps
  <2>3. Heard' /\ Expecting'
    BY <2>1, <2>2 DEF Heard, Expecting, Timing!HasStream
  <2> QED BY <1>6, <2>1, <2>2, <2>3
<1>12. CASE Timing!BeginStop
  <2>1. /\ timed' = [timed EXCEPT !.phase = "finalizing"] /\ timed.phase = "open"
        /\ UNCHANGED <<timing, wire, stored, thread>>
    BY <1>12 DEF Timing!BeginStop
  <2>2. Timing!HasStream(timed) /\ "finalizing" \in Phases \ {"reserved"}
    BY <2>1 DEF Timing!HasStream, Phases
  <2>3. /\ timed' \in TimedRuns /\ Stream(timed') /\ Fresh(timed')
        /\ timed'.phase = "finalizing"
        /\ timed'.closed = timed.closed /\ timed'.initial = timed.initial
        /\ timed'.last = timed.last
    BY <1>1, <2>1, <2>2, PhaseKeeps
  <2>4. Heard' /\ Expecting'
    BY <2>1, <2>2, <2>3 DEF Heard, Expecting, Timing!HasStream
  <2> QED BY <1>6, <2>1, <2>3, <2>4
<1>13. ASSUME Timing!HasStream(timed), UNCHANGED <<timing, wire, stored, thread>>,
              NEW phase \in {"releasing", "gone"}, NEW graph \in BOOLEAN,
              timed' = [Timing!Closed(timed) EXCEPT !.phase = phase, !.graph = graph]
       PROVE  TimingInv'
  <2> DEFINE c == Timing!Closed(timed)
  <2>1. c \in TimedRuns /\ Stream(c) /\ c.closed
    BY <1>1, <1>13, ClosedKeeps
  <2>2. Timing!HasStream(c)
    <3>1. c.phase = timed.phase
      BY <1>1 DEF Timing!Closed, TimedRuns
    <3> QED BY <1>13, <3>1 DEF Timing!HasStream
  <2>3. timed' = [c EXCEPT !.phase = phase, !.graph = graph]
    BY <1>13
  <2> HIDE DEF c
  <2>4. /\ timed'.phase = phase /\ timed'.events = c.events /\ timed'.initial = c.initial
        /\ timed'.last = c.last /\ timed'.sequence = c.sequence
        /\ timed'.closed = c.closed /\ timed' \in TimedRuns
    BY <2>1, <2>3 DEF TimedRuns, Phases
  <2>5. Stream(timed') /\ Fresh(timed')
    BY <2>1, <2>2, <2>4 DEF Stream, Fresh
  <2>6. Heard' /\ Expecting'
    BY <2>1, <2>4 DEF Heard, Expecting
  <2> QED BY <1>6, <1>13, <2>4, <2>5, <2>6
<1>14. CASE Timing!EndStop
  <2>1. PICK graph \in BOOLEAN :
          timed' = [Timing!Closed(timed) EXCEPT !.phase = "releasing", !.graph = graph]
    BY <1>14 DEF Timing!EndStop
  <2>2. Timing!HasStream(timed) /\ UNCHANGED <<timing, wire, stored, thread>>
    BY <1>14 DEF Timing!EndStop, Timing!HasStream
  <2> QED BY <1>13, <2>1, <2>2
<1>15. CASE Timing!Drop
  <2>1. UNCHANGED <<timing, wire, stored, thread>>
    BY <1>15 DEF Timing!Drop
  <2>2. CASE timed.phase = "reserved"
    <3>1. timed' = Timing!Gone
      BY <1>15, <2>2 DEF Timing!Drop
    <3>2. Fresh(timed') /\ Heard' /\ Expecting'
      BY <3>1, ReservedIsEmpty DEF Fresh, Heard, Expecting, Timing!HasStream
    <3> QED BY <1>6, <2>1, <3>1, <3>2, ReservedIsEmpty
  <2>3. CASE timed.phase # "reserved"
    <3>1. /\ timed' = [Timing!Closed(timed) EXCEPT !.phase = "gone"]
          /\ Timing!HasStream(timed)
      BY <1>15, <2>3 DEF Timing!Drop, Timing!HasStream
    <3>2. Timing!Closed(timed) \in TimedRuns
      BY <1>1, <3>1, ClosedKeeps
    <3> DEFINE c == Timing!Closed(timed)
    <3>3. c.graph \in BOOLEAN /\ timed' = [c EXCEPT !.phase = "gone", !.graph = c.graph]
      <4>1. timed' = [c EXCEPT !.phase = "gone"] /\ c \in TimedRuns
        BY <3>1, <3>2
      <4> HIDE DEF c
      <4> QED BY <4>1 DEF TimedRuns
    <3> QED BY <1>13, <2>1, <3>1, <3>3
  <2> QED BY <2>2, <2>3
<1>16. CASE UNCHANGED timingVars
  BY <1>1, <1>16 DEF timingVars, TimingTypes, Handling, Heard, Expecting, Timing!HasStream
<1> QED
  BY <1>2, <1>3, <1>4, <1>5, <1>7, <1>9, <1>10, <1>11, <1>12, <1>14, <1>15, <1>16
  DEF Timing!Next

\* The events tell the timing.
LEMMA TimingTells == TimingInv => Timing!EventsTellTheTiming
<1> SUFFICES ASSUME TimingInv PROVE Timing!EventsTellTheTiming
  OBVIOUS
<1> DEFINE es == timed.events
<1>1. /\ es \in Seq(Told) /\ DOMAIN es = 1..Len(es) /\ Len(es) \in Nat
      /\ Stream(timed)
  BY DEF TimingInv, TimingTypes, TimedRuns
<1>2. ASSUME NEW k \in DOMAIN es
      PROVE  /\ es[k].kind = "start" <=> k = 1
             /\ es[k].kind = "end" => k = Len(es)
             /\ k > 1 => es[k - 1].next <= es[k].next
  BY <1>1, <1>2 DEF Stream, Ordered
<1>3. ASSUME NEW kind \in Timing!Kinds,
             NEW j \in Timing!Places(kind), NEW k \in Timing!Places(kind),
             j < k, Timing!Places(kind) \cap (j + 1)..(k - 1) = {}
      PROVE  es[j].value # es[k].value
  <2>1. /\ j \in 1..Len(es) /\ k \in 1..Len(es) /\ es[j].kind = kind /\ es[k].kind = kind
    BY <1>1 DEF Timing!Places
  <2>2. ASSUME NEW m \in (j + 1)..(k - 1) PROVE es[m].kind # kind
    <3>1. m \in 1..Len(es)
      BY <1>1, <2>1, <2>2
    <3> QED BY <1>1, <1>3, <2>2, <3>1 DEF Timing!Places
  <2>3. Alternate(es, kind)
    BY <1>1 DEF Stream
  <2> HIDE DEF es
  <2> QED BY <1>3, <2>1, <2>2, <2>3 DEF Alternate
<1>4. ASSUME Timing!HasStream(timed), ~timed.closed, stored.known, ~thread.busy,
             NEW kind \in Timing!Kinds
      PROVE  \E last \in Timing!Places(kind) :
               /\ \A k \in Timing!Places(kind) : k <= last
               /\ es[last].value = stored.status[kind]
  <2>1. LastIs(es, kind, stored.status[kind])
    BY <1>1, <1>4 DEF TimingInv, Heard, Stream
  <2>2. PICK last \in 1..Len(es) :
          /\ es[last].kind = kind /\ es[last].value = stored.status[kind]
          /\ \A m \in (last + 1)..Len(es) : es[m].kind # kind
    BY <2>1 DEF LastIs
  <2>3. last \in Timing!Places(kind)
    BY <1>1, <2>2 DEF Timing!Places
  <2>4. ASSUME NEW k \in Timing!Places(kind) PROVE k <= last
    <3>1. k \in 1..Len(es) /\ es[k].kind = kind
      BY <1>1 DEF Timing!Places
    <3> QED BY <1>1, <2>2, <3>1
  <2> QED BY <2>2, <2>3, <2>4
<1>5. timed.phase \in {"reserved", "open"} /\ timed.expected /\ ~thread.busy =>
        stored.status["triggers"]
  BY DEF TimingInv, Expecting
<1> QED BY <1>2, <1>3, <1>4, <1>5 DEF Timing!EventsTellTheTiming

\* The timing events of a run tell the timing received.
THEOREM EventsKeepTellingTheTiming == RecordsSpec => []EventsTellTheTiming
<1>1. RecordsInit => Timing!Init
  BY DEF RecordsInit
<1>2. [RecordsNext]_recordsVars => [Timing!Next]_timingVars
  BY DEF RecordsNext, recordsVars, timingVars
<1> QED
  BY <1>1, <1>2, TimingStarts, TimingKeeps, TimingTells, PTL
  DEF RecordsSpec, EventsTellTheTiming
=============================================================================
