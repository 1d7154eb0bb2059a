------------------------ MODULE ExposureQueue_proofs ------------------------
(***************************************************************************)
(* Proofs about the Exposure Queue, for every bound and every set of       *)
(* faults.                                                                 *)
(***************************************************************************)
EXTENDS ExposureQueue, SequenceTheorems, FiniteSetTheorems, TLAPS

\* The steps of Next one by one.
LEMMA NextSplit ==
  ASSUME Next
  PROVE  \/ Boot \/ RequestLoad \/ CloseReleases \/ ProcessEnds
         \/ CallerCopies \/ CallerPuts \/ RunFinalized
         \/ SaverTakes \/ SaverWrites \/ SaverLoads
         \/ WorkerLooks \/ WorkerReleases \/ WorkerRests \/ StartNext \/ GiveBack
         \/ EnsureLease \/ LeaseGranted \/ SetSettings \/ Prepare \/ PrepareTimesOut
         \/ Pop \/ WorkerCopies \/ WorkerPuts
         \/ Accept \/ Refuse \/ (\E code \in {"STOPPED", "ABORTED"} : RunEnds(code))
         \/ QueueStart \/ AddToQueue
         \/ (\E q \in Lists : SetQueue(q)) \/ (\E q \in Lists : CommitOtherList(q))
         \/ ForeignRunBegins \/ OtherAutomation \/ ReleaseCarriedOut \/ Crash \/ Close
BY DEF Next, MainThread, Callbacks, Saver, Worker, Controller, Operator

-----------------------------------------------------------------------------
(* Types, in five parts. *)

OutsideTyped ==
  /\ disk \in Seq(Items) /\ lease \in {"none", "queue", "other"}
  /\ run \in 0..MaxItems + 1 /\ requests \in Seq(Items)
  /\ finalized \in [run : Nat, code : {"none", "STOPPED", "ABORTED"}]

MemoryTyped ==
  /\ mode \in {"down", "boot", "loading", "up", "releasing", "closing"}
  /\ queue \in Seq(Items)
  /\ leaseOwned \in BOOLEAN /\ pendingAdvance \in BOOLEAN
  /\ pendingRelease \in BOOLEAN /\ lastSeen \in Nat
  /\ ops \in Seq([op : {"save", "load"}, queue : Seq(Items)])

ThreadsTyped ==
  /\ caller \in [pc : {"free", "copy", "put"}, copy : Seq(Items)]
  /\ worker \in [pc : WorkerPlaces, item : 0..MaxItems, copy : Seq(Items)]
  /\ worker.pc \notin {"idle", "second", "yield"} => worker.item \in Items
  /\ saver \in [pc : {"wait", "write"}, queue : Seq(Items)]

HistoryTyped ==
  /\ added \in 0..MaxItems /\ removed \subseteq Items /\ started \in Seq(Items)
  /\ starts \in 0..MaxStarts /\ sets \in 0..MaxSets /\ credit \in Int
  /\ raced \in BOOLEAN /\ faults \subseteq FaultNames

DataTyped == contents \in [Items -> Nat] /\ unanswered \in BOOLEAN

TypeInv == OutsideTyped /\ MemoryTyped /\ ThreadsTyped /\ HistoryTyped /\ DataTyped

LEMMA TypeInvIsTypeOK == TypeInv <=> TypeOK
BY DEF TypeInv, OutsideTyped, MemoryTyped, ThreadsTyped, HistoryTyped, DataTyped, TypeOK

\* A stuttering step changes nothing the invariants speak of.
LEMMA StutterKeepsAll ==
  ASSUME UNCHANGED vars
  PROVE  /\ UNCHANGED <<disk, lease, run, requests, finalized>>
         /\ UNCHANGED <<mode, queue, leaseOwned, unanswered, pendingAdvance, pendingRelease>>
         /\ UNCHANGED <<lastSeen, ops, caller, worker, saver>>
         /\ UNCHANGED <<added, removed, contents, started, starts, sets, credit, raced, faults>>
BY DEF vars, outside, memory, flags, threads, history

LEMMA StutterKeepsTypes ==
  ASSUME TypeInv, UNCHANGED vars
  PROVE  TypeInv'
<1>1. OutsideTyped'
  BY StutterKeepsAll DEF TypeInv, OutsideTyped
<1>2. MemoryTyped'
  BY StutterKeepsAll DEF TypeInv, MemoryTyped
<1>3. ThreadsTyped'
  BY StutterKeepsAll DEF TypeInv, ThreadsTyped
<1>4. HistoryTyped'
  BY StutterKeepsAll DEF TypeInv, HistoryTyped
<1>5. DataTyped'
  BY StutterKeepsAll DEF TypeInv, DataTyped
<1> QED BY <1>1, <1>2, <1>3, <1>4, <1>5 DEF TypeInv

LEMMA ListsAreSequences == \A q \in Lists : q \in Seq(Items) /\ ItemsOf(q) \subseteq Items
<1> SUFFICES ASSUME NEW q \in Lists PROVE q \in Seq(Items) /\ ItemsOf(q) \subseteq Items
  OBVIOUS
<1>1. PICK n \in 0..MaxItems : q \in [1..n -> Items]
  BY DEF Lists
<1>2. n \in Nat
  BY BoundsAssumption
<1>3. q \in Seq(Items)
  BY <1>1, <1>2
<1> QED BY <1>1, <1>3 DEF ItemsOf

LEMMA ItemsOfSequence ==
  ASSUME NEW q \in Seq(Items)
  PROVE  ItemsOf(q) \subseteq Items
BY DEF ItemsOf

LEMMA TypeInit ==
  ASSUME Init
  PROVE  TypeInv
<1>1. MaxItems \in Nat \ {0} /\ MaxStarts \in Nat /\ MaxSets \in Nat
  BY BoundsAssumption
<1>2. added \in 0..MaxItems /\ disk \in Seq(Items)
  <2>1. added \in 0..1 /\ disk = [i \in 1..added |-> i]
    BY DEF Init
  <2>2. added \in Nat /\ 1..added \subseteq Items
    BY <1>1, <2>1 DEF Items
  <2>3. disk \in [1..added -> Items]
    BY <2>1, <2>2
  <2> QED BY <1>1, <2>1, <2>2, <2>3
<1>3. OutsideTyped
  BY <1>1, <1>2 DEF Init, OutsideTyped, NoItem
<1>4. MemoryTyped
  <2>1. ops \in Seq([op : {"save", "load"}, queue : Seq(Items)])
    BY DEF Init
  <2>2. leaseOwned \in BOOLEAN /\ pendingAdvance \in BOOLEAN /\ pendingRelease \in BOOLEAN
    BY Zenon DEF Init
  <2>3. mode = "down" /\ queue \in Seq(Items) /\ lastSeen \in Nat
    BY DEF Init
  <2> QED BY <2>1, <2>2, <2>3, Zenon DEF MemoryTyped
<1>5. ThreadsTyped
  BY <1>1 DEF Init, ThreadsTyped, CallerFree, WorkerIdle, SaverWaits, NoItem, WorkerPlaces
<1>6. HistoryTyped
  <2>1. starts \in 0..MaxStarts /\ sets \in 0..MaxSets /\ credit \in Int
    BY <1>1 DEF Init
  <2>2. removed \subseteq Items /\ started \in Seq(Items) /\ faults \subseteq FaultNames
    BY DEF Init
  <2>3. raced \in BOOLEAN
    BY Zenon DEF Init
  <2> QED BY <1>2, <2>1, <2>2, <2>3, Zenon DEF HistoryTyped
<1>7. DataTyped
  <2>1. contents \in [Items -> Nat]
    BY BoundsAssumption DEF Init, Items
  <2>2. unanswered \in BOOLEAN
    BY Zenon DEF Init
  <2> QED BY <2>1, <2>2 DEF DataTyped
<1> QED BY <1>3, <1>4, <1>5, <1>6, <1>7 DEF TypeInv

LEMMA FaultsChange ==
  ASSUME Next
  PROVE  UNCHANGED faults \/ \E f \in Faults : faults' = faults \cup {f}
<1>1. CASE Boot \/ RequestLoad \/ CloseReleases \/ ProcessEnds
  BY <1>1 DEF Boot, RequestLoad, CloseReleases, ProcessEnds, ReleaseLease, history, Fault,
     NoFault
<1>2. CASE CallerCopies \/ CallerPuts \/ RunFinalized \/ SaverTakes \/ SaverWrites
           \/ SaverLoads
  BY <1>2 DEF CallerCopies, CallerPuts, RunFinalized, SaverTakes, SaverWrites, SaverLoads,
     history, Fault, NoFault
<1>3. CASE WorkerLooks \/ WorkerReleases \/ WorkerRests \/ StartNext \/ GiveBack
           \/ EnsureLease \/ LeaseGranted \/ SetSettings \/ Prepare \/ PrepareTimesOut
           \/ Pop \/ WorkerCopies \/ WorkerPuts
  BY <1>3 DEF WorkerLooks, WorkerReleases, WorkerRests, StartNext, GiveBack, EnsureLease,
     LeaseGranted, SetSettings, Prepare, PrepareTimesOut, Pop, WorkerCopies, WorkerPuts,
     ReleaseLease, history, Fault, NoFault
<1>4. CASE Accept \/ Refuse \/ (\E code \in {"STOPPED", "ABORTED"} : RunEnds(code))
           \/ ForeignRunBegins \/ OtherAutomation \/ ReleaseCarriedOut \/ Crash \/ Close
  BY <1>4 DEF Accept, Refuse, RunEnds, ForeignRunBegins, OtherAutomation,
     ReleaseCarriedOut, Crash, Close,
     history, Fault, NoFault
<1>5. CASE QueueStart \/ AddToQueue \/ (\E q \in Lists : SetQueue(q))
           \/ (\E q \in Lists : CommitOtherList(q))
  BY <1>5 DEF QueueStart, AddToQueue, SetQueue, CommitOtherList, Called, Replace, Fault,
     NoFault
<1> QED BY <1>1, <1>2, <1>3, <1>4, <1>5, NextSplit

LEMMA FaultsTyped ==
  ASSUME TypeInv, Next
  PROVE  faults \subseteq faults' /\ faults' \subseteq FaultNames
<1>1. faults \subseteq FaultNames /\ Faults \subseteq FaultNames
  BY BoundsAssumption DEF TypeInv, HistoryTyped
<1> QED BY <1>1, FaultsChange

\* The first request answered, the others stay.
LEMMA Answered ==
  ASSUME TypeInv, NEW place, Answer(place)
  PROVE  Head(requests) \in Items /\ requests' \in Seq(Items)
BY DEF TypeInv, OutsideTyped, Answer

LEMMA OutsideStep ==
  ASSUME TypeInv, Next
  PROVE  OutsideTyped'
<1>0. OutsideTyped /\ MaxItems \in Nat
  BY BoundsAssumption DEF TypeInv
<1>1. CASE Boot \/ RequestLoad \/ CallerCopies \/ CallerPuts \/ RunFinalized \/ SaverLoads
           \/ WorkerPuts \/ Crash \/ Close \/ ProcessEnds \/ QueueStart \/ AddToQueue
  BY <1>0, <1>1 DEF Boot, RequestLoad, CallerCopies, CallerPuts, RunFinalized, SaverLoads,
     WorkerPuts, Crash, Close, ProcessEnds, QueueStart, AddToQueue, outside, OutsideTyped
<1>2. CASE (\E q \in Lists : SetQueue(q)) \/ (\E q \in Lists : CommitOtherList(q))
  BY <1>0, <1>2 DEF SetQueue, CommitOtherList, Replace, outside, OutsideTyped
<1>3. CASE CloseReleases \/ WorkerReleases \/ GiveBack
  BY <1>0, <1>3 DEF CloseReleases, WorkerReleases, GiveBack, WorkerOnly, ReleaseLease,
     OutsideTyped
<1>4. CASE WorkerLooks \/ WorkerRests \/ StartNext \/ SetSettings \/ PrepareTimesOut \/ Pop
           \/ WorkerCopies \/ EnsureLease \/ LeaseGranted
  BY <1>0, <1>4 DEF WorkerLooks, WorkerRests, StartNext, SetSettings, PrepareTimesOut, Pop,
     WorkerCopies, EnsureLease, LeaseGranted, WorkerOnly, KeepsLease, OutsideTyped
<1>5. CASE Prepare
  <2>1. worker.item \in Items
    BY <1>5 DEF TypeInv, ThreadsTyped, Prepare, At
  <2> QED BY <1>0, <1>5, <2>1 DEF Prepare, WorkerOnly, KeepsLease, OutsideTyped
<1>6. CASE SaverTakes
  <2>1. disk' \in {disk, << >>}
    BY <1>6 DEF SaverTakes
  <2>2. UNCHANGED <<lease, run, requests, finalized>>
    BY <1>6 DEF SaverTakes
  <2>3. disk' \in Seq(Items)
    <3>1. disk \in Seq(Items) /\ << >> \in Seq(Items)
      BY <1>0 DEF OutsideTyped
    <3> QED BY <2>1, <3>1
  <2> QED BY <1>0, <2>2, <2>3 DEF OutsideTyped
<1>7. CASE SaverWrites
  BY <1>0, <1>7 DEF SaverWrites, TypeInv, ThreadsTyped, OutsideTyped
<1>8. CASE Accept
  BY <1>0, <1>8, Answered DEF Accept, Unheard, OutsideTyped, Items
<1>9. CASE Refuse
  BY <1>0, <1>9, Answered DEF Refuse, Unheard, OutsideTyped
<1>10. CASE ForeignRunBegins \/ OtherAutomation \/ ReleaseCarriedOut
  BY <1>0, <1>10 DEF ForeignRunBegins, OtherAutomation, ReleaseCarriedOut, Unheard,
     OutsideTyped, ForeignRun
<1>11. CASE \E code \in {"STOPPED", "ABORTED"} : RunEnds(code)
  BY <1>0, <1>11 DEF RunEnds, OutsideTyped, NoItem
<1> QED BY <1>1, <1>2, <1>3, <1>4, <1>5, <1>6, <1>7, <1>8, <1>9, <1>10, <1>11, NextSplit

LEMMA MemoryStep ==
  ASSUME TypeInv, Next
  PROVE  MemoryTyped'
<1>0. MemoryTyped
  BY DEF TypeInv
<1>1. CASE Boot \/ WorkerLooks \/ WorkerRests \/ SetSettings \/ Prepare
           \/ PrepareTimesOut \/ WorkerCopies \/ EnsureLease \/ CallerCopies \/ SaverWrites
           \/ (\E code \in {"STOPPED", "ABORTED"} : RunEnds(code))
           \/ Accept \/ Refuse \/ ForeignRunBegins \/ OtherAutomation
           \/ ReleaseCarriedOut \/ Close
  <2>1. /\ UNCHANGED <<queue, leaseOwned, pendingAdvance, pendingRelease, lastSeen, ops>>
        /\ mode' \in {mode, "boot", "releasing", "closing"}
    BY <1>1 DEF Boot, WorkerLooks, WorkerRests, SetSettings, Prepare, PrepareTimesOut,
       WorkerCopies, EnsureLease, CallerCopies, SaverWrites, RunEnds, Accept, Refuse,
       ForeignRunBegins, OtherAutomation, ReleaseCarriedOut, Close, WorkerOnly,
       KeepsLease, Unheard, memory,
       flags
  <2> QED BY <1>0, <2>1 DEF MemoryTyped
<1>2. CASE Crash \/ ProcessEnds
  <2>1. /\ mode' = "down" /\ queue' = << >> /\ ops' = << >> /\ lastSeen' = 0
        /\ leaseOwned' = FALSE /\ pendingAdvance' = FALSE /\ pendingRelease' = FALSE
    BY <1>2 DEF Crash, ProcessEnds, Forget
  <2>2. queue' \in Seq(Items) /\ ops' \in Seq([op : {"save", "load"}, queue : Seq(Items)])
        /\ lastSeen' \in Nat
    BY <2>1
  <2> QED BY <2>1, <2>2, Zenon DEF MemoryTyped
<1>3. CASE CloseReleases \/ WorkerReleases \/ GiveBack \/ LeaseGranted \/ StartNext
  <2>1. /\ UNCHANGED <<queue, lastSeen, ops>> /\ mode' \in {mode, "closing"}
        /\ leaseOwned' \in {leaseOwned, TRUE, FALSE}
        /\ pendingAdvance' \in {pendingAdvance, FALSE}
        /\ pendingRelease' \in {pendingRelease, FALSE}
    BY <1>3 DEF CloseReleases, WorkerReleases, GiveBack, LeaseGranted, StartNext, WorkerOnly,
       KeepsLease, ReleaseLease, flags
  <2> QED BY <1>0, <2>1 DEF MemoryTyped
<1>4. CASE RequestLoad \/ CallerPuts \/ WorkerPuts
  <2>1. \E o \in [op : {"save", "load"}, queue : Seq(Items)] : ops' = Append(ops, o)
    <3>1. Load \in [op : {"save", "load"}, queue : Seq(Items)]
      BY DEF Load
    <3>2. \A q \in Seq(Items) : Save(q) \in [op : {"save", "load"}, queue : Seq(Items)]
      BY DEF Save
    <3>3. caller.copy \in Seq(Items) /\ worker.copy \in Seq(Items)
      BY DEF TypeInv, ThreadsTyped
    <3> QED BY <1>4, <3>1, <3>2, <3>3 DEF RequestLoad, CallerPuts, WorkerPuts
  <2>2. ops' \in Seq([op : {"save", "load"}, queue : Seq(Items)])
    BY <1>0, <2>1 DEF MemoryTyped
  <2>3. UNCHANGED <<queue, leaseOwned, flags>> /\ mode' \in {mode, "loading"}
    BY <1>4 DEF RequestLoad, CallerPuts, WorkerPuts
  <2> QED BY <1>0, <2>2, <2>3 DEF MemoryTyped, flags
<1>5. CASE RunFinalized
  <2>1. /\ UNCHANGED <<mode, queue, leaseOwned, ops>>
        /\ pendingAdvance' \in {pendingAdvance, TRUE}
        /\ pendingRelease' \in {pendingRelease, TRUE}
        /\ lastSeen' = finalized.run
    BY <1>5 DEF RunFinalized
  <2>2. finalized.run \in Nat
    BY DEF TypeInv, OutsideTyped
  <2> QED BY <1>0, <2>1, <2>2 DEF MemoryTyped
<1>6. CASE QueueStart
  <2>1. UNCHANGED <<mode, queue, leaseOwned, pendingRelease, lastSeen, ops>> /\ pendingAdvance'
    BY <1>6 DEF QueueStart
  <2> QED BY <1>0, <2>1 DEF MemoryTyped
<1>7. CASE AddToQueue
  <2>1. added + 1 \in Items
    BY <1>7, BoundsAssumption DEF AddToQueue, TypeInv, HistoryTyped, Items
  <2>2. queue' = Append(queue, added + 1) /\ UNCHANGED <<mode, leaseOwned, flags, ops>>
    BY <1>7 DEF AddToQueue
  <2>3. queue' \in Seq(Items)
    BY <1>0, <2>1, <2>2 DEF MemoryTyped
  <2> QED BY <1>0, <2>2, <2>3 DEF MemoryTyped, flags
<1>8. CASE (\E q \in Lists : SetQueue(q)) \/ (\E q \in Lists : CommitOtherList(q))
  <2>1. PICK q \in Lists : Replace(q)
    BY <1>8 DEF SetQueue, CommitOtherList
  <2>2. /\ UNCHANGED <<mode, leaseOwned, pendingAdvance, lastSeen, ops>> /\ queue' = q
        /\ pendingRelease' \in BOOLEAN
    BY <2>1 DEF Replace
  <2>3. queue' \in Seq(Items)
    BY <2>2, ListsAreSequences
  <2> QED BY <1>0, <2>2, <2>3 DEF MemoryTyped
<1>9. CASE SaverTakes
  <2>1. PICK n \in 1..Len(ops) :
          LET rest == SubSeq(ops, n + 1, Len(ops)) IN
            \/ ops' = << >>
            \/ rest # << >> /\ ops' = Append(Tail(rest), Head(rest))
    BY <1>9 DEF SaverTakes
  <2> DEFINE Op == [op : {"save", "load"}, queue : Seq(Items)]
             rest == SubSeq(ops, n + 1, Len(ops))
  <2>2. ops' \in Seq(Op)
    <3>1. ops \in Seq(Op) /\ n \in Nat
      BY <1>0 DEF MemoryTyped
    <3> HIDE DEF Op
    <3>2. rest \in Seq(Op)
      <4>1. \A i \in n + 1..Len(ops) : ops[i] \in Op
        BY <3>1
      <4>2. n + 1 \in Int /\ Len(ops) \in Int
        BY <3>1
      <4> QED BY <3>1, <4>1, <4>2, SubSeqProperties
    <3> HIDE DEF rest
    <3>3. rest # << >> => Append(Tail(rest), Head(rest)) \in Seq(Op)
      BY <3>2
    <3>4. << >> \in Seq(Op)
      OBVIOUS
    <3> QED BY <2>1, <3>3, <3>4 DEF rest
  <2>3. UNCHANGED <<mode, queue, leaseOwned, flags>>
    BY <1>9 DEF SaverTakes
  <2> QED BY <1>0, <2>2, <2>3 DEF MemoryTyped, flags
<1>10. CASE SaverLoads
  <2>1. /\ queue' \in {disk, queue} /\ mode' = "up" /\ UNCHANGED <<leaseOwned, flags>>
        /\ ops # << >> /\ ops' = Tail(ops)
    BY <1>10 DEF SaverLoads
  <2>2. ops' \in Seq([op : {"save", "load"}, queue : Seq(Items)])
    BY <1>0, <2>1 DEF MemoryTyped
  <2>3. queue' \in Seq(Items)
    BY <1>0, <2>1 DEF MemoryTyped, TypeInv, OutsideTyped
  <2> QED BY <1>0, <2>1, <2>2, <2>3 DEF MemoryTyped, flags
<1>11. CASE Pop
  <2>1. queue' \in Seq(Items)
    <3>1. queue \in Seq(Items) /\ (queue # << >> => Tail(queue) \in Seq(Items))
      BY <1>0 DEF MemoryTyped
    <3> QED BY <1>11, <3>1 DEF Pop, PopStarted
  <2>2. UNCHANGED <<mode, leaseOwned, flags, ops>>
    BY <1>11 DEF Pop, KeepsLease
  <2> QED BY <1>0, <2>1, <2>2 DEF MemoryTyped, flags
<1> QED BY <1>1, <1>2, <1>3, <1>4, <1>5, <1>6, <1>7, <1>8, <1>9, <1>10, <1>11, NextSplit

CallerType == [pc : {"free", "copy", "put"}, copy : Seq(Items)]

WorkerType == [pc : WorkerPlaces, item : 0..MaxItems, copy : Seq(Items)]

SaverType == [pc : {"wait", "write"}, queue : Seq(Items)]

LEMMA ThreadsAtRest ==
  CallerFree \in CallerType /\ WorkerIdle \in WorkerType /\ SaverWaits \in SaverType
<1>1. << >> \in Seq(Items) /\ 0 \in 0..MaxItems
  BY BoundsAssumption
<1> QED BY <1>1 DEF CallerFree, WorkerIdle, SaverWaits, CallerType, WorkerType, SaverType,
        WorkerPlaces, NoItem

LEMMA NextItemTyped ==
  ASSUME TypeInv
  PROVE  NextItem \in WorkerType /\ (NextItem.pc # "yield" => NextItem.item \in Items)
<1>1. << >> \in Seq(Items) /\ 0 \in 0..MaxItems
  BY BoundsAssumption
<1>2. CASE queue = << >>
  BY <1>1, <1>2 DEF NextItem, WorkerIdle, WorkerType, WorkerPlaces, NoItem
<1>3. CASE queue # << >>
  <2>1. Head(queue) \in Items /\ Head(queue) \in 0..MaxItems
    BY <1>3, BoundsAssumption DEF TypeInv, MemoryTyped, Items
  <2>2. NextItem = [pc |-> "lease", item |-> Head(queue), copy |-> << >>]
    BY <1>3 DEF NextItem, WorkerIdle
  <2> QED BY <1>1, <2>1, <2>2 DEF WorkerType, WorkerPlaces
<1> QED BY <1>2, <1>3

LEMMA ThreadsStep ==
  ASSUME TypeInv, Next
  PROVE  ThreadsTyped'
<1>0. /\ caller \in CallerType /\ worker \in WorkerType /\ saver \in SaverType
      /\ worker.pc \notin {"idle", "second", "yield"} => worker.item \in Items
      /\ queue \in Seq(Items)
      /\ ops \in Seq([op : {"save", "load"}, queue : Seq(Items)])
  BY DEF TypeInv, MemoryTyped, ThreadsTyped, CallerType, WorkerType, SaverType
<1> SUFFICES /\ caller' \in CallerType /\ worker' \in WorkerType /\ saver' \in SaverType
             /\ worker'.pc \notin {"idle", "second", "yield"} => worker'.item \in Items
  BY DEF ThreadsTyped, CallerType, WorkerType, SaverType
<1>r. WorkerIdle.pc = "idle"
  BY DEF WorkerIdle
<1>g. \A place \in WorkerPlaces :
        /\ [worker EXCEPT !.pc = place] \in WorkerType
        /\ [worker EXCEPT !.pc = place].pc = place
        /\ [worker EXCEPT !.pc = place].item = worker.item
  BY <1>0 DEF WorkerType
<1>1. CASE Boot \/ RequestLoad \/ CloseReleases \/ Close \/ RunFinalized \/ SaverLoads
           \/ QueueStart \/ ForeignRunBegins \/ OtherAutomation \/ ReleaseCarriedOut
           \/ (\E code \in {"STOPPED", "ABORTED"} : RunEnds(code))
  <2>1. UNCHANGED threads
    BY <1>1 DEF Boot, RequestLoad, CloseReleases, Close, RunFinalized, SaverLoads,
       QueueStart, ForeignRunBegins, OtherAutomation, ReleaseCarriedOut, RunEnds,
       Unheard, threads
  <2> QED BY <1>0, <2>1 DEF threads
<1>2. CASE Crash \/ ProcessEnds
  <2>1. caller' = CallerFree /\ worker' = WorkerIdle /\ saver' = SaverWaits
    BY <1>2 DEF Crash, ProcessEnds, Forget
  <2> QED BY <1>r, <2>1, ThreadsAtRest
<1>3. CASE CallerCopies \/ CallerPuts \/ AddToQueue \/ (\E q \in Lists : SetQueue(q))
           \/ (\E q \in Lists : CommitOtherList(q))
  <2>1. /\ UNCHANGED <<worker, saver>>
        /\ caller' \in {[pc |-> "put", copy |-> queue], CallerFree,
                        [caller EXCEPT !.pc = "copy"]}
    BY <1>3 DEF CallerCopies, CallerPuts, AddToQueue, SetQueue, CommitOtherList, Replace
  <2>2. /\ [pc |-> "put", copy |-> queue] \in CallerType
        /\ [caller EXCEPT !.pc = "copy"] \in CallerType
    BY <1>0 DEF CallerType
  <2> QED BY <1>0, <2>1, <2>2, ThreadsAtRest
<1>4. CASE SaverTakes \/ SaverWrites
  <2>1. /\ UNCHANGED <<caller, worker>>
        /\ \/ saver' = saver \/ saver' = SaverWaits
           \/ \E n \in 1..Len(ops) : saver' = [pc |-> "write", queue |-> ops[n].queue]
    BY <1>4 DEF SaverTakes, SaverWrites, Merged
  <2>2. ASSUME NEW n \in 1..Len(ops)
        PROVE  [pc |-> "write", queue |-> ops[n].queue] \in SaverType
    <3>1. ops[n] \in [op : {"save", "load"}, queue : Seq(Items)]
      <4> DEFINE Op == [op : {"save", "load"}, queue : Seq(Items)]
      <4>1. ops \in Seq(Op)
        BY <1>0
      <4> HIDE DEF Op
      <4>2. ops[n] \in Op
        BY <4>1
      <4> QED BY <4>2 DEF Op
    <3> QED BY <3>1 DEF SaverType
  <2> QED BY <1>0, <2>1, <2>2, ThreadsAtRest
<1>5. CASE StartNext
  BY <1>0, <1>5, NextItemTyped DEF StartNext, WorkerOnly
<1>6. CASE GiveBack \/ WorkerPuts
  BY <1>0, <1>6, <1>r, ThreadsAtRest DEF GiveBack, WorkerPuts, WorkerOnly
<1>w. ASSUME NEW place, GoTo(place), place \in WorkerPlaces,
             place \notin {"idle", "second"} => worker.pc \notin {"idle", "second", "yield"}
      PROVE  /\ worker' \in WorkerType
             /\ worker'.pc \notin {"idle", "second", "yield"} => worker'.item \in Items
  BY <1>0, <1>g, <1>w DEF GoTo
<1>7. CASE WorkerLooks \/ WorkerReleases \/ WorkerRests \/ LeaseGranted \/ SetSettings
           \/ Prepare \/ PrepareTimesOut \/ Pop
  <2>1. UNCHANGED <<caller, saver>>
    BY <1>7 DEF WorkerLooks, WorkerReleases, WorkerRests, LeaseGranted, SetSettings, Prepare,
       PrepareTimesOut, Pop, WorkerOnly
  <2>2. \/ GoTo("idle") \/ GoTo("second")
        \/ /\ worker.pc \in {"granted", "settings", "prepare", "await", "pop"}
           /\ \E place \in {"settings", "prepare", "giveback", "await", "copy"} : GoTo(place)
    BY <1>7 DEF WorkerLooks, WorkerReleases, WorkerRests, LeaseGranted, SetSettings, Prepare,
       PrepareTimesOut, Pop, At
  <2>3. {"idle", "second", "settings", "prepare", "giveback", "await", "copy"}
          \subseteq WorkerPlaces
    BY DEF WorkerPlaces
  <2> QED BY <1>0, <1>w, <2>1, <2>2, <2>3
<1>8. CASE WorkerCopies
  BY <1>0, <1>8 DEF WorkerCopies, At, WorkerOnly, WorkerPlaces, WorkerType
<1>9. CASE EnsureLease
  <2>1. /\ UNCHANGED <<caller, saver>> /\ At("lease")
        /\ GoTo("settings") \/ GoTo("granted") \/ worker' = WorkerIdle
    BY <1>9 DEF EnsureLease, WorkerOnly
  <2>2. "settings" \in WorkerPlaces /\ "granted" \in WorkerPlaces
    BY DEF WorkerPlaces
  <2> QED BY <1>0, <1>r, <1>w, <2>1, <2>2, ThreadsAtRest DEF At
<1>10. CASE Accept \/ Refuse
  <2>1. /\ UNCHANGED <<caller, saver>>
        /\ \/ UNCHANGED worker
           \/ At("await") /\ (GoTo("pop") \/ GoTo("giveback"))
    BY <1>10 DEF Accept, Refuse, Answer, Unheard
  <2>2. "pop" \in WorkerPlaces /\ "giveback" \in WorkerPlaces
    BY DEF WorkerPlaces
  <2> QED BY <1>0, <1>w, <2>1, <2>2 DEF At
<1> QED BY <1>1, <1>2, <1>3, <1>4, <1>5, <1>6, <1>7, <1>8, <1>9, <1>10, NextSplit

\* Only the controller's acceptance prepares a run.
LEMMA StartedByAccept ==
  ASSUME Next, ~Accept
  PROVE  UNCHANGED started
<1>1. CASE Boot \/ RequestLoad \/ CloseReleases \/ ProcessEnds \/ CallerCopies \/ CallerPuts
           \/ RunFinalized \/ SaverTakes \/ SaverWrites \/ SaverLoads \/ Crash \/ Close
           \/ QueueStart \/ AddToQueue \/ (\E q \in Lists : SetQueue(q))
           \/ (\E q \in Lists : CommitOtherList(q))
  BY <1>1 DEF Boot, RequestLoad, CloseReleases, ProcessEnds, CallerCopies, CallerPuts,
     RunFinalized, SaverTakes, SaverWrites, SaverLoads, Crash, Close, QueueStart,
     AddToQueue, SetQueue, CommitOtherList, Replace, history
<1>2. CASE WorkerLooks \/ WorkerReleases \/ WorkerRests \/ StartNext \/ GiveBack
           \/ EnsureLease \/ LeaseGranted \/ SetSettings \/ Prepare \/ PrepareTimesOut
           \/ Pop \/ WorkerCopies \/ WorkerPuts
  BY <1>2 DEF WorkerLooks, WorkerReleases, WorkerRests, StartNext, GiveBack, EnsureLease,
     LeaseGranted, SetSettings, Prepare, PrepareTimesOut, Pop, WorkerCopies, WorkerPuts,
     WorkerOnly, history
<1>3. CASE Refuse \/ (\E code \in {"STOPPED", "ABORTED"} : RunEnds(code))
           \/ ForeignRunBegins \/ OtherAutomation \/ ReleaseCarriedOut
  BY <1>3 DEF Refuse, RunEnds, ForeignRunBegins, OtherAutomation, ReleaseCarriedOut,
     history
<1> QED BY <1>1, <1>2, <1>3, NextSplit

LEMMA HistoryStep ==
  ASSUME TypeInv, Next
  PROVE  HistoryTyped'
<1>0. /\ HistoryTyped /\ MaxItems \in Nat /\ MaxStarts \in Nat /\ MaxSets \in Nat
      /\ queue \in Seq(Items)
  BY BoundsAssumption DEF TypeInv, MemoryTyped
<1>1. faults' \subseteq FaultNames
  BY FaultsTyped
<1>2. added' \in 0..MaxItems /\ removed' \subseteq Items /\ sets' \in 0..MaxSets
  <2>1. CASE AddToQueue
    BY <1>0, <2>1 DEF AddToQueue, HistoryTyped
  <2>2. CASE (\E q \in Lists : SetQueue(q)) \/ (\E q \in Lists : CommitOtherList(q))
    <3>1. PICK q \in Lists : Replace(q)
      BY <2>2 DEF SetQueue, CommitOtherList
    <3>2. added' = added \/ (added < MaxItems /\ added' = added + 1)
      BY <2>2 DEF SetQueue, CommitOtherList
    <3> QED BY <1>0, <3>1, <3>2, ItemsOfSequence DEF Replace, HistoryTyped
  <2>3. CASE ~AddToQueue /\ ~(\E q \in Lists : SetQueue(q))
             /\ ~(\E q \in Lists : CommitOtherList(q))
    <3>1. UNCHANGED <<added, removed, sets>>
      <4>1. CASE Boot \/ RequestLoad \/ CloseReleases \/ ProcessEnds \/ CallerCopies
                 \/ CallerPuts \/ RunFinalized \/ SaverTakes \/ SaverWrites \/ SaverLoads
                 \/ Crash \/ Close \/ QueueStart
        BY <4>1 DEF Boot, RequestLoad, CloseReleases, ProcessEnds, CallerCopies, CallerPuts,
           RunFinalized, SaverTakes, SaverWrites, SaverLoads, Crash, Close, QueueStart,
           history
      <4>2. CASE WorkerLooks \/ WorkerReleases \/ WorkerRests \/ StartNext \/ GiveBack
                 \/ EnsureLease \/ LeaseGranted \/ SetSettings \/ Prepare
                 \/ PrepareTimesOut \/ Pop \/ WorkerCopies \/ WorkerPuts
        BY <4>2 DEF WorkerLooks, WorkerReleases, WorkerRests, StartNext, GiveBack,
           EnsureLease, LeaseGranted, SetSettings, Prepare, PrepareTimesOut, Pop,
           WorkerCopies, WorkerPuts, WorkerOnly, history
      <4>3. CASE Accept \/ Refuse \/ (\E code \in {"STOPPED", "ABORTED"} : RunEnds(code))
                 \/ ForeignRunBegins \/ OtherAutomation \/ ReleaseCarriedOut
        BY <4>3 DEF Accept, Refuse, RunEnds, ForeignRunBegins, OtherAutomation,
           ReleaseCarriedOut, Unheard,
           history
      <4> QED BY <2>3, <4>1, <4>2, <4>3, NextSplit
    <3> QED BY <1>0, <3>1 DEF HistoryTyped
  <2> QED BY <2>1, <2>2, <2>3
<1>3. started' \in Seq(Items)
  <2>1. CASE Accept
    BY <1>0, <2>1, Answered DEF Accept, HistoryTyped
  <2>2. CASE ~Accept
    BY <1>0, <2>2, StartedByAccept DEF HistoryTyped
  <2> QED BY <2>1, <2>2
<1>4. starts' \in 0..MaxStarts /\ credit' \in Int /\ raced' \in BOOLEAN
  <2>1. CASE QueueStart
    BY <1>0, <2>1 DEF QueueStart, HistoryTyped
  <2>2. CASE Boot \/ RequestLoad \/ CloseReleases \/ CallerPuts \/ SaverTakes \/ SaverWrites
             \/ Close \/ AddToQueue \/ (\E q \in Lists : SetQueue(q))
             \/ (\E q \in Lists : CommitOtherList(q))
    BY <1>0, <2>2 DEF Boot, RequestLoad, CloseReleases, CallerPuts, SaverTakes, SaverWrites,
       Close, AddToQueue, SetQueue, CommitOtherList, Replace, history, HistoryTyped
  <2>3. CASE Crash \/ ProcessEnds
    BY <1>0, <2>3 DEF Crash, ProcessEnds, Forget, HistoryTyped
  <2>4. CASE CallerCopies \/ WorkerCopies \/ SaverLoads
    <3>1. UNCHANGED <<starts, credit>> /\ raced' \in BOOLEAN
      BY <1>0, <2>4 DEF CallerCopies, WorkerCopies, SaverLoads, WorkerOnly, HistoryTyped
    <3> QED BY <1>0, <3>1 DEF HistoryTyped
  <2>5. CASE RunFinalized \/ Prepare
    BY <1>0, <2>5 DEF RunFinalized, Prepare, WorkerOnly, HistoryTyped
  <2>6. CASE WorkerLooks \/ WorkerReleases \/ WorkerRests \/ StartNext \/ GiveBack
             \/ EnsureLease \/ LeaseGranted \/ SetSettings \/ PrepareTimesOut \/ Pop
             \/ WorkerPuts
    BY <1>0, <2>6 DEF WorkerLooks, WorkerReleases, WorkerRests, StartNext, GiveBack,
       EnsureLease, LeaseGranted, SetSettings, PrepareTimesOut, Pop, WorkerPuts, WorkerOnly,
       history, HistoryTyped
  <2>7. CASE Accept \/ Refuse \/ (\E code \in {"STOPPED", "ABORTED"} : RunEnds(code))
             \/ ForeignRunBegins \/ OtherAutomation \/ ReleaseCarriedOut
    BY <1>0, <2>7 DEF Accept, Refuse, RunEnds, ForeignRunBegins, OtherAutomation,
       ReleaseCarriedOut, Unheard,
       history, HistoryTyped
  <2> QED BY <2>1, <2>2, <2>3, <2>4, <2>5, <2>6, <2>7, NextSplit
<1> QED BY <1>1, <1>2, <1>3, <1>4 DEF HistoryTyped

\* Items keep what they hold, and only lease calls and restarts touch the mark of
\* an unanswered release.
LEMMA DataStep ==
  ASSUME TypeInv, Next
  PROVE  UNCHANGED contents /\ unanswered' \in BOOLEAN /\ DataTyped'
<1>0. contents \in [Items -> Nat] /\ unanswered \in BOOLEAN
  BY DEF TypeInv, DataTyped
<1> SUFFICES UNCHANGED contents /\ unanswered' \in BOOLEAN
  BY <1>0 DEF DataTyped
<1>1. CASE Boot \/ RequestLoad \/ Close \/ CallerCopies \/ CallerPuts \/ RunFinalized
           \/ SaverTakes \/ SaverWrites \/ SaverLoads \/ QueueStart \/ AddToQueue
           \/ (\E q \in Lists : SetQueue(q)) \/ (\E q \in Lists : CommitOtherList(q))
  <2>1. UNCHANGED <<contents, unanswered>>
    BY <1>1 DEF Boot, RequestLoad, Close, CallerCopies, CallerPuts, RunFinalized,
       SaverTakes, SaverWrites, SaverLoads, QueueStart, AddToQueue, SetQueue,
       CommitOtherList, Replace, memory, history
  <2> QED BY <1>0, <2>1
<1>2. CASE Crash \/ ProcessEnds
  <2>1. UNCHANGED contents /\ unanswered' = FALSE
    BY <1>2 DEF Crash, ProcessEnds, Forget
  <2> QED BY <2>1
<1>3. CASE CloseReleases \/ WorkerReleases \/ GiveBack
  <2>1. UNCHANGED contents /\ ReleaseLease
    BY <1>3 DEF CloseReleases, WorkerReleases, GiveBack, WorkerOnly
  <2>2. UNCHANGED unanswered \/ unanswered' = FALSE \/ unanswered' \in BOOLEAN
    BY <2>1 DEF ReleaseLease
  <2> QED BY <1>0, <2>1, <2>2
<1>4. CASE WorkerLooks \/ WorkerRests \/ StartNext \/ EnsureLease \/ LeaseGranted
           \/ SetSettings \/ Prepare \/ PrepareTimesOut \/ Pop \/ WorkerCopies
           \/ WorkerPuts
  <2>1. UNCHANGED <<contents, unanswered>>
    BY <1>4 DEF WorkerLooks, WorkerRests, StartNext, EnsureLease, LeaseGranted,
       SetSettings, Prepare, PrepareTimesOut, Pop, WorkerCopies, WorkerPuts, WorkerOnly,
       KeepsLease, history
  <2> QED BY <1>0, <2>1
<1>5. CASE Accept \/ Refuse \/ (\E code \in {"STOPPED", "ABORTED"} : RunEnds(code))
           \/ ForeignRunBegins \/ OtherAutomation \/ ReleaseCarriedOut
  <2>1. UNCHANGED <<contents, unanswered>>
    BY <1>5 DEF Accept, Refuse, RunEnds, ForeignRunBegins, OtherAutomation,
       ReleaseCarriedOut, Unheard, memory, history
  <2> QED BY <1>0, <2>1
<1> QED BY <1>1, <1>2, <1>3, <1>4, <1>5, NextSplit

\* The variables of the queue keep their types, and a start that is under way
\* is about an item: experiment_sequencer.py, all threads.
THEOREM QueueTypes == Spec => []TypeOK
<1>1. Init => TypeInv
  BY TypeInit
<1>2. TypeInv /\ [Next]_vars => TypeInv'
  <2> SUFFICES ASSUME TypeInv, [Next]_vars PROVE TypeInv'
    OBVIOUS
  <2>1. CASE Next
    BY <2>1, OutsideStep, MemoryStep, ThreadsStep, HistoryStep, DataStep DEF TypeInv
  <2>2. CASE UNCHANGED vars
    BY <2>2, StutterKeepsTypes
  <2> QED BY <2>1, <2>2
<1> QED BY <1>1, <1>2, TypeInvIsTypeOK, PTL DEF Spec

-----------------------------------------------------------------------------
(* Requests and attempts.  A flag that is set and an attempt that is under  *)
(* way each stand for a request that was not yet used up.                   *)

Starting == worker.pc \in {"lease", "granted", "settings", "prepare"}

CreditInv ==
  /\ credit >= 0
  /\ pendingAdvance \/ Starting => credit >= 1
  /\ pendingAdvance /\ Starting => credit >= 2

LEMMA CreditStep ==
  ASSUME TypeInv, CreditInv, Next
  PROVE  CreditInv'
<1>0. /\ credit \in Int /\ worker \in WorkerType /\ WorkerIdle \in WorkerType
      /\ WorkerIdle.pc = "idle"
  BY ThreadsAtRest DEF TypeInv, HistoryTyped, ThreadsTyped, WorkerType, WorkerIdle
<1>w. ASSUME NEW place, GoTo(place) PROVE worker'.pc = place
  BY <1>0, <1>w DEF GoTo, WorkerType
<1>1. CASE UNCHANGED <<credit, pendingAdvance>> /\ (Starting' => Starting)
  BY <1>1 DEF CreditInv
<1>2. CASE Crash \/ ProcessEnds
  <2>1. credit' = 0 /\ pendingAdvance' = FALSE /\ worker' = WorkerIdle
    BY <1>2 DEF Crash, ProcessEnds, Forget
  <2> QED BY <1>0, <2>1 DEF CreditInv, Starting
<1>3. CASE QueueStart \/ RunFinalized
  <2>1. UNCHANGED worker
    BY <1>3 DEF QueueStart, RunFinalized, threads
  <2>2. CASE QueueStart
    BY <1>0, <2>1, <2>2 DEF QueueStart, CreditInv, Starting
  <2>3. CASE RunFinalized /\ finalized.code = "STOPPED"
    BY <1>0, <2>1, <2>3 DEF RunFinalized, CreditInv, Starting
  <2>4. CASE RunFinalized /\ finalized.code # "STOPPED"
    BY <1>0, <2>1, <2>4 DEF RunFinalized, Advances, CreditInv, Starting
  <2> QED BY <1>3, <2>2, <2>3, <2>4
<1>4. CASE StartNext
  <2>1. pendingAdvance /\ pendingAdvance' = FALSE /\ credit' = credit /\ ~Starting
    BY <1>4 DEF StartNext, At, Starting
  <2> QED BY <1>0, <2>1 DEF CreditInv
<1>5. CASE Prepare
  <2>1. Starting /\ ~Starting' /\ credit' = credit - 1 /\ UNCHANGED pendingAdvance
    BY <1>5, <1>w DEF Prepare, At, Starting
  <2> QED BY <1>0, <2>1 DEF CreditInv
<1>6. CASE Boot \/ RequestLoad \/ CloseReleases \/ CallerCopies \/ CallerPuts \/ SaverTakes
           \/ SaverWrites \/ SaverLoads \/ AddToQueue \/ (\E q \in Lists : SetQueue(q))
           \/ (\E q \in Lists : CommitOtherList(q)) \/ Close \/ ForeignRunBegins
           \/ OtherAutomation \/ ReleaseCarriedOut
           \/ (\E code \in {"STOPPED", "ABORTED"} : RunEnds(code))
  <2>1. UNCHANGED <<credit, pendingAdvance, worker>>
    BY <1>6 DEF Boot, RequestLoad, CloseReleases, CallerCopies, CallerPuts, SaverTakes,
       SaverWrites, SaverLoads, AddToQueue, SetQueue, CommitOtherList, Replace, Close,
       ForeignRunBegins, OtherAutomation, ReleaseCarriedOut, RunEnds, Unheard, memory,
       flags, history, threads
  <2> QED BY <1>1, <2>1 DEF Starting
<1>7. CASE WorkerLooks \/ WorkerReleases \/ WorkerRests \/ GiveBack \/ EnsureLease
           \/ LeaseGranted \/ SetSettings \/ PrepareTimesOut \/ Pop \/ WorkerCopies
           \/ WorkerPuts \/ Accept \/ Refuse
  <2>1. UNCHANGED <<credit, pendingAdvance>>
    BY <1>7 DEF WorkerLooks, WorkerReleases, WorkerRests, GiveBack, EnsureLease, LeaseGranted,
       SetSettings, PrepareTimesOut, Pop, WorkerCopies, WorkerPuts, Accept, Refuse, Unheard,
       memory, flags, history
  <2>2. Starting' => Starting
    <3>1. CASE WorkerLooks \/ WorkerReleases \/ WorkerRests \/ PrepareTimesOut \/ Pop
      <4>1. \E place \in {"idle", "second", "giveback", "copy"} : GoTo(place)
        BY <3>1 DEF WorkerLooks, WorkerReleases, WorkerRests, PrepareTimesOut, Pop
      <4> QED BY <1>w, <4>1 DEF Starting
    <3>2. CASE GiveBack \/ WorkerPuts
      BY <1>0, <3>2 DEF GiveBack, WorkerPuts, Starting
    <3>3. CASE EnsureLease \/ LeaseGranted \/ SetSettings
      BY <3>3 DEF EnsureLease, LeaseGranted, SetSettings, At, Starting
    <3>4. CASE WorkerCopies
      BY <1>0, <3>4 DEF WorkerCopies, Starting, WorkerType
    <3>5. CASE Accept \/ Refuse
      <4>1. UNCHANGED worker \/ GoTo("pop") \/ GoTo("giveback")
        BY <3>5 DEF Accept, Refuse, Answer
      <4> QED BY <1>w, <4>1 DEF Starting
    <3> QED BY <1>7, <3>1, <3>2, <3>3, <3>4, <3>5
  <2> QED BY <1>1, <2>1, <2>2
<1> QED BY <1>2, <1>3, <1>4, <1>5, <1>6, <1>7, NextSplit

\* Every attempt to start a run uses up a request of its own, a start command
\* or a run that ended STOPPED: __on_run_finalized_update, __worker_thread.
THEOREM AttemptsAreRequested == Spec => []AttemptsAreAskedFor
<1>1. Init => TypeInv /\ CreditInv
  <2> SUFFICES ASSUME Init PROVE TypeInv /\ CreditInv
    OBVIOUS
  <2>1. ~pendingAdvance
    BY Zenon DEF Init
  <2>2. credit = 0 /\ worker.pc = "idle"
    BY DEF Init, WorkerIdle
  <2> QED BY <2>1, <2>2, TypeInit DEF CreditInv, Starting
<1>2. TypeInv /\ CreditInv /\ [Next]_vars => (TypeInv /\ CreditInv)'
  <2> SUFFICES ASSUME TypeInv, CreditInv, [Next]_vars PROVE (TypeInv /\ CreditInv)'
    OBVIOUS
  <2>1. CASE Next
    BY <2>1, OutsideStep, MemoryStep, ThreadsStep, HistoryStep, DataStep, CreditStep DEF TypeInv
  <2>2. CASE UNCHANGED vars
    BY <2>2, StutterKeepsAll, StutterKeepsTypes DEF CreditInv, Starting
  <2> QED BY <2>1, <2>2
<1>3. CreditInv => AttemptsAreAskedFor
  BY DEF CreditInv, AttemptsAreAskedFor
<1> QED BY <1>1, <1>2, <1>3, PTL DEF Spec

-----------------------------------------------------------------------------
(* The lease.  Without late answers, crashes and shutdowns, a call to       *)
(* prepare is only pending while the worker waits for it, and the worker    *)
(* does not give the lease back while it waits.                             *)

Orderly == NeverAny({"late", "crash", "close"})

LeaseInv ==
  Orderly =>
    /\ mode \notin {"releasing", "closing"}
    /\ leaseOwned => lease = "queue" \/ unanswered
    /\ unanswered => leaseOwned
    /\ worker.pc = "granted" => lease = "queue" /\ ~leaseOwned
    /\ worker.pc \in {"settings", "prepare", "await"} => leaseOwned
    /\ IF worker.pc = "await" THEN Len(requests) = 1 ELSE requests = << >>

LEMMA StillOrderly ==
  ASSUME TypeInv, Next, Orderly'
  PROVE  Orderly
BY FaultsTyped DEF Orderly, NeverAny

LEMMA LeaseStep ==
  ASSUME TypeInv, LeaseInv, Next
  PROVE  LeaseInv'
<1> SUFFICES ASSUME Orderly'
             PROVE  /\ mode' \notin {"releasing", "closing"}
                    /\ leaseOwned' => lease' = "queue" \/ unanswered'
                    /\ unanswered' => leaseOwned'
                    /\ worker'.pc = "granted" => lease' = "queue" /\ ~leaseOwned'
                    /\ worker'.pc \in {"settings", "prepare", "await"} => leaseOwned'
                    /\ IF worker'.pc = "await" THEN Len(requests') = 1
                                               ELSE requests' = << >>
  BY DEF LeaseInv
<1>0. /\ mode \notin {"releasing", "closing"}
      /\ leaseOwned => lease = "queue" \/ unanswered
      /\ unanswered => leaseOwned
      /\ worker.pc = "granted" => lease = "queue" /\ ~leaseOwned
      /\ worker.pc \in {"settings", "prepare", "await"} => leaseOwned
      /\ IF worker.pc = "await" THEN Len(requests) = 1 ELSE requests = << >>
  BY StillOrderly DEF LeaseInv
<1>t. /\ worker \in WorkerType /\ WorkerIdle.pc = "idle" /\ requests \in Seq(Items)
      /\ NextItem.pc \in {"yield", "lease"}
  BY DEF TypeInv, ThreadsTyped, OutsideTyped, WorkerType, WorkerIdle, NextItem
<1>w. ASSUME NEW place, GoTo(place) PROVE worker'.pc = place
  BY <1>t, <1>w DEF GoTo, WorkerType
<1>f. ASSUME NEW f \in {"late", "crash", "close"} PROVE ~Fault(f)
  BY <1>f DEF Orderly, NeverAny, Fault
<1>1. CASE Boot \/ RequestLoad \/ CallerCopies \/ CallerPuts \/ RunFinalized \/ SaverTakes
           \/ SaverWrites \/ SaverLoads \/ QueueStart \/ AddToQueue
           \/ (\E q \in Lists : SetQueue(q)) \/ (\E q \in Lists : CommitOtherList(q))
           \/ (\E code \in {"STOPPED", "ABORTED"} : RunEnds(code)) \/ ForeignRunBegins
  <2>1. /\ UNCHANGED <<lease, leaseOwned, unanswered, worker, requests>>
        /\ mode' \in {mode, "boot", "loading", "up"}
    BY <1>1 DEF Boot, RequestLoad, CallerCopies, CallerPuts, RunFinalized, SaverTakes,
       SaverWrites, SaverLoads, QueueStart, AddToQueue, SetQueue, CommitOtherList, Replace,
       RunEnds, ForeignRunBegins, Unheard, outside, memory, threads
  <2> QED BY <1>0, <2>1
<1>2. CASE Crash \/ Close \/ PrepareTimesOut
  BY <1>2, <1>f DEF Crash, Close, PrepareTimesOut
<1>3. CASE CloseReleases \/ ProcessEnds
  BY <1>0, <1>3 DEF CloseReleases, ProcessEnds
<1>4. CASE WorkerReleases \/ GiveBack
  <2>1. /\ UNCHANGED <<mode, requests>> /\ ReleaseLease
        /\ worker.pc \in {"idle", "yield", "giveback"}
        /\ worker'.pc \in {"idle", "second"}
    BY <1>t, <1>w, <1>4 DEF WorkerReleases, GiveBack, WorkerOnly, At
  <2>2. \/ ~leaseOwned' /\ ~unanswered'
        \/ leaseOwned' /\ leaseOwned /\ UNCHANGED lease /\ (unanswered => unanswered')
    BY <1>0, <2>1 DEF ReleaseLease
  <2> QED BY <1>0, <2>1, <2>2
<1>5. CASE WorkerLooks \/ WorkerRests \/ StartNext \/ SetSettings \/ Pop
  <2>1. UNCHANGED <<mode, requests, lease, leaseOwned, unanswered>>
    BY <1>5 DEF WorkerLooks, WorkerRests, StartNext, SetSettings, Pop, WorkerOnly, KeepsLease
  <2>2. /\ worker.pc # "await" /\ worker'.pc \notin {"await", "granted", "settings"}
        /\ worker'.pc = "prepare" => worker.pc = "settings"
    BY <1>t, <1>w, <1>5 DEF WorkerLooks, WorkerRests, StartNext, SetSettings, Pop, At
  <2> QED BY <1>0, <2>1, <2>2
<1>6. CASE WorkerCopies \/ WorkerPuts
  <2>1. UNCHANGED <<mode, requests, lease, leaseOwned, unanswered>>
    BY <1>6 DEF WorkerCopies, WorkerPuts, WorkerOnly, KeepsLease, outside
  <2>2. worker.pc # "await" /\ worker'.pc \in {"put", "idle"}
    BY <1>t, <1>6 DEF WorkerCopies, WorkerPuts, At, WorkerType
  <2> QED BY <1>0, <2>1, <2>2
<1>7. CASE EnsureLease
  <2>1. /\ UNCHANGED <<mode, requests, leaseOwned, unanswered>> /\ worker.pc = "lease"
        /\ \/ leaseOwned /\ UNCHANGED lease /\ worker'.pc = "settings"
           \/ ~leaseOwned /\ lease' = "queue" /\ worker'.pc = "granted"
           \/ ~leaseOwned /\ worker'.pc = "idle"
    BY <1>t, <1>w, <1>7 DEF EnsureLease, WorkerOnly, At
  <2> QED BY <1>0, <2>1
<1>8. CASE LeaseGranted
  <2>1. /\ UNCHANGED <<mode, requests, lease, unanswered>> /\ worker.pc = "granted"
        /\ worker'.pc = "settings" /\ leaseOwned'
    BY <1>w, <1>8 DEF LeaseGranted, WorkerOnly, At
  <2> QED BY <1>0, <2>1
<1>9. CASE Prepare
  <2>1. /\ UNCHANGED <<mode, lease, leaseOwned, unanswered>> /\ worker.pc = "prepare"
        /\ worker'.pc = "await" /\ requests' = Append(requests, worker.item)
    BY <1>w, <1>9 DEF Prepare, WorkerOnly, KeepsLease, At
  <2>2. Len(requests') = 1
    BY <1>0, <2>1
  <2> QED BY <1>0, <2>1, <2>2
<1>10. CASE Accept \/ Refuse
  <2>1. /\ UNCHANGED <<mode, lease, leaseOwned, unanswered>> /\ requests # << >>
        /\ requests' = Tail(requests)
    BY <1>10 DEF Accept, Refuse, Answer, Unheard, memory
  <2>2. worker.pc = "await" /\ Len(requests) = 1 /\ requests' = << >>
    <3>1. worker.pc = "await" /\ Len(requests) = 1
      BY <1>0, <2>1
    <3> QED BY <1>t, <2>1, <3>1
  <2>3. worker'.pc \in {"pop", "giveback"}
    BY <1>w, <1>10, <2>2 DEF Accept, Refuse, Answer, At
  <2> QED BY <1>0, <2>1, <2>2, <2>3
<1>11. CASE OtherAutomation
  <2>1. UNCHANGED <<requests, worker, mode, leaseOwned, unanswered>> /\ lease # "queue"
    BY <1>11 DEF OtherAutomation, Unheard, memory
  <2> QED BY <1>0, <2>1
<1>12. CASE ReleaseCarriedOut
  <2>1. UNCHANGED <<requests, worker, mode, leaseOwned, unanswered>> /\ unanswered
    BY <1>12 DEF ReleaseCarriedOut, Unheard, memory
  <2> QED BY <1>0, <2>1
<1> QED BY <1>1, <1>2, <1>3, <1>4, <1>5, <1>6, <1>7, <1>8, <1>9, <1>10, <1>11, <1>12,
           NextSplit

\* A run is prepared for the queue only while the queue owns the automation
\* lease, unless the worker gave up waiting or the service went down:
\* __start_next_if_available against every other release of the lease.
THEOREM QueueRunsHoldTheLease == Spec => RunsBeginUnderTheLease
<1>1. Init => TypeInv /\ LeaseInv
  <2> SUFFICES ASSUME Init PROVE TypeInv /\ LeaseInv
    OBVIOUS
  <2>1. ~leaseOwned /\ ~unanswered
    BY Zenon DEF Init
  <2>2. mode = "down" /\ requests = << >> /\ worker.pc = "idle"
    BY DEF Init, WorkerIdle
  <2> QED BY <2>1, <2>2, TypeInit DEF LeaseInv
<1>2. TypeInv /\ LeaseInv /\ [Next]_vars => (TypeInv /\ LeaseInv)'
  <2> SUFFICES ASSUME TypeInv, LeaseInv, [Next]_vars PROVE (TypeInv /\ LeaseInv)'
    OBVIOUS
  <2>1. CASE Next
    BY <2>1, OutsideStep, MemoryStep, ThreadsStep, HistoryStep, DataStep, LeaseStep DEF TypeInv
  <2>2. CASE UNCHANGED vars
    BY <2>2, StutterKeepsAll, StutterKeepsTypes DEF LeaseInv, Orderly, NeverAny
  <2> QED BY <2>1, <2>2
<1>3. TypeInv /\ LeaseInv /\ [Next]_vars
        => [Len(started') > Len(started) =>
              lease = "queue" \/ unanswered \/ ~NeverAny({"late", "crash", "close"})]_vars
  <2> SUFFICES ASSUME TypeInv, LeaseInv, Next, Len(started') > Len(started), Orderly
               PROVE  lease = "queue" \/ unanswered
    BY DEF Orderly
  <2>1. Accept
    <3> SUFFICES ASSUME ~Accept PROVE FALSE
      OBVIOUS
    <3>1. UNCHANGED started
      BY StartedByAccept
    <3>2. Len(started) \in Nat
      BY DEF TypeInv, HistoryTyped
    <3> QED BY <3>1, <3>2
  <2>2. requests # << >>
    BY <2>1 DEF Accept, Answer
  <2> QED BY <2>2 DEF LeaseInv
<1> QED BY <1>1, <1>2, <1>3, PTL DEF Spec, RunsBeginUnderTheLease

-----------------------------------------------------------------------------
(* The file follows the queue.  Every change of the queue is followed by a  *)
(* copy, every copy by an operation of the saver, and the last one wins;    *)
(* until the saved queue is loaded, nobody touches it.                      *)

Untouched == NeverAny({"early", "load", "disk", "close"})

Resting(c, w, s) == c.pc = "free" /\ w.pc = "idle" /\ s.pc = "wait"

\* What the file will hold when everything that was handed over is written.
Latest ==
  IF ops # << >> THEN ops[Len(ops)].queue
  ELSE IF saver.pc = "write" THEN saver.queue ELSE disk

\* Whoever holds a copy holds the last one, unless another is to be made.
Followed ==
  /\ caller.pc = "put" => caller.copy = queue /\ worker.pc # "put"
  /\ worker.pc = "put" => worker.copy = queue
  /\ caller.pc # "put" /\ worker.pc # "put" => Latest = queue

SavedInv ==
  Untouched =>
    /\ mode \in {"down", "boot", "loading", "up"}
    /\ mode # "up" => /\ Resting(caller, worker, saver)
                      /\ ops = IF mode = "loading" THEN <<Load>> ELSE << >>
    /\ mode = "up" => \A i \in DOMAIN ops : ops[i].op = "save"
    /\ mode = "up" /\ ~raced =>
         /\ ~(caller.pc = "put" /\ worker.pc = "put")
         /\ caller.pc = "copy" \/ worker.pc = "copy" \/ Followed

LEMMA StillUntouched ==
  ASSUME TypeInv, Next, Untouched'
  PROVE  /\ Untouched
         /\ \A f \in {"early", "load", "disk", "close"} : ~Fault(f)
BY FaultsTyped DEF Untouched, NeverAny, Fault

\* The steps that do nothing for the file.
LEMMA FileStays ==
  ASSUME TypeInv,
         \/ RunFinalized \/ QueueStart \/ WorkerLooks \/ WorkerReleases \/ WorkerRests
         \/ StartNext \/ GiveBack \/ EnsureLease \/ LeaseGranted \/ SetSettings \/ Prepare
         \/ PrepareTimesOut \/ Accept \/ Refuse
         \/ (\E code \in {"STOPPED", "ABORTED"} : RunEnds(code)) \/ ForeignRunBegins
         \/ OtherAutomation \/ ReleaseCarriedOut
  PROVE  /\ UNCHANGED <<mode, queue, disk, ops, saver, caller, raced>>
         /\ \/ UNCHANGED worker
            \/ worker.pc \notin {"idle", "copy", "put"} /\ worker'.pc \notin {"copy", "put"}
            \/ mode = "up" /\ worker.pc = "idle" /\ worker'.pc \notin {"copy", "put"}
<1>t. worker \in [pc : WorkerPlaces, item : 0..MaxItems, copy : Seq(Items)]
  BY DEF TypeInv, ThreadsTyped
<1>g. \A place : GoTo(place) => worker'.pc = place
  BY <1>t DEF GoTo
<1>1. CASE RunFinalized \/ QueueStart \/ ForeignRunBegins \/ OtherAutomation
           \/ ReleaseCarriedOut
           \/ (\E code \in {"STOPPED", "ABORTED"} : RunEnds(code))
  BY <1>1 DEF RunFinalized, QueueStart, ForeignRunBegins, OtherAutomation,
     ReleaseCarriedOut, RunEnds, Unheard,
     memory, outside, threads, history
<1>2. CASE WorkerLooks \/ WorkerReleases
  BY <1>2, <1>g DEF WorkerLooks, WorkerReleases, WorkerOnly, At
<1>3. CASE WorkerRests \/ GiveBack \/ EnsureLease
  BY <1>3, <1>g DEF WorkerRests, GiveBack, EnsureLease, WorkerOnly, At, WorkerIdle
<1>4. CASE LeaseGranted \/ SetSettings \/ Prepare \/ PrepareTimesOut
  BY <1>4, <1>g DEF LeaseGranted, SetSettings, Prepare, PrepareTimesOut, WorkerOnly, At
<1>5. CASE StartNext
  <2>1. worker'.pc \in {"yield", "lease"}
    BY <1>5 DEF StartNext, NextItem, WorkerIdle
  <2> QED BY <1>5, <2>1 DEF StartNext, WorkerOnly, At
<1>6. CASE Accept \/ Refuse
  BY <1>6, <1>g DEF Accept, Refuse, Answer, Unheard, memory, At
<1> QED BY <1>1, <1>2, <1>3, <1>4, <1>5, <1>6

\* An operation behind the others.
LEMMA HandedOver ==
  ASSUME TypeInv, NEW q \in Seq(Items), ops' = Append(ops, Save(q))
  PROVE  /\ Latest' = q
         /\ (\A i \in DOMAIN ops : ops[i].op = "save") => \A i \in DOMAIN ops' : ops'[i].op = "save"
<1> DEFINE Op == [op : {"save", "load"}, queue : Seq(Items)]
<1>1. ops \in Seq(Op) /\ Save(q) \in Op /\ Save(q).queue = q /\ Save(q).op = "save"
  BY DEF TypeInv, MemoryTyped, Save
<1> DEFINE s == Save(q)
<1> HIDE DEF Op, s
<1>2. /\ s \in Op /\ s.queue = q /\ s.op = "save" /\ ops' = Append(ops, s)
  BY <1>1 DEF s
<1>3. /\ ops' # << >> /\ ops'[Len(ops')] = s
      /\ \A i \in DOMAIN ops' : ops'[i] = s \/ (i \in DOMAIN ops /\ ops'[i] = ops[i])
  BY <1>1, <1>2
<1> QED BY <1>2, <1>3 DEF Latest

LEMMA SavedStep ==
  ASSUME TypeInv, SavedInv, Next
  PROVE  SavedInv'
<1> DEFINE Before == IF mode = "loading" THEN <<Load>> ELSE << >>
           AllSaves == \A i \in DOMAIN ops : ops[i].op = "save"
           InHand == /\ ~(caller.pc = "put" /\ worker.pc = "put")
                     /\ caller.pc = "copy" \/ worker.pc = "copy" \/ Followed
<1> SUFFICES ASSUME Untouched'
             PROVE  /\ mode' \in {"down", "boot", "loading", "up"}
                    /\ mode' # "up" => Resting(caller', worker', saver') /\ ops' = Before'
                    /\ mode' = "up" => AllSaves'
                    /\ mode' = "up" /\ ~raced' => InHand'
  BY DEF SavedInv
<1>0. /\ mode \in {"down", "boot", "loading", "up"}
      /\ mode # "up" => Resting(caller, worker, saver) /\ ops = Before
      /\ mode = "up" => AllSaves
      /\ mode = "up" /\ ~raced => InHand
  BY StillUntouched DEF SavedInv
<1>f. \A f \in {"early", "load", "disk", "close"} : ~Fault(f)
  BY StillUntouched
<1>u. ASSUME Called PROVE mode = "up"
  BY <1>0, <1>f, <1>u DEF Called
<1>t. /\ queue \in Seq(Items) /\ disk \in Seq(Items)
      /\ ops \in Seq([op : {"save", "load"}, queue : Seq(Items)])
      /\ caller \in [pc : {"free", "copy", "put"}, copy : Seq(Items)]
      /\ worker \in [pc : WorkerPlaces, item : 0..MaxItems, copy : Seq(Items)]
      /\ saver \in [pc : {"wait", "write"}, queue : Seq(Items)]
      /\ raced \in BOOLEAN
  BY DEF TypeInv, OutsideTyped, MemoryTyped, ThreadsTyped, HistoryTyped, DataTyped
<1> HIDE DEF AllSaves, InHand, Before
<1>1. CASE Close \/ CloseReleases \/ ProcessEnds
  BY <1>0, <1>f, <1>1 DEF Close, CloseReleases, ProcessEnds
<1>2. CASE Crash
  BY <1>2 DEF Crash, Forget, Resting, Before, CallerFree, WorkerIdle, SaverWaits
<1>3. CASE Boot
  BY <1>0, <1>3 DEF Boot, threads, Before
<1>4. CASE RequestLoad
  <2>1. Append(<< >>, Load) = <<Load>>
    OBVIOUS
  <2> QED BY <1>0, <1>4, <2>1 DEF RequestLoad, threads, Before
<1>5. CASE \/ RunFinalized \/ QueueStart \/ WorkerLooks \/ WorkerReleases \/ WorkerRests
           \/ StartNext \/ GiveBack \/ EnsureLease \/ LeaseGranted \/ SetSettings \/ Prepare
           \/ PrepareTimesOut \/ Accept \/ Refuse
           \/ (\E code \in {"STOPPED", "ABORTED"} : RunEnds(code)) \/ ForeignRunBegins
           \/ OtherAutomation \/ ReleaseCarriedOut
  <2>1. /\ UNCHANGED <<mode, queue, disk, ops, saver, caller, raced>>
        /\ \/ UNCHANGED worker
           \/ worker.pc \notin {"idle", "copy", "put"} /\ worker'.pc \notin {"copy", "put"}
           \/ mode = "up" /\ worker.pc = "idle" /\ worker'.pc \notin {"copy", "put"}
    BY <1>5, FileStays
  <2>2. Latest' = Latest
    BY <2>1 DEF Latest
  <2>3. mode # "up" => UNCHANGED worker
    BY <1>0, <2>1 DEF Resting
  <2>4. InHand => InHand'
    BY <2>1, <2>2 DEF InHand, Followed
  <2> QED BY <1>0, <2>1, <2>3, <2>4 DEF Before, AllSaves, Resting
<1>6. CASE AddToQueue \/ (\E q \in Lists : SetQueue(q)) \/ (\E q \in Lists : CommitOtherList(q))
  <2>1. /\ mode = "up" /\ caller.pc = "free"
        /\ UNCHANGED <<mode, ops, worker, raced>> /\ caller' = [caller EXCEPT !.pc = "copy"]
    BY <1>u, <1>6 DEF AddToQueue, SetQueue, CommitOtherList, Replace, Called
  <2>2. caller'.pc = "copy"
    BY <1>t, <2>1
  <2> QED BY <1>0, <2>1, <2>2 DEF InHand, AllSaves
<1>7. CASE CallerCopies
  <2>1. /\ caller.pc = "copy" /\ caller' = [pc |-> "put", copy |-> queue]
        /\ raced' = (raced \/ worker.pc = "put") /\ UNCHANGED <<mode, ops, queue, worker, saver>>
    BY <1>7 DEF CallerCopies, memory
  <2>2. mode = "up"
    BY <1>0, <2>1 DEF Resting
  <2>3. caller'.pc = "put" /\ caller'.copy = queue
    BY <2>1
  <2> QED BY <1>0, <2>1, <2>2, <2>3 DEF InHand, Followed, AllSaves
<1>8. CASE CallerPuts
  <2>1. /\ caller.pc = "put" /\ ops' = Append(ops, Save(caller.copy)) /\ caller'.pc = "free"
        /\ UNCHANGED <<mode, queue, worker, saver, raced>>
    BY <1>8 DEF CallerPuts, CallerFree, history
  <2>2. mode = "up"
    BY <1>0, <2>1 DEF Resting
  <2>3. Latest' = caller.copy /\ (AllSaves => AllSaves')
    BY <1>t, <2>1, HandedOver DEF AllSaves
  <2> QED BY <1>0, <2>1, <2>2, <2>3 DEF InHand, Followed
<1>9. CASE WorkerCopies
  <2>1. /\ worker.pc = "copy" /\ worker' = [worker EXCEPT !.pc = "put", !.copy = queue]
        /\ raced' = (raced \/ caller.pc = "put") /\ UNCHANGED <<mode, ops, queue, caller, saver>>
    BY <1>9 DEF WorkerCopies, WorkerOnly, At
  <2>2. mode = "up"
    BY <1>0, <2>1 DEF Resting
  <2>3. worker'.pc = "put" /\ worker'.copy = queue
    BY <1>t, <2>1
  <2> QED BY <1>0, <2>1, <2>2, <2>3 DEF InHand, Followed, AllSaves
<1>10. CASE WorkerPuts
  <2>1. /\ worker.pc = "put" /\ ops' = Append(ops, Save(worker.copy)) /\ worker'.pc = "idle"
        /\ UNCHANGED <<mode, queue, caller, saver, raced>>
    BY <1>10 DEF WorkerPuts, WorkerIdle, history, At
  <2>2. mode = "up"
    BY <1>0, <2>1 DEF Resting
  <2>3. Latest' = worker.copy /\ (AllSaves => AllSaves')
    BY <1>t, <2>1, HandedOver DEF AllSaves
  <2> QED BY <1>0, <2>1, <2>2, <2>3 DEF InHand, Followed
<1>11. CASE Pop
  <2>1. /\ worker.pc = "pop" /\ worker' = [worker EXCEPT !.pc = "copy"]
        /\ UNCHANGED <<mode, ops, caller, saver, raced>>
    BY <1>11 DEF Pop, At, GoTo
  <2>2. mode = "up"
    BY <1>0, <2>1 DEF Resting
  <2>3. worker'.pc = "copy"
    BY <1>t, <2>1
  <2> QED BY <1>0, <2>1, <2>2, <2>3 DEF InHand, AllSaves
<1>12. CASE SaverTakes
  <2>1. PICK n \in 1..Len(ops) :
          /\ \A i \in 1..n : ops[i].op = "save"
          /\ LET rest == SubSeq(ops, n + 1, Len(ops)) IN
             \/ rest = << >> /\ ops' = << >>
             \/ rest # << >> /\ Head(rest).op = "load"
          /\ saver.pc = "wait" /\ saver' = [pc |-> "write", queue |-> ops[n].queue]
          /\ UNCHANGED <<mode, queue, caller, worker, raced>>
    BY <1>f, <1>12 DEF SaverTakes, Merged
  <2>2. mode = "up"
    <3>1. ops # << >> /\ ops[1].op = "save"
      BY <1>t, <2>1
    <3>2. mode # "loading"
      BY <1>0, <3>1 DEF Before, Load
    <3> QED BY <1>0, <3>1, <3>2 DEF Before
  <2>3. n = Len(ops) /\ ops' = << >>
    <3>1. CASE n = Len(ops)
      <4>1. SubSeq(ops, n + 1, Len(ops)) = << >>
        BY <1>t, <3>1
      <4> QED BY <2>1, <3>1, <4>1
    <3>2. CASE n # Len(ops)
      <4> DEFINE rest == SubSeq(ops, n + 1, Len(ops))
                 Op == [op : {"save", "load"}, queue : Seq(Items)]
      <4>1. ops \in Seq(Op) /\ n \in Nat \ {0} /\ n < Len(ops) /\ Len(ops) \in Nat
        BY <1>t, <2>1, <3>2
      <4> HIDE DEF Op
      <4>2. n + 1 \in Int /\ Len(ops) \in Int /\ \A i \in n + 1..Len(ops) : ops[i] \in Op
        BY <4>1
      <4>3. /\ Len(rest) = (IF n + 1 <= Len(ops) THEN Len(ops) - (n + 1) + 1 ELSE 0)
            /\ \A i \in 1..Len(ops) - (n + 1) + 1 : rest[i] = ops[(n + 1) + i - 1]
            /\ rest \in Seq(Op)
        BY <4>2, SubSeqProperties
      <4> HIDE DEF rest
      <4>4. Len(rest) \in Nat \ {0} /\ rest[1] = ops[n + 1] /\ n + 1 \in DOMAIN ops
        BY <4>1, <4>3
      <4>5. rest # << >> /\ Head(rest) = ops[n + 1]
        BY <4>3, <4>4
      <4>6. ops[n + 1].op = "save"
        BY <1>0, <2>2, <4>4 DEF AllSaves
      <4> QED BY <2>1, <4>6, <4>5 DEF rest
    <3> QED BY <3>1, <3>2
  <2>4. Latest' = Latest
    BY <1>t, <2>1, <2>3 DEF Latest
  <2>5. InHand => InHand'
    BY <2>1, <2>4 DEF InHand, Followed
  <2>6. AllSaves'
    BY <2>3 DEF AllSaves
  <2> QED BY <1>0, <2>1, <2>2, <2>5, <2>6
<1>13. CASE SaverWrites
  <2>1. /\ saver.pc = "write" /\ disk' = saver.queue /\ saver'.pc = "wait"
        /\ UNCHANGED <<mode, queue, ops, caller, worker, raced>>
    BY <1>13 DEF SaverWrites, SaverWaits, memory, history
  <2>2. mode = "up"
    BY <1>0, <2>1 DEF Resting
  <2>3. Latest' = Latest
    BY <2>1 DEF Latest
  <2>4. InHand => InHand'
    BY <2>1, <2>3 DEF InHand, Followed
  <2> QED BY <1>0, <2>1, <2>2, <2>4 DEF AllSaves
<1>14. CASE SaverLoads
  <2>1. /\ mode = "loading" /\ mode' = "up" /\ ops' = Tail(ops) /\ queue' = disk
        /\ UNCHANGED <<disk, caller, worker, saver>>
    BY <1>f, <1>14 DEF SaverLoads, outside, threads
  <2>2. ops' = << >>
    <3>1. ops = <<Load>>
      BY <1>0, <2>1 DEF Before
    <3> QED BY <2>1, <3>1
  <2>3. Resting(caller', worker', saver')
    BY <1>0, <2>1
  <2>4. Latest' = queue'
    BY <2>1, <2>2, <2>3 DEF Resting, Latest
  <2>5. AllSaves'
    BY <2>2 DEF AllSaves
  <2> QED BY <2>1, <2>3, <2>4, <2>5 DEF Resting, InHand, Followed
<1> QED BY <1>1, <1>2, <1>3, <1>4, <1>5, <1>6, <1>7, <1>8, <1>9, <1>10, <1>11, <1>12,
           <1>13, <1>14, NextSplit

\* When nothing is on its way to the saver, the file holds the queue, as long as
\* the callbacks and the worker never held a copy of it at the same time: through
\* changes during a start, merged saves, kills in the middle of a write and reloads
\* (__request_queue_save, the saver's loop and the load at the start).
THEOREM QueueIsOnDisk == Spec => []QueueIsSavedUnlessRaced
<1>1. Init => TypeInv /\ SavedInv
  <2> SUFFICES ASSUME Init PROVE SavedInv
    BY TypeInit
  <2>1. /\ mode = "down" /\ ops = << >> /\ caller.pc = "free" /\ worker.pc = "idle"
        /\ saver.pc = "wait"
    BY DEF Init, CallerFree, WorkerIdle, SaverWaits
  <2> QED BY <2>1 DEF SavedInv, Resting
<1>2. TypeInv /\ SavedInv /\ [Next]_vars => (TypeInv /\ SavedInv)'
  <2> SUFFICES ASSUME TypeInv, SavedInv, [Next]_vars
               PROVE  (TypeInv /\ SavedInv)'
    OBVIOUS
  <2>1. CASE Next
    BY <2>1, OutsideStep, MemoryStep, ThreadsStep, HistoryStep, DataStep, SavedStep
       DEF TypeInv
  <2>2. CASE UNCHANGED vars
    <3>1. SavedInv'
      BY <2>2, StutterKeepsAll DEF SavedInv, Untouched, NeverAny, Followed, Latest
    <3> QED BY <2>2, <3>1, StutterKeepsTypes
  <2> QED BY <2>1, <2>2
<1>3. TypeInv /\ SavedInv => QueueIsSavedUnlessRaced
  <2> SUFFICES ASSUME TypeInv, SavedInv, ~raced, Quiet, Untouched PROVE disk = queue
    BY DEF QueueIsSavedUnlessRaced, QueueIsSaved, Untouched
  <2>1. caller.pc # "copy" /\ worker.pc # "copy" /\ caller.pc # "put" /\ worker.pc # "put"
    BY DEF Quiet
  <2>2. Followed /\ Latest = disk
    BY <2>1 DEF SavedInv, Quiet, Latest
  <2> QED BY <2>1, <2>2 DEF Followed
<1> QED BY <1>1, <1>2, <1>3, PTL DEF Spec


-----------------------------------------------------------------------------
(* The items of lists. *)

LEMMA ItemsOfAppend ==
  ASSUME NEW q \in Seq(Items), NEW x \in Items
  PROVE  ItemsOf(Append(q, x)) = ItemsOf(q) \cup {x}
<1> DEFINE r == Append(q, x)
<1>1. /\ DOMAIN q = 1..Len(q) /\ Len(q) \in Nat
      /\ DOMAIN r = 1..Len(q) + 1 /\ r[Len(q) + 1] = x
      /\ \A i \in 1..Len(q) : r[i] = q[i]
  OBVIOUS
<1> HIDE DEF r
<1>2. 1..Len(q) + 1 = (1..Len(q)) \cup {Len(q) + 1}
  BY <1>1
<1> QED BY <1>1, <1>2 DEF ItemsOf, r

LEMMA ItemsOfTail ==
  ASSUME NEW q \in Seq(Items), q # << >>
  PROVE  /\ Head(q) \in ItemsOf(q)
         /\ ItemsOf(Tail(q)) \subseteq ItemsOf(q)
         /\ ItemsOf(q) = {Head(q)} \cup ItemsOf(Tail(q))
<1> DEFINE r == Tail(q)
<1>1. /\ DOMAIN q = 1..Len(q) /\ Len(q) \in Nat \ {0} /\ Head(q) = q[1]
      /\ DOMAIN r = 1..Len(q) - 1
      /\ \A i \in 1..Len(q) - 1 : r[i] = q[i + 1]
  OBVIOUS
<1> HIDE DEF r
<1>2. 1 \in DOMAIN q /\ \A i \in DOMAIN r : i + 1 \in DOMAIN q
  BY <1>1
<1>3. \A i \in DOMAIN q : i = 1 \/ i - 1 \in DOMAIN r
  BY <1>1
<1>4. \A i \in DOMAIN q : i # 1 => q[i] = r[i - 1]
  BY <1>1, <1>3
<1>5. ItemsOf(r) \subseteq ItemsOf(q) /\ Head(q) \in ItemsOf(q)
  BY <1>1, <1>2 DEF ItemsOf
<1>6. ItemsOf(q) \subseteq {Head(q)} \cup ItemsOf(r)
  BY <1>1, <1>3, <1>4 DEF ItemsOf
<1> QED BY <1>5, <1>6 DEF r

LEMMA ItemsOfNone == ItemsOf(<< >>) = {}
BY DEF ItemsOf

-----------------------------------------------------------------------------
(* The worker waits for the last of its calls, and what it is about to     *)
(* remove from the queue was started.                                      *)

AwaitInv ==
  /\ worker.pc = "await" => requests # << >> /\ requests[Len(requests)] = worker.item
  /\ worker.pc = "pop" => worker.item \in ItemsOf(started)

\* Where the worker goes next, keeping its item, and what that leaves alone.
LEMMA WorkerGoes ==
  ASSUME TypeInv, NEW place, GoTo(place)
  PROVE  worker'.pc = place /\ worker'.item = worker.item
BY DEF TypeInv, ThreadsTyped, GoTo

LEMMA AwaitStep ==
  ASSUME TypeInv, AwaitInv, Next
  PROVE  AwaitInv'
<1>t. /\ worker \in WorkerType /\ WorkerIdle.pc = "idle" /\ requests \in Seq(Items)
      /\ NextItem.pc \in {"yield", "lease"} /\ started \in Seq(Items)
  BY DEF TypeInv, ThreadsTyped, OutsideTyped, HistoryTyped, WorkerType, WorkerIdle, NextItem
<1>1. CASE /\ UNCHANGED <<requests, started>> /\ worker'.pc = worker.pc
           /\ worker'.item = worker.item
  BY <1>1 DEF AwaitInv
<1>2. CASE worker'.pc \notin {"await", "pop"}
  BY <1>2 DEF AwaitInv
<1>3. CASE Boot \/ RequestLoad \/ CloseReleases \/ CallerCopies \/ CallerPuts \/ RunFinalized
           \/ SaverTakes \/ SaverWrites \/ SaverLoads \/ QueueStart \/ AddToQueue \/ Close
           \/ (\E q \in Lists : SetQueue(q)) \/ (\E q \in Lists : CommitOtherList(q))
           \/ (\E code \in {"STOPPED", "ABORTED"} : RunEnds(code)) \/ ForeignRunBegins
           \/ OtherAutomation \/ ReleaseCarriedOut
  <2>1. UNCHANGED <<worker, requests, started>>
    BY <1>3 DEF Boot, RequestLoad, CloseReleases, CallerCopies, CallerPuts, RunFinalized,
       SaverTakes, SaverWrites, SaverLoads, QueueStart, AddToQueue, Close, SetQueue,
       CommitOtherList, Replace, RunEnds, ForeignRunBegins, OtherAutomation,
       ReleaseCarriedOut, Unheard, outside,
       threads, history
  <2> QED BY <1>1, <2>1
<1>4. CASE Crash \/ ProcessEnds \/ GiveBack \/ WorkerPuts
  <2>1. worker' = WorkerIdle
    BY <1>4 DEF Crash, ProcessEnds, GiveBack, WorkerPuts, Forget
  <2> QED BY <1>t, <1>2, <2>1
<1>5. CASE WorkerLooks \/ WorkerReleases \/ WorkerRests \/ LeaseGranted \/ SetSettings
           \/ PrepareTimesOut \/ Pop
  <2>1. \E place \in {"second", "idle", "settings", "prepare", "giveback", "copy"} : GoTo(place)
    BY <1>5 DEF WorkerLooks, WorkerReleases, WorkerRests, LeaseGranted, SetSettings,
       PrepareTimesOut, Pop
  <2> QED BY <1>2, <2>1, WorkerGoes
<1>6. CASE StartNext \/ WorkerCopies
  BY <1>t, <1>2, <1>6 DEF StartNext, WorkerCopies, WorkerType
<1>7. CASE EnsureLease
  <2>1. worker' = WorkerIdle \/ GoTo("settings") \/ GoTo("granted")
    BY <1>7 DEF EnsureLease
  <2> QED BY <1>t, <1>2, <2>1, WorkerGoes
<1>8. CASE Prepare
  <2>1. worker'.pc = "await" /\ worker'.item = worker.item
    BY <1>8, WorkerGoes DEF Prepare
  <2>2. worker.item \in Items /\ requests' = Append(requests, worker.item)
    BY <1>8 DEF Prepare, At, TypeInv, ThreadsTyped
  <2>3. requests' # << >> /\ requests'[Len(requests')] = worker.item
    BY <1>t, <2>2
  <2> QED BY <2>1, <2>3 DEF AwaitInv
<1>9. CASE Accept \/ Refuse
  <2>1. requests # << >> /\ requests' = Tail(requests)
    BY <1>9 DEF Accept, Refuse, Answer
  <2>2. ItemsOf(started) \subseteq ItemsOf(started')
    <3>1. CASE Accept
      <4>1. Head(requests) \in Items /\ started' = Append(started, Head(requests))
        BY <3>1, <1>t, <2>1 DEF Accept
      <4> QED BY <1>t, <4>1, ItemsOfAppend
    <3>2. CASE Refuse
      BY <3>2 DEF Refuse
    <3> QED BY <1>9, <3>1, <3>2
  <2>3. CASE worker.pc = "await" /\ Len(requests) = 1
    <3>1. CASE Refuse
      <4>1. worker'.pc = "giveback"
        BY <2>3, <3>1, WorkerGoes DEF Refuse, Answer, At
      <4> QED BY <1>2, <4>1
    <3>2. CASE Accept
      <4>1. worker'.pc = "pop" /\ worker'.item = worker.item
        BY <2>3, <3>2, WorkerGoes DEF Accept, Answer, At
      <4>2. Head(requests) = worker.item /\ Head(requests) \in Items
        BY <1>t, <2>1, <2>3 DEF AwaitInv
      <4>3. worker.item \in ItemsOf(started')
        BY <1>t, <3>2, <4>2, ItemsOfAppend DEF Accept
      <4> QED BY <4>1, <4>3 DEF AwaitInv
    <3> QED BY <1>9, <3>1, <3>2
  <2>4. CASE ~(worker.pc = "await" /\ Len(requests) = 1)
    <3>1. UNCHANGED worker
      BY <1>9, <2>4 DEF Accept, Refuse, Answer, At
    <3>2. worker.pc = "await" =>
            requests' # << >> /\ requests'[Len(requests')] = requests[Len(requests)]
      <4>1. CASE worker.pc = "await"
        <5>1. Len(requests) \in Nat /\ Len(requests) > 1
          <6>1. Len(requests) \in Nat /\ Len(requests) # 0
            BY <1>t, <2>1
          <6>2. Len(requests) # 1
            BY <2>4, <4>1
          <6>3. \A n \in Nat : n # 0 /\ n # 1 => n > 1
            OBVIOUS
          <6> QED BY <6>1, <6>2, <6>3
        <5>2. Len(requests') = Len(requests) - 1
          BY <1>t, <2>1
        <5>3. requests'[Len(requests) - 1] = requests[Len(requests)]
          BY <1>t, <2>1, <5>1
        <5>4. requests' # << >>
          BY <5>1, <5>2
        <5> QED BY <5>2, <5>3, <5>4
      <4> QED BY <4>1
    <3> QED BY <2>2, <3>1, <3>2 DEF AwaitInv
  <2> QED BY <2>3, <2>4
<1> QED BY <1>3, <1>4, <1>5, <1>6, <1>7, <1>8, <1>9, NextSplit

\* The steps that leave the lists of items alone.
LEMMA ListsStay ==
  ASSUME \/ Boot \/ RequestLoad \/ CloseReleases \/ CallerCopies \/ CallerPuts
         \/ RunFinalized \/ QueueStart \/ WorkerLooks \/ WorkerReleases \/ WorkerRests
         \/ StartNext \/ GiveBack \/ EnsureLease \/ LeaseGranted \/ SetSettings \/ Prepare
         \/ PrepareTimesOut \/ WorkerCopies \/ WorkerPuts \/ Refuse
         \/ (\E code \in {"STOPPED", "ABORTED"} : RunEnds(code)) \/ ForeignRunBegins
         \/ OtherAutomation \/ ReleaseCarriedOut
  PROVE  UNCHANGED <<disk, queue, added, removed, started, saver>>
<1>1. CASE Boot \/ RequestLoad \/ CloseReleases \/ CallerCopies \/ CallerPuts
           \/ RunFinalized \/ QueueStart
  BY <1>1 DEF Boot, RequestLoad, CloseReleases, CallerCopies, CallerPuts, RunFinalized,
     QueueStart, outside, threads, memory, history
<1>2. CASE WorkerLooks \/ WorkerReleases \/ WorkerRests \/ StartNext \/ GiveBack
           \/ EnsureLease \/ LeaseGranted \/ SetSettings \/ Prepare \/ PrepareTimesOut
           \/ WorkerCopies \/ WorkerPuts
  BY <1>2 DEF WorkerLooks, WorkerReleases, WorkerRests, StartNext, GiveBack, EnsureLease,
     LeaseGranted, SetSettings, Prepare, PrepareTimesOut, WorkerCopies, WorkerPuts,
     WorkerOnly, outside, history
<1>3. CASE Refuse \/ (\E code \in {"STOPPED", "ABORTED"} : RunEnds(code))
           \/ ForeignRunBegins \/ OtherAutomation \/ ReleaseCarriedOut
  BY <1>3 DEF Refuse, RunEnds, ForeignRunBegins, OtherAutomation, ReleaseCarriedOut,
     Unheard, memory, threads,
     history
<1> QED BY <1>1, <1>2, <1>3

\* What an operator's list adds and takes out.
LEMMA ReplacedItems ==
  ASSUME TypeInv, NEW q \in Lists, SetQueue(q)
  PROVE  /\ queue' = q /\ removed' = (removed \cup ItemsOf(queue)) \ ItemsOf(q)
         /\ \/ added' = added
            \/ added' = added + 1 /\ added' \in ItemsOf(q)
         /\ UNCHANGED <<mode, disk, started, worker, saver, ops>>
BY DEF SetQueue, Replace, outside

-----------------------------------------------------------------------------
(* Lists.  Every copy of the queue lists items in the order of their       *)
(* numbers, as long as no operator commits another order.                  *)

Increasing(q) == \A i, j \in DOMAIN q : i < j => q[i] < q[j]

Listed(q, n) == Increasing(q) /\ ItemsOf(q) \subseteq 1..n

LEMMA ListedEmpty == \A n : Listed(<< >>, n)
BY ItemsOfNone DEF Listed, Increasing

LEMMA ListedLonger ==
  ASSUME NEW q, NEW n \in Nat, NEW m \in Nat, n <= m, Listed(q, n)
  PROVE  Listed(q, m)
<1>1. 1..n \subseteq 1..m
  OBVIOUS
<1> QED BY <1>1 DEF Listed

LEMMA ListedAppend ==
  ASSUME NEW q \in Seq(Items), NEW n \in Nat, n + 1 \in Items, Listed(q, n)
  PROVE  Listed(Append(q, n + 1), n + 1)
<1> DEFINE r == Append(q, n + 1)
<1>1. /\ DOMAIN q = 1..Len(q) /\ Len(q) \in Nat
      /\ DOMAIN r = 1..Len(q) + 1 /\ r[Len(q) + 1] = n + 1
      /\ \A i \in 1..Len(q) : r[i] = q[i]
  OBVIOUS
<1>2. ItemsOf(r) = ItemsOf(q) \cup {n + 1}
  BY ItemsOfAppend
<1> HIDE DEF r
<1>3. 1..n + 1 = (1..n) \cup {n + 1}
  OBVIOUS
<1>4. ItemsOf(r) \subseteq 1..n + 1
  BY <1>2, <1>3 DEF Listed
<1>5. ASSUME NEW i \in DOMAIN r, NEW j \in DOMAIN r, i < j PROVE r[i] < r[j]
  <2>1. i \in DOMAIN q /\ r[i] = q[i] /\ q[i] \in 1..n
    <3>1. i \in 1..Len(q)
      BY <1>1, <1>5
    <3> QED BY <1>1, <3>1 DEF Listed, ItemsOf
  <2>2. CASE j = Len(q) + 1
    BY <1>1, <2>1, <2>2
  <2>3. CASE j # Len(q) + 1
    <3>1. j \in 1..Len(q)
      BY <1>1, <2>3
    <3> QED BY <1>1, <1>5, <2>1, <3>1 DEF Listed, Increasing
  <2> QED BY <2>2, <2>3
<1> QED BY <1>4, <1>5 DEF Listed, Increasing, r

LEMMA ListedTail ==
  ASSUME NEW q \in Seq(Items), NEW n, q # << >>, Listed(q, n)
  PROVE  /\ Listed(Tail(q), n)
         /\ \A x \in ItemsOf(Tail(q)) : Head(q) < x
<1> DEFINE r == Tail(q)
<1>1. /\ DOMAIN q = 1..Len(q) /\ Len(q) \in Nat \ {0} /\ Head(q) = q[1]
      /\ DOMAIN r = 1..Len(q) - 1
      /\ \A i \in 1..Len(q) - 1 : r[i] = q[i + 1]
  OBVIOUS
<1>2. ItemsOf(r) \subseteq ItemsOf(q)
  BY ItemsOfTail
<1> HIDE DEF r
<1>3. \A i \in DOMAIN r : i \in Nat /\ i + 1 \in DOMAIN q /\ 1 \in DOMAIN q /\ 1 < i + 1
  BY <1>1
<1>4. Increasing(r)
  <2> SUFFICES ASSUME NEW i \in DOMAIN r, NEW j \in DOMAIN r, i < j PROVE r[i] < r[j]
    BY DEF Increasing
  <2>1. i + 1 < j + 1
    BY <1>3
  <2> QED BY <1>1, <1>3, <2>1 DEF Listed, Increasing
<1>5. \A x \in ItemsOf(r) : Head(q) < x
  BY <1>1, <1>3 DEF Listed, Increasing, ItemsOf
<1> QED BY <1>2, <1>4, <1>5 DEF Listed, r

LEMMA ListedThinned ==
  ASSUME NEW q, NEW list, NEW n, Thins(q, list), Listed(list, n)
  PROVE  Listed(q, n)
<1>1. ItemsOf(q) \subseteq 1..n
  BY DEF Thins, Listed
<1>2. Increasing(q)
  <2> SUFFICES ASSUME NEW i \in DOMAIN q, NEW j \in DOMAIN q, i < j PROVE q[i] < q[j]
    BY DEF Increasing
  <2>1. PICK k \in DOMAIN list, l \in DOMAIN list :
               k < l /\ list[k] = q[i] /\ list[l] = q[j]
    BY DEF Thins
  <2> QED BY <2>1 DEF Listed, Increasing
<1> QED BY <1>1, <1>2 DEF Listed

LEMMA AddedGrows ==
  ASSUME TypeInv, Next
  PROVE  added \in Nat /\ added' \in Nat /\ added <= added'
<1>0. added \in Nat
  BY BoundsAssumption DEF TypeInv, HistoryTyped
<1>1. added' = added \/ added' = added + 1
  <2>1. CASE AddToQueue \/ (\E q \in Lists : SetQueue(q)) \/ (\E q \in Lists : CommitOtherList(q))
    BY <2>1 DEF AddToQueue, SetQueue, CommitOtherList
  <2>2. CASE ProcessEnds \/ SaverTakes \/ SaverWrites \/ SaverLoads \/ Pop \/ Accept
             \/ Crash \/ Close
    BY <2>2 DEF ProcessEnds, SaverTakes, SaverWrites, SaverLoads, Pop, Accept, Crash, Close,
       Unheard, history
  <2> QED BY <2>1, <2>2, NextSplit, ListsStay
<1> QED BY <1>0, <1>1

ListsInv ==
  NeverAny({"reorder"}) =>
    /\ Listed(disk, added) /\ Listed(queue, added)
    /\ Listed(caller.copy, added) /\ Listed(worker.copy, added) /\ Listed(saver.queue, added)
    /\ \A i \in DOMAIN ops : Listed(ops[i].queue, added)

LEMMA StutterKeepsLists ==
  ASSUME ListsInv, AwaitInv, UNCHANGED vars
  PROVE  ListsInv' /\ AwaitInv'
<1>1. AwaitInv'
  BY StutterKeepsAll DEF AwaitInv, ItemsOf
<1>2. UNCHANGED <<faults, added, disk, queue, caller, worker, saver, ops>>
  BY StutterKeepsAll
<1>3. ListsInv'
  BY <1>2 DEF ListsInv, NeverAny
<1> QED BY <1>1, <1>3

LEMMA InOrder ==
  ASSUME TypeInv, Next, NeverAny({"reorder"})'
  PROVE  NeverAny({"reorder"}) /\ ~\E q \in Lists : CommitOtherList(q)
BY FaultsTyped DEF NeverAny, CommitOtherList, Fault

\* What each step may do to the copies of the queue.
LEMMA QueueListed ==
  ASSUME TypeInv, ListsInv, Next, NeverAny({"reorder"})'
  PROVE  Listed(queue', added')
<1>0. /\ Listed(queue, added) /\ Listed(disk, added)
      /\ queue \in Seq(Items) /\ added \in Nat /\ added' \in Nat /\ added <= added'
  BY InOrder, AddedGrows DEF ListsInv, TypeInv, MemoryTyped
<1>1. CASE queue' \in {queue, disk, << >>}
  BY <1>0, <1>1, ListedLonger, ListedEmpty
<1>2. CASE AddToQueue
  <2>1. added + 1 \in Items /\ queue' = Append(queue, added + 1) /\ added' = added + 1
    BY <1>0, <1>2, BoundsAssumption DEF AddToQueue, TypeInv, HistoryTyped, Items
  <2> QED BY <1>0, <2>1, ListedAppend
<1>3. CASE \E q \in Lists : SetQueue(q)
  <2>1. PICK q \in Lists : SetQueue(q)
    BY <1>3
  <2>2. queue' = q
    BY <2>1 DEF SetQueue, Replace
  <2>3. CASE Thins(q, queue)
    <3>1. Listed(q, added)
      BY <1>0, <2>3, ListedThinned
    <3> QED BY <1>0, <2>2, <3>1, ListedLonger
  <2>4. CASE added < MaxItems /\ added' = added + 1 /\ Thins(q, Append(queue, added'))
    <3>1. added + 1 \in Items
      BY <1>0, <2>4, BoundsAssumption DEF Items
    <3>2. Listed(Append(queue, added + 1), added + 1)
      BY <1>0, <3>1, ListedAppend
    <3> QED BY <2>2, <2>4, <3>2, ListedThinned
  <2> QED BY <2>1, <2>3, <2>4 DEF SetQueue
<1>4. CASE Pop
  <2>1. CASE queue # << >> /\ queue' = Tail(queue)
    <3>1. Listed(queue', added)
      BY <1>0, <2>1, ListedTail
    <3> QED BY <1>0, <3>1, ListedLonger
  <2> QED BY <1>1, <1>4, <2>1 DEF Pop, PopStarted
<1>5. CASE SaverTakes \/ SaverWrites \/ SaverLoads \/ Accept \/ Crash \/ Close \/ ProcessEnds
  BY <1>1, <1>5 DEF SaverTakes, SaverWrites, SaverLoads, Accept, Crash, Close, ProcessEnds,
     Forget, Unheard, memory
<1> QED BY <1>1, <1>2, <1>3, <1>4, <1>5, ListsStay, NextSplit, InOrder

LEMMA CopiesListed ==
  ASSUME TypeInv, ListsInv, Next, NeverAny({"reorder"})'
  PROVE  /\ Listed(disk', added') /\ Listed(caller'.copy, added')
         /\ Listed(worker'.copy, added') /\ Listed(saver'.queue, added')
<1>0. /\ Listed(disk, added) /\ Listed(queue, added)
      /\ Listed(caller.copy, added) /\ Listed(worker.copy, added)
      /\ Listed(saver.queue, added) /\ \A i \in DOMAIN ops : Listed(ops[i].queue, added)
      /\ added \in Nat /\ added' \in Nat /\ added <= added'
  BY InOrder, AddedGrows DEF ListsInv
<1>t. /\ caller \in CallerType /\ worker \in WorkerType
      /\ DOMAIN ops = 1..Len(ops)
      /\ CallerFree.copy = << >> /\ WorkerIdle.copy = << >> /\ SaverWaits.queue = << >>
      /\ NextItem.copy = << >>
  BY DEF TypeInv, MemoryTyped, ThreadsTyped, CallerType, WorkerType, CallerFree, WorkerIdle,
     SaverWaits, NextItem
<1>g. \A place : [worker EXCEPT !.pc = place].copy = worker.copy
  BY <1>t DEF WorkerType
<1>1. disk' \in {disk, << >>, saver.queue}
  <2>1. CASE AddToQueue \/ (\E q \in Lists : SetQueue(q)) \/ (\E q \in Lists : CommitOtherList(q))
    BY <2>1 DEF AddToQueue, SetQueue, CommitOtherList, Replace, outside
  <2>2. CASE SaverTakes \/ SaverWrites
    BY <2>2 DEF SaverTakes, SaverWrites
  <2>3. CASE ProcessEnds \/ SaverLoads \/ Pop \/ Accept \/ Crash \/ Close
    BY <2>3 DEF ProcessEnds, SaverLoads, Pop, Accept, Crash, Close, Unheard, outside
  <2> QED BY <2>1, <2>2, <2>3, ListsStay, NextSplit
<1>2. caller'.copy \in {caller.copy, << >>, queue}
  <2>1. CASE AddToQueue \/ (\E q \in Lists : SetQueue(q)) \/ (\E q \in Lists : CommitOtherList(q))
    <3>1. caller' = [caller EXCEPT !.pc = "copy"]
      BY <2>1 DEF AddToQueue, SetQueue, CommitOtherList, Replace
    <3> QED BY <1>t, <3>1 DEF CallerType
  <2>2. CASE CallerCopies \/ CallerPuts \/ ProcessEnds \/ Crash
    BY <1>t, <2>2 DEF CallerCopies, CallerPuts, ProcessEnds, Crash, Forget
  <2>3. CASE Boot \/ RequestLoad \/ CloseReleases \/ RunFinalized \/ SaverTakes
             \/ SaverWrites \/ SaverLoads \/ QueueStart \/ Close \/ ForeignRunBegins
             \/ OtherAutomation \/ ReleaseCarriedOut \/ Accept \/ Refuse
             \/ (\E code \in {"STOPPED", "ABORTED"} : RunEnds(code))
    BY <2>3 DEF Boot, RequestLoad, CloseReleases, RunFinalized, SaverTakes, SaverWrites,
       SaverLoads, QueueStart, Close, ForeignRunBegins, OtherAutomation,
       ReleaseCarriedOut, Accept, Refuse,
       RunEnds, Unheard, threads
  <2>4. CASE WorkerLooks \/ WorkerReleases \/ WorkerRests \/ StartNext \/ GiveBack
             \/ EnsureLease \/ LeaseGranted \/ SetSettings \/ Prepare \/ PrepareTimesOut
             \/ Pop \/ WorkerCopies \/ WorkerPuts
    BY <2>4 DEF WorkerLooks, WorkerReleases, WorkerRests, StartNext, GiveBack, EnsureLease,
       LeaseGranted, SetSettings, Prepare, PrepareTimesOut, Pop, WorkerCopies, WorkerPuts,
       WorkerOnly
  <2> QED BY <2>1, <2>2, <2>3, <2>4, NextSplit
<1>3. worker'.copy \in {worker.copy, << >>, queue}
  <2>1. CASE Boot \/ RequestLoad \/ CloseReleases \/ CallerCopies \/ CallerPuts
             \/ RunFinalized \/ SaverTakes \/ SaverWrites \/ SaverLoads \/ QueueStart
             \/ AddToQueue \/ (\E q \in Lists : SetQueue(q))
             \/ (\E q \in Lists : CommitOtherList(q)) \/ Close \/ ForeignRunBegins
             \/ OtherAutomation \/ ReleaseCarriedOut
             \/ (\E code \in {"STOPPED", "ABORTED"} : RunEnds(code))
    BY <2>1 DEF Boot, RequestLoad, CloseReleases, CallerCopies, CallerPuts, RunFinalized,
       SaverTakes, SaverWrites, SaverLoads, QueueStart, AddToQueue, SetQueue, CommitOtherList,
       Replace, Close, ForeignRunBegins, OtherAutomation, ReleaseCarriedOut, RunEnds,
       Unheard, threads
  <2>2. CASE ProcessEnds \/ Crash \/ GiveBack \/ WorkerPuts \/ StartNext
    BY <1>t, <2>2 DEF ProcessEnds, Crash, Forget, GiveBack, WorkerPuts, StartNext
  <2>3. CASE WorkerLooks \/ WorkerReleases \/ WorkerRests \/ LeaseGranted \/ SetSettings
             \/ Prepare \/ PrepareTimesOut \/ Pop
    BY <1>g, <2>3 DEF WorkerLooks, WorkerReleases, WorkerRests, LeaseGranted, SetSettings,
       Prepare, PrepareTimesOut, Pop, GoTo
  <2>4. CASE EnsureLease \/ Accept \/ Refuse
    BY <1>t, <1>g, <2>4 DEF EnsureLease, Accept, Refuse, Answer, GoTo
  <2>5. CASE WorkerCopies
    BY <1>t, <2>5 DEF WorkerCopies, WorkerType
  <2> QED BY <2>1, <2>2, <2>3, <2>4, <2>5, NextSplit
<1>4. saver'.queue \in {saver.queue, << >>} \cup {ops[i].queue : i \in DOMAIN ops}
  <2>1. CASE AddToQueue \/ (\E q \in Lists : SetQueue(q)) \/ (\E q \in Lists : CommitOtherList(q))
    BY <2>1 DEF AddToQueue, SetQueue, CommitOtherList, Replace
  <2>2. CASE SaverTakes
    BY <1>t, <2>2 DEF SaverTakes, Merged
  <2>3. CASE SaverWrites \/ ProcessEnds \/ Crash
    BY <1>t, <2>3 DEF SaverWrites, ProcessEnds, Crash, Forget
  <2>4. CASE SaverLoads \/ Pop \/ Accept \/ Close
    BY <2>4 DEF SaverLoads, Pop, Accept, Close, Unheard, threads
  <2> QED BY <2>1, <2>2, <2>3, <2>4, ListsStay, NextSplit
<1>5. ASSUME NEW q, Listed(q, added) PROVE Listed(q, added')
  BY <1>0, <1>5, ListedLonger
<1>6. \A q \in {disk, << >>, saver.queue, caller.copy, queue, worker.copy}
                 \cup {ops[i].queue : i \in DOMAIN ops} : Listed(q, added)
  BY <1>0, ListedEmpty
<1> QED BY <1>1, <1>2, <1>3, <1>4, <1>5, <1>6

\* Where the elements of a queue that grows, shrinks or turns come from.
LEMMA AppendedElements ==
  ASSUME NEW S, NEW s \in Seq(S), NEW x \in S, NEW i \in DOMAIN Append(s, x)
  PROVE  Append(s, x)[i] = x \/ \E j \in DOMAIN s : Append(s, x)[i] = s[j]
OBVIOUS

LEMMA LaterElements ==
  ASSUME NEW S, NEW s \in Seq(S), NEW n \in 0..Len(s),
         NEW i \in DOMAIN SubSeq(s, n + 1, Len(s))
  PROVE  \E j \in DOMAIN s : SubSeq(s, n + 1, Len(s))[i] = s[j]
<1> DEFINE r == SubSeq(s, n + 1, Len(s))
<1>0. Len(s) \in Nat /\ n \in Nat /\ n <= Len(s) /\ n + 1 \in Int /\ DOMAIN s = 1..Len(s)
  OBVIOUS
<1>1. \A k \in n + 1..Len(s) : s[k] \in S
  BY <1>0
<1>2. r \in Seq(S) /\ Len(r) = Len(s) - n /\ \A k \in 1..Len(s) - n : r[k] = s[n + k]
  <2>1. /\ r \in Seq(S) /\ Len(r) = IF n + 1 <= Len(s) THEN Len(s) - (n + 1) + 1 ELSE 0
        /\ \A k \in 1..Len(s) - (n + 1) + 1 : r[k] = s[(n + 1) + k - 1]
    BY <1>0, <1>1, SubSeqProperties
  <2> HIDE DEF r
  <2>2. Len(s) - (n + 1) + 1 = Len(s) - n /\ (n + 1 <= Len(s) \/ Len(s) - n = 0)
    <3>1. \A a, b \in Nat : b <= a => /\ a - (b + 1) + 1 = a - b
                                      /\ b + 1 <= a \/ a - b = 0
      OBVIOUS
    <3> QED BY <1>0, <3>1
  <2>3. \A k \in 1..Len(s) - n : (n + 1) + k - 1 = n + k
    BY <1>0
  <2> QED BY <2>1, <2>2, <2>3
<1> HIDE DEF r
<1>3. i \in 1..Len(s) - n
  <2>1. i \in DOMAIN r
    BY DEF r
  <2> QED BY <1>2, <2>1
<1>4. n + i \in DOMAIN s
  <2>1. \A a, b \in Nat : \A k \in 1..a - b : b + k \in 1..a
    OBVIOUS
  <2>2. n + i \in 1..Len(s)
    BY <1>0, <1>3, <2>1
  <2> QED BY <1>0, <2>2
<1>5. r[i] = s[n + i]
  BY <1>2, <1>3
<1> QED BY <1>4, <1>5 DEF r

LEMMA TurnedElements ==
  ASSUME NEW S, NEW s \in Seq(S), s # << >>, NEW i \in DOMAIN Append(Tail(s), Head(s))
  PROVE  \E j \in DOMAIN s : Append(Tail(s), Head(s))[i] = s[j]
<1>1. Tail(s) \in Seq(S) /\ Head(s) \in S /\ Head(s) = s[1] /\ 1 \in DOMAIN s
  OBVIOUS
<1>2. \A j \in DOMAIN Tail(s) : j + 1 \in DOMAIN s /\ Tail(s)[j] = s[j + 1]
  OBVIOUS
<1>3. CASE Append(Tail(s), Head(s))[i] = Head(s)
  BY <1>1, <1>3
<1>4. CASE \E j \in DOMAIN Tail(s) : Append(Tail(s), Head(s))[i] = Tail(s)[j]
  BY <1>2, <1>4
<1> QED BY <1>1, <1>3, <1>4, AppendedElements

LEMMA OpsListed ==
  ASSUME TypeInv, ListsInv, Next, NeverAny({"reorder"})'
  PROVE  \A i \in DOMAIN ops' : Listed(ops'[i].queue, added')
<1> DEFINE Op == [op : {"save", "load"}, queue : Seq(Items)]
<1>0. /\ Listed(caller.copy, added) /\ Listed(worker.copy, added)
      /\ \A i \in DOMAIN ops : Listed(ops[i].queue, added)
      /\ added \in Nat /\ added' \in Nat /\ added <= added'
  BY InOrder, AddedGrows DEF ListsInv
<1>t. /\ ops \in Seq(Op) /\ Load \in Op /\ Save(caller.copy) \in Op /\ Save(worker.copy) \in Op
      /\ Load.queue = << >> /\ Save(caller.copy).queue = caller.copy
      /\ Save(worker.copy).queue = worker.copy
  BY DEF TypeInv, MemoryTyped, ThreadsTyped, Load, Save
<1> HIDE DEF Op
<1>l. /\ \A q : Listed(q, added) => Listed(q, added')
      /\ Listed(Load.queue, added) /\ Listed(Save(caller.copy).queue, added)
      /\ Listed(Save(worker.copy).queue, added)
  BY <1>0, <1>t, ListedLonger, ListedEmpty
<1>1. CASE \A i \in DOMAIN ops' : \E j \in DOMAIN ops : ops'[i] = ops[j]
  BY <1>0, <1>1, <1>l
<1>2. CASE RequestLoad \/ CallerPuts \/ WorkerPuts
  <2>1. PICK o \in {Load, Save(caller.copy), Save(worker.copy)} : ops' = Append(ops, o)
    BY <1>2 DEF RequestLoad, CallerPuts, WorkerPuts
  <2>2. ASSUME NEW i \in DOMAIN ops'
        PROVE  ops'[i] = o \/ \E j \in DOMAIN ops : ops'[i] = ops[j]
    BY <1>t, <2>1, AppendedElements
  <2> QED BY <1>0, <1>l, <2>1, <2>2
<1>3. CASE SaverTakes
  <2>1. PICK n \in 1..Len(ops) :
          \/ ops' = << >>
          \/ /\ SubSeq(ops, n + 1, Len(ops)) # << >>
             /\ ops' = Append(Tail(SubSeq(ops, n + 1, Len(ops))),
                              Head(SubSeq(ops, n + 1, Len(ops))))
    BY <1>3 DEF SaverTakes
  <2> DEFINE rest == SubSeq(ops, n + 1, Len(ops))
  <2>2. n \in 0..Len(ops) /\ n + 1 \in Int /\ Len(ops) \in Int
    BY <1>t
  <2>3. rest \in Seq(Op)
    <3>1. \A i \in n + 1..Len(ops) : ops[i] \in Op
      BY <1>t, <2>2
    <3> QED BY <1>t, <2>2, <3>1, SubSeqProperties
  <2>4. \A i \in DOMAIN rest : \E j \in DOMAIN ops : rest[i] = ops[j]
    BY <1>t, <2>2, LaterElements
  <2>5. \A i \in DOMAIN ops' : \E j \in DOMAIN ops : ops'[i] = ops[j]
    <3>1. ops' = << >> \/ (rest # << >> /\ ops' = Append(Tail(rest), Head(rest)))
      BY <2>1
    <3> HIDE DEF rest
    <3>2. CASE ops' = << >>
      BY <3>2
    <3>3. CASE rest # << >> /\ ops' = Append(Tail(rest), Head(rest))
      <4> SUFFICES ASSUME NEW i \in DOMAIN ops' PROVE \E j \in DOMAIN ops : ops'[i] = ops[j]
        OBVIOUS
      <4>1. \E k \in DOMAIN rest : ops'[i] = rest[k]
        BY <2>3, <3>3, TurnedElements
      <4> QED BY <2>4, <4>1
    <3> QED BY <3>1, <3>2, <3>3
  <2> QED BY <1>1, <2>5
<1>4. CASE SaverLoads
  <2>1. ops # << >> /\ ops' = Tail(ops)
    BY <1>4 DEF SaverLoads
  <2>2. \A i \in DOMAIN ops' : i + 1 \in DOMAIN ops /\ ops'[i] = ops[i + 1]
    BY <1>t, <2>1
  <2> QED BY <1>1, <2>2
<1>5. CASE Crash \/ ProcessEnds
  <2>1. ops' = << >>
    BY <1>5 DEF Crash, ProcessEnds, Forget
  <2> QED BY <2>1
<1>6. CASE ops' = ops
  BY <1>1, <1>6
<1>7. CASE Boot \/ CloseReleases \/ CallerCopies \/ RunFinalized \/ SaverWrites
           \/ QueueStart \/ AddToQueue \/ (\E q \in Lists : SetQueue(q)) \/ Close \/ Accept
           \/ Refuse \/ (\E code \in {"STOPPED", "ABORTED"} : RunEnds(code))
           \/ ForeignRunBegins \/ OtherAutomation \/ ReleaseCarriedOut
  BY <1>6, <1>7 DEF Boot, CloseReleases, CallerCopies, RunFinalized, SaverWrites, QueueStart,
     AddToQueue, SetQueue, Replace, Close, Accept, Refuse, RunEnds, ForeignRunBegins,
     OtherAutomation, ReleaseCarriedOut, Unheard, memory
<1>8. CASE WorkerLooks \/ WorkerReleases \/ WorkerRests \/ StartNext \/ GiveBack
           \/ EnsureLease \/ LeaseGranted \/ SetSettings \/ Prepare \/ PrepareTimesOut \/ Pop
           \/ WorkerCopies
  BY <1>6, <1>8 DEF WorkerLooks, WorkerReleases, WorkerRests, StartNext, GiveBack,
     EnsureLease, LeaseGranted, SetSettings, Prepare, PrepareTimesOut, Pop, WorkerCopies,
     WorkerOnly
<1> QED BY <1>2, <1>3, <1>4, <1>5, <1>7, <1>8, NextSplit, InOrder

LEMMA ListsStep ==
  ASSUME TypeInv, ListsInv, Next
  PROVE  ListsInv'
BY QueueListed, CopiesListed, OpsListed DEF ListsInv

LEMMA ListsInit ==
  ASSUME Init
  PROVE  ListsInv
<1>1. /\ ops = << >> /\ queue = << >>
      /\ caller.copy = << >> /\ worker.copy = << >> /\ saver.queue = << >>
  BY DEF Init, CallerFree, WorkerIdle, SaverWaits
<1>2. Listed(disk, added)
  BY DEF Init, Listed, Increasing, ItemsOf
<1>3. \A i \in DOMAIN ops : FALSE
  BY <1>1
<1> QED BY <1>1, <1>2, <1>3, ListedEmpty DEF ListsInv

-----------------------------------------------------------------------------
(* Order.  What was started comes before what the worker starts next, and  *)
(* that before what waits.                                                 *)

Ordered == NeverAny({"late", "reorder", "crash", "close"})

NextToStart == worker.pc \in {"lease", "granted", "settings", "prepare", "await"}

OrderInv ==
  Ordered =>
    /\ mode \in {"down", "boot", "loading", "up"}
    /\ mode # "up" => started = << >> /\ worker.pc = "idle"
    /\ Listed(started, added)
    /\ \A s \in ItemsOf(started), x \in ItemsOf(queue) :
         s < x \/ (worker.pc = "pop" /\ s = worker.item /\ s = x)
    /\ NextToStart =>
         /\ worker.item \in 1..added
         /\ \A s \in ItemsOf(started) : s < worker.item
         /\ \A x \in ItemsOf(queue) : worker.item <= x

LEMMA StillOrdered ==
  ASSUME TypeInv, Next, Ordered'
  PROVE  /\ Ordered /\ Orderly /\ NeverAny({"reorder"})
         /\ \A f \in {"late", "reorder", "crash", "close"} : ~Fault(f)
BY FaultsTyped DEF Ordered, Orderly, NeverAny, Fault

LEMMA OrderStep ==
  ASSUME TypeInv, ListsInv, AwaitInv, LeaseInv, OrderInv, Next
  PROVE  OrderInv'
<1> SUFFICES ASSUME Ordered'
             PROVE  /\ mode' \in {"down", "boot", "loading", "up"}
                    /\ mode' # "up" => started' = << >> /\ worker'.pc = "idle"
                    /\ Listed(started', added')
                    /\ \A s \in ItemsOf(started'), x \in ItemsOf(queue') :
                         s < x \/ (worker'.pc = "pop" /\ s = worker'.item /\ s = x)
                    /\ NextToStart' =>
                         /\ worker'.item \in 1..added'
                         /\ \A s \in ItemsOf(started') : s < worker'.item
                         /\ \A x \in ItemsOf(queue') : worker'.item <= x
  BY DEF OrderInv
<1>0. /\ mode \in {"down", "boot", "loading", "up"}
      /\ mode # "up" => started = << >> /\ worker.pc = "idle"
      /\ Listed(started, added)
      /\ \A s \in ItemsOf(started), x \in ItemsOf(queue) :
           s < x \/ (worker.pc = "pop" /\ s = worker.item /\ s = x)
      /\ NextToStart =>
           /\ worker.item \in 1..added
           /\ \A s \in ItemsOf(started) : s < worker.item
           /\ \A x \in ItemsOf(queue) : worker.item <= x
  BY StillOrdered DEF OrderInv
<1>t. /\ queue \in Seq(Items) /\ started \in Seq(Items) /\ requests \in Seq(Items)
      /\ worker \in WorkerType /\ worker.item \in Int
      /\ added \in Nat /\ added' \in Nat /\ added <= added'
      /\ ItemsOf(queue) \subseteq 1..added /\ ItemsOf(started) \subseteq 1..added
      /\ Listed(queue, added) /\ Listed(disk, added)
      /\ 1..added \subseteq Int /\ 1..added \subseteq 1..added'
  <2>1. added \in Nat /\ added' \in Nat /\ added <= added'
    BY AddedGrows
  <2>2. 1..added \subseteq Int /\ 1..added \subseteq 1..added'
    BY <2>1
  <2>3. worker \in WorkerType /\ worker.item \in Int
    BY BoundsAssumption DEF TypeInv, ThreadsTyped, WorkerType
  <2>4. Listed(queue, added) /\ Listed(disk, added)
    BY StillOrdered DEF ListsInv
  <2>5. ItemsOf(queue) \subseteq 1..added /\ ItemsOf(started) \subseteq 1..added
    BY <1>0, <2>4 DEF Listed
  <2> QED BY <2>1, <2>2, <2>3, <2>4, <2>5 DEF TypeInv, OutsideTyped, MemoryTyped, HistoryTyped
<1>f. \A f \in {"late", "reorder", "crash", "close"} : ~Fault(f)
  BY StillOrdered
<1>i. WorkerIdle.pc = "idle"
  BY DEF WorkerIdle
<1>s. started' = started => Listed(started', added')
  BY <1>0, <1>t, ListedLonger
\* The steps that leave the worker alone, and its steps to a place where it
\* starts nothing and to the next place on the way to a start.
<1>a. ASSUME UNCHANGED <<worker, queue, started>>, mode' \in {"down", "boot", "loading", "up"},
             mode' # "up" => mode # "up"
      PROVE  OrderInv'
  BY <1>0, <1>t, <1>a, <1>s DEF OrderInv, NextToStart
<1>b. ASSUME UNCHANGED <<queue, started, mode>>, mode = "up", worker.pc # "pop",
             worker'.pc \in {"idle", "second", "yield", "giveback", "copy", "put"}
      PROVE  OrderInv'
  BY <1>0, <1>t, <1>b, <1>s DEF OrderInv, NextToStart
<1>c. ASSUME UNCHANGED <<queue, started, mode>>, mode = "up", NextToStart,
             worker'.item = worker.item, worker'.pc # "pop"
      PROVE  OrderInv'
  BY <1>0, <1>t, <1>c, <1>s DEF OrderInv, NextToStart
<1>1. CASE Crash \/ Close \/ (\E q \in Lists : CommitOtherList(q)) \/ PrepareTimesOut
           \/ CloseReleases \/ ProcessEnds
  BY <1>0, <1>f, <1>1 DEF Crash, Close, CommitOtherList, PrepareTimesOut, CloseReleases,
     ProcessEnds
<1>2. CASE Boot \/ RequestLoad \/ CallerCopies \/ CallerPuts \/ RunFinalized \/ SaverTakes
           \/ SaverWrites \/ QueueStart \/ ForeignRunBegins \/ OtherAutomation
           \/ ReleaseCarriedOut
           \/ (\E code \in {"STOPPED", "ABORTED"} : RunEnds(code))
  <2>1. UNCHANGED <<worker, queue, started>>
    BY <1>2 DEF Boot, RequestLoad, CallerCopies, CallerPuts, RunFinalized, SaverTakes,
       SaverWrites, QueueStart, RunEnds, ForeignRunBegins, OtherAutomation,
       ReleaseCarriedOut, Unheard, memory,
       threads, history
  <2>2. mode' = mode \/ (mode # "up" /\ mode' \in {"boot", "loading"})
    BY <1>2 DEF Boot, RequestLoad, CallerCopies, CallerPuts, RunFinalized, SaverTakes,
       SaverWrites, QueueStart, RunEnds, ForeignRunBegins, OtherAutomation,
       ReleaseCarriedOut, Unheard, memory
  <2>3. OrderInv'
    BY <1>0, <1>a, <2>1, <2>2
  <2> QED BY <2>3 DEF OrderInv
<1>3. CASE WorkerLooks \/ WorkerReleases \/ WorkerRests \/ GiveBack \/ WorkerCopies
           \/ WorkerPuts
  <2>1. UNCHANGED <<queue, started, mode>>
    BY <1>3 DEF WorkerLooks, WorkerReleases, WorkerRests, GiveBack, WorkerCopies, WorkerPuts,
       WorkerOnly, history
  <2>2. mode = "up" /\ worker.pc # "pop"
    BY <1>0, <1>3 DEF WorkerLooks, WorkerReleases, WorkerRests, GiveBack, WorkerCopies,
       WorkerPuts, At
  <2>3. worker'.pc \in {"idle", "second", "put"}
    <3>1. CASE WorkerLooks \/ WorkerReleases \/ WorkerRests
      BY <3>1, WorkerGoes DEF WorkerLooks, WorkerReleases, WorkerRests
    <3>2. CASE GiveBack \/ WorkerPuts \/ WorkerCopies
      BY <1>i, <1>t, <3>2 DEF GiveBack, WorkerPuts, WorkerCopies, WorkerType
    <3> QED BY <1>3, <3>1, <3>2
  <2>4. OrderInv'
    BY <1>b, <2>1, <2>2, <2>3
  <2> QED BY <2>4 DEF OrderInv
<1>4. CASE EnsureLease \/ LeaseGranted \/ SetSettings \/ Prepare
  <2>1. UNCHANGED <<queue, started, mode>>
    BY <1>4 DEF EnsureLease, LeaseGranted, SetSettings, Prepare, WorkerOnly
  <2>2. mode = "up" /\ NextToStart /\ worker.pc # "pop"
    BY <1>0, <1>4 DEF EnsureLease, LeaseGranted, SetSettings, Prepare, At, NextToStart
  <2>3. \/ worker' = WorkerIdle
        \/ \E place \in {"settings", "granted", "prepare", "await", "giveback"} : GoTo(place)
    BY <1>4 DEF EnsureLease, LeaseGranted, SetSettings, Prepare
  <2>4. worker'.pc = "idle" \/ (worker'.pc # "pop" /\ worker'.item = worker.item)
    BY <1>i, <2>3, WorkerGoes
  <2>5. OrderInv'
    BY <1>b, <1>c, <2>1, <2>2, <2>4
  <2> QED BY <2>5 DEF OrderInv
<1>5. CASE StartNext
  <2>1. UNCHANGED <<queue, started, mode>> /\ mode = "up" /\ worker.pc = "second"
    BY <1>0, <1>5 DEF StartNext, WorkerOnly, At
  <2>2. CASE queue = << >>
    <3>1. worker'.pc = "yield"
      BY <1>5, <2>2 DEF StartNext, NextItem, WorkerIdle
    <3>2. OrderInv'
      BY <1>b, <2>1, <3>1
    <3> QED BY <3>2 DEF OrderInv
  <2>3. CASE queue # << >>
    <3>1. worker'.pc = "lease" /\ worker'.item = Head(queue)
      BY <1>5, <2>3 DEF StartNext, NextItem, WorkerIdle
    <3>2. /\ Head(queue) \in ItemsOf(queue) /\ Head(queue) \in Int
          /\ \A x \in ItemsOf(queue) : x = Head(queue) \/ Head(queue) < x
      BY <1>t, <2>3, ItemsOfTail, ListedTail
    <3>3. \A s \in ItemsOf(started) : s < Head(queue)
      BY <1>0, <2>1, <3>2
    <3>4. \A x \in ItemsOf(queue) : Head(queue) <= x
      <4>1. \A h, x \in Int : x = h \/ h < x => h <= x
        OBVIOUS
      <4> QED BY <1>t, <3>2, <4>1
    <3> QED BY <1>0, <1>s, <1>t, <2>1, <3>1, <3>2, <3>3, <3>4
  <2> QED BY <2>2, <2>3
<1>6. CASE AddToQueue \/ \E q \in Lists : SetQueue(q)
  <2>1. UNCHANGED <<mode, started, worker>>
    BY <1>6 DEF AddToQueue, SetQueue, Replace
  <2>2. \A x \in ItemsOf(queue') : x \in ItemsOf(queue) \/ x = added + 1
    <3>1. CASE AddToQueue
      <4>1. added + 1 \in Items /\ queue' = Append(queue, added + 1)
        BY <1>t, <3>1, BoundsAssumption DEF AddToQueue, Items
      <4> QED BY <1>t, <4>1, ItemsOfAppend
    <3>2. CASE \E q \in Lists : SetQueue(q)
      <4>1. PICK q \in Lists : SetQueue(q)
        BY <3>2
      <4>2. queue' = q
        BY <4>1 DEF SetQueue, Replace
      <4>3. CASE Thins(q, queue)
        BY <4>2, <4>3 DEF Thins
      <4>4. CASE /\ added < MaxItems /\ added' = added + 1
                 /\ Thins(q, Append(queue, added'))
        <5>1. added + 1 \in Items
          BY <1>t, <4>4, BoundsAssumption DEF Items
        <5>2. ItemsOf(Append(queue, added + 1)) = ItemsOf(queue) \cup {added + 1}
          BY <1>t, <5>1, ItemsOfAppend
        <5> QED BY <4>2, <4>4, <5>2 DEF Thins
      <4> QED BY <4>1, <4>3, <4>4 DEF SetQueue
    <3> QED BY <1>6, <3>1, <3>2
  <2>3. \A s \in 1..added : s < added + 1 /\ s <= added + 1
    BY <1>t
  <2>4. NextToStart' = NextToStart
    BY <2>1 DEF NextToStart
  <2> QED BY <1>0, <1>s, <1>t, <2>1, <2>2, <2>3, <2>4
<1>7. CASE SaverLoads
  <2>1. mode = "loading" /\ mode' = "up" /\ UNCHANGED <<worker, started>>
    BY <1>7 DEF SaverLoads, threads
  <2>2. started' = << >> /\ worker'.pc = "idle"
    BY <1>0, <2>1
  <2> QED BY <1>s, <2>1, <2>2, ItemsOfNone DEF NextToStart
<1>8. CASE Pop
  <2>1. UNCHANGED <<mode, started>> /\ worker.pc = "pop"
    BY <1>8 DEF Pop, At
  <2>2. worker'.pc = "copy" /\ mode = "up"
    BY <1>0, <1>8, <2>1, WorkerGoes DEF Pop
  <2>3. \A s \in ItemsOf(started), x \in ItemsOf(queue') : s < x
    <3>1. CASE queue = << >>
      BY <1>8, <3>1, ItemsOfNone DEF Pop, PopStarted
    <3>2. CASE queue # << >> /\ Head(queue) = worker.item
      <4>1. queue' = Tail(queue)
        BY <1>8, <3>2 DEF Pop, PopStarted, SameAsStarted
      <4>2. /\ ItemsOf(queue') \subseteq ItemsOf(queue)
            /\ \A x \in ItemsOf(queue') : worker.item < x
        BY <1>t, <3>2, <4>1, ItemsOfTail, ListedTail
      <4> QED BY <1>0, <1>t, <4>2
    <3>3. CASE queue # << >> /\ Head(queue) # worker.item
      <4>1. ItemsOf(queue') \subseteq ItemsOf(queue)
        <5>1. queue' = queue \/ queue' = Tail(queue)
          BY <1>8 DEF Pop, PopStarted
        <5> QED BY <1>t, <3>3, <5>1, ItemsOfTail
      <4>2. /\ Head(queue) \in ItemsOf(queue) /\ Head(queue) \in Int
            /\ \A x \in ItemsOf(queue) : x = Head(queue) \/ Head(queue) < x
        BY <1>t, <3>3, ItemsOfTail, ListedTail
      <4>3. worker.item \in ItemsOf(started)
        BY <2>1 DEF AwaitInv
      <4>4. worker.item < Head(queue)
        BY <1>0, <3>3, <4>2, <4>3
      <4>5. worker.item \notin ItemsOf(queue)
        BY <1>t, <3>3, <4>2, <4>4
      <4> QED BY <1>0, <4>1, <4>5
    <3> QED BY <3>1, <3>2, <3>3
  <2> QED BY <1>s, <2>1, <2>2, <2>3 DEF NextToStart
<1>9. CASE Accept \/ Refuse
  <2>1. /\ UNCHANGED <<mode, queue, added>> /\ requests # << >>
        /\ Answer("pop") \/ Answer("giveback")
    BY <1>9 DEF Accept, Refuse, Unheard, Answer, memory
  <2>2. worker.pc = "await" /\ Len(requests) = 1
    BY <2>1, StillOrdered DEF LeaseInv
  <2>3. NextToStart /\ mode = "up"
    BY <1>0, <2>2 DEF NextToStart
  <2>4. CASE Refuse
    <3>1. worker'.pc = "giveback" /\ UNCHANGED started
      BY <2>2, <2>4, WorkerGoes DEF Refuse, Answer, At
    <3>2. OrderInv'
      BY <1>b, <2>1, <2>2, <2>3, <3>1
    <3> QED BY <3>2 DEF OrderInv
  <2>5. CASE Accept
    <3>1. worker'.pc = "pop" /\ worker'.item = worker.item
      BY <2>2, <2>5, WorkerGoes DEF Accept, Answer, At
    <3>2. started' = Append(started, worker.item) /\ worker.item \in Items
      BY <1>t, <2>1, <2>2, <2>5 DEF Accept, AwaitInv
    <3>3. ItemsOf(started') = ItemsOf(started) \cup {worker.item}
      BY <1>t, <3>2, ItemsOfAppend
    <3>4. Listed(started', added')
      <4>1. ItemsOf(started') \subseteq 1..added'
        BY <1>0, <1>t, <2>3, <3>3
      <4>2. Increasing(started')
        <5>1. /\ DOMAIN started = 1..Len(started) /\ Len(started) \in Nat
              /\ DOMAIN started' = 1..Len(started) + 1
              /\ started'[Len(started) + 1] = worker.item
              /\ \A i \in 1..Len(started) : started'[i] = started[i]
          BY <1>t, <3>2
        <5> SUFFICES ASSUME NEW i \in DOMAIN started', NEW j \in DOMAIN started', i < j
                     PROVE  started'[i] < started'[j]
          BY DEF Increasing
        <5>2. i \in DOMAIN started /\ started'[i] = started[i] /\ started[i] \in ItemsOf(started)
          <6>1. i \in 1..Len(started)
            BY <5>1
          <6> QED BY <5>1, <6>1 DEF ItemsOf
        <5>3. CASE j = Len(started) + 1
          BY <1>0, <2>3, <5>1, <5>2, <5>3
        <5>4. CASE j # Len(started) + 1
          <6>1. j \in 1..Len(started)
            BY <5>1, <5>4
          <6> QED BY <1>0, <5>1, <5>2, <6>1 DEF Listed, Increasing
        <5> QED BY <5>3, <5>4
      <4> QED BY <4>1, <4>2 DEF Listed
    <3>5. \A s \in ItemsOf(started'), x \in ItemsOf(queue') :
            s < x \/ (s = worker.item /\ s = x)
      <4> SUFFICES ASSUME NEW s \in ItemsOf(started'), NEW x \in ItemsOf(queue)
                   PROVE  s < x \/ (s = worker.item /\ s = x)
        BY <2>1
      <4>1. CASE s \in ItemsOf(started)
        BY <1>0, <2>2, <4>1
      <4>2. CASE s = worker.item
        <5>1. worker.item <= x /\ x \in Int
          BY <1>0, <1>t, <2>3
        <5> QED BY <1>t, <4>2, <5>1
      <4> QED BY <3>3, <4>1, <4>2
    <3> QED BY <2>1, <2>3, <3>1, <3>4, <3>5 DEF NextToStart
  <2> QED BY <1>9, <2>4, <2>5
<1> QED BY <1>1, <1>2, <1>3, <1>4, <1>5, <1>6, <1>7, <1>8, <1>9, NextSplit

\* Runs are prepared in the order of the queue and for no item twice, while
\* answers are in time, lists are not reordered and the service stays up: the
\* head is read, started, and removed after that, under the hands of the
\* callbacks.
THEOREM QueueStartsOnceInOrder == Spec => []StartedOnceInOrder
<1> DEFINE Inv == TypeInv /\ ListsInv /\ AwaitInv /\ LeaseInv /\ OrderInv
<1>1. Init => Inv
  <2> SUFFICES ASSUME Init PROVE ListsInv /\ AwaitInv /\ LeaseInv /\ OrderInv
    BY TypeInit
  <2>0. ~leaseOwned /\ ~unanswered
    BY Zenon DEF Init
  <2>1. /\ mode = "down" /\ ops = << >> /\ worker.pc = "idle" /\ requests = << >>
        /\ queue = << >> /\ started = << >>
    BY DEF Init, WorkerIdle
  <2>2. OrderInv
    BY <2>1, ListedEmpty, ItemsOfNone DEF OrderInv, NextToStart
  <2> QED BY <2>0, <2>1, <2>2, ListsInit DEF AwaitInv, LeaseInv
<1>2. Inv /\ [Next]_vars => Inv'
  <2> SUFFICES ASSUME Inv, [Next]_vars PROVE Inv'
    OBVIOUS
  <2>1. CASE Next
    BY <2>1, OutsideStep, MemoryStep, ThreadsStep, HistoryStep, DataStep, ListsStep, AwaitStep,
       LeaseStep, OrderStep DEF TypeInv
  <2>2. CASE UNCHANGED vars
    <3>1. LeaseInv'
      BY <2>2, StutterKeepsAll DEF LeaseInv, Orderly, NeverAny
    <3>2. AwaitInv' /\ ListsInv'
      BY <2>2, StutterKeepsLists
    <3>3. OrderInv'
      BY <2>2, StutterKeepsAll DEF OrderInv, Ordered, NextToStart, NeverAny, ItemsOf, Listed
    <3> QED BY <2>2, <3>1, <3>2, <3>3, StutterKeepsTypes
  <2> QED BY <2>1, <2>2
<1>3. Inv => StartedOnceInOrder
  BY DEF OrderInv, Ordered, Listed, Increasing, StartedOnceInOrder
<1> QED BY <1>1, <1>2, <1>3, PTL DEF Spec

-----------------------------------------------------------------------------
(* Nothing is lost.  Until the saved queue is loaded it holds every item,   *)
(* and nobody writes it.  Afterwards an item that is neither in the queue    *)
(* nor started nor taken out stands against one like it that was both        *)
(* started and taken out: each start uses up its own, since the item in the  *)
(* worker's hands is one that still waits or was taken out meanwhile.        *)

Kept == NeverAny({"early", "reorder", "load", "disk", "crash", "close"})

Lost == (1..added) \ (ItemsOf(queue) \cup ItemsOf(started) \cup removed)

InHand == worker.pc \in {"lease", "granted", "settings", "prepare", "await", "pop"}

Hand == IF InHand THEN {worker.item} ELSE {}

Spare == (ItemsOf(started) \cap removed) \ (ItemsOf(queue) \cup Hand)

Matched(L, S) == \E f \in Injection(L, S) : \A i \in L : contents[f[i]] = contents[i]

Asleep ==
  /\ caller.pc = "free" /\ worker.pc = "idle" /\ saver.pc = "wait"
  /\ \A i \in DOMAIN ops : ops[i].op = "load"

AtRest ==
  /\ mode \in {"down", "boot", "loading", "up"}
  /\ mode # "up" => Asleep /\ 1..added \subseteq ItemsOf(disk)

Held ==
  /\ removed \subseteq 1..added
  /\ InHand =>
       /\ worker.item \in 1..added /\ worker.item \in ItemsOf(queue) \cup removed
       /\ \A x \in ItemsOf(queue) : worker.item <= x

KeptInv == Kept => AtRest /\ Held /\ (mode = "up" => Matched(Lost, Spare))

LEMMA StillKept ==
  ASSUME TypeInv, Next, Kept'
  PROVE  /\ Kept /\ NeverAny({"reorder"}) /\ NeverAny({"reorder"})'
         /\ \A f \in {"early", "reorder", "load", "disk", "crash", "close"} : ~Fault(f)
BY FaultsTyped DEF Kept, NeverAny, Fault

LEMMA MatchedNone == \A S : Matched({}, S)
<1> SUFFICES ASSUME NEW S PROVE Matched({}, S)
  OBVIOUS
<1> DEFINE f == [i \in {} |-> i]
<1>1. f \in [{} -> S]
  OBVIOUS
<1>2. f \in Injection({}, S)
  BY <1>1 DEF Injection, IsInjective
<1> QED BY <1>2 DEF Matched

LEMMA MatchedStays ==
  ASSUME NEW L, NEW S, NEW M, NEW T, Matched(L, S), M \subseteq L, S \subseteq T
  PROVE  Matched(M, T)
<1>1. PICK f \in Injection(L, S) : \A i \in L : contents[f[i]] = contents[i]
  BY DEF Matched
<1>2. f \in [L -> S] /\ \A a, b \in L : f[a] = f[b] => a = b
  BY <1>1 DEF Injection, IsInjective
<1> DEFINE g == [i \in M |-> f[i]]
<1>3. g \in [M -> T] /\ \A i \in M : g[i] = f[i]
  BY <1>2
<1> HIDE DEF g
<1>4. g \in Injection(M, T)
  BY <1>2, <1>3 DEF Injection, IsInjective
<1>5. \A i \in M : contents[g[i]] = contents[i]
  BY <1>1, <1>3
<1> QED BY <1>4, <1>5 DEF Matched

\* One more lost item stands against one more that is spare.
LEMMA MatchedGrows ==
  ASSUME NEW L, NEW S, NEW k, NEW j, Matched(L, S), k \notin L, j \notin S,
         contents[j] = contents[k]
  PROVE  Matched(L \cup {k}, S \cup {j})
<1>1. PICK f \in Injection(L, S) : \A i \in L : contents[f[i]] = contents[i]
  BY DEF Matched
<1>2. f \in [L -> S] /\ \A a, b \in L : f[a] = f[b] => a = b
  BY <1>1 DEF Injection, IsInjective
<1> DEFINE g == [i \in L \cup {k} |-> IF i = k THEN j ELSE f[i]]
<1>3. g \in [L \cup {k} -> S \cup {j}] /\ g[k] = j /\ \A i \in L : g[i] = f[i] /\ g[i] \in S
  BY <1>2
<1> HIDE DEF g
<1>4. \A a, b \in L \cup {k} : g[a] = g[b] => a = b
  BY <1>2, <1>3
<1>5. g \in Injection(L \cup {k}, S \cup {j})
  BY <1>3, <1>4 DEF Injection, IsInjective
<1>6. \A i \in L \cup {k} : contents[g[i]] = contents[i]
  BY <1>1, <1>3
<1> QED BY <1>5, <1>6 DEF Matched

\* What the matching says of the items that are alike.
LEMMA MatchedCounts ==
  ASSUME TypeInv, Matched(Lost, Spare), removed \subseteq 1..added, NEW i \in 1..added
  PROVE  Alike(1..added, i)
           <= Alike(ItemsOf(queue), i) + Alike(ItemsOf(started), i) + Alike(removed, i)
<1> DEFINE Like(is) == {j \in is : contents[j] = contents[i]}
           Q == Like(ItemsOf(queue))
           D == Like(ItemsOf(started))
           R == Like(removed)
           L == Like(Lost)
           A == Like(1..added)
<1>1. IsFiniteSet(Q) /\ IsFiniteSet(D) /\ IsFiniteSet(R) /\ IsFiniteSet(L)
  <2>1. MaxItems \in Nat /\ IsFiniteSet(Items)
    BY BoundsAssumption, FS_Interval DEF Items
  <2>2. added \in Nat /\ 1..added \subseteq Items
    BY <2>1 DEF TypeInv, HistoryTyped, Items
  <2>3. Q \in SUBSET Items /\ D \in SUBSET Items /\ R \in SUBSET Items /\ L \in SUBSET Items
    BY <2>2, ItemsOfSequence DEF TypeInv, MemoryTyped, HistoryTyped, Lost
  <2> HIDE DEF Q, D, R, L
  <2> QED BY <2>1, <2>3, FS_Subset
<1>2. Cardinality(L) <= Cardinality(D \cap R)
  <2>1. PICK f \in Injection(Lost, Spare) : \A j \in Lost : contents[f[j]] = contents[j]
    BY DEF Matched
  <2>2. f \in [Lost -> Spare] /\ \A a, b \in Lost : f[a] = f[b] => a = b
    BY <2>1 DEF Injection, IsInjective
  <2> DEFINE g == [j \in L |-> f[j]]
  <2>3. \A j \in L : f[j] \in D \cap R
    BY <2>1, <2>2 DEF Spare
  <2>4. g \in [L -> D \cap R] /\ \A j \in L : g[j] = f[j] /\ j \in Lost
    BY <2>3
  <2> HIDE DEF g, L, D, R
  <2>5. g \in Injection(L, D \cap R)
    BY <2>2, <2>4 DEF Injection, IsInjective
  <2>6. IsFiniteSet(D \cap R)
    BY <1>1, FS_Intersection
  <2> QED BY <2>5, <2>6, FS_Injection
<1>3. A = (Q \cup (D \cup R) \cup L) \cap A
  BY DEF Lost
<1> HIDE DEF Q, D, R, L, A
<1>4. /\ IsFiniteSet(D \cup R) /\ IsFiniteSet(D \cap R)
      /\ Cardinality(D \cup R) = Cardinality(D) + Cardinality(R) - Cardinality(D \cap R)
  BY <1>1, FS_Union, FS_Intersection
<1>5. /\ IsFiniteSet(Q \cup (D \cup R)) /\ IsFiniteSet(Q \cap (D \cup R))
      /\ Cardinality(Q \cup (D \cup R))
           = Cardinality(Q) + Cardinality(D \cup R) - Cardinality(Q \cap (D \cup R))
  BY <1>1, <1>4, FS_Union, FS_Intersection
<1>6. /\ IsFiniteSet(Q \cup (D \cup R) \cup L) /\ IsFiniteSet((Q \cup (D \cup R)) \cap L)
      /\ Cardinality(Q \cup (D \cup R) \cup L)
           = Cardinality(Q \cup (D \cup R)) + Cardinality(L)
               - Cardinality((Q \cup (D \cup R)) \cap L)
  BY <1>1, <1>5, FS_Union, FS_Intersection
<1>7. Cardinality(A) <= Cardinality(Q \cup (D \cup R) \cup L)
  <2>1. A \in SUBSET (Q \cup (D \cup R) \cup L)
    BY <1>3
  <2> QED BY <1>6, <2>1, FS_Subset
<1> DEFINE cA == Cardinality(A)  cQ == Cardinality(Q)  cD == Cardinality(D)
           cR == Cardinality(R)  cL == Cardinality(L)
           cDR == Cardinality(D \cap R)  cU == Cardinality(D \cup R)
           cV == Cardinality(Q \cup (D \cup R))  cW == Cardinality(Q \cup (D \cup R) \cup L)
           x == Cardinality(Q \cap (D \cup R))  y == Cardinality((Q \cup (D \cup R)) \cap L)
<1>8. /\ cQ \in Nat /\ cD \in Nat /\ cR \in Nat /\ cL \in Nat /\ cDR \in Nat
      /\ x \in Nat /\ y \in Nat /\ cU \in Nat /\ cV \in Nat /\ cW \in Nat
  BY <1>1, <1>4, <1>5, <1>6, FS_CardinalityType
<1>9. A \in SUBSET (Q \cup (D \cup R) \cup L) /\ IsFiniteSet(A)
  BY <1>3, <1>6, FS_Subset
<1>10. cA \in Nat
  BY <1>9, FS_CardinalityType
<1>11. /\ cL <= cDR /\ cU = cD + cR - cDR /\ cV = cQ + cU - x /\ cW = cV + cL - y
       /\ cA <= cW
  BY <1>2, <1>4, <1>5, <1>6, <1>7
<1> HIDE DEF cA, cQ, cD, cR, cL, cDR, cU, cV, cW, x, y
<1>12. cA <= cQ + cD + cR
  BY ONLY <1>8, <1>10, <1>11
<1> QED BY <1>12 DEF cA, cQ, cD, cR, A, Q, D, R, Alike

\* A step that leaves the queue and the operators' part alone, and whose worker
\* takes nothing into its hands but what is in the queue.
LEMMA QuietKeeps ==
  ASSUME UNCHANGED <<queue, added, removed, contents>>, Matched(Lost, Spare),
         ItemsOf(started) \subseteq ItemsOf(started'),
         Hand' \subseteq Hand \cup ItemsOf(queue)
  PROVE  Matched(Lost, Spare)'
<1>1. Lost' \subseteq Lost
  BY DEF Lost
<1>2. Spare \subseteq Spare'
  BY DEF Spare
<1>3. Matched(Lost', Spare')
  BY <1>1, <1>2, MatchedStays
<1> QED BY <1>3 DEF Matched

\* An operator's list brings in at most the item that it adds, and what it leaves
\* out counts as taken out.
LEMMA ReplacedQueue ==
  ASSUME TypeInv, NEW q \in Lists, SetQueue(q)
  PROVE  /\ added \in Nat /\ UNCHANGED <<mode, started, worker>>
         /\ removed' = (removed \cup ItemsOf(queue)) \ ItemsOf(queue')
         /\ \/ added' = added /\ ItemsOf(queue') \subseteq ItemsOf(queue)
            \/ /\ added' = added + 1 /\ added' \in ItemsOf(queue')
               /\ ItemsOf(queue') \subseteq ItemsOf(queue) \cup {added + 1}
<1>1. added \in Nat /\ queue \in Seq(Items)
  BY BoundsAssumption DEF TypeInv, HistoryTyped, MemoryTyped
<1>2. /\ queue' = q /\ removed' = (removed \cup ItemsOf(queue)) \ ItemsOf(q)
      /\ UNCHANGED <<mode, started, worker>>
  BY ReplacedItems
<1>3. CASE Thins(q, queue) /\ UNCHANGED added
  BY <1>1, <1>2, <1>3 DEF Thins
<1>4. CASE /\ added < MaxItems /\ added' = added + 1 /\ added' \in ItemsOf(q)
           /\ Thins(q, Append(queue, added'))
  <2>1. added + 1 \in Items
    BY <1>1, <1>4, BoundsAssumption DEF Items
  <2>2. ItemsOf(Append(queue, added + 1)) = ItemsOf(queue) \cup {added + 1}
    BY <1>1, <2>1, ItemsOfAppend
  <2> QED BY <1>1, <1>2, <1>4, <2>2 DEF Thins
<1> QED BY <1>3, <1>4 DEF SetQueue

LEMMA ReplacedKeeps ==
  ASSUME TypeInv, NEW q \in Lists, SetQueue(q), Matched(Lost, Spare), removed \subseteq 1..added,
         UNCHANGED contents
  PROVE  Matched(Lost, Spare)'
<1>1. /\ added \in Nat /\ UNCHANGED <<started, worker>>
      /\ removed' = (removed \cup ItemsOf(queue)) \ ItemsOf(queue')
      /\ ItemsOf(queue') \subseteq ItemsOf(queue) \cup {added + 1}
      /\ added' = added \/ (added' = added + 1 /\ added' \in ItemsOf(queue'))
  BY ReplacedQueue
<1>2. 1..added + 1 = (1..added) \cup {added + 1} /\ added + 1 \notin 1..added
  BY <1>1
<1>3. Lost' \subseteq Lost
  BY <1>1, <1>2 DEF Lost
<1>4. Hand' = Hand
  BY <1>1 DEF Hand, InHand
<1>5. Spare \subseteq Spare'
  BY <1>1, <1>2, <1>4 DEF Spare
<1>6. Matched(Lost', Spare')
  BY <1>3, <1>5, MatchedStays
<1> QED BY <1>6 DEF Matched

\* A new item waits at the end of the queue.
LEMMA AddedKeeps ==
  ASSUME TypeInv, AddToQueue, removed \subseteq 1..added
  PROVE  /\ added \in Nat /\ added' = added + 1 /\ UNCHANGED <<mode, started, removed, worker>>
         /\ ItemsOf(queue') = ItemsOf(queue) \cup {added + 1}
         /\ Matched(Lost, Spare) /\ UNCHANGED contents => Matched(Lost, Spare)'
<1>1. added \in Nat /\ queue \in Seq(Items)
  BY BoundsAssumption DEF TypeInv, HistoryTyped, MemoryTyped
<1>2. /\ added < MaxItems /\ added' = added + 1 /\ queue' = Append(queue, added + 1)
      /\ UNCHANGED <<mode, started, removed, worker>>
  BY DEF AddToQueue
<1>3. added + 1 \in Items
  BY <1>1, <1>2, BoundsAssumption DEF Items
<1>4. ItemsOf(queue') = ItemsOf(queue) \cup {added + 1}
  BY <1>1, <1>2, <1>3, ItemsOfAppend
<1>5. 1..added + 1 = (1..added) \cup {added + 1} /\ added + 1 \notin 1..added
  BY <1>1
<1>6. Lost' \subseteq Lost
  BY <1>2, <1>4, <1>5 DEF Lost
<1>7. Spare \subseteq Spare'
  <2>1. Hand' = Hand
    BY <1>2 DEF Hand, InHand
  <2> QED BY <1>2, <1>4, <1>5, <2>1 DEF Spare
<1>8. ASSUME Matched(Lost, Spare), UNCHANGED contents PROVE Matched(Lost, Spare)'
  <2>1. Matched(Lost', Spare')
    BY <1>6, <1>7, <1>8, MatchedStays
  <2> QED BY <1>8, <2>1 DEF Matched
<1> QED BY <1>1, <1>2, <1>4, <1>8

\* Until the service is up, nothing happens but the load.
LEMMA RestStep ==
  ASSUME TypeInv, AtRest, Next, Kept'
  PROVE  AtRest' /\ (mode # "up" /\ mode' = "up" => SaverLoads)
<1>0. /\ mode \in {"down", "boot", "loading", "up"}
      /\ mode # "up" => Asleep /\ 1..added \subseteq ItemsOf(disk)
  BY DEF AtRest
<1>t. ops \in Seq([op : {"save", "load"}, queue : Seq(Items)])
  BY DEF TypeInv, MemoryTyped
<1>f. \A f \in {"early", "reorder", "load", "disk", "crash", "close"} : ~Fault(f)
  BY StillKept
<1>1. CASE mode = "up"
  <2>1. mode' = "up"
    <3>1. ~Crash /\ ~Close /\ ~CloseReleases /\ ~ProcessEnds /\ ~Boot /\ ~RequestLoad
          /\ ~SaverLoads
      BY <1>1, <1>f DEF Crash, Close, CloseReleases, ProcessEnds, Boot, RequestLoad, SaverLoads
    <3>2. CASE CallerCopies \/ CallerPuts \/ RunFinalized \/ SaverTakes \/ SaverWrites
               \/ QueueStart \/ AddToQueue \/ (\E q \in Lists : SetQueue(q))
               \/ (\E q \in Lists : CommitOtherList(q))
      BY <1>1, <3>2 DEF CallerCopies, CallerPuts, RunFinalized, SaverTakes, SaverWrites,
         QueueStart, AddToQueue, SetQueue, CommitOtherList, Replace, memory
    <3>3. CASE WorkerLooks \/ WorkerReleases \/ WorkerRests \/ StartNext \/ GiveBack
               \/ EnsureLease \/ LeaseGranted \/ SetSettings \/ Prepare \/ PrepareTimesOut
               \/ Pop \/ WorkerCopies \/ WorkerPuts
      BY <1>1, <3>3 DEF WorkerLooks, WorkerReleases, WorkerRests, StartNext, GiveBack,
         EnsureLease, LeaseGranted, SetSettings, Prepare, PrepareTimesOut, Pop, WorkerCopies,
         WorkerPuts, WorkerOnly
    <3>4. CASE Accept \/ Refuse \/ (\E code \in {"STOPPED", "ABORTED"} : RunEnds(code))
               \/ ForeignRunBegins \/ OtherAutomation \/ ReleaseCarriedOut
      BY <1>1, <3>4 DEF Accept, Refuse, RunEnds, ForeignRunBegins, OtherAutomation,
         ReleaseCarriedOut, Unheard, memory
    <3> QED BY <3>1, <3>2, <3>3, <3>4, NextSplit
  <2> QED BY <1>1, <2>1 DEF AtRest
<1>2. CASE mode # "up"
  <2>0. Asleep /\ 1..added \subseteq ItemsOf(disk)
    BY <1>0, <1>2
  <2>1. CASE Boot \/ RequestLoad
    <3>1. UNCHANGED <<disk, added, saver>>
      BY <2>1, ListsStay
    <3>2. /\ mode' \in {"boot", "loading"} /\ UNCHANGED <<caller, worker>>
          /\ ops' = ops \/ ops' = Append(ops, Load)
      BY <2>1 DEF Boot, RequestLoad, threads
    <3>3. \A i \in DOMAIN ops' : ops'[i].op = "load"
      <4>1. \A i \in DOMAIN ops : ops[i].op = "load"
        BY <2>0 DEF Asleep
      <4>2. Load.op = "load" /\ Load \in [op : {"save", "load"}, queue : Seq(Items)]
        BY DEF Load
      <4>3. ASSUME ops' = Append(ops, Load), NEW i \in DOMAIN ops'
            PROVE  ops'[i] = Load \/ (i \in DOMAIN ops /\ ops'[i] = ops[i])
        <5> DEFINE Op == [op : {"save", "load"}, queue : Seq(Items)]
        <5>1. ops \in Seq(Op) /\ Load \in Op
          BY <1>t, <4>2
        <5> HIDE DEF Op
        <5> QED BY <4>3, <5>1
      <4> QED BY <3>2, <4>1, <4>2, <4>3
    <3> QED BY <1>2, <2>0, <3>1, <3>2, <3>3 DEF AtRest, Asleep
  <2>2. CASE RunFinalized \/ Refuse \/ (\E code \in {"STOPPED", "ABORTED"} : RunEnds(code))
             \/ ForeignRunBegins \/ OtherAutomation \/ ReleaseCarriedOut \/ Accept
    <3>1. UNCHANGED <<mode, disk, added, saver, caller, ops>>
      BY <2>2 DEF RunFinalized, Refuse, RunEnds, ForeignRunBegins, OtherAutomation,
         ReleaseCarriedOut, Accept, Unheard, memory, outside, threads, history
    <3>2. worker.pc = "idle" => UNCHANGED worker
      BY <2>2 DEF RunFinalized, Refuse, RunEnds, ForeignRunBegins, OtherAutomation,
         ReleaseCarriedOut, Accept, Answer, At, threads
    <3> QED BY <1>0, <1>2, <2>0, <3>1, <3>2 DEF AtRest, Asleep
  <2>3. CASE SaverLoads
    BY <2>3 DEF SaverLoads, AtRest
  <2>4. ~SaverTakes
    <3> SUFFICES ASSUME SaverTakes PROVE FALSE
      OBVIOUS
    <3>1. PICK n \in 1..Len(ops) : \A i \in 1..n : ops[i].op = "save"
      BY DEF SaverTakes
    <3>2. 1 \in DOMAIN ops /\ ops[1].op = "save"
      BY <1>t, <3>1
    <3> QED BY <2>0, <3>2 DEF Asleep
  <2>5. ~CallerCopies /\ ~CallerPuts /\ ~SaverWrites /\ ~QueueStart /\ ~AddToQueue
        /\ ~(\E q \in Lists : SetQueue(q)) /\ ~(\E q \in Lists : CommitOtherList(q))
        /\ ~Crash /\ ~Close /\ ~CloseReleases /\ ~ProcessEnds
    BY <1>0, <1>2, <1>f, <2>0 DEF CallerCopies, CallerPuts, SaverWrites, QueueStart, AddToQueue,
       SetQueue, CommitOtherList, Called, Crash, Close, CloseReleases, ProcessEnds, Asleep
  <2>6. ~WorkerLooks /\ ~WorkerReleases /\ ~WorkerRests /\ ~StartNext /\ ~GiveBack
        /\ ~EnsureLease /\ ~LeaseGranted /\ ~SetSettings /\ ~Prepare /\ ~PrepareTimesOut
        /\ ~Pop /\ ~WorkerCopies /\ ~WorkerPuts
    BY <1>2, <2>0 DEF WorkerLooks, WorkerReleases, WorkerRests, StartNext, GiveBack,
       EnsureLease, LeaseGranted, SetSettings, Prepare, PrepareTimesOut, Pop, WorkerCopies,
       WorkerPuts, At, Asleep
  <2> QED BY <2>1, <2>2, <2>3, <2>4, <2>5, <2>6, NextSplit
<1> QED BY <1>1, <1>2

\* The steps that change the lists of items, and the others: those leave the
\* queue alone, and the worker drops what it has in its hands or keeps it.
ListStep ==
  \/ AddToQueue \/ (\E q \in Lists : SetQueue(q)) \/ SaverLoads \/ StartNext \/ Pop

LEMMA OtherSteps ==
  ASSUME TypeInv, AtRest, Next, Kept', ~ListStep
  PROVE  /\ UNCHANGED <<queue, added, removed>>
         /\ InHand' => InHand /\ worker'.item = worker.item
         /\ ItemsOf(started) \subseteq ItemsOf(started')
<1>f. \A f \in {"early", "reorder", "load", "disk", "crash", "close"} : ~Fault(f)
  BY StillKept
<1>i. WorkerIdle.pc = "idle"
  BY DEF WorkerIdle
<1>0. ~Crash /\ ~Close /\ ~(\E q \in Lists : CommitOtherList(q)) /\ ~CloseReleases
      /\ ~ProcessEnds
  BY <1>f DEF Crash, Close, CommitOtherList, CloseReleases, ProcessEnds, AtRest
<1>1. UNCHANGED <<queue, added, removed>>
  <2>1. CASE SaverTakes \/ SaverWrites \/ Accept
    BY <2>1 DEF SaverTakes, SaverWrites, Accept, Unheard, memory, history
  <2> QED BY <1>0, <2>1, ListsStay, NextSplit DEF ListStep
<1>2. ItemsOf(started) \subseteq ItemsOf(started')
  <2>1. CASE Accept
    BY <2>1, Answered, ItemsOfAppend DEF Accept, TypeInv, HistoryTyped
  <2>2. CASE ~Accept
    BY <2>2, StartedByAccept
  <2> QED BY <2>1, <2>2
<1>3. ASSUME InHand' PROVE InHand /\ worker'.item = worker.item
  <2>1. CASE Boot \/ RequestLoad \/ CallerCopies \/ CallerPuts \/ RunFinalized \/ SaverTakes
             \/ SaverWrites \/ QueueStart
             \/ (\E code \in {"STOPPED", "ABORTED"} : RunEnds(code))
             \/ ForeignRunBegins \/ OtherAutomation \/ ReleaseCarriedOut
    <3>1. UNCHANGED worker
      BY <2>1 DEF Boot, RequestLoad, CallerCopies, CallerPuts, RunFinalized, SaverTakes,
         SaverWrites, QueueStart, RunEnds, ForeignRunBegins, OtherAutomation,
         ReleaseCarriedOut, Unheard, threads
    <3> QED BY <1>3, <3>1 DEF InHand
  <2>2. CASE WorkerLooks \/ WorkerReleases \/ WorkerRests
    BY <1>3, <2>2, WorkerGoes DEF WorkerLooks, WorkerReleases, WorkerRests, InHand
  <2>3. CASE GiveBack \/ WorkerPuts
    BY <1>3, <1>i, <2>3 DEF GiveBack, WorkerPuts, InHand
  <2>4. CASE WorkerCopies
    BY <1>3, <2>4 DEF WorkerCopies, InHand, TypeInv, ThreadsTyped
  <2>5. CASE EnsureLease \/ LeaseGranted \/ SetSettings \/ Prepare \/ PrepareTimesOut
    <3>1. worker.pc \in {"lease", "granted", "settings", "prepare", "await"}
      BY <2>5 DEF EnsureLease, LeaseGranted, SetSettings, Prepare, PrepareTimesOut, At
    <3>2. worker' = WorkerIdle \/ \E place \in WorkerPlaces : GoTo(place)
      BY <2>5 DEF EnsureLease, LeaseGranted, SetSettings, Prepare, PrepareTimesOut,
         WorkerPlaces
    <3> QED BY <1>3, <1>i, <3>1, <3>2, WorkerGoes DEF InHand
  <2>6. CASE Accept \/ Refuse
    <3>1. \/ UNCHANGED worker
          \/ worker.pc = "await" /\ \E place \in {"pop", "giveback"} : GoTo(place)
      BY <2>6 DEF Accept, Refuse, Answer, At
    <3> QED BY <1>3, <3>1, WorkerGoes DEF InHand
  <2> QED BY <1>0, <2>1, <2>2, <2>3, <2>4, <2>5, <2>6, NextSplit DEF ListStep
<1> QED BY <1>1, <1>2, <1>3

\* What the worker takes into its hands.
LEMMA Taken ==
  ASSUME TypeInv, AtRest, StartNext
  PROVE  /\ UNCHANGED <<queue, added, removed, started, mode>> /\ mode = "up" /\ ~InHand
         /\ InHand' => /\ queue # << >> /\ worker'.item = Head(queue)
                       /\ Head(queue) \in ItemsOf(queue)
<1>1. /\ UNCHANGED <<queue, added, removed, started, mode>> /\ worker.pc = "second"
      /\ worker' = NextItem
  BY DEF StartNext, WorkerOnly, At
<1>2. InHand' => queue # << >> /\ worker'.item = Head(queue)
  BY <1>1 DEF NextItem, WorkerIdle, InHand
<1>3. queue # << >> => Head(queue) \in ItemsOf(queue)
  BY ItemsOfTail DEF TypeInv, MemoryTyped
<1> QED BY <1>1, <1>2, <1>3 DEF AtRest, Asleep, InHand

LEMMA HeldStep ==
  ASSUME TypeInv, ListsInv, AtRest, Held, Next, Kept'
  PROVE  Held'
<1>1. removed \subseteq 1..added /\ Listed(queue, added) /\ queue \in Seq(Items)
  BY StillKept DEF Held, ListsInv, TypeInv, MemoryTyped
<1>2. InHand => /\ worker.item \in 1..added /\ worker.item \in ItemsOf(queue) \cup removed
                /\ \A x \in ItemsOf(queue) : worker.item <= x
  BY DEF Held
<1>3. ItemsOf(queue) \subseteq 1..added
  BY <1>1 DEF Listed
<1>4. CASE ~ListStep
  BY <1>1, <1>2, <1>4, OtherSteps DEF Held
<1>5. CASE AddToQueue
  <2>1. /\ added \in Nat /\ added' = added + 1 /\ UNCHANGED <<removed, worker>>
        /\ ItemsOf(queue') = ItemsOf(queue) \cup {added + 1}
    BY <1>1, <1>5, AddedKeeps DEF AddToQueue
  <2>2. 1..added \subseteq 1..added + 1 /\ \A i \in 1..added : i <= added + 1
    BY <2>1
  <2> QED BY <1>1, <1>2, <2>1, <2>2 DEF Held, InHand
<1>6. CASE \E q \in Lists : SetQueue(q)
  <2>1. PICK q \in Lists : SetQueue(q)
    BY <1>6
  <2>2. /\ added \in Nat /\ UNCHANGED worker
        /\ removed' = (removed \cup ItemsOf(queue)) \ ItemsOf(queue')
        /\ ItemsOf(queue') \subseteq ItemsOf(queue) \cup {added + 1}
        /\ added' \in {added, added + 1}
    BY <2>1, ReplacedQueue
  <2>3. 1..added \subseteq 1..added + 1 /\ \A i \in 1..added : i <= added + 1
    BY <2>2
  <2>4. removed' \subseteq 1..added' /\ 1..added \subseteq 1..added'
    BY <1>1, <1>3, <2>2, <2>3
  <2>5. ASSUME InHand PROVE \A x \in ItemsOf(queue') : worker.item <= x
    BY <1>2, <2>2, <2>3, <2>5
  <2> QED BY <1>2, <2>2, <2>4, <2>5 DEF Held, InHand
<1>7. CASE SaverLoads
  <2>1. UNCHANGED <<added, removed, worker>> /\ mode # "up"
    BY <1>7 DEF SaverLoads, threads
  <2> QED BY <1>1, <2>1 DEF Held, InHand, AtRest, Asleep
<1>8. CASE StartNext
  <2>1. /\ UNCHANGED <<queue, added, removed>>
        /\ InHand' => /\ queue # << >> /\ worker'.item = Head(queue)
                      /\ Head(queue) \in ItemsOf(queue)
    BY <1>8, Taken
  <2>2. ASSUME queue # << >> PROVE \A x \in ItemsOf(queue) : Head(queue) <= x
    <3>1. /\ ItemsOf(queue) = {Head(queue)} \cup ItemsOf(Tail(queue))
          /\ \A x \in ItemsOf(Tail(queue)) : Head(queue) < x
      BY <1>1, <2>2, ItemsOfTail, ListedTail
    <3>2. 1..added \subseteq Int
      BY DEF TypeInv, HistoryTyped
    <3> QED BY <1>3, <3>1, <3>2
  <2> QED BY <1>1, <1>3, <2>1, <2>2 DEF Held
<1>9. CASE Pop
  <2>1. UNCHANGED <<added, removed>> /\ worker'.pc = "copy"
    BY <1>9, WorkerGoes DEF Pop
  <2> QED BY <1>1, <2>1 DEF Held, InHand
<1> QED BY <1>4, <1>5, <1>6, <1>7, <1>8, <1>9 DEF ListStep

\* The removal of the started item, or of one like it when an operator took the
\* started item out.
LEMMA PopKeeps ==
  ASSUME TypeInv, AwaitInv, Listed(queue, added), Held, Matched(Lost, Spare), Pop
  PROVE  Matched(Lost, Spare)'
<1> DEFINE j == worker.item
           k == Head(queue)
<1>1. /\ UNCHANGED <<added, removed, started, contents>> /\ worker.pc = "pop"
      /\ worker'.pc = "copy" /\ PopStarted
  BY WorkerGoes DEF Pop, At
<1>2. /\ InHand /\ j \in ItemsOf(started) /\ j \in ItemsOf(queue) \cup removed
      /\ \A x \in ItemsOf(queue) : j <= x
      /\ j \in 1..added
  BY <1>1 DEF InHand, AwaitInv, Held
<1>3. Hand' = {} /\ Hand = {j}
  BY <1>1, <1>2 DEF Hand, InHand
<1>4. CASE queue' = queue
  <2>1. Hand' \subseteq Hand \cup ItemsOf(queue)
    BY <1>3
  <2> QED BY <1>1, <1>4, <2>1, QuietKeeps
<1>5. CASE queue' # queue
  <2>1. queue # << >> /\ contents[k] = contents[j] /\ queue' = Tail(queue)
    BY <1>1, <1>5 DEF PopStarted, SameAsStarted
  <2>2. /\ ItemsOf(queue) = {k} \cup ItemsOf(queue')
        /\ \A x \in ItemsOf(queue') : k < x
    BY <2>1, ItemsOfTail, ListedTail DEF TypeInv, MemoryTyped
  <2>3. CASE k = j
    <3>1. Lost' \subseteq Lost
      BY <1>1, <1>2, <2>2, <2>3 DEF Lost
    <3>2. Spare \subseteq Spare'
      BY <1>1, <1>3, <2>2 DEF Spare
    <3>3. Matched(Lost', Spare')
      BY <3>1, <3>2, MatchedStays
    <3> QED BY <1>1, <3>3 DEF Matched
  <2>4. CASE k # j
    <3>1. j \notin ItemsOf(queue)
      <4> SUFFICES ASSUME j \in ItemsOf(queue) PROVE FALSE
        OBVIOUS
      <4>1. k \in ItemsOf(queue) /\ j \in ItemsOf(queue')
        BY <2>2, <2>4
      <4>2. k < j /\ j <= k
        BY <1>2, <2>2, <4>1
      <4>3. j \in Int /\ k \in Int
        BY <1>2, <4>1 DEF Listed
      <4> HIDE DEF j, k
      <4> QED BY ONLY <4>2, <4>3
    <3>2. Matched(Lost \cup {k}, Spare \cup {j})
      <4>1. k \notin Lost /\ j \notin Spare
        BY <1>3, <2>2 DEF Lost, Spare
      <4> QED BY <2>1, <4>1, MatchedGrows
    <3>3. Lost' \subseteq Lost \cup {k}
      BY <1>1, <2>2 DEF Lost
    <3>4. Spare \cup {j} \subseteq Spare'
      BY <1>1, <1>2, <1>3, <2>2, <3>1 DEF Spare
    <3> HIDE DEF j, k
    <3>5. Matched(Lost', Spare')
      BY <3>2, <3>3, <3>4, MatchedStays
    <3> QED BY <1>1, <3>5 DEF Matched
  <2> QED BY <2>3, <2>4
<1> QED BY <1>4, <1>5

LEMMA KeptStep ==
  ASSUME TypeInv, AwaitInv, ListsInv, KeptInv, Next
  PROVE  KeptInv'
<1> SUFFICES ASSUME Kept' PROVE AtRest' /\ Held' /\ (mode' = "up" => Matched(Lost, Spare)')
  BY DEF KeptInv
<1>0. /\ AtRest /\ Held /\ (mode = "up" => Matched(Lost, Spare)) /\ removed \subseteq 1..added
      /\ UNCHANGED contents /\ Listed(queue, added)
  BY StillKept, DataStep DEF KeptInv, Held, ListsInv
<1>1. AtRest' /\ Held'
  BY <1>0, RestStep, HeldStep
<1>2. ASSUME mode' = "up" PROVE Matched(Lost, Spare)'
  <2>1. CASE mode # "up"
    <3>1. SaverLoads
      BY <1>0, <1>2, <2>1, RestStep
    <3>2. queue' = disk /\ UNCHANGED <<added, contents>> /\ 1..added \subseteq ItemsOf(disk)
      BY <1>0, <2>1, <3>1, StillKept DEF SaverLoads, AtRest
    <3>3. Lost' = {}
      BY <3>2 DEF Lost
    <3>4. Matched(Lost', Spare')
      BY <3>3, MatchedNone
    <3> QED BY <3>2, <3>4 DEF Matched
  <2>2. CASE mode = "up" /\ ~ListStep
    <3>1. /\ UNCHANGED <<queue, added, removed>>
          /\ InHand' => InHand /\ worker'.item = worker.item
          /\ ItemsOf(started) \subseteq ItemsOf(started')
      BY <1>0, <2>2, OtherSteps
    <3>2. Hand' \subseteq Hand \cup ItemsOf(queue)
      BY <3>1 DEF Hand
    <3> QED BY <1>0, <2>2, <3>1, <3>2, QuietKeeps
  <2>3. CASE mode = "up" /\ StartNext
    <3>1. /\ UNCHANGED <<queue, added, removed, started>>
          /\ InHand' => worker'.item = Head(queue) /\ Head(queue) \in ItemsOf(queue)
      BY <1>0, <2>3, Taken
    <3>2. Hand' \subseteq Hand \cup ItemsOf(queue)
      BY <3>1 DEF Hand
    <3> QED BY <1>0, <2>3, <3>1, <3>2, QuietKeeps
  <2>4. CASE mode = "up" /\ (AddToQueue \/ Pop \/ \E q \in Lists : SetQueue(q))
    BY <1>0, <2>4, AddedKeeps, PopKeeps, ReplacedKeeps
  <2>5. ~(mode = "up" /\ SaverLoads)
    BY DEF SaverLoads
  <2> QED BY <2>1, <2>2, <2>3, <2>4, <2>5 DEF ListStep
<1> QED BY <1>1, <1>2

\* While no fault touches the list, every accepted item waits in the queue, was
\* started or was taken out by an operator, equal items counted together:
\* start_next's removal of the head, the operators' changes and the load of the
\* saved queue lose none.
THEOREM QueueLosesNothing == Spec => []NothingIsLost
<1> DEFINE Inv == TypeInv /\ AwaitInv /\ ListsInv /\ KeptInv
<1>1. Init => Inv
  <2> SUFFICES ASSUME Init PROVE AwaitInv /\ ListsInv /\ KeptInv
    BY TypeInit
  <2>1. /\ mode = "down" /\ ops = << >> /\ caller.pc = "free" /\ worker.pc = "idle"
        /\ saver.pc = "wait" /\ removed = {}
    BY DEF Init, CallerFree, WorkerIdle, SaverWaits
  <2>2. 1..added \subseteq ItemsOf(disk)
    BY DEF Init, ItemsOf
  <2>3. KeptInv
    BY <2>1, <2>2 DEF KeptInv, AtRest, Asleep, Held, InHand
  <2> QED BY <2>1, <2>3, ListsInit DEF AwaitInv
<1>2. Inv /\ [Next]_vars => Inv'
  <2> SUFFICES ASSUME Inv, [Next]_vars PROVE Inv'
    OBVIOUS
  <2>1. CASE Next
    BY <2>1, OutsideStep, MemoryStep, ThreadsStep, HistoryStep, DataStep, AwaitStep, ListsStep,
       KeptStep DEF TypeInv
  <2>2. CASE UNCHANGED vars
    <3>1. UNCHANGED <<disk, lease, run, requests, finalized, mode, queue, leaseOwned,
                      unanswered, pendingAdvance, pendingRelease, lastSeen, ops, caller,
                      worker, saver, added, removed, contents, started, starts, sets,
                      credit, raced, faults>>
      BY <2>2, StutterKeepsAll
    <3>2. TypeInv' /\ AwaitInv' /\ ListsInv'
      BY <2>2, StutterKeepsTypes, StutterKeepsLists
    <3>3. Lost' = Lost /\ Spare' = Spare
      BY <3>1 DEF Lost, Spare, Hand, InHand
    <3>4. Matched(Lost, Spare)' <=> Matched(Lost, Spare)
      BY <3>1, <3>3 DEF Matched
    <3>5. KeptInv'
      BY <3>1, <3>4 DEF KeptInv, Kept, NeverAny, AtRest, Asleep, Held, InHand
    <3> QED BY <3>2, <3>5
  <2> QED BY <2>1, <2>2
<1>3. Inv => NothingIsLost
  <2> SUFFICES ASSUME Inv, mode = "up", Kept, NEW i \in 1..added
               PROVE  Alike(1..added, i) <= Alike(ItemsOf(queue), i)
                        + Alike(ItemsOf(started), i) + Alike(removed, i)
    BY DEF NothingIsLost, Kept
  <2>1. Matched(Lost, Spare) /\ removed \subseteq 1..added
    BY DEF KeptInv, Held
  <2> QED BY <2>1, MatchedCounts
<1> QED BY <1>1, <1>2, <1>3, PTL DEF Spec

=============================================================================
