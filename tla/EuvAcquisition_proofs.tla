------------------------ MODULE EuvAcquisition_proofs ------------------------
(***************************************************************************)
(* Proofs about the EUV acquisition controller, for any number of          *)
(* exposures, pulses, operator calls and faults: a diagnostic and an       *)
(* exposure never overlap and each holds its own session, and no snapshot  *)
(* of a run is lost on its way from the spool to the record (the           *)
(* refinement of SnapshotCustody).                                         *)
(***************************************************************************)
EXTENDS EuvAcquisition, WellFoundedInduction, SequenceTheorems, TLAPS

-----------------------------------------------------------------------------
(* The inductive invariant.                                                 *)

\* Who has the digitizer.
OwnerInv ==
  /\ OneOwner
  /\ ctl # "idle" => ~Idle /\ ~run.release
  /\ ctl = "checked" => run.session = NoSession /\ ~run.sent /\ board.session \notin Runs
  /\ run = NoRun \/ run.id \in 1..runs
  /\ run.session \in {NoSession, run.id}
  /\ run.session = NoSession => run.totals = {}
  /\ pc = "reconcile" => run.session # NoSession /\ run.sent
  /\ pc = "listing" => diag.st = "finalizing"
  /\ diag.st = "finalizing" => board.session \notin Runs
  /\ pc = "recover" => board.session \in Runs

\* What is in the spool.
BoardFits(b) ==
  /\ b.st = "active" => b.session # NoSession
  /\ b.cut <= b.seq
  /\ \A s \in b.snaps : s[1] = b.session /\ s[2] <= b.cut
  /\ b.session = NoSession => b.snaps = {}

BoardInv ==
  /\ BoardFits(board)
  /\ board.session \in Runs => board.session <= runs

\* The spool of a session goes on.
Follows(b, c) ==
  /\ c.session = b.session /\ c.acked = b.acked
  /\ \/ c.snaps = b.snaps
     \/ b.seq > b.cut /\ c.snaps = b.snaps \cup {<<b.session, b.seq>>}
  /\ b.st # "active" => c.snaps = b.snaps /\ c.st # "active"

\* What was spooled, and what is in the records.
CustodyInv ==
  /\ \A r \in Runs : \A s \in record[r].stored : s[1] = r /\ r <= runs
  /\ board.session \in Runs => /\ record[board.session].stored \subseteq board.snaps
                               /\ board.acked \subseteq record[board.session].stored
  /\ ctl = "checked" => record[run.id].stored = {}
  /\ run.id \in Runs => run.imported \subseteq record[run.id].stored
  /\ run.sent => board.st # "active"
  /\ run.release => /\ run.sent /\ run.session # NoSession /\ record[run.id].analysed
                    /\ board.snaps \subseteq record[run.id].stored

AcquisitionInv == TypeOK /\ OwnerInv /\ BoardInv /\ CustodyInv

-----------------------------------------------------------------------------
(* Types.                                                                   *)

LEMMA Sizes ==
  /\ MaxRuns \in Nat \ {0} /\ MaxPulses \in Nat \ {0} /\ MaxCalls \in Nat \ {0}
  /\ MaxFaults \in Nat
  /\ Runs \subseteq Nat /\ Pulses \subseteq Nat /\ Calls \subseteq Nat
  /\ NoSession = 0 /\ DiagnosticSession \in Nat /\ DiagnosticSession # NoSession
  /\ NoSession \notin Runs /\ DiagnosticSession \notin Runs
  /\ \A r \in Runs : r <= MaxRuns /\ r \in 0..MaxRuns /\ r \in 0..DiagnosticSession
  /\ \A x \in 0..DiagnosticSession :
       x \in Runs \/ x = DiagnosticSession \/ x = NoSession
BY BoundsAssumption DEF Runs, Pulses, Calls, NoSession, DiagnosticSession

\* The values the steps write.
LEMMA Values ==
  /\ NoRun \in RunRecords /\ NoRun.session = NoSession /\ ~NoRun.sent /\ ~NoRun.release
  /\ NoRun.totals = {} /\ NoRun.id = 0 /\ NoRun.wait = "no" /\ NoRun.imported = {}
  /\ \A r \in Runs : /\ RunOf(r) \in RunRecords /\ RunOf(r).session = NoSession
                     /\ RunOf(r).id = r /\ ~RunOf(r).sent /\ ~RunOf(r).release
                     /\ RunOf(r).totals = {} /\ RunOf(r).imported = {} /\ RunOf(r) # NoRun
  /\ NoDiag \in Diagnostics /\ NoDiag.st = "none"
  /\ NoBoard \in Boards /\ NoBoard.session = NoSession /\ NoBoard.st = "none"
  /\ NoBoard.snaps = {} /\ NoBoard.acked = {} /\ NoBoard.seq = 0 /\ NoBoard.cut = 0
  /\ \A x \in 1..DiagnosticSession :
       /\ Open(x) \in Boards /\ Open(x).session = x /\ Open(x).st = "active"
       /\ Open(x).snaps = {} /\ Open(x).acked = {} /\ Open(x).seq = 0 /\ Open(x).cut = 0
  /\ Down \in Clients /\ Up \in Clients /\ Up.snaps = {} /\ Up.reports = {}
  /\ NoRecord \in RecordContents /\ NoRecord.stored = {}
<1>1. /\ NoRun \in RunRecords /\ NoRun.session = NoSession /\ ~NoRun.sent /\ ~NoRun.release
      /\ NoRun.totals = {} /\ NoRun.id = 0 /\ NoRun.wait = "no" /\ NoRun.imported = {}
  BY Sizes DEF NoRun, RunOf, RunRecords
<1>2. \A r \in Runs : /\ RunOf(r) \in RunRecords /\ RunOf(r).session = NoSession
                      /\ RunOf(r).id = r /\ ~RunOf(r).sent /\ ~RunOf(r).release
                      /\ RunOf(r).totals = {} /\ RunOf(r).imported = {} /\ RunOf(r) # NoRun
  BY <1>1, Sizes DEF RunOf, RunRecords
<1>3. NoDiag \in Diagnostics /\ NoDiag.st = "none"
  BY DEF NoDiag, DiagOf, Diagnostics
<1>4. /\ NoBoard \in Boards /\ NoBoard.session = NoSession /\ NoBoard.st = "none"
      /\ NoBoard.snaps = {} /\ NoBoard.acked = {} /\ NoBoard.seq = 0 /\ NoBoard.cut = 0
  BY Sizes DEF NoBoard, Boards
<1>5. ASSUME NEW x \in 1..DiagnosticSession
      PROVE  /\ Open(x) \in Boards /\ Open(x).session = x /\ Open(x).st = "active"
             /\ Open(x).snaps = {} /\ Open(x).acked = {} /\ Open(x).seq = 0 /\ Open(x).cut = 0
  <2>1. x \in 0..DiagnosticSession /\ 0 \in 0..MaxPulses
    BY Sizes
  <2> QED
    BY <1>4, <2>1 DEF Open, Boards
<1>6. Down \in Clients /\ Up \in Clients /\ Up.snaps = {} /\ Up.reports = {}
  BY DEF Down, Up, Clients
<1>7. NoRecord \in RecordContents /\ NoRecord.stored = {}
  BY DEF NoRecord, RecordContents
<1> QED
  BY <1>1, <1>2, <1>3, <1>4, <1>5, <1>6, <1>7

\* A segment is closed, and a capture stopped.
LEMMA Closing ==
  ASSUME NEW b \in Boards, b.session # NoSession
  PROVE  /\ Flushed(b) \in Boards
         /\ Flushed(b).session = b.session /\ Flushed(b).st = b.st
         /\ Flushed(b).acked = b.acked /\ Flushed(b).seq = b.seq
         /\ \/ Flushed(b) = b
            \/ /\ b.seq > b.cut /\ Flushed(b).cut = b.seq
               /\ Flushed(b).snaps = b.snaps \cup {<<b.session, b.seq>>}
<1>1. CASE ~(b.seq > b.cut)
  BY <1>1 DEF Flushed
<1>2. CASE b.seq > b.cut
  <2>1. Flushed(b) = [session |-> b.session, st |-> b.st, seq |-> b.seq, cut |-> b.seq,
                      snaps |-> b.snaps \cup {<<b.session, b.seq>>}, acked |-> b.acked]
    BY <1>2 DEF Flushed, Boards
  <2>2. <<b.session, b.seq>> \in Events
    <3>1. b.session \in Runs \cup {DiagnosticSession}
      BY Sizes DEF Boards
    <3>2. b.seq \in Pulses
      BY <1>2, Sizes DEF Boards, Pulses
    <3> QED
      BY <3>1, <3>2 DEF Events
  <2>3. b.snaps \cup {<<b.session, b.seq>>} \in SUBSET Events
    BY <2>2 DEF Boards
  <2>4. Flushed(b) \in Boards
    BY <2>1, <2>3 DEF Boards
  <2> QED
    BY <1>2, <2>1, <2>4
<1> QED
  BY <1>1, <1>2

LEMMA Stopping ==
  ASSUME NEW b \in Boards, b.st = "active" => b.session # NoSession
  PROVE  /\ Stopped(b) \in Boards /\ Stopped(b).st # "active"
         /\ Stopped(b).session = b.session
         /\ Stopped(b).acked = b.acked /\ Stopped(b).seq = b.seq
         /\ \/ Stopped(b) = b /\ b.st # "active"
            \/ /\ b.st = "active" /\ Stopped(b).snaps = Flushed(b).snaps
               /\ Stopped(b).cut = Flushed(b).cut
<1>1. CASE b.st # "active"
  BY <1>1 DEF Stopped
<1>2. CASE b.st = "active"
  <2>1. Stopped(b) = [Flushed(b) EXCEPT !.st = "stopped"]
    BY <1>2 DEF Stopped
  <2>2. /\ Flushed(b) \in Boards
        /\ Flushed(b).session = b.session /\ Flushed(b).acked = b.acked
        /\ Flushed(b).seq = b.seq
    BY <1>2, Closing
  <2> QED
    BY <1>2, <2>1, <2>2 DEF Boards
<1> QED
  BY <1>1, <1>2

\* Commands, announcements, answers and requests to stop.
LEMMA OutcomesAre ==
  /\ Outcomes \subseteq {"ok", "late", "reject", "lost", "unconnected"}
  /\ ForcedOutcomes \subseteq {"ok", "late", "reject", "lost", "unconnected"}
  /\ \A o \in Outcomes \cup ForcedOutcomes : o \in {"late", "reject"} => faults < MaxFaults
BY DEF Outcomes, ForcedOutcomes

LEMMA SentIsTyped ==
  ASSUME client \in Clients, faults \in 0..MaxFaults,
         NEW o \in Outcomes \cup ForcedOutcomes \cup {"refused"},
         NEW events \in Clients, Sent(o, events)
  PROVE  client' \in Clients /\ faults' \in 0..MaxFaults
<1>1. o \in {"late", "reject"} => faults < MaxFaults
  BY OutcomesAre
<1>2. faults' \in 0..MaxFaults
  BY <1>1, Sizes DEF Sent
<1>3. [events EXCEPT !.link = "up"] \in Clients
  BY DEF Clients
<1> QED
  BY <1>2, <1>3, Values DEF Sent

LEMMA AnnouncedIsTyped ==
  ASSUME client \in Clients, NEW b \in Boards
  PROVE  Announced(b) \in Clients
BY DEF Announced, Clients, Boards

LEMMA AnswerIsTyped ==
  ASSUME answers \in [Calls -> Nat], NEW S, Answer(S)
  PROVE  answers' \in [Calls -> Nat]
BY DEF Answer

LEMMA StopIsTyped ==
  ASSUME latch \in BOOLEAN, stopEvent \in BOOLEAN, NEW w, RequestStop(w)
  PROVE  latch' \in BOOLEAN /\ stopEvent' \in BOOLEAN
BY DEF RequestStop

\* What is known of a diagnostic's snapshots.
LEMMA MergedIsTyped ==
  ASSUME diag \in Diagnostics, NEW b \in Boards
  PROVE  /\ Merged(b) \in Diagnostics /\ Merged(b).st = diag.st
         /\ Merged(b).waiting = diag.waiting /\ Merged(b).mode = diag.mode
<1>1. /\ diag.done \cup b.acked \in SUBSET Events
      /\ (diag.pend \cup (b.snaps \ diag.done)) \ b.acked \in SUBSET Events
  BY DEF Diagnostics, Boards
<1> QED
  BY <1>1 DEF Merged, Diagnostics

LEMMA FailedIsTyped ==
  ASSUME diag \in Diagnostics
  PROVE  FailedDiag \in Diagnostics /\ FailedDiag.st = "error"
BY DEF FailedDiag, Diagnostics

\* Smallest and largest sequence numbers.
LEMMA SmallestPulse ==
  ASSUME NEW S \in SUBSET Pulses, S # {}
  PROVE  MinOf(S) \in S
<1> DEFINE R == OpToRel(<, Nat)
<1>1. IsWellFoundedOn(R, Nat)
  BY NatLessThanWellFounded
<1>2. S \subseteq Nat
  BY Sizes
<1>3. PICK x \in S : \A y \in S : <<y, x>> \notin R
  <2> HIDE DEF R
  <2> QED
    BY <1>1, <1>2, WFMin
<1>4. \A y \in S : ~ (y < x)
  BY <1>2, <1>3 DEF OpToRel
<1>5. \A y \in S : x <= y
  BY <1>2, <1>4
<1> QED
  BY <1>5 DEF MinOf

LEMMA LargestPulse ==
  ASSUME NEW S \in SUBSET Pulses, S # {}
  PROVE  MaxOf(S) \in S
<1> DEFINE R == OpToRel(<, Nat)
           T == {m \in Nat : m <= MaxPulses /\ MaxPulses - m \in S}
<1>1. IsWellFoundedOn(R, Nat)
  BY NatLessThanWellFounded
<1>2. S \subseteq Nat /\ \A y \in S : y <= MaxPulses /\ y >= 1
  BY Sizes DEF Pulses
<1>3. T # {}
  <2>1. PICK y \in S : TRUE
    OBVIOUS
  <2>2. MaxPulses - y \in T
    BY <1>2, Sizes
  <2> QED
    BY <2>2
<1>4. PICK m \in T : \A k \in T : <<k, m>> \notin R
  <2>1. T \subseteq Nat
    OBVIOUS
  <2> HIDE DEF R, T
  <2> QED
    BY <1>1, <1>3, <2>1, WFMin
<1>5. MaxPulses - m \in S
  OBVIOUS
<1>6. ASSUME NEW y \in S
      PROVE  MaxPulses - m >= y
  <2>1. MaxPulses - y \in T /\ MaxPulses - y \in Nat /\ m \in Nat
    BY <1>2, Sizes
  <2>2. ~ (MaxPulses - y < m)
    BY <1>4, <2>1 DEF OpToRel
  <2> QED
    BY <1>2, <2>1, <2>2, Sizes
<1> QED
  BY <1>5, <1>6 DEF MaxOf

-----------------------------------------------------------------------------
(* The spool.                                                               *)

\* The digitizer's commands keep the spool in order.
LEMMA SpoolsFit ==
  /\ BoardFits(NoBoard)
  /\ \A x \in 1..DiagnosticSession : BoardFits(Open(x))
BY Values, Sizes DEF BoardFits

LEMMA ClosingFits ==
  ASSUME NEW b \in Boards, BoardFits(b), b.session # NoSession
  PROVE  /\ BoardFits(Flushed(b))
         /\ b.snaps \subseteq Flushed(b).snaps
<1>1. /\ Flushed(b).session = b.session /\ Flushed(b).st = b.st
      /\ Flushed(b).seq = b.seq
      /\ \/ Flushed(b) = b
         \/ /\ b.seq > b.cut /\ Flushed(b).cut = b.seq
            /\ Flushed(b).snaps = b.snaps \cup {<<b.session, b.seq>>}
  BY Closing
<1>2. CASE Flushed(b) = b
  BY <1>2
<1>3. CASE /\ b.seq > b.cut /\ Flushed(b).cut = b.seq
           /\ Flushed(b).snaps = b.snaps \cup {<<b.session, b.seq>>}
  <2>1. ASSUME NEW s \in Flushed(b).snaps
        PROVE  s[1] = b.session /\ s[2] <= b.seq
    <3>1. CASE s \in b.snaps
      <4>1. s[1] = b.session /\ s[2] <= b.cut
        BY <3>1 DEF BoardFits
      <4>2. s \in Events
        BY <3>1 DEF Boards
      <4>3. s[2] \in Pulses /\ b.cut \in 0..MaxPulses /\ b.seq \in 0..MaxPulses
        BY <4>2 DEF Boards, Events
      <4>4. s[2] \in Nat
        <5>1. Pulses \subseteq Nat
          BY Sizes
        <5> QED
          BY <4>3, <5>1
      <4>6. b.cut \in Nat /\ b.seq \in Nat
        BY <4>3
      <4>5. s[2] <= b.seq
        BY <1>3, <4>1, <4>4, <4>6
      <4> QED
        BY <4>1, <4>5
    <3>2. CASE s = <<b.session, b.seq>>
      BY <3>2 DEF Boards
    <3> QED
      BY <1>3, <3>1, <3>2
  <2> QED
    BY <1>1, <1>3, <2>1 DEF BoardFits, Boards
<1> QED
  BY <1>1, <1>2, <1>3

LEMMA StoppingFits ==
  ASSUME NEW b \in Boards, BoardFits(b)
  PROVE  /\ Stopped(b) \in Boards /\ BoardFits(Stopped(b)) /\ Follows(b, Stopped(b))
         /\ Stopped(b).st # "active" /\ Stopped(b).seq = b.seq
<1>1. /\ Stopped(b) \in Boards /\ Stopped(b).st # "active"
      /\ Stopped(b).session = b.session
      /\ Stopped(b).acked = b.acked /\ Stopped(b).seq = b.seq
      /\ \/ Stopped(b) = b /\ b.st # "active"
         \/ /\ b.st = "active" /\ Stopped(b).snaps = Flushed(b).snaps
            /\ Stopped(b).cut = Flushed(b).cut
  BY Stopping DEF BoardFits
<1>2. CASE b.st # "active"
  BY <1>1, <1>2 DEF Follows
<1>3. CASE b.st = "active"
  <2>1. BoardFits(Flushed(b)) /\ b.snaps \subseteq Flushed(b).snaps
        /\ Flushed(b).session = b.session /\ Flushed(b).seq = b.seq
    BY <1>3, ClosingFits, Closing DEF BoardFits
  <2>2. \/ Flushed(b).snaps = b.snaps
        \/ b.seq > b.cut /\ Flushed(b).snaps = b.snaps \cup {<<b.session, b.seq>>}
    BY <1>3, Closing DEF BoardFits
  <2> QED
    BY <1>1, <1>3, <2>1, <2>2 DEF BoardFits, Follows
<1> QED
  BY <1>2, <1>3

LEMMA AcknowledgingFits ==
  ASSUME NEW b \in Boards, BoardFits(b), NEW S \in SUBSET Events
  PROVE  /\ [b EXCEPT !.acked = S] \in Boards /\ BoardFits([b EXCEPT !.acked = S])
         /\ [b EXCEPT !.acked = S].session = b.session
         /\ [b EXCEPT !.acked = S].snaps = b.snaps
         /\ [b EXCEPT !.acked = S].st = b.st
         /\ [b EXCEPT !.acked = S].acked = S
BY DEF Boards, BoardFits

-----------------------------------------------------------------------------
(* Types: every step keeps them.                                            *)

\* The state without the run, the diagnostic, the client, the spool and the
\* records.
RestTypes ==
  /\ reserved \in BOOLEAN
  /\ control \in Seq({"continuous", "one_shot", "flush", "stop"} \X Calls)
  /\ recovery \in Seq(Calls) /\ recovering \in {0} \cup Calls
  /\ deferred \in BOOLEAN /\ latch \in BOOLEAN
  /\ owed \subseteq {"preinit", "start"} /\ pc \in Steps
  /\ ctl \in {"idle", "stopping"} \cup Started /\ runs \in 0..MaxRuns
  /\ stopEvent \in BOOLEAN /\ answers \in [Calls -> Nat]
  /\ calls \in 0..MaxCalls
MainTypes ==
  /\ run \in RunRecords /\ diag \in Diagnostics /\ client \in Clients
  /\ board \in Boards /\ record \in [Runs -> RecordContents] /\ faults \in 0..MaxFaults

LEMMA TypesSplit == TypeOK <=> RestTypes /\ MainTypes
BY DEF TypeOK, RestTypes, MainTypes

\* The queues of calls.
QueuesTyped ==
  /\ control \in Seq({"continuous", "one_shot", "flush", "stop"} \X Calls)
  /\ recovery \in Seq(Calls)

LEMMA QueuesAreTyped ==
  ASSUME QueuesTyped
  PROVE  /\ \A e \in {"continuous", "one_shot", "flush", "stop"} \X Calls :
              Append(control, e) \in Seq({"continuous", "one_shot", "flush", "stop"} \X Calls)
         /\ \A c \in Calls : Append(recovery, c) \in Seq(Calls)
         /\ control # << >> =>
              /\ Head(control) \in {"continuous", "one_shot", "flush", "stop"} \X Calls
              /\ Tail(control) \in Seq({"continuous", "one_shot", "flush", "stop"} \X Calls)
         /\ recovery # << >> => Head(recovery) \in Calls /\ Tail(recovery) \in Seq(Calls)
BY AppendProperties, HeadTailProperties DEF QueuesTyped

LEMMA ControlGrows ==
  ASSUME QueuesTyped, NEW e \in {"continuous", "one_shot", "flush", "stop"} \X Calls,
         recovery' = recovery, control' \in {control, Append(control, e)}
  PROVE  QueuesTyped'
BY QueuesAreTyped DEF QueuesTyped

LEMMA AnswersAreTyped ==
  ASSUME answers \in [Calls -> Nat]
  PROVE  \A S : Answer(S) => answers' \in [Calls -> Nat]
BY AnswerIsTyped

LEMMA StepsAre ==
  Steps = {"connect", "lifecycle", "recovery", "control", "reports", "snapshots",
           "import", "diagnostic", "finalize", "release",
           "recover", "listing", "cleared", "defer", "reconcile", "failed"}
BY DEF Steps, Round

LEMMA RestTypesKeep ==
  ASSUME TypeOK, Next
  PROVE  RestTypes'
<1> USE Sizes, StepsAre, AnswersAreTyped DEF TypeOK, RestTypes, Started, WorkerFrame
<1>1. CASE CanStart
  BY <1>1 DEF CanStart
<1>2. CASE Preinit
  BY <1>2 DEF Preinit
<1>3. CASE Start
  BY <1>3 DEF Start
<1>4. CASE Stop
  BY <1>4 DEF Stop, OnStop
<1>5. CASE StopEventArrives
  BY <1>5 DEF StopEventArrives, OnStop
<1>6. CASE Maintain
  BY <1>6 DEF Maintain, RequestStop, FailDiagnostic
<1>7. CASE CompleteLifecycle
  BY <1>7 DEF CompleteLifecycle
<1>8. CASE BeginRecovery
  <2>0. /\ control' = control /\ recovery # << >> /\ recovery' = Tail(recovery)
        /\ recovering' \in {recovering, Head(recovery)}
    BY <1>8 DEF BeginRecovery, At, Busy
  <2>1. QueuesTyped' /\ recovering' \in {0} \cup Calls
    BY <2>0, QueuesAreTyped DEF QueuesTyped
  <2> QED
    BY <1>8, <2>1 DEF BeginRecovery, QueuesTyped
<1>9. CASE RecoverSnapshot
  BY <1>9 DEF RecoverSnapshot, EndRecovery
<1>10. CASE FinishRecovery
  BY <1>10 DEF FinishRecovery, EndRecovery
<1>11. CASE ProcessControl
  <2>1. QueuesTyped'
    BY <1>11, QueuesAreTyped DEF ProcessControl, At, Busy, QueuesTyped
  <2>2. reserved' \in BOOLEAN /\ pc' \in Steps /\ answers' \in [Calls -> Nat]
    BY <1>11 DEF ProcessControl, StartDiagnostic, FlushDiagnostic, StopDiagnosticCall
  <2> QED
    BY <1>11, <2>1, <2>2 DEF ProcessControl, QueuesTyped
<1>12. CASE ConsumeReports
  BY <1>12 DEF ConsumeReports, RequestStop
<1>13. CASE ConsumeSnapshots
  BY <1>13 DEF ConsumeSnapshots
<1>14. CASE ImportPending
  BY <1>14 DEF ImportPending, Import, RequestStop
<1>15. CASE ImportDiagnostic
  BY <1>15 DEF ImportDiagnostic, DiagnosticTransfer
<1>16. CASE AdvanceDiagnostic
  BY <1>16 DEF AdvanceDiagnostic, FailDiagnostic
<1>17. CASE ListDiagnostic
  BY <1>17 DEF ListDiagnostic
<1>18. CASE BeginFinalization
  BY <1>18 DEF BeginFinalization
<1>19. CASE ClearRejectedStart
  BY <1>19 DEF ClearRejectedStart
<1>20. CASE Reconcile
  <2>1. pc' \in Steps /\ ctl' \in {ctl, "idle"}
    BY <1>20 DEF Reconcile, Import, ListFails
  <2>2. latch' \in BOOLEAN /\ stopEvent' \in BOOLEAN
    <3>1. UNCHANGED <<latch, stopEvent>> \/ \E wanted \in BOOLEAN : RequestStop(wanted)
      BY <1>20 DEF Reconcile, Import, ListFails
    <3> QED
      BY <3>1 DEF RequestStop
  <2>3. UNCHANGED <<reserved, control, recovery, deferred, owed, recovering, answers,
                    runs, calls>>
    BY <1>20 DEF Reconcile
  <2> QED
    BY <2>1, <2>2, <2>3
<1>21. CASE Defer
  BY <1>21 DEF Defer
<1>22. CASE ReleaseAfterStopped
  BY <1>22 DEF ReleaseAfterStopped
<1>23. CASE HandleFailure
  BY <1>23 DEF HandleFailure, RequestStop, FailDiagnostic
<1>24. CASE Pulse
  BY <1>24 DEF Pulse, OutsideFrame
<1>25. CASE CloseSegment
  BY <1>25 DEF CloseSegment, OutsideFrame
<1>26. CASE BoardFails
  BY <1>26 DEF BoardFails, OutsideFrame
<1>27. CASE LinkBreaks
  BY <1>27 DEF LinkBreaks, OutsideFrame
<1>28. CASE DrainElapses
  BY <1>28 DEF DrainElapses, OutsideFrame
<1>29. CASE OneShotTimesOut
  BY <1>29 DEF OneShotTimesOut, OutsideFrame
<1>30. ASSUME NEW c \in Calls, AskRecovery(c)
      PROVE  RestTypes'
  <2>1. QueuesTyped'
    BY <1>30, QueuesAreTyped DEF AskRecovery, QueuesTyped
  <2>2. calls' \in 0..MaxCalls
    BY <1>30 DEF AskRecovery, Call, Calls
  <2>3. answers' \in [Calls -> Nat] /\ reserved' \in BOOLEAN
    BY <1>30 DEF AskRecovery
  <2> QED
    BY <1>30, <2>1, <2>2, <2>3 DEF AskRecovery, QueuesTyped
<1>31. ASSUME NEW c \in Calls, NEW mode \in {"continuous", "one_shot"}, AskDiagnostic(c, mode)
      PROVE  RestTypes'
  <2>0. recovery' = recovery /\ control' \in {control, Append(control, <<mode, c>>)}
    BY <1>31 DEF AskDiagnostic
  <2>a. QueuesTyped /\ <<mode, c>> \in {"continuous", "one_shot", "flush", "stop"} \X Calls
    BY <1>31 DEF QueuesTyped
  <2>1. QueuesTyped'
    BY <2>0, <2>a, ControlGrows
  <2>2. calls' \in 0..MaxCalls
    BY <1>31 DEF AskDiagnostic, Call, Calls
  <2>3. answers' \in [Calls -> Nat] /\ reserved' \in BOOLEAN
    BY <1>31 DEF AskDiagnostic
  <2> QED
    BY <1>31, <2>1, <2>2, <2>3 DEF AskDiagnostic, QueuesTyped
<1>32. ASSUME NEW c \in Calls, NEW what \in {"flush", "stop"}, AskRunningDiagnostic(c, what)
      PROVE  RestTypes'
  <2>0. recovery' = recovery /\ control' \in {control, Append(control, <<what, c>>)}
    BY <1>32 DEF AskRunningDiagnostic
  <2>a. QueuesTyped /\ <<what, c>> \in {"continuous", "one_shot", "flush", "stop"} \X Calls
    BY <1>32 DEF QueuesTyped
  <2>1. QueuesTyped'
    BY <2>0, <2>a, ControlGrows
  <2>2. calls' \in 0..MaxCalls
    BY <1>32 DEF AskRunningDiagnostic, Call, Calls
  <2>3. answers' \in [Calls -> Nat] /\ reserved' \in BOOLEAN
    BY <1>32 DEF AskRunningDiagnostic
  <2> QED
    BY <1>32, <2>1, <2>2, <2>3 DEF AskRunningDiagnostic, QueuesTyped
<1> QED
  BY <1>1, <1>2, <1>3, <1>4, <1>5, <1>6, <1>7, <1>8, <1>9, <1>10, <1>11, <1>12, <1>13, <1>14, <1>15, <1>16, <1>17, <1>18, <1>19, <1>20, <1>21, <1>22, <1>23, <1>24, <1>25, <1>26, <1>27, <1>28, <1>29, <1>30, <1>31, <1>32
     DEF Next, Worker, Callbacks, Environment

\* A spool that is typed and in order.
Fine(b) == b \in Boards /\ BoardFits(b)

LEMMA SpoolsAreFine ==
  ASSUME TypeOK, BoardFits(board)
  PROVE  /\ Fine(board) /\ Fine(NoBoard) /\ Fine(Stopped(board))
         /\ \A x \in 1..DiagnosticSession : Fine(Open(x)) /\ Fine(Stopped(Open(x)))
         /\ board.st = "active" => Fine(Flushed(board)) /\ Fine([board EXCEPT !.st = "orphaned"])
         /\ \A S \in SUBSET Events : Fine([board EXCEPT !.acked = S])
         /\ board.st = "active" => \A S \in SUBSET Events : Fine([Flushed(board) EXCEPT !.acked = S])
         /\ board.st = "active" /\ board.seq < MaxPulses => Fine([board EXCEPT !.seq = @ + 1])
<1>1. board \in Boards
  BY DEF TypeOK
<1>2. Fine(NoBoard) /\ Fine(Stopped(board)) /\ Fine(board)
  BY <1>1, Values, SpoolsFit, StoppingFits DEF Fine
<1>3. ASSUME NEW x \in 1..DiagnosticSession
      PROVE  Fine(Open(x)) /\ Fine(Stopped(Open(x)))
  <2>1. Open(x) \in Boards /\ BoardFits(Open(x))
    BY Values, SpoolsFit
  <2> QED
    BY <2>1, StoppingFits DEF Fine
<1>4. ASSUME NEW S \in SUBSET Events
      PROVE  Fine([board EXCEPT !.acked = S])
  BY <1>1, AcknowledgingFits DEF Fine
<1>5. ASSUME board.st = "active"
      PROVE  Fine(Flushed(board)) /\ Fine([board EXCEPT !.st = "orphaned"])
  <2>1. board.session # NoSession
    BY <1>5 DEF BoardFits
  <2>2. Fine(Flushed(board))
    BY <1>1, <2>1, Closing, ClosingFits DEF Fine
  <2>3. Fine([board EXCEPT !.st = "orphaned"])
    BY <1>1 DEF Fine, Boards, BoardFits
  <2> QED
    BY <2>2, <2>3
<1>6. ASSUME board.st = "active", NEW S \in SUBSET Events
      PROVE  Fine([Flushed(board) EXCEPT !.acked = S])
  BY <1>5, <1>6, AcknowledgingFits DEF Fine
<1>7. ASSUME board.st = "active", board.seq < MaxPulses
      PROVE  Fine([board EXCEPT !.seq = @ + 1])
  <2>1. board.seq \in 0..MaxPulses /\ board.cut \in 0..MaxPulses
    BY <1>1 DEF Boards
  <2>2. board.seq + 1 \in 0..MaxPulses /\ board.cut <= board.seq + 1
    BY <1>7, <2>1, Sizes DEF BoardFits
  <2> QED
    BY <1>1, <2>2 DEF Fine, Boards, BoardFits
<1> QED
  BY <1>1, <1>2, <1>3, <1>4, <1>5, <1>6, <1>7

\* The snapshots that are acknowledged.
LEMMA EventsOfSteps ==
  ASSUME TypeOK
  PROVE  /\ board.acked \in SUBSET Events /\ board.snaps \in SUBSET Events
         /\ diag.pend \in SUBSET Events /\ diag.done \cup diag.pend \in SUBSET Events
         /\ board.acked \cup diag.pend \in SUBSET Events
         /\ \A s \in board.snaps : board.acked \cup {s} \in SUBSET Events
         /\ board.st = "active" /\ board.session # NoSession =>
              Flushed(board).snaps \in SUBSET Events
<1>1. /\ board \in Boards /\ board.acked \in SUBSET Events /\ board.snaps \in SUBSET Events
      /\ diag.pend \in SUBSET Events /\ diag.done \cup diag.pend \in SUBSET Events
  BY DEF TypeOK, Boards, Diagnostics
<1>2. board.session # NoSession => Flushed(board).snaps \in SUBSET Events
  BY <1>1, Closing DEF Boards
<1> QED
  BY <1>1, <1>2

\* The service works for a run exactly when it has the name of one.
LEMMA RunsHaveNames ==
  ASSUME TypeOK, OwnerInv
  PROVE  /\ ~Idle <=> run.id # 0
         /\ ~Idle => /\ run.id \in Runs /\ run.id \in 1..runs /\ run.id \in 1..DiagnosticSession
                     /\ run.id # NoSession
         /\ ~Idle <=> run.id \in Runs
<1>1. run = NoRun \/ run.id \in 1..runs
  BY DEF OwnerInv
<1>2. runs \in 0..MaxRuns /\ NoRun.id = 0 /\ MaxRuns \in Nat
  BY Values, Sizes DEF TypeOK
<1> QED
  BY <1>1, <1>2 DEF Idle, Runs, DiagnosticSession, NoSession

\* A flush of the diagnostic: of nothing, or of its session.
LEMMA FlushDoes ==
  ASSUME NEW c, FlushDiagnostic(c)
  PROVE  \/ board' = board
         \/ board.st = "active" /\ board' = Flushed(board)
         \/ /\ board.session = DiagnosticSession
            /\ board' = [board EXCEPT !.acked = board.snaps]
         \/ /\ board.st = "active" /\ Flushed(board).session = DiagnosticSession
            /\ board' = [Flushed(board) EXCEPT !.acked = Flushed(board).snaps]
<1>1. CASE ~(diag.mode = "continuous" /\ diag.st = "running")
  BY <1>1 DEF FlushDiagnostic
<1>2. ASSUME diag.mode = "continuous", diag.st = "running", NEW o \in Outcomes,
             NEW b, b = board \/ (board.st = "active" /\ b = Flushed(board)),
             IF o = "ok" /\ b.session = DiagnosticSession
             THEN board' = [b EXCEPT !.acked = b.snaps] ELSE board' = b
      PROVE  \/ board' = board
             \/ board.st = "active" /\ board' = Flushed(board)
             \/ /\ board.session = DiagnosticSession
                /\ board' = [board EXCEPT !.acked = board.snaps]
             \/ /\ board.st = "active" /\ Flushed(board).session = DiagnosticSession
                /\ board' = [Flushed(board) EXCEPT !.acked = Flushed(board).snaps]
  BY <1>2
<1> QED
  BY <1>1, <1>2 DEF FlushDiagnostic

\* Every step leaves the spool in order.
LEMMA SpoolStaysFine ==
  ASSUME AcquisitionInv, Next
  PROVE  Fine(board')
<1> USE Sizes, SpoolsAreFine, EventsOfSteps DEF AcquisitionInv, BoardInv, WorkerFrame
<1>1. CASE CanStart
  BY <1>1 DEF CanStart
<1>2. CASE Preinit
  <2>1. run.id \in 1..DiagnosticSession
    BY <1>2, RunsHaveNames DEF Preinit
  <2> QED
    BY <1>2, <2>1 DEF Preinit
<1>3. CASE Maintain
  BY <1>3 DEF Maintain
<1>4. CASE BeginRecovery
  BY <1>4 DEF BeginRecovery
<1>5. CASE RecoverSnapshot
  BY <1>5 DEF RecoverSnapshot, Unrecovered
<1>6. CASE FinishRecovery
  BY <1>6 DEF FinishRecovery
<1>7. CASE ProcessControl
  <2>1. ASSUME NEW c, FlushDiagnostic(c)
        PROVE  Fine(board')
    BY <2>1, FlushDoes DEF BoardFits
  <2>2. ASSUME NEW c, StopDiagnosticCall(c)
        PROVE  Fine(board')
    BY <2>2 DEF StopDiagnosticCall
  <2>3. ASSUME NEW mode, NEW c, StartDiagnostic(mode, c)
        PROVE  Fine(board')
    <3>1. DiagnosticSession \in 1..DiagnosticSession
      BY Sizes
    <3> QED
      BY <2>3, <3>1 DEF StartDiagnostic
  <2> QED
    BY <1>7, <2>1, <2>2, <2>3 DEF ProcessControl
<1>8. CASE ImportPending
  <2>1. \/ board' = board
        \/ \E s \in board.snaps : board' = [board EXCEPT !.acked = @ \cup {s}]
    BY <1>8 DEF ImportPending, Import
  <2> QED
    BY <2>1
<1>9. CASE ImportDiagnostic
  BY <1>9 DEF ImportDiagnostic, DiagnosticTransfer
<1>10. CASE AdvanceDiagnostic
  BY <1>10 DEF AdvanceDiagnostic
<1>11. CASE ListDiagnostic
  BY <1>11 DEF ListDiagnostic
<1>12. CASE BeginFinalization
  BY <1>12 DEF BeginFinalization
<1>13. CASE Reconcile
  <2>1. \/ board' = board
        \/ \E s \in board.snaps : board' = [board EXCEPT !.acked = @ \cup {s}]
    BY <1>13 DEF Reconcile, Import, ListFails
  <2> QED
    BY <2>1
<1>14. CASE Defer
  BY <1>14 DEF Defer
<1>15. CASE ReleaseAfterStopped
  BY <1>15 DEF ReleaseAfterStopped
<1>16. CASE Pulse
  BY <1>16 DEF Pulse
<1>17. CASE CloseSegment
  BY <1>17 DEF CloseSegment
<1>18. CASE BoardFails
  BY <1>18 DEF BoardFails
<1>19. CASE Start \/ Stop \/ StopEventArrives \/ CompleteLifecycle \/ ConsumeReports \/ ConsumeSnapshots \/ ClearRejectedStart \/ HandleFailure \/ LinkBreaks \/ DrainElapses \/ OneShotTimesOut
  BY <1>19 DEF Start, Stop, StopEventArrives, CompleteLifecycle, ConsumeReports, ConsumeSnapshots, ClearRejectedStart, HandleFailure, LinkBreaks, DrainElapses, OneShotTimesOut, OutsideFrame
<1>20. ASSUME NEW c \in Calls, AskRecovery(c)
      PROVE  Fine(board')
  BY <1>20 DEF AskRecovery
<1>21. ASSUME NEW c \in Calls, NEW mode \in {"continuous", "one_shot"}, AskDiagnostic(c, mode)
      PROVE  Fine(board')
  BY <1>21 DEF AskDiagnostic
<1>22. ASSUME NEW c \in Calls, NEW what \in {"flush", "stop"}, AskRunningDiagnostic(c, what)
      PROVE  Fine(board')
  BY <1>22 DEF AskRunningDiagnostic
<1> QED
  BY <1>1, <1>2, <1>3, <1>4, <1>5, <1>6, <1>7, <1>8, <1>9, <1>10, <1>11, <1>12, <1>13, <1>14, <1>15, <1>16, <1>17, <1>18, <1>19, <1>20, <1>21, <1>22
     DEF Next, Worker, Callbacks, Environment

LEMMA CommandsAreTyped ==
  ASSUME TypeOK, BoardFits(board)
  PROVE  /\ \A o \in Outcomes \cup ForcedOutcomes \cup {"refused"} : \A events \in Clients :
              Sent(o, events) => client' \in Clients /\ faults' \in 0..MaxFaults
         /\ \A b : Fine(b) => Announced(b) \in Clients
         /\ client \in Clients /\ Up \in Clients /\ Down \in Clients
         /\ \A o \in {"late", "reject"} : o \in Outcomes \cup ForcedOutcomes => faults < MaxFaults
         /\ faults \in 0..MaxFaults
         /\ faults < MaxFaults => faults + 1 \in 0..MaxFaults
         /\ \A e \in Clients : /\ [e EXCEPT !.link = "up"] \in Clients
                              /\ [e EXCEPT !.link = "broken"] \in Clients
                              /\ \A x \in BOOLEAN : [e EXCEPT !.stop = x] \in Clients
<1>1. client \in Clients /\ faults \in 0..MaxFaults
  BY DEF TypeOK
<1>2. faults < MaxFaults => faults + 1 \in 0..MaxFaults
  BY <1>1, Sizes
<1>3. ASSUME NEW o \in Outcomes \cup ForcedOutcomes \cup {"refused"}, NEW events \in Clients,
             Sent(o, events)
      PROVE  client' \in Clients /\ faults' \in 0..MaxFaults
  BY <1>1, <1>3, SentIsTyped
<1>4. \A b : Fine(b) => Announced(b) \in Clients
  BY <1>1, AnnouncedIsTyped DEF Fine
<1>5. ASSUME NEW e \in Clients
      PROVE  /\ [e EXCEPT !.link = "up"] \in Clients
             /\ [e EXCEPT !.link = "broken"] \in Clients
             /\ \A x \in BOOLEAN : [e EXCEPT !.stop = x] \in Clients
  BY DEF Clients
<1> QED
  BY <1>1, <1>2, <1>3, <1>4, <1>5, Values, OutcomesAre


\* Every step leaves the client and the count of faults typed.
LEMMA ClientStaysTyped ==
  ASSUME AcquisitionInv, Next
  PROVE  client' \in Clients /\ faults' \in 0..MaxFaults
<1> USE SpoolsAreFine, CommandsAreTyped DEF AcquisitionInv, BoardInv, WorkerFrame
<1>1. CASE CanStart
  BY <1>1 DEF CanStart
<1>2. CASE Preinit
  <2>1. client' \in Clients
    BY <1>2 DEF Preinit
  <2>2. faults' \in 0..MaxFaults
    BY <1>2 DEF Preinit
  <2> QED
    BY <2>1, <2>2
<1>3. CASE Maintain
  BY <1>3 DEF Maintain, RequestStop
<1>4. CASE BeginRecovery
  BY <1>4 DEF BeginRecovery
<1>5. CASE RecoverSnapshot
  BY <1>5 DEF RecoverSnapshot, EndRecovery
<1>6. CASE FinishRecovery
  BY <1>6 DEF FinishRecovery
<1>7. CASE ProcessControl
  BY <1>7 DEF ProcessControl, StartDiagnostic, FlushDiagnostic, StopDiagnosticCall
<1>8. CASE ConsumeReports
  BY <1>8 DEF ConsumeReports, Clients
<1>9. CASE ConsumeSnapshots
  <2>1. \/ client' = client \/ client' = [client EXCEPT !.snaps = {}]
        \/ client' = [client EXCEPT !.snaps = {}, !.stop = FALSE]
    BY <1>9 DEF ConsumeSnapshots
  <2>2. client' \in Clients
    <3>1. client \in Clients
      BY DEF TypeOK
    <3>2. [client EXCEPT !.snaps = {}] \in Clients
      BY <3>1 DEF Clients
    <3>3. [client EXCEPT !.snaps = {}, !.stop = FALSE] \in Clients
      BY <3>1 DEF Clients
    <3> QED
      BY <2>1, <3>1, <3>2, <3>3
  <2>3. faults' = faults
    BY <1>9 DEF ConsumeSnapshots
  <2> QED
    BY <2>2, <2>3
<1>10. CASE ImportPending
  BY <1>10 DEF ImportPending, Import
<1>11. CASE ImportDiagnostic
  BY <1>11 DEF ImportDiagnostic, DiagnosticTransfer
<1>12. CASE AdvanceDiagnostic
  BY <1>12 DEF AdvanceDiagnostic
<1>13. CASE ListDiagnostic
  BY <1>13 DEF ListDiagnostic
<1>14. CASE BeginFinalization
  BY <1>14 DEF BeginFinalization
<1>15. CASE Reconcile
  BY <1>15 DEF Reconcile, Import, ListFails
<1>16. CASE Defer
  BY <1>16 DEF Defer
<1>17. CASE ReleaseAfterStopped
  BY <1>17 DEF ReleaseAfterStopped
<1>18. CASE Pulse
  <2>1. <<board.session, board.seq + 1>> \in Events
    <3>1. board.session \in 0..DiagnosticSession /\ board.seq \in 0..MaxPulses
          /\ board.session # NoSession
      BY <1>18 DEF Pulse, BoardFits, TypeOK, Boards
    <3>2. board.session \in Runs \cup {DiagnosticSession}
      BY <3>1, Sizes
    <3>3. board.seq + 1 \in Pulses
      BY <1>18, <3>1, Sizes DEF Pulse, Pulses
    <3> QED
      BY <3>2, <3>3 DEF Events
  <2>2. client.reports \cup {<<board.session, board.seq + 1>>} \in SUBSET Events
    BY <2>1 DEF Clients
  <2>3. client' = client \/
          client' = [client EXCEPT !.reports = @ \cup {<<board.session, board.seq + 1>>}]
    BY <1>18 DEF Pulse
  <2> QED
    BY <1>18, <2>2, <2>3 DEF Pulse, Clients
<1>19. CASE CloseSegment
  BY <1>19 DEF CloseSegment
<1>20. CASE BoardFails
  <2>1. faults' \in 0..MaxFaults
    BY <1>20 DEF BoardFails
  <2>2. CASE /\ board' = Stopped(board)
             /\ client' = [Announced(board') EXCEPT !.stop = client.link = "up"]
    <3>1. Announced(Stopped(board)) \in Clients /\ (client.link = "up") \in BOOLEAN
      OBVIOUS
    <3>2. client' = [Announced(Stopped(board)) EXCEPT !.stop = (client.link = "up")]
      BY <2>2
    <3>3. [Announced(Stopped(board)) EXCEPT !.stop = (client.link = "up")] \in Clients
      BY <3>1 DEF Clients
    <3> QED
      BY <2>1, <3>2, <3>3
  <2> QED
    BY <1>20, <2>1, <2>2 DEF BoardFails
<1>21. CASE LinkBreaks
  BY <1>21 DEF LinkBreaks, Clients
<1>22. CASE Start \/ Stop \/ StopEventArrives \/ CompleteLifecycle \/ ClearRejectedStart \/ HandleFailure \/ DrainElapses \/ OneShotTimesOut
  BY <1>22 DEF Start, Stop, StopEventArrives, CompleteLifecycle, ClearRejectedStart, HandleFailure, DrainElapses, OneShotTimesOut, OutsideFrame
<1>23. ASSUME NEW c \in Calls, AskRecovery(c)
      PROVE  client' \in Clients /\ faults' \in 0..MaxFaults
  BY <1>23 DEF AskRecovery
<1>24. ASSUME NEW c \in Calls, NEW mode \in {"continuous", "one_shot"}, AskDiagnostic(c, mode)
      PROVE  client' \in Clients /\ faults' \in 0..MaxFaults
  BY <1>24 DEF AskDiagnostic
<1>25. ASSUME NEW c \in Calls, NEW what \in {"flush", "stop"}, AskRunningDiagnostic(c, what)
      PROVE  client' \in Clients /\ faults' \in 0..MaxFaults
  BY <1>25 DEF AskRunningDiagnostic
<1> QED
  BY <1>1, <1>2, <1>3, <1>4, <1>5, <1>6, <1>7, <1>8, <1>9, <1>10, <1>11, <1>12, <1>13, <1>14, <1>15, <1>16, <1>17, <1>18, <1>19, <1>20, <1>21, <1>22, <1>23, <1>24, <1>25
     DEF Next, Worker, Callbacks, Environment

\* The edits of the record of the run.
LEMMA RunEdits ==
  ASSUME TypeOK
  PROVE  /\ run \in RunRecords /\ NoRun \in RunRecords
         /\ \A w \in {"no", "ack", "drain", "over"} : [run EXCEPT !.wait = w] \in RunRecords
         /\ [run EXCEPT !.running = TRUE] \in RunRecords
         /\ [run EXCEPT !.sent = TRUE] \in RunRecords
         /\ [run EXCEPT !.wait = "ack", !.running = FALSE] \in RunRecords
         /\ [run EXCEPT !.wait = "no", !.release = TRUE] \in RunRecords
         /\ \A S \in SUBSET Events : [run EXCEPT !.pend = S] \in RunRecords
         /\ run.id \in Runs => [run EXCEPT !.session = run.id] \in RunRecords
BY Values, Sizes DEF TypeOK, RunRecords


LEMMA ReportsEdit ==
  ASSUME run \in RunRecords, NEW T \in SUBSET Pulses, NEW n \in 0..(MaxPulses + 1)
  PROVE  [run EXCEPT !.totals = @ \cup T, !.next = n] \in RunRecords
BY DEF RunRecords

\* An import: nothing, or a copy in the record that may also be acknowledged.
ImportStep(s) ==
  /\ \A r \in Runs : record'[r].analysed = record[r].analysed
  /\ \A r \in Runs : r # run.id => record'[r].stored = record[r].stored
  /\ \/ /\ run' = run /\ board' = board
        /\ record'[run.id].stored = record[run.id].stored
     \/ /\ s \in board.snaps
        /\ record'[run.id].stored = record[run.id].stored \cup {s}
        /\ \/ board' = board
           \/ board' = [board EXCEPT !.acked = @ \cup {s}]
        /\ run'.id = run.id /\ run'.session = run.session /\ run'.sent = run.sent
        /\ run'.release = run.release /\ run'.totals \subseteq run.totals
        /\ run'.imported \subseteq run.imported \cup {s}

LEMMA ImportDoes ==
  ASSUME TypeOK, run.id \in Runs, NEW s \in Events, s \in board.snaps => s \in Snapshots,
         NEW next, NEW failed, Import(s, next, failed)
  PROVE  /\ run' \in RunRecords /\ record' \in [Runs -> RecordContents]
         /\ ImportStep(s)
         /\ pc' \in {next, failed}
<1>1. PICK o \in {"ok", "unread", "unsaved", "untimed", "late"} :
        LET there == s \in board.snaps /\ client.link = "up"
            copied == there /\ o # "unread"
            timed == copied /\ o # "unsaved"
            acked == timed /\ o # "untimed"
            filed == [record[run.id] EXCEPT !.stored = IF timed THEN @ \cup {s} ELSE @,
                                            !.timeline = IF acked THEN @ \cup {s} ELSE @]
        IN  /\ o # "ok" => there /\ faults < MaxFaults
            /\ record' = [record EXCEPT ![run.id] = filed]
            /\ board' = IF acked THEN [board EXCEPT !.acked = @ \cup {s}] ELSE board
            /\ IF there /\ o = "ok"
               THEN /\ run' = [run EXCEPT !.imported = @ \cup {s}, !.pend = @ \ {s},
                                          !.totals = @ \ {s[2]}]
                    /\ pc' = next
               ELSE run' = run /\ pc' = failed
  BY DEF Import
<1> DEFINE timed == s \in board.snaps /\ client.link = "up" /\ o # "unread" /\ o # "unsaved"
           acked == timed /\ o # "untimed"
           old == record[run.id]
           new == [old EXCEPT !.stored = IF timed THEN @ \cup {s} ELSE @,
                              !.timeline = IF acked THEN @ \cup {s} ELSE @]
<1>2. /\ record' = [record EXCEPT ![run.id] = new]
      /\ board' = IF acked THEN [board EXCEPT !.acked = @ \cup {s}] ELSE board
      /\ \/ run' = run /\ pc' = failed
         \/ /\ timed /\ pc' = next
            /\ run' = [run EXCEPT !.imported = @ \cup {s}, !.pend = @ \ {s},
                                  !.totals = @ \ {s[2]}]
  <2>1. record' = [record EXCEPT ![run.id] = new]
    BY <1>1
  <2>2. board' = IF acked THEN [board EXCEPT !.acked = @ \cup {s}] ELSE board
    BY <1>1
  <2>3. \/ run' = run /\ pc' = failed
        \/ /\ timed /\ pc' = next
           /\ run' = [run EXCEPT !.imported = @ \cup {s}, !.pend = @ \ {s},
                                 !.totals = @ \ {s[2]}]
    BY <1>1
  <2> QED
    BY <2>1, <2>2, <2>3
<1>3. old \in RecordContents /\ record \in [Runs -> RecordContents] /\ run \in RunRecords
  BY DEF TypeOK
<1>4. new \in RecordContents /\ new.analysed = old.analysed
      /\ new.stored = IF timed THEN old.stored \cup {s} ELSE old.stored
  BY <1>3 DEF RecordContents
<1>5. record' \in [Runs -> RecordContents] /\ record'[run.id] = new
      /\ \A r \in Runs : r # run.id => record'[r] = record[r]
  <2> HIDE DEF new
  <2> QED
    BY <1>2, <1>3, <1>4
<1>6. /\ \A r \in Runs : record'[r].analysed = record[r].analysed
      /\ \A r \in Runs : r # run.id => record'[r].stored = record[r].stored
      /\ record'[run.id].stored = IF timed THEN record[run.id].stored \cup {s}
                                  ELSE record[run.id].stored
  <2> HIDE DEF new, timed
  <2> QED
    BY <1>4, <1>5
<1>7. /\ run' \in RunRecords /\ run'.id = run.id /\ run'.session = run.session
      /\ run'.sent = run.sent /\ run'.release = run.release
      /\ run'.totals \subseteq run.totals /\ run'.imported \subseteq run.imported \cup {s}
  <2>1. CASE run' = run
    BY <1>3, <2>1
  <2>2. CASE timed /\ run' = [run EXCEPT !.imported = @ \cup {s}, !.pend = @ \ {s},
                                         !.totals = @ \ {s[2]}]
    BY <1>3, <2>2 DEF RunRecords
  <2> QED
    BY <1>2, <2>1, <2>2
<1>8. CASE timed
  <2> HIDE DEF new
  <2>1. board' = board \/ board' = [board EXCEPT !.acked = @ \cup {s}]
    BY <1>2
  <2> QED
    BY <1>2, <1>5, <1>6, <1>7, <1>8, <2>1 DEF ImportStep
<1>9. CASE ~timed
  <2> HIDE DEF new
  <2>1. board' = board /\ run' = run /\ pc' = failed
    BY <1>2, <1>9
  <2> QED
    BY <1>5, <1>6, <1>7, <1>9, <2>1 DEF ImportStep
<1> QED
  BY <1>8, <1>9

\* What is imported is of the session of the run.
LEMMA ImportedAreOfTheRun ==
  ASSUME AcquisitionInv, ~Idle, run.session # NoSession, NEW s \in board.snaps
  PROVE  /\ run.id \in Runs /\ s \in Snapshots /\ s[1] = run.id
         /\ board.session = run.id /\ run.session = run.id
<1>1. run.id \in Runs /\ run.session = run.id
  BY RunsHaveNames DEF AcquisitionInv, OwnerInv
<1>2. board.session = run.id /\ s[1] = run.id
  <2>1. s[1] = board.session /\ board.session # NoSession
    BY DEF AcquisitionInv, BoardInv, BoardFits
  <2> QED
    BY <1>1, <2>1 DEF AcquisitionInv, OwnerInv, OneOwner
<1>3. s \in Snapshots
  BY <1>1, <1>2 DEF AcquisitionInv, TypeOK, Boards, Events, Snapshots
<1> QED
  BY <1>1, <1>2, <1>3

\* Every step leaves the record of the run typed.
LEMMA RunStaysTyped ==
  ASSUME AcquisitionInv, Next
  PROVE  run' \in RunRecords
<1> USE RunEdits DEF AcquisitionInv, WorkerFrame
<1>1. CASE CanStart
  <2>1. runs < MaxRuns => runs + 1 \in Runs
    BY Sizes DEF TypeOK, Runs
  <2> QED
    BY <1>1, <2>1, Values DEF CanStart
<1>2. CASE Preinit
  BY <1>2, RunsHaveNames DEF Preinit
<1>3. CASE Start
  BY <1>3 DEF Start
<1>4. CASE Stop
  BY <1>4 DEF Stop, OnStop
<1>5. CASE StopEventArrives
  BY <1>5 DEF StopEventArrives, OnStop
<1>6. CASE ConsumeReports
  <2> DEFINE mine == {n \in Pulses : <<run.session, n>> \in client.reports}
             from == IF run.next # 0 \/ mine = {} THEN run.next ELSE MinOf(mine)
             taken == {n \in mine : n >= from /\ from..n \subseteq mine}
             after == IF taken = {} THEN from ELSE MaxOf(taken) + 1
  <2>1. run' = run \/ run' = [run EXCEPT !.totals = @ \cup taken, !.next = after]
    BY <1>6 DEF ConsumeReports
  <2>2. mine \in SUBSET Pulses /\ taken \in SUBSET mine
    OBVIOUS
  <2>3. Pulses \subseteq 0..(MaxPulses + 1)
        /\ \A n \in Pulses : n + 1 \in 0..(MaxPulses + 1)
    BY Sizes DEF Pulses
  <2> HIDE DEF mine
  <2>4. from \in 0..(MaxPulses + 1)
    <3>1. run.next \in 0..(MaxPulses + 1)
      BY DEF RunRecords
    <3>2. mine # {} => MinOf(mine) \in Pulses
      BY <2>2, SmallestPulse
    <3> QED
      BY <2>3, <3>1, <3>2
  <2> HIDE DEF from
  <2>5. taken # {} => MaxOf(taken) \in Pulses
    <3>1. taken \in SUBSET Pulses
      BY <2>2
    <3> HIDE DEF taken
    <3> QED
      BY <3>1, LargestPulse
  <2> HIDE DEF taken
  <2>6. after \in 0..(MaxPulses + 1)
    BY <2>3, <2>4, <2>5
  <2> HIDE DEF after
  <2>7. run.totals \cup taken \in SUBSET Pulses /\ run \in RunRecords
    BY <2>2 DEF RunRecords
  <2>8. [run EXCEPT !.totals = @ \cup taken, !.next = after] \in RunRecords
    <3>1. taken \in SUBSET Pulses
      BY <2>2
    <3> QED
      BY <2>6, <3>1, ReportsEdit
  <2> QED
    BY <2>1, <2>7, <2>8
<1>7. CASE ConsumeSnapshots
  <2>1. run.pend \cup (client.snaps \ run.imported) \in SUBSET Events
    BY DEF TypeOK, RunRecords, Clients
  <2> QED
    BY <1>7, <2>1 DEF ConsumeSnapshots
<1>8. CASE ImportPending
  <2>1. CASE run' = run
    BY <2>1
  <2>2. ASSUME NEW s \in Importable, NEW failed, Import(s, "import", failed)
        PROVE  run' \in RunRecords
    <3>1. s \in run.pend /\ s \in Events /\ s[2] \in run.totals
      BY DEF Importable, RunRecords
    <3>2. run.session # NoSession /\ ~Idle
      BY <1>8, <3>1 DEF OwnerInv, ImportPending
    <3>3. run.id \in Runs /\ (s \in board.snaps => s \in Snapshots)
      BY <3>2, ImportedAreOfTheRun, RunsHaveNames
    <3> QED
      BY <2>2, <3>1, <3>3, ImportDoes
  <2> QED
    BY <1>8, <2>1, <2>2 DEF ImportPending
<1>9. CASE BeginFinalization
  BY <1>9 DEF BeginFinalization
<1>10. CASE ClearRejectedStart
  BY <1>10 DEF ClearRejectedStart
<1>11. CASE Reconcile
  <2>1. CASE run' = run \/ run' = [run EXCEPT !.wait = "no", !.release = TRUE]
    BY <2>1
  <2>2. CASE run' = [run EXCEPT !.pend = Pending]
    <3>1. Pending \in SUBSET Events
      BY EventsOfSteps DEF Pending, RunRecords
    <3> QED
      BY <2>2, <3>1
  <2>3. ASSUME NEW s \in Pending, Import(s, "reconcile", "defer")
        PROVE  run' \in RunRecords
    <3>1. s \in Events
      BY EventsOfSteps DEF Pending, RunRecords
    <3>2. run.session # NoSession /\ ~Idle
      BY <1>11, Values DEF OwnerInv, Reconcile, Idle
    <3>3. run.id \in Runs /\ (s \in board.snaps => s \in Snapshots)
      BY <3>2, ImportedAreOfTheRun, RunsHaveNames
    <3> QED
      BY <2>3, <3>1, <3>3, ImportDoes
  <2> QED
    BY <1>11, <2>1, <2>2, <2>3 DEF Reconcile, ListFails
<1>12. CASE Defer
  BY <1>12 DEF Defer
<1>13. CASE ReleaseAfterStopped
  BY <1>13 DEF ReleaseAfterStopped
<1>14. CASE DrainElapses
  BY <1>14 DEF DrainElapses
<1>15. CASE Maintain \/ CompleteLifecycle \/ BeginRecovery \/ RecoverSnapshot \/ FinishRecovery \/ ProcessControl \/ ImportDiagnostic \/ AdvanceDiagnostic \/ ListDiagnostic \/ HandleFailure \/ Pulse \/ CloseSegment \/ BoardFails \/ LinkBreaks \/ OneShotTimesOut
  BY <1>15 DEF Maintain, CompleteLifecycle, BeginRecovery, RecoverSnapshot, FinishRecovery, ProcessControl, ImportDiagnostic, AdvanceDiagnostic, ListDiagnostic, HandleFailure, Pulse, CloseSegment, BoardFails, LinkBreaks, OneShotTimesOut, OutsideFrame
<1>16. ASSUME NEW c \in Calls, AskRecovery(c)
      PROVE  run' \in RunRecords
  BY <1>16 DEF AskRecovery
<1>17. ASSUME NEW c \in Calls, NEW mode \in {"continuous", "one_shot"}, AskDiagnostic(c, mode)
      PROVE  run' \in RunRecords
  BY <1>17 DEF AskDiagnostic
<1>18. ASSUME NEW c \in Calls, NEW what \in {"flush", "stop"}, AskRunningDiagnostic(c, what)
      PROVE  run' \in RunRecords
  BY <1>18 DEF AskRunningDiagnostic
<1> QED
  BY <1>1, <1>2, <1>3, <1>4, <1>5, <1>6, <1>7, <1>8, <1>9, <1>10, <1>11, <1>12, <1>13, <1>14, <1>15, <1>16, <1>17, <1>18
     DEF Next, Worker, Callbacks, Environment

\* The edits of the record of the diagnostic.
LEMMA DiagEdits ==
  ASSUME TypeOK
  PROVE  /\ diag \in Diagnostics /\ NoDiag \in Diagnostics /\ FailedDiag \in Diagnostics
         /\ \A b : Fine(b) => Merged(b) \in Diagnostics
         /\ \A d \in Diagnostics :
              /\ [d EXCEPT !.sent = TRUE] \in Diagnostics /\ [d EXCEPT !.late = TRUE] \in Diagnostics
              /\ \A x \in BOOLEAN :
                   [d EXCEPT !.sent = TRUE, !.st = "finalizing", !.bad = x] \in Diagnostics
              /\ \A c \in Calls :
                   /\ [d EXCEPT !.sent = TRUE, !.st = "finalizing", !.waiting = @ \cup {c}] \in Diagnostics
                   /\ [d EXCEPT !.waiting = @ \cup {c}] \in Diagnostics
              /\ \A S \in SUBSET Events : [d EXCEPT !.done = S, !.pend = {}] \in Diagnostics
              /\ \A x : [d EXCEPT !.sent = TRUE, !.st = "finalizing", !.bad = ~x] \in Diagnostics
         /\ \A mode \in {"continuous", "one_shot"} :
              /\ DiagOf(mode, "error") \in Diagnostics
              /\ \A W \in SUBSET Calls :
                   [DiagOf(mode, "running") EXCEPT !.waiting = W] \in Diagnostics
<1>1. diag \in Diagnostics /\ NoDiag \in Diagnostics /\ FailedDiag \in Diagnostics
  BY Values, FailedIsTyped DEF TypeOK
<1>2. ASSUME NEW b, Fine(b)
      PROVE  Merged(b) \in Diagnostics
  BY <1>1, <1>2, MergedIsTyped DEF Fine
<1>3. ASSUME NEW d \in Diagnostics
      PROVE  /\ [d EXCEPT !.sent = TRUE] \in Diagnostics
             /\ [d EXCEPT !.late = TRUE] \in Diagnostics
  BY DEF Diagnostics
<1>4. ASSUME NEW d \in Diagnostics, NEW x \in BOOLEAN
      PROVE  [d EXCEPT !.sent = TRUE, !.st = "finalizing", !.bad = x] \in Diagnostics
  BY DEF Diagnostics
<1>9. ASSUME NEW d \in Diagnostics, NEW x
      PROVE  [d EXCEPT !.sent = TRUE, !.st = "finalizing", !.bad = ~x] \in Diagnostics
  <2>1. (~x) \in BOOLEAN
    OBVIOUS
  <2> QED
    BY <2>1, <1>4
<1>5. ASSUME NEW d \in Diagnostics, NEW c \in Calls
      PROVE  /\ [d EXCEPT !.sent = TRUE, !.st = "finalizing", !.waiting = @ \cup {c}] \in Diagnostics
             /\ [d EXCEPT !.waiting = @ \cup {c}] \in Diagnostics
  BY DEF Diagnostics
<1>6. ASSUME NEW d \in Diagnostics, NEW S \in SUBSET Events
      PROVE  [d EXCEPT !.done = S, !.pend = {}] \in Diagnostics
  BY DEF Diagnostics
<1>7. ASSUME NEW mode \in {"continuous", "one_shot"}
      PROVE  DiagOf(mode, "error") \in Diagnostics /\ DiagOf(mode, "running") \in Diagnostics
  <2>1. ("error" = "error") \in BOOLEAN /\ ("running" = "error") \in BOOLEAN
    OBVIOUS
  <2> QED
    BY <2>1 DEF DiagOf, Diagnostics
<1>8. ASSUME NEW mode \in {"continuous", "one_shot"}, NEW W \in SUBSET Calls
      PROVE  [DiagOf(mode, "running") EXCEPT !.waiting = W] \in Diagnostics
  BY <1>7 DEF Diagnostics
<1> QED
  BY <1>1, <1>2, <1>3, <1>4, <1>5, <1>6, <1>7, <1>8, <1>9


LEMMA DiagReportsEdit ==
  ASSUME diag \in Diagnostics, NEW x \in BOOLEAN
  PROVE  [diag EXCEPT !.reports = x] \in Diagnostics
BY DEF Diagnostics

LEMMA DiagEndEdit ==
  ASSUME diag \in Diagnostics, NEW S \in SUBSET Events, NEW x \in BOOLEAN, NEW y \in BOOLEAN,
         NEW st \in {"none", "running", "finalizing", "error"}
  PROVE  [diag EXCEPT !.pend = S, !.sent = x, !.st = st, !.bad = y] \in Diagnostics
BY DEF Diagnostics

LEMMA DiagFlushEdit ==
  ASSUME NEW d \in Diagnostics, NEW S \in SUBSET Events
  PROVE  [d EXCEPT !.done = S, !.pend = {}] \in Diagnostics
BY DEF Diagnostics

LEMMA DiagStopEdit ==
  ASSUME NEW d \in Diagnostics, NEW c \in Calls
  PROVE  /\ [d EXCEPT !.sent = TRUE, !.st = "finalizing", !.waiting = @ \cup {c}] \in Diagnostics
         /\ [d EXCEPT !.waiting = @ \cup {c}] \in Diagnostics
BY DEF Diagnostics

LEMMA EventsOfClients ==
  ASSUME TypeOK
  PROVE  diag.pend \cup (client.snaps \ diag.done) \in SUBSET Events
<1>1. diag.pend \in SUBSET Events /\ client.snaps \in SUBSET Events
  BY DEF TypeOK, Clients, Diagnostics
<1> QED
  BY <1>1

\* The stop of a diagnostic that an operator asks for.
LEMMA StopCallDoes ==
  ASSUME NEW c, StopDiagnosticCall(c)
  PROVE  /\ \/ board' = board
            \/ board.session = DiagnosticSession /\ board' = Stopped(board)
         /\ \/ diag' \in {diag, FailedDiag, [diag EXCEPT !.waiting = @ \cup {c}]}
            \/ board.session # DiagnosticSession /\ diag' = NoDiag
            \/ /\ board.session = DiagnosticSession
               /\ diag' = [Merged(Stopped(board)) EXCEPT !.sent = TRUE, !.st = "finalizing",
                                                         !.waiting = @ \cup {c}]
<1>1. CASE diag = NoDiag \/ (diag.st # "error" /\ diag.sent)
  BY <1>1 DEF StopDiagnosticCall
<1>2. CASE diag # NoDiag /\ ~(diag.st # "error" /\ diag.sent)
  <2>1. PICK o : \E b :
           /\ b = IF Executed(o) /\ ~(board.session # DiagnosticSession)
                  THEN Stopped(board) ELSE board
           /\ board' = b
           /\ CASE o = "ok" /\ board.session # DiagnosticSession ->
                     diag' = NoDiag
                [] o = "ok" /\ ~(board.session # DiagnosticSession) ->
                     diag' = [Merged(b) EXCEPT !.sent = TRUE, !.st = "finalizing",
                                               !.waiting = @ \cup {c}]
                [] OTHER -> diag' = FailedDiag
    BY <1>2 DEF StopDiagnosticCall
  <2>2. CASE o = "ok" /\ board.session # DiagnosticSession
    BY <2>1, <2>2
  <2>3. CASE o = "ok" /\ board.session = DiagnosticSession
    BY <2>1, <2>3 DEF Executed
  <2>4. CASE o # "ok"
    BY <2>1, <2>4
  <2> QED
    BY <2>2, <2>3, <2>4
<1> QED
  BY <1>1, <1>2

\* Every step leaves the record of the diagnostic typed.
LEMMA DiagStaysTyped ==
  ASSUME AcquisitionInv, Next
  PROVE  diag' \in Diagnostics
<1> USE DiagEdits, SpoolsAreFine, EventsOfSteps DEF AcquisitionInv, BoardInv, WorkerFrame
<1>1. CASE Maintain
  BY <1>1 DEF Maintain, FailDiagnostic
<1>2. CASE ProcessControl
  <2>1. control # << >>
    BY <1>2 DEF ProcessControl, At, Busy
  <2>2. Head(control)[1] \in {"continuous", "one_shot", "flush", "stop"}
        /\ Head(control)[2] \in Calls
    <3>1. Head(control) \in {"continuous", "one_shot", "flush", "stop"} \X Calls
      BY <2>1, QueuesAreTyped DEF TypeOK, QueuesTyped
    <3> QED
      BY <3>1
  <2>3. ASSUME NEW c \in Calls, FlushDiagnostic(c)
        PROVE  diag' \in Diagnostics
    <3>1. board.st = "active" => Flushed(board).snaps \in SUBSET Events
      BY DEF BoardFits
    <3>2. ASSUME NEW b, b = board \/ (board.st = "active" /\ b = Flushed(board)),
                 diag' = diag \/ diag' = [diag EXCEPT !.done = b.snaps, !.pend = {}]
          PROVE  diag' \in Diagnostics
      <4>1. b.snaps \in SUBSET Events
        BY <3>1, <3>2
      <4>2. [diag EXCEPT !.done = b.snaps, !.pend = {}] \in Diagnostics
        BY <4>1, DiagFlushEdit
      <4> QED
        BY <3>2, <4>2
    <3> QED
      BY <2>3, <3>2 DEF FlushDiagnostic
  <2>4. ASSUME NEW c \in Calls, StopDiagnosticCall(c)
        PROVE  diag' \in Diagnostics
    <3>1. Merged(Stopped(board)) \in Diagnostics
      OBVIOUS
    <3>2. /\ [Merged(Stopped(board)) EXCEPT !.sent = TRUE, !.st = "finalizing",
                                            !.waiting = @ \cup {c}] \in Diagnostics
          /\ [diag EXCEPT !.waiting = @ \cup {c}] \in Diagnostics
      BY <3>1, DiagStopEdit
    <3>3. \/ diag' \in {diag, FailedDiag, [diag EXCEPT !.waiting = @ \cup {c}], NoDiag}
          \/ diag' = [Merged(Stopped(board)) EXCEPT !.sent = TRUE, !.st = "finalizing",
                                                    !.waiting = @ \cup {c}]
      BY <2>4, StopCallDoes
    <3> QED
      BY <3>2, <3>3
  <2>5. ASSUME NEW mode \in {"continuous", "one_shot"}, NEW c \in Calls,
               StartDiagnostic(mode, c)
        PROVE  diag' \in Diagnostics
    <3> DEFINE waiting == IF mode = "one_shot" THEN {c} ELSE {}
    <3>1. /\ waiting \in SUBSET Calls /\ DiagOf(mode, "error") \in Diagnostics
          /\ [DiagOf(mode, "running") EXCEPT !.waiting = waiting] \in Diagnostics
      OBVIOUS
    <3>2. diag' \in {diag, DiagOf(mode, "error"),
                     [DiagOf(mode, "running") EXCEPT !.waiting = waiting]}
      BY <2>5 DEF StartDiagnostic
    <3> HIDE DEF waiting
    <3> QED
      BY <3>1, <3>2
  <2> QED
    BY <1>2, <2>2, <2>3, <2>4, <2>5 DEF ProcessControl
<1>3. CASE ConsumeReports
  <2>1. diag' = diag \/ diag' = [diag EXCEPT !.reports = @ \/ client.reports # {}]
    BY <1>3 DEF ConsumeReports
  <2>2. (diag.reports \/ client.reports # {}) \in BOOLEAN /\ diag \in Diagnostics
    OBVIOUS
  <2>3. [diag EXCEPT !.reports = (@ \/ client.reports # {})] \in Diagnostics
    BY <2>2, DiagReportsEdit
  <2> QED
    BY <2>1, <2>2, <2>3
<1>4. CASE ConsumeSnapshots
  <2> DEFINE ended == client.stop /\ ~diag.sent
             pend == diag.pend \cup (client.snaps \ diag.done)
             sent == diag.sent \/ ended
             st == IF ended THEN "finalizing" ELSE diag.st
             bad == diag.bad \/ ended
             met == [diag EXCEPT !.pend = pend, !.sent = sent, !.st = st, !.bad = bad]
  <2>1. diag' = diag \/ diag' = met
    BY <1>4 DEF ConsumeSnapshots
  <2>2. pend \in SUBSET Events /\ diag \in Diagnostics
    BY EventsOfClients
  <2>3. /\ sent \in BOOLEAN /\ bad \in BOOLEAN
        /\ st \in {"none", "running", "finalizing", "error"}
    BY <2>2 DEF Diagnostics
  <2> HIDE DEF ended, pend, sent, st, bad
  <2>4. met \in Diagnostics
    BY <2>2, <2>3, DiagEndEdit
  <2> QED
    BY <2>1, <2>2, <2>4
<1>5. CASE ImportDiagnostic
  <2>1. diag' = diag \/ diag' = [diag EXCEPT !.done = @ \cup diag.pend, !.pend = {}]
    BY <1>5 DEF ImportDiagnostic, DiagnosticTransfer
  <2>2. [diag EXCEPT !.done = diag.done \cup diag.pend, !.pend = {}] \in Diagnostics
    BY DiagFlushEdit
  <2> QED
    BY <2>1, <2>2
<1>6. CASE AdvanceDiagnostic
  <2> DEFINE ended(d) == [d EXCEPT !.sent = TRUE, !.st = "finalizing", !.bad = ~diag.reports]
  <2>1. \/ diag' \in {diag, NoDiag, FailedDiag}
        \/ \E b \in {board, Stopped(board)} :
             diag' = [Merged(b) EXCEPT !.sent = TRUE] \/ diag' = ended(Merged(b))
    BY <1>6 DEF AdvanceDiagnostic, FailDiagnostic
  <2>2. ASSUME NEW b \in {board, Stopped(board)}
        PROVE  [Merged(b) EXCEPT !.sent = TRUE] \in Diagnostics /\ ended(Merged(b)) \in Diagnostics
    <3>1. Merged(b) \in Diagnostics
      OBVIOUS
    <3> QED
      BY <3>1
  <2> QED
    BY <2>1, <2>2
<1>7. CASE ListDiagnostic
  <2>1. \/ diag' = diag \/ diag' = NoDiag
        \/ diag' = [Merged(board) EXCEPT !.done = board.snaps, !.pend = {}]
    BY <1>7 DEF ListDiagnostic
  <2>2. Merged(board) \in Diagnostics
    OBVIOUS
  <2> QED
    BY <2>1, <2>2
<1>8. CASE HandleFailure
  BY <1>8 DEF HandleFailure, FailDiagnostic
<1>9. CASE OneShotTimesOut
  BY <1>9 DEF OneShotTimesOut
<1>10. CASE CanStart \/ Preinit \/ Start \/ Stop \/ StopEventArrives \/ CompleteLifecycle \/ BeginRecovery \/ RecoverSnapshot \/ FinishRecovery \/ ImportPending \/ BeginFinalization \/ ClearRejectedStart \/ Reconcile \/ Defer \/ ReleaseAfterStopped \/ Pulse \/ CloseSegment \/ BoardFails \/ LinkBreaks \/ DrainElapses
  BY <1>10 DEF CanStart, Preinit, Start, Stop, StopEventArrives, CompleteLifecycle, BeginRecovery, RecoverSnapshot, FinishRecovery, ImportPending, BeginFinalization, ClearRejectedStart, Reconcile, Defer, ReleaseAfterStopped, Pulse, CloseSegment, BoardFails, LinkBreaks, DrainElapses, OutsideFrame
<1>11. ASSUME NEW c \in Calls, AskRecovery(c)
      PROVE  diag' \in Diagnostics
  BY <1>11 DEF AskRecovery
<1>12. ASSUME NEW c \in Calls, NEW mode \in {"continuous", "one_shot"}, AskDiagnostic(c, mode)
      PROVE  diag' \in Diagnostics
  BY <1>12 DEF AskDiagnostic
<1>13. ASSUME NEW c \in Calls, NEW what \in {"flush", "stop"}, AskRunningDiagnostic(c, what)
      PROVE  diag' \in Diagnostics
  BY <1>13 DEF AskRunningDiagnostic
<1> QED
  BY <1>1, <1>2, <1>3, <1>4, <1>5, <1>6, <1>7, <1>8, <1>9, <1>10, <1>11, <1>12, <1>13
     DEF Next, Worker, Callbacks, Environment
\* A record with its provenance written is a record.
LEMMA ProvenanceIsTyped ==
  ASSUME NEW f \in [Runs -> RecordContents], NEW r \in Runs
  PROVE  [f EXCEPT ![r].prov = TRUE] \in [Runs -> RecordContents]
BY DEF RecordContents

\* Every step leaves the records of the runs typed.
LEMMA RecordsStayTyped ==
  ASSUME AcquisitionInv, Next
  PROVE  record' \in [Runs -> RecordContents]
<1> USE DEF AcquisitionInv, WorkerFrame
<1>0. /\ record \in [Runs -> RecordContents] /\ board \in Boards /\ run \in RunRecords
  BY DEF TypeOK
<1>1. CASE Preinit
  <2>1. record' = record \/ record' = [record EXCEPT ![run.id].prov = TRUE]
    BY <1>1 DEF Preinit
  <2>2. run.id \in Runs
    BY <1>1, RunsHaveNames DEF Preinit
  <2> QED
    BY <1>0, <2>1, <2>2, ProvenanceIsTyped
<1>2. CASE RecoverSnapshot
  <2>1. PICK s \in Unrecovered :
          record' = record \/ record' = [record EXCEPT ![s[1]].stored = @ \cup {s}]
    BY <1>2 DEF RecoverSnapshot
  <2>2. s[1] \in Runs /\ s \in Snapshots
    <3>1. s[1] = board.session /\ s \in Events /\ board.session \in Runs
      BY <1>0, <1>2 DEF RecoverSnapshot, Unrecovered, Boards, BoardInv, BoardFits, OwnerInv
    <3> QED
      BY <3>1 DEF Events, Snapshots
  <2> QED
    BY <1>0, <2>1, <2>2 DEF RecordContents
<1>3. CASE FinishRecovery
  <2>1. record' = [record EXCEPT ![board.session].analysed = TRUE] /\ board.session \in Runs
    BY <1>3 DEF FinishRecovery, OwnerInv
  <2> QED
    BY <1>0, <2>1 DEF RecordContents
<1>4. CASE ImportPending
  <2>1. ASSUME NEW s \in Importable, NEW failed, Import(s, "import", failed)
        PROVE  record' \in [Runs -> RecordContents]
    <3>1. s \in run.pend /\ s \in Events /\ s[2] \in run.totals
      BY <1>0 DEF Importable, RunRecords
    <3>2. run.session # NoSession /\ ~Idle
      BY <1>4, <3>1 DEF OwnerInv, ImportPending
    <3>3. run.id \in Runs /\ (s \in board.snaps => s \in Snapshots)
      BY <3>2, ImportedAreOfTheRun, RunsHaveNames
    <3> QED
      BY <2>1, <3>1, <3>3, ImportDoes
  <2> QED
    BY <1>0, <1>4, <2>1 DEF ImportPending
<1>5. CASE Reconcile
  <2>1. run.session # NoSession /\ ~Idle
    BY <1>5, Values DEF OwnerInv, Reconcile, Idle
  <2>2. run.id \in Runs /\ \A s \in board.snaps : s \in Snapshots
    BY <2>1, ImportedAreOfTheRun, RunsHaveNames
  <2>3. ASSUME NEW s \in Pending, Import(s, "reconcile", "defer")
        PROVE  record' \in [Runs -> RecordContents]
    <3>1. s \in Events
      BY <1>0 DEF Pending, RunRecords, Boards
    <3> QED
      BY <2>2, <2>3, <3>1, ImportDoes
  <2>4. CASE record' = [record EXCEPT ![run.id].analysed = TRUE]
    BY <1>0, <2>2, <2>4 DEF RecordContents
  <2> QED
    BY <1>0, <1>5, <2>3, <2>4 DEF Reconcile, ListFails
<1>6. CASE CanStart \/ Start \/ Stop \/ StopEventArrives \/ Maintain \/ CompleteLifecycle \/ BeginRecovery \/ ProcessControl \/ ConsumeReports \/ ConsumeSnapshots \/ ImportDiagnostic \/ AdvanceDiagnostic \/ ListDiagnostic \/ BeginFinalization \/ ClearRejectedStart \/ Defer \/ ReleaseAfterStopped \/ HandleFailure \/ Pulse \/ CloseSegment \/ BoardFails \/ LinkBreaks \/ DrainElapses \/ OneShotTimesOut
  BY <1>0, <1>6 DEF CanStart, Start, Stop, StopEventArrives, Maintain, CompleteLifecycle, BeginRecovery, ProcessControl, ConsumeReports, ConsumeSnapshots, ImportDiagnostic, AdvanceDiagnostic, ListDiagnostic, BeginFinalization, ClearRejectedStart, Defer, ReleaseAfterStopped, HandleFailure, Pulse, CloseSegment, BoardFails, LinkBreaks, DrainElapses, OneShotTimesOut, OutsideFrame
<1>7. ASSUME NEW c \in Calls, AskRecovery(c)
      PROVE  record' \in [Runs -> RecordContents]
  BY <1>0, <1>7 DEF AskRecovery
<1>8. ASSUME NEW c \in Calls, NEW mode \in {"continuous", "one_shot"}, AskDiagnostic(c, mode)
      PROVE  record' \in [Runs -> RecordContents]
  BY <1>0, <1>8 DEF AskDiagnostic
<1>9. ASSUME NEW c \in Calls, NEW what \in {"flush", "stop"}, AskRunningDiagnostic(c, what)
      PROVE  record' \in [Runs -> RecordContents]
  BY <1>0, <1>9 DEF AskRunningDiagnostic
<1> QED
  BY <1>1, <1>2, <1>3, <1>4, <1>5, <1>6, <1>7, <1>8, <1>9
     DEF Next, Worker, Callbacks, Environment

LEMMA TypesKeep ==
  ASSUME AcquisitionInv, Next
  PROVE  TypeOK'
<1>1. RestTypes'
  BY RestTypesKeep DEF AcquisitionInv
<1>2. board' \in Boards
  BY SpoolStaysFine DEF Fine
<1>3. /\ run' \in RunRecords /\ diag' \in Diagnostics /\ client' \in Clients
      /\ record' \in [Runs -> RecordContents] /\ faults' \in 0..MaxFaults
  BY RunStaysTyped, DiagStaysTyped, ClientStaysTyped, RecordsStayTyped
<1> QED
  BY <1>1, <1>2, <1>3 DEF RestTypes, TypeOK

-----------------------------------------------------------------------------
(* The service and its run.                                                 *)

\* What the service does, apart from the spool.
ServiceInv ==
  /\ diag # NoDiag \/ reserved => Idle
  /\ ctl # "idle" => ~Idle /\ ~run.release
  /\ ctl = "checked" => run.session = NoSession /\ ~run.sent
  /\ run = NoRun \/ run.id \in 1..runs
  /\ run.session \in {NoSession, run.id}
  /\ run.session = NoSession => run.totals = {}
  /\ pc = "reconcile" => run.session # NoSession /\ run.sent
  /\ pc = "listing" => diag.st = "finalizing"

\* The run keeps its name, its session and what was done for it.
SameRun(r) ==
  /\ r.id = run.id /\ r.session = run.session /\ r.sent = run.sent
  /\ r.release = run.release /\ r.imported = run.imported

LEMMA OnStopDoes ==
  ASSUME run \in RunRecords, OnStop
  PROVE  SameRun(run') /\ run'.totals = run.totals /\ ctl' = "stopping"
BY DEF OnStop, SameRun, RunRecords

LEMMA StartedIsNotIdle == "idle" \notin Started
BY DEF Started

LEMMA ReportsDo ==
  ASSUME TypeOK, ConsumeReports
  PROVE  /\ SameRun(run')
         /\ run.session = NoSession => run'.totals = run.totals
         /\ diag'.st = diag.st /\ (diag = NoDiag => diag' = NoDiag)
         /\ Idle => run' = run
         /\ ~Idle => diag' = diag
<1>0. run \in RunRecords /\ diag \in Diagnostics /\ client \in Clients
  BY DEF TypeOK
<1>1. CASE Idle
  <2>1. run' = run
    BY <1>1 DEF ConsumeReports
  <2>2. /\ diag' = diag \/ diag' = [diag EXCEPT !.reports = @ \/ client.reports # {}]
        /\ diag = NoDiag => diag' = diag
    BY <1>1, Values DEF ConsumeReports
  <2>3. diag'.st = diag.st
    BY <1>0, <2>2 DEF Diagnostics
  <2> QED
    BY <1>1, <2>1, <2>2, <2>3 DEF SameRun
<1>2. CASE ~Idle
  <2> DEFINE mine == {n \in Pulses : <<run.session, n>> \in client.reports}
             from == IF run.next # 0 \/ mine = {} THEN run.next ELSE MinOf(mine)
             taken == {n \in mine : n >= from /\ from..n \subseteq mine}
             after == IF taken = {} THEN from ELSE MaxOf(taken) + 1
  <2>1. /\ run' = [run EXCEPT !.totals = @ \cup taken, !.next = after]
        /\ diag' = diag
    BY <1>2 DEF ConsumeReports
  <2>2. run.session = NoSession => mine = {}
    <3>1. \A n : <<NoSession, n>> \notin Events
      BY Sizes DEF Events
    <3> QED
      BY <1>0, <3>1 DEF Clients
  <2>3. run.session = NoSession => run.totals \cup taken = run.totals
    BY <2>2
  <2> HIDE DEF taken, after
  <2> QED
    BY <1>0, <1>2, <2>1, <2>3 DEF SameRun, RunRecords
<1> QED
  BY <1>1, <1>2

LEMMA ImportPendingDoes ==
  ASSUME AcquisitionInv, ImportPending
  PROVE  /\ ~Idle /\ pc' # "reconcile" /\ pc' # "listing" /\ pc' # "recover"
         /\ \/ run' = run /\ board' = board /\ record' = record
            \/ run.session # NoSession /\ \E s \in Events : ImportStep(s)
<1>1. ~Idle /\ run \in RunRecords
  BY DEF ImportPending, AcquisitionInv, TypeOK
<1>2. CASE Importable = {}
  BY <1>1, <1>2 DEF ImportPending
<1>3. ASSUME NEW s \in Importable,
             Import(s, "import", IF Finalizing THEN "failed" ELSE "diagnostic")
      PROVE  /\ ImportStep(s) /\ s \in Events /\ run.session # NoSession
             /\ pc' \in {"import", "failed", "diagnostic"}
  <2>1. s \in Events /\ run.session # NoSession
    BY <1>1 DEF Importable, RunRecords, AcquisitionInv, OwnerInv
  <2>2. run.id \in Runs /\ (s \in board.snaps => s \in Snapshots)
    BY <1>1, <2>1, ImportedAreOfTheRun, RunsHaveNames DEF AcquisitionInv
  <2>3. TypeOK
    BY DEF AcquisitionInv
  <2> QED
    BY <1>3, <2>1, <2>2, <2>3, ImportDoes DEF ImportStep
<1>4. CASE Importable # {}
  <2>1. PICK s \in Importable :
          Import(s, "import", IF Finalizing THEN "failed" ELSE "diagnostic")
    BY <1>1, <1>4 DEF ImportPending
  <2> QED
    BY <1>1, <1>3, <2>1
<1> QED
  BY <1>2, <1>4

LEMMA ReconcileDoes ==
  ASSUME AcquisitionInv, Reconcile
  PROVE  /\ ~Idle /\ run.id \in Runs /\ run.session = run.id
         /\ pc' # "listing" /\ pc' # "recover"
         /\ \/ \E s \in Events : ImportStep(s) /\ ctl' = ctl
            \/ /\ SameRun(run') /\ run'.totals = run.totals /\ run.release = run'.release
               /\ board' = board /\ record' = record /\ ctl' = ctl
            \/ /\ Pending = {} /\ run' = [run EXCEPT !.wait = "no", !.release = TRUE]
               /\ board' = board /\ ctl' = "idle" /\ pc' = "release"
               /\ record' = [record EXCEPT ![run.id].analysed = TRUE]
<1>1. /\ run.session # NoSession /\ ~Idle /\ run \in RunRecords /\ board \in Boards /\ TypeOK
      /\ OwnerInv
  BY Values DEF OwnerInv, Reconcile, Idle, AcquisitionInv, TypeOK
<1>2. /\ run.id \in Runs /\ run.session = run.id
      /\ \A s \in board.snaps : s \in Snapshots
  BY <1>1, ImportedAreOfTheRun, RunsHaveNames DEF OwnerInv
<1>3. ASSUME NEW s \in Pending, Import(s, "reconcile", "defer")
      PROVE  ImportStep(s) /\ s \in Events /\ pc' \in {"reconcile", "defer"}
  <2>1. s \in Events
    BY <1>1 DEF Pending, RunRecords, Boards
  <2> QED
    BY <1>1, <1>2, <1>3, <2>1, ImportDoes DEF ImportStep
<1>4. CASE client.link = "up" /\ Pending = {} /\ Cardinality(run.imported) = Cardinality(board.snaps)
  <2>1. CASE \E o \in Outcomes \ {"ok"} : ListFails(o)
    BY <1>1, <1>2, <2>1 DEF ListFails, SameRun
  <2>2. CASE ~(\E o \in Outcomes \ {"ok"} : ListFails(o))
    <3>1. /\ record' = [record EXCEPT ![run.id].analysed = TRUE]
          /\ run' = [run EXCEPT !.wait = "no", !.release = TRUE]
          /\ ctl' = "idle" /\ pc' = "release" /\ board' = board
      BY <1>4, <2>2 DEF Reconcile
    <3> QED
      BY <1>1, <1>2, <1>4, <3>1
  <2> QED
    BY <2>1, <2>2
<1>5. CASE ~(client.link = "up" /\ Pending = {} /\ Cardinality(run.imported) = Cardinality(board.snaps))
  <2>1. CASE \E o \in Outcomes : ListFails(o)
    BY <1>1, <1>2, <2>1 DEF ListFails, SameRun
  <2>2. CASE run' = [run EXCEPT !.pend = Pending] /\ pc' = "release" /\ record' = record
             /\ board' = board /\ ctl' = ctl
    BY <1>1, <1>2, <2>2 DEF SameRun, RunRecords
  <2>3. CASE \E s \in Pending : Import(s, "reconcile", "defer") /\ ctl' = ctl
    <3>1. PICK s \in Pending : Import(s, "reconcile", "defer") /\ ctl' = ctl
      BY <2>3
    <3> QED
      BY <1>1, <1>2, <1>3, <3>1
  <2>4. \/ \E o \in Outcomes : ListFails(o)
        \/ run' = [run EXCEPT !.pend = Pending] /\ pc' = "release" /\ record' = record
           /\ board' = board /\ ctl' = ctl
        \/ \E s \in Pending : Import(s, "reconcile", "defer") /\ ctl' = ctl
    BY <1>5 DEF Reconcile
  <2> QED
    BY <2>1, <2>2, <2>3, <2>4
<1> QED
  BY <1>4, <1>5

LEMMA ReleaseNeedsRun ==
  ASSUME ReleaseAfterStopped
  PROVE  run.release
BY DEF ReleaseAfterStopped, At, Busy

LEMMA AdvanceDoes ==
  ASSUME AcquisitionInv, AdvanceDiagnostic
  PROVE  /\ diag' = diag \/ diag # NoDiag
         /\ pc' = "listing" => diag'.st = "finalizing"
         /\ diag'.st \in {"running", "finalizing"} => diag.st = diag'.st \/ board.session = DiagnosticSession
         /\ pc' \notin {"reconcile", "recover"}
         /\ board' = board \/ (board.session = DiagnosticSession /\ board' = Stopped(board))
<1>0. diag \in Diagnostics /\ NoDiag.st = "none" /\ FailedDiag.st = "error" /\ board \in Boards
      /\ (diag.st = "running" => board.session = DiagnosticSession)
  BY Values, FailedIsTyped DEF AcquisitionInv, TypeOK, OwnerInv, OneOwner
<1>1. \A b \in Boards : Merged(b) \in Diagnostics /\ Merged(b).st = diag.st
  BY <1>0, MergedIsTyped
<1>2. Stopped(board) \in Boards
  BY <1>0, StoppingFits DEF AcquisitionInv, BoardInv
<1>3. CASE diag.st = "error" /\ ~diag.sent /\ client.link # "down"
  <2>1. PICK o \in Outcomes : \E b :
          /\ b = IF Executed(o) /\ board.session = DiagnosticSession
                 THEN Stopped(board) ELSE board
          /\ board' = b /\ pc' = "finalize"
          /\ \/ diag' = NoDiag \/ diag' = [Merged(b) EXCEPT !.sent = TRUE] \/ diag' = diag
    BY <1>3 DEF AdvanceDiagnostic
  <2>2. diag'.st \in {"none", "error"}
    <3>1. \A b \in Boards : [Merged(b) EXCEPT !.sent = TRUE].st = "error"
      BY <1>1, <1>3 DEF Diagnostics
    <3> QED
      BY <1>0, <1>2, <1>3, <2>1, <3>1
  <2> QED
    BY <1>0, <1>3, <2>1, <2>2
<1>4. CASE /\ diag.st = "running" /\ diag.mode = "one_shot" /\ (diag.reports \/ diag.late)
  <2>1. PICK o \in Outcomes : \E b :
          /\ b = IF Executed(o) THEN Stopped(board) ELSE board
          /\ board' = b
          /\ \/ /\ diag' = [Merged(b) EXCEPT !.sent = TRUE, !.st = "finalizing",
                                             !.bad = ~diag.reports]
                /\ pc' = "listing"
             \/ diag' = FailedDiag /\ pc' = "failed"
    BY <1>4 DEF AdvanceDiagnostic, FailDiagnostic
  <2>2. PICK b : /\ b = board \/ b = Stopped(board)
                 /\ board' = b
                 /\ \/ /\ diag' = [Merged(b) EXCEPT !.sent = TRUE, !.st = "finalizing",
                                                    !.bad = ~diag.reports]
                       /\ pc' = "listing"
                    \/ diag' = FailedDiag /\ pc' = "failed"
    BY <2>1
  <2>3. Merged(b) \in Diagnostics
    BY <1>0, <1>1, <1>2, <2>2
  <2>4. \/ pc' = "listing" /\ diag'.st = "finalizing"
        \/ pc' = "failed" /\ diag'.st = "error"
    BY <1>0, <2>2, <2>3 DEF Diagnostics
  <2>5. board.session = DiagnosticSession /\ diag # NoDiag
    BY <1>0, <1>4
  <2> QED
    BY <2>2, <2>4, <2>5
<1>5. CASE /\ diag.st # "error" \/ diag.sent \/ client.link = "down"
           /\ ~(diag.st = "running" /\ diag.mode = "one_shot" /\ (diag.reports \/ diag.late))
  <2>1. diag' = diag /\ board' = board
        /\ pc' = IF diag.st = "finalizing" THEN "listing" ELSE "finalize"
    BY <1>5 DEF AdvanceDiagnostic
  <2> QED
    BY <2>1
<1> QED
  BY <1>3, <1>4, <1>5

LEMMA ListDoes ==
  ASSUME AcquisitionInv, ListDiagnostic
  PROVE  /\ diag' \in {diag, NoDiag} \/ (diag'.st = diag.st /\ diag # NoDiag)
         /\ pc' = "listing" => diag'.st = "finalizing"
         /\ pc' \notin {"reconcile", "recover"} /\ diag.st = "finalizing"
         /\ \/ board' = board \/ board' = NoBoard
            \/ board' = [board EXCEPT !.acked = board.snaps]
<1>1. diag.st = "finalizing" /\ diag \in Diagnostics /\ board \in Boards /\ diag # NoDiag
  BY Values DEF ListDiagnostic, AcquisitionInv, OwnerInv, TypeOK
<1>2. [Merged(board) EXCEPT !.done = board.snaps, !.pend = {}].st = diag.st
  BY <1>1, MergedIsTyped DEF Diagnostics
<1>3. /\ \/ diag' \in {diag, NoDiag} /\ pc' # "listing"
         \/ diag' = [Merged(board) EXCEPT !.done = board.snaps, !.pend = {}]
      /\ pc' \in {"listing", "failed", "finalize"}
      /\ \/ board' = board \/ board' = NoBoard
         \/ board' = [board EXCEPT !.acked = board.snaps]
  BY DEF ListDiagnostic
<1> QED
  BY <1>1, <1>2, <1>3

LEMMA FinalizationDoes ==
  ASSUME AcquisitionInv, BeginFinalization
  PROVE  /\ pc' \notin {"listing", "recover"}
         /\ pc' = "reconcile" => run.session # NoSession /\ run'.sent
         /\ run'.id = run.id /\ run'.session = run.session /\ run'.release = run.release
         /\ run'.totals = run.totals /\ run'.imported = run.imported
         /\ \/ run'.sent = run.sent
            \/ run'.sent /\ board' = Stopped(board) /\ run.session # NoSession
         /\ board' = board \/ board' = Stopped(board)
         /\ Idle => run' = run
<1>1. run \in RunRecords /\ Finalizing /\ ~Idle
  BY Values DEF AcquisitionInv, TypeOK, BeginFinalization, At, Busy, Finalizing, Idle
<1>2. CASE \/ run.wait = "drain" \/ run.session = NoSession \/ client.link = "down"
           \/ (run.sent /\ run.wait # "ack")
  <2>1. /\ run' = run /\ board' = board
        /\ pc' = IF run.wait = "drain" THEN "release"
                 ELSE IF run.session = NoSession THEN "cleared"
                 ELSE IF client.link = "down" THEN "defer" ELSE "reconcile"
    BY <1>2 DEF BeginFinalization
  <2> QED
    BY <1>2, <2>1
<1>3. CASE ~(\/ run.wait = "drain" \/ run.session = NoSession \/ client.link = "down"
             \/ (run.sent /\ run.wait # "ack"))
  <2>1. CASE run.wait = "ack"
    <3>1. run' = [run EXCEPT !.wait = "drain"] /\ board' = board /\ pc' = "release"
      BY <1>3, <2>1 DEF BeginFinalization
    <3> QED
      BY <1>1, <3>1 DEF RunRecords
  <2>2. CASE run.wait # "ack"
    <3>1. /\ board' = board \/ board' = Stopped(board)
          /\ \/ run' = [run EXCEPT !.sent = TRUE] /\ pc' = "reconcile" /\ board' = Stopped(board)
             \/ run' = run /\ pc' = "defer"
      BY <1>3, <2>2 DEF BeginFinalization, Executed
    <3>2. CASE run' = run /\ pc' = "defer"
      BY <1>3, <3>1, <3>2
    <3>3. CASE run' = [run EXCEPT !.sent = TRUE] /\ pc' = "reconcile" /\ board' = Stopped(board)
      <4>1. /\ run'.sent /\ run'.id = run.id /\ run'.session = run.session
            /\ run'.release = run.release /\ run'.totals = run.totals
            /\ run'.imported = run.imported
        BY <1>1, <3>3 DEF RunRecords
      <4> QED
        BY <1>1, <1>3, <3>3, <4>1
    <3> QED
      BY <3>1, <3>2, <3>3
  <2> QED
    BY <2>1, <2>2
<1> QED
  BY <1>2, <1>3

LEMMA ServiceKeeps ==
  ASSUME AcquisitionInv, Next
  PROVE  ServiceInv'
<1> USE Values, Sizes, RunsHaveNames DEF AcquisitionInv, OwnerInv, OneOwner, ServiceInv, WorkerFrame, Idle
<1>0. run \in RunRecords /\ diag \in Diagnostics /\ runs \in 0..MaxRuns
  BY DEF TypeOK
<1>1. CASE CanStart
  <2>1. runs' = runs + 1 /\ diag' = diag /\ reserved' = reserved /\ pc' = pc /\ runs < MaxRuns
        /\ ctl = "idle"
    BY <1>1 DEF CanStart
  <2>2. \/ run' = run /\ ctl' = "idle"
        \/ /\ diag = NoDiag /\ ~reserved /\ pc # "reconcile"
           /\ run' = RunOf(runs + 1) /\ ctl' = "checked"
    BY <1>1 DEF CanStart, StartRefused, LockFree
  <2>3. runs + 1 \in Runs
    BY <1>0, <2>1 DEF Runs
  <2>4. \A i \in 1..runs : i \in 1..(runs + 1)
    BY <1>0
  <2>5. runs + 1 \in 1..(runs + 1)
    BY <1>0
  <2> QED
    BY <2>1, <2>2, <2>3, <2>4, <2>5
<1>2. CASE Preinit
  BY <1>0, <1>2 DEF Preinit, RunRecords, Diagnostics
<1>3. CASE Start
  BY <1>0, <1>3 DEF Start, RunRecords, Diagnostics
<1>4. CASE Stop
  BY <1>0, <1>4, OnStopDoes, StartedIsNotIdle DEF Stop, SameRun
<1>5. CASE StopEventArrives
  BY <1>0, <1>5, OnStopDoes, StartedIsNotIdle DEF StopEventArrives, SameRun
<1>6. CASE Maintain
  BY <1>0, <1>6 DEF Maintain, RequestStop, FailDiagnostic, RunRecords, Diagnostics
<1>7. CASE CompleteLifecycle
  BY <1>0, <1>7 DEF CompleteLifecycle, RunRecords, Diagnostics
<1>8. CASE BeginRecovery
  BY <1>0, <1>8 DEF BeginRecovery, RunRecords, Diagnostics
<1>9. CASE RecoverSnapshot
  BY <1>0, <1>9 DEF RecoverSnapshot, EndRecovery, RunRecords, Diagnostics
<1>10. CASE FinishRecovery
  BY <1>0, <1>10 DEF FinishRecovery, EndRecovery, RunRecords, Diagnostics
<1>11. CASE ProcessControl
  BY <1>0, <1>11 DEF ProcessControl, StartDiagnostic, FlushDiagnostic, StopDiagnosticCall, RunRecords, Diagnostics
<1>12. CASE ConsumeReports
  <2>1. pc' = "snapshots" /\ ctl' = ctl /\ runs' = runs /\ reserved' = reserved
    BY <1>12 DEF ConsumeReports
  <2> QED
    BY <1>0, <1>12, <2>1, ReportsDo DEF SameRun
<1>13. CASE ConsumeSnapshots
  BY <1>0, <1>13 DEF ConsumeSnapshots, RunRecords, Diagnostics
<1>14. CASE ImportPending
  <2>1. ctl' = ctl /\ runs' = runs /\ reserved' = reserved /\ diag' = diag
    BY <1>14 DEF ImportPending
  <2> QED
    BY <1>0, <1>14, <2>1, ImportPendingDoes DEF ImportStep
<1>15. CASE ImportDiagnostic
  BY <1>0, <1>15 DEF ImportDiagnostic, DiagnosticTransfer, RunRecords, Diagnostics
<1>16. CASE AdvanceDiagnostic
  <2>1. run' = run /\ ctl' = ctl /\ runs' = runs /\ reserved' = reserved
    BY <1>16 DEF AdvanceDiagnostic
  <2> QED
    BY <1>16, <2>1, AdvanceDoes
<1>17. CASE ListDiagnostic
  <2>1. run' = run /\ ctl' = ctl /\ runs' = runs /\ reserved' = reserved
    BY <1>17 DEF ListDiagnostic
  <2> QED
    BY <1>17, <2>1, ListDoes
<1>18. CASE BeginFinalization
  <2>1. diag' = diag /\ ctl' = ctl /\ runs' = runs /\ reserved' = reserved
    BY <1>18 DEF BeginFinalization
  <2> QED
    BY <1>0, <1>18, <2>1, FinalizationDoes
<1>19. CASE ClearRejectedStart
  BY <1>0, <1>19 DEF ClearRejectedStart, RunRecords, Diagnostics
<1>20. CASE Reconcile
  <2>1. runs' = runs /\ reserved' = reserved /\ diag' = diag
    BY <1>20 DEF Reconcile
  <2>2. pc = "reconcile"
    BY <1>20 DEF Reconcile
  <2>3. ~Idle /\ run.id \in Runs /\ run.session = run.id /\ pc' # "listing"
    BY <1>20, ReconcileDoes
  <2>4. CASE \E s \in Events : ImportStep(s) /\ ctl' = ctl
    BY <2>1, <2>2, <2>3, <2>4 DEF ImportStep
  <2>5. CASE SameRun(run') /\ run'.totals = run.totals /\ ctl' = ctl
    BY <2>1, <2>2, <2>3, <2>5 DEF SameRun
  <2>6. CASE run' = [run EXCEPT !.wait = "no", !.release = TRUE] /\ ctl' = "idle" /\ pc' = "release"
    BY <1>0, <2>1, <2>3, <2>6 DEF RunRecords
  <2> QED
    BY <1>20, <2>4, <2>5, <2>6, ReconcileDoes
<1>21. CASE Defer
  BY <1>0, <1>21 DEF Defer, RunRecords, Diagnostics
<1>22. CASE ReleaseAfterStopped
  BY <1>0, <1>22, ReleaseNeedsRun DEF ReleaseAfterStopped
<1>23. CASE HandleFailure
  BY <1>0, <1>23 DEF HandleFailure, RequestStop, FailDiagnostic, RunRecords, Diagnostics
<1>24. CASE Pulse
  BY <1>0, <1>24 DEF Pulse, OutsideFrame, RunRecords, Diagnostics
<1>25. CASE CloseSegment
  BY <1>0, <1>25 DEF CloseSegment, OutsideFrame, RunRecords, Diagnostics
<1>26. CASE BoardFails
  BY <1>0, <1>26 DEF BoardFails, OutsideFrame, RunRecords, Diagnostics
<1>27. CASE LinkBreaks
  BY <1>0, <1>27 DEF LinkBreaks, OutsideFrame, RunRecords, Diagnostics
<1>28. CASE DrainElapses
  BY <1>0, <1>28 DEF DrainElapses, OutsideFrame, RunRecords, Diagnostics
<1>29. CASE OneShotTimesOut
  BY <1>0, <1>29 DEF OneShotTimesOut, OutsideFrame, RunRecords, Diagnostics
<1>30. ASSUME NEW c \in Calls, AskRecovery(c)
      PROVE  ServiceInv'
  BY <1>0, <1>30 DEF AskRecovery
<1>31. ASSUME NEW c \in Calls, NEW mode \in {"continuous", "one_shot"}, AskDiagnostic(c, mode)
      PROVE  ServiceInv'
  BY <1>0, <1>31 DEF AskDiagnostic
<1>32. ASSUME NEW c \in Calls, NEW what \in {"flush", "stop"}, AskRunningDiagnostic(c, what)
      PROVE  ServiceInv'
  BY <1>0, <1>32 DEF AskRunningDiagnostic
<1> QED
  BY <1>1, <1>2, <1>3, <1>4, <1>5, <1>6, <1>7, <1>8, <1>9, <1>10, <1>11, <1>12, <1>13, <1>14, <1>15, <1>16, <1>17, <1>18, <1>19, <1>20, <1>21, <1>22, <1>23, <1>24, <1>25, <1>26, <1>27, <1>28, <1>29, <1>30, <1>31, <1>32
     DEF Next, Worker, Callbacks, Environment

-----------------------------------------------------------------------------
(* The sessions.                                                            *)

SessionInv ==
  /\ diag.st = "running" => board.session = DiagnosticSession
  /\ run.session # NoSession => board.session \in {NoSession, run.session}
  /\ ctl = "checked" => board.session \notin Runs
  /\ diag.st = "finalizing" => board.session \notin Runs
  /\ pc = "recover" => board.session \in Runs
  /\ board.session \in Runs => board.session <= runs

LEMMA SpoolSessions ==
  ASSUME TypeOK, BoardFits(board)
  PROVE  /\ NoBoard.session = NoSession /\ Stopped(board).session = board.session
         /\ \A x \in 1..DiagnosticSession : Open(x).session = x /\ Stopped(Open(x)).session = x
         /\ board.st = "active" => Flushed(board).session = board.session
         /\ \A S : [board EXCEPT !.acked = S].session = board.session
         /\ \A S : board.st = "active" => [Flushed(board) EXCEPT !.acked = S].session = board.session
         /\ [board EXCEPT !.seq = @ + 1].session = board.session
         /\ [board EXCEPT !.st = "orphaned"].session = board.session
<1>1. board \in Boards
  BY DEF TypeOK
<1>2. Stopped(board).session = board.session
  BY <1>1, StoppingFits DEF Follows
<1>3. ASSUME NEW x \in 1..DiagnosticSession
      PROVE  Open(x).session = x /\ Stopped(Open(x)).session = x
  <2>1. Open(x) \in Boards /\ BoardFits(Open(x)) /\ Open(x).session = x
    BY Values, SpoolsFit
  <2> QED
    BY <2>1, StoppingFits DEF Follows
<1>4. board.st = "active" => Flushed(board).session = board.session /\ Flushed(board) \in Boards
  BY <1>1, Closing DEF BoardFits
<1>5. /\ \A S : [board EXCEPT !.acked = S].session = board.session
      /\ [board EXCEPT !.seq = @ + 1].session = board.session
      /\ [board EXCEPT !.st = "orphaned"].session = board.session
  BY <1>1 DEF Boards
<1>6. \A S : board.st = "active" => [Flushed(board) EXCEPT !.acked = S].session = board.session
  BY <1>4 DEF Boards
<1> QED
  BY <1>2, <1>3, <1>4, <1>5, <1>6, Values

LEMMA ImportLeavesSessions ==
  ASSUME TypeOK, BoardFits(board), NEW s, ImportStep(s)
  PROVE  board'.session = board.session /\ run'.session = run.session
<1>1. board' = board \/ board' = [board EXCEPT !.acked = board.acked \cup {s}]
  BY DEF ImportStep
<1>2. board'.session = board.session
  BY <1>1, SpoolSessions
<1> QED
  BY <1>2 DEF ImportStep

LEMMA SnapshotsDo ==
  ASSUME TypeOK, ConsumeSnapshots
  PROVE  /\ SameRun(run') /\ run'.totals = run.totals
         /\ diag'.st = diag.st \/ (diag.st \in {"running", "finalizing"} /\ diag'.st = "finalizing")
<1>0. run \in RunRecords /\ diag \in Diagnostics
  BY DEF TypeOK
<1>1. run' = run \/ run' = [run EXCEPT !.pend = @ \cup (client.snaps \ run.imported)]
  BY DEF ConsumeSnapshots
<1>2. \/ diag' = diag
      \/ /\ diag.st \notin {"none", "error"}
         /\ diag' = [diag EXCEPT !.pend = @ \cup (client.snaps \ diag.done),
                                 !.sent = @ \/ (client.stop /\ ~diag.sent),
                                 !.st = IF client.stop /\ ~diag.sent THEN "finalizing" ELSE @,
                                 !.bad = @ \/ (client.stop /\ ~diag.sent)]
  BY DEF ConsumeSnapshots
<1>3. SameRun(run') /\ run'.totals = run.totals
  BY <1>0, <1>1 DEF SameRun, RunRecords
<1>4. diag'.st = diag.st \/ (diag.st \in {"running", "finalizing"} /\ diag'.st = "finalizing")
  BY <1>0, <1>2 DEF Diagnostics
<1> QED
  BY <1>3, <1>4

\* The calls of operators that the worker answers.
LEMMA StopCallSessions ==
  ASSUME AcquisitionInv, NEW c \in Calls, StopDiagnosticCall(c)
  PROVE  /\ board'.session = board.session
         /\ diag'.st = diag.st \/ diag'.st \in {"none", "error"}
            \/ (diag'.st = "finalizing" /\ board.session = DiagnosticSession)
<1>1. TypeOK /\ BoardFits(board) /\ diag \in Diagnostics /\ Stopped(board) \in Boards
  BY StoppingFits DEF AcquisitionInv, TypeOK, BoardInv
<1>2. board'.session = board.session
  BY <1>1, StopCallDoes, SpoolSessions
<1>3. /\ FailedDiag.st = "error" /\ NoDiag.st = "none"
      /\ [diag EXCEPT !.waiting = @ \cup {c}].st = diag.st
      /\ [Merged(Stopped(board)) EXCEPT !.sent = TRUE, !.st = "finalizing",
                                        !.waiting = @ \cup {c}].st = "finalizing"
  <2>1. Merged(Stopped(board)) \in Diagnostics
    BY <1>1, MergedIsTyped
  <2> QED
    BY <1>1, <2>1, FailedIsTyped, Values DEF Diagnostics
<1> QED
  BY <1>2, <1>3, StopCallDoes

LEMMA FlushSessions ==
  ASSUME AcquisitionInv, NEW c, FlushDiagnostic(c)
  PROVE  board'.session = board.session /\ diag'.st = diag.st
<1>1. TypeOK /\ BoardFits(board) /\ diag \in Diagnostics
  BY DEF AcquisitionInv, TypeOK, BoardInv
<1>2. board'.session = board.session
  BY <1>1, FlushDoes, SpoolSessions
<1>3. diag' = diag \/ \E S : diag' = [diag EXCEPT !.done = S, !.pend = {}]
  BY DEF FlushDiagnostic
<1>4. \A S : [diag EXCEPT !.done = S, !.pend = {}].st = diag.st
  BY <1>1 DEF Diagnostics
<1> QED
  BY <1>2, <1>3, <1>4

LEMMA StartDiagnosticDoes ==
  ASSUME AcquisitionInv, NEW mode \in {"continuous", "one_shot"}, NEW c \in Calls,
         StartDiagnostic(mode, c)
  PROVE  \/ diag' = diag /\ board' = board
         \/ /\ Idle /\ diag = NoDiag /\ board.session \in {NoSession, DiagnosticSession}
            /\ \/ board' = board /\ diag'.st \in {"none", "error"}
               \/ board' = Open(DiagnosticSession) /\ diag'.st \in {"none", "error", "running"}
<1>1. /\ DiagOf(mode, "error").st = "error"
      /\ \A W : [DiagOf(mode, "running") EXCEPT !.waiting = W].st = "running"
      /\ NoDiag.st = "none"
  BY Values DEF DiagOf
<1> QED
  BY <1>1 DEF StartDiagnostic, Executed

LEMMA SessionsKeep ==
  ASSUME AcquisitionInv, Next
  PROVE  SessionInv'
<1> USE Values, Sizes, RunsHaveNames, SpoolSessions DEF AcquisitionInv, OwnerInv, OneOwner, BoardInv, SessionInv, WorkerFrame
<1>0. run \in RunRecords /\ diag \in Diagnostics /\ runs \in 0..MaxRuns /\ FailedDiag.st = "error"
  BY FailedIsTyped DEF TypeOK
<1>1. CASE CanStart
  <2>1. /\ diag' = diag /\ pc' = pc /\ runs' = runs + 1 /\ runs \in Nat /\ ctl = "idle"
        /\ runs + 1 \in Runs
    BY <1>0, <1>1 DEF CanStart, Runs
  <2>2. /\ \/ board' = board
           \/ board' = NoBoard /\ board.session = DiagnosticSession /\ diag = NoDiag
        /\ \/ run' = run /\ ctl' = ctl
           \/ /\ run' = RunOf(runs + 1)
              /\ board.session \in {NoSession, DiagnosticSession}
    BY <1>1 DEF CanStart, StartRefused
  <2>3. RunOf(runs + 1).session = NoSession
    BY <2>1
  <2>4. board.session \in Runs => board.session <= runs + 1
    BY <2>1
  <2> QED
    BY <2>1, <2>2, <2>3, <2>4
<1>2. CASE Preinit
  BY <1>0, <1>2 DEF Preinit, RunRecords, Diagnostics
<1>3. CASE Start
  BY <1>0, <1>3 DEF Start, RunRecords, Diagnostics
<1>4. CASE Stop
  BY <1>0, <1>4, OnStopDoes DEF Stop, SameRun
<1>5. CASE StopEventArrives
  BY <1>0, <1>5, OnStopDoes DEF StopEventArrives, SameRun
<1>6. CASE Maintain
  BY <1>0, <1>6 DEF Maintain, RequestStop, FailDiagnostic, RunRecords, Diagnostics
<1>7. CASE CompleteLifecycle
  BY <1>0, <1>7 DEF CompleteLifecycle, RunRecords, Diagnostics
<1>8. CASE BeginRecovery
  BY <1>0, <1>8 DEF BeginRecovery, At, Busy, RunRecords, Diagnostics
<1>9. CASE RecoverSnapshot
  BY <1>0, <1>9 DEF RecoverSnapshot, EndRecovery, RunRecords, Diagnostics
<1>10. CASE FinishRecovery
  BY <1>0, <1>10 DEF FinishRecovery, EndRecovery, RunRecords, Diagnostics
<1>11. CASE ProcessControl
  <2>1. run' = run /\ ctl' = ctl /\ runs' = runs /\ pc' = "reports" /\ control # << >>
    BY <1>11 DEF ProcessControl, At, Busy, StartDiagnostic, FlushDiagnostic, StopDiagnosticCall
  <2>2. Head(control)[1] \in {"continuous", "one_shot", "flush", "stop"}
        /\ Head(control)[2] \in Calls
    <3>1. Head(control) \in {"continuous", "one_shot", "flush", "stop"} \X Calls
      BY <2>1, QueuesAreTyped DEF TypeOK, QueuesTyped
    <3> QED
      BY <3>1
  <2>3. ASSUME NEW c \in Calls, FlushDiagnostic(c)
        PROVE  SessionInv'
    BY <1>0, <2>1, <2>3, FlushSessions
  <2>4. ASSUME NEW c \in Calls, StopDiagnosticCall(c)
        PROVE  SessionInv'
    BY <1>0, <2>1, <2>4, StopCallSessions
  <2>5. ASSUME NEW mode \in {"continuous", "one_shot"}, NEW c \in Calls,
               StartDiagnostic(mode, c)
        PROVE  SessionInv'
    <3>1. Open(DiagnosticSession).session = DiagnosticSession
      <4>1. DiagnosticSession \in 1..DiagnosticSession
        OBVIOUS
      <4> QED
        BY <4>1
    <3> QED
      BY <1>0, <2>1, <2>5, <3>1, StartDiagnosticDoes DEF Idle
  <2> QED
    BY <1>11, <2>2, <2>3, <2>4, <2>5 DEF ProcessControl
<1>12. CASE ConsumeReports
  <2>1. ctl' = ctl /\ runs' = runs /\ board' = board /\ pc' = "snapshots"
    BY <1>12 DEF ConsumeReports
  <2> QED
    BY <1>0, <1>12, <2>1, ReportsDo DEF SameRun
<1>13. CASE ConsumeSnapshots
  <2>1. ctl' = ctl /\ runs' = runs /\ board' = board /\ pc' = "import"
    BY <1>13 DEF ConsumeSnapshots
  <2> QED
    BY <1>0, <1>13, <2>1, SnapshotsDo DEF SameRun
<1>14. CASE ImportPending
  <2>1. ctl' = ctl /\ runs' = runs /\ diag' = diag
    BY <1>14 DEF ImportPending
  <2>2. run'.session = run.session /\ board'.session = board.session /\ pc' # "recover"
    BY <1>14, ImportPendingDoes, ImportLeavesSessions
  <2> QED
    BY <1>0, <2>1, <2>2
<1>15. CASE ImportDiagnostic
  <2>1. run' = run /\ ctl' = ctl /\ runs' = runs /\ pc' \in {"diagnostic", "failed"}
    BY <1>15 DEF ImportDiagnostic, DiagnosticTransfer
  <2>2. /\ board' = board \/ board' = [board EXCEPT !.acked = board.acked \cup diag.pend]
        /\ \/ diag' = diag
           \/ diag' = [diag EXCEPT !.done = @ \cup diag.pend, !.pend = {}]
    BY <1>15 DEF ImportDiagnostic, DiagnosticTransfer
  <2>3. board'.session = board.session
    <3>1. [board EXCEPT !.acked = board.acked \cup diag.pend].session = board.session
      OBVIOUS
    <3> QED
      BY <2>2, <3>1
  <2>4. diag'.st = diag.st
    BY <1>0, <2>2 DEF Diagnostics
  <2> QED
    BY <2>1, <2>3, <2>4
<1>16. CASE AdvanceDiagnostic
  <2>1. ctl' = ctl /\ runs' = runs /\ run' = run
    BY <1>16 DEF AdvanceDiagnostic
  <2> QED
    BY <1>0, <1>16, <2>1, AdvanceDoes
<1>17. CASE ListDiagnostic
  <2>1. ctl' = ctl /\ runs' = runs /\ run' = run
    BY <1>17 DEF ListDiagnostic
  <2>2. board'.session \in {board.session, NoSession} /\ diag.st = "finalizing"
        /\ diag'.st \in {"finalizing", "none"} /\ pc' # "recover"
    <3>1. [board EXCEPT !.acked = board.snaps].session = board.session
      OBVIOUS
    <3>2. board'.session \in {board.session, NoSession}
      BY <1>17, <3>1, ListDoes
    <3> QED
      BY <1>17, <3>2, ListDoes
  <2> QED
    BY <1>0, <2>1, <2>2
<1>18. CASE BeginFinalization
  <2>1. ctl' = ctl /\ runs' = runs /\ diag' = diag
    BY <1>18 DEF BeginFinalization
  <2> QED
    BY <1>0, <1>18, <2>1, FinalizationDoes
<1>19. CASE ClearRejectedStart
  BY <1>0, <1>19 DEF ClearRejectedStart, RunRecords, Diagnostics
<1>20. CASE Reconcile
  <2>1. runs' = runs /\ diag' = diag /\ pc = "reconcile"
    BY <1>20 DEF Reconcile
  <2>2. run'.session = run.session /\ board'.session = board.session /\ pc' # "recover"
        /\ (ctl' = ctl \/ ctl' = "idle")
    <3>1. CASE \E s \in Events : ImportStep(s) /\ ctl' = ctl
      BY <1>0, <1>20, <3>1, ReconcileDoes, ImportLeavesSessions
    <3>2. CASE SameRun(run') /\ board' = board /\ ctl' = ctl
      BY <1>20, <3>2, ReconcileDoes DEF SameRun
    <3>3. CASE run' = [run EXCEPT !.wait = "no", !.release = TRUE] /\ board' = board /\ ctl' = "idle"
      <4>1. [run EXCEPT !.wait = "no", !.release = TRUE].session = run.session
        BY <1>0 DEF RunRecords
      <4> QED
        BY <1>20, <3>3, <4>1, ReconcileDoes
    <3> QED
      BY <1>20, <3>1, <3>2, <3>3, ReconcileDoes
  <2> QED
    BY <1>0, <2>1, <2>2
<1>21. CASE Defer
  BY <1>0, <1>21 DEF Defer, RunRecords, Diagnostics
<1>22. CASE ReleaseAfterStopped
  BY <1>0, <1>22, ReleaseNeedsRun DEF ReleaseAfterStopped, Idle
<1>23. CASE HandleFailure
  BY <1>0, <1>23 DEF HandleFailure, RequestStop, FailDiagnostic, RunRecords, Diagnostics
<1>24. CASE Pulse
  BY <1>0, <1>24 DEF Pulse, OutsideFrame, RunRecords, Diagnostics
<1>25. CASE CloseSegment
  BY <1>0, <1>25 DEF CloseSegment, OutsideFrame, RunRecords, Diagnostics
<1>26. CASE BoardFails
  <2>1. board'.session = board.session
    BY <1>26 DEF BoardFails
  <2> QED
    BY <1>26, <2>1 DEF BoardFails, OutsideFrame
<1>27. CASE LinkBreaks
  BY <1>0, <1>27 DEF LinkBreaks, OutsideFrame, RunRecords, Diagnostics
<1>28. CASE DrainElapses
  BY <1>0, <1>28 DEF DrainElapses, OutsideFrame, RunRecords, Diagnostics
<1>29. CASE OneShotTimesOut
  BY <1>0, <1>29 DEF OneShotTimesOut, OutsideFrame, RunRecords, Diagnostics
<1>30. ASSUME NEW c \in Calls, AskRecovery(c)
      PROVE  SessionInv'
  BY <1>0, <1>30 DEF AskRecovery
<1>31. ASSUME NEW c \in Calls, NEW mode \in {"continuous", "one_shot"}, AskDiagnostic(c, mode)
      PROVE  SessionInv'
  BY <1>0, <1>31 DEF AskDiagnostic
<1>32. ASSUME NEW c \in Calls, NEW what \in {"flush", "stop"}, AskRunningDiagnostic(c, what)
      PROVE  SessionInv'
  BY <1>0, <1>32 DEF AskRunningDiagnostic
<1> QED
  BY <1>1, <1>2, <1>3, <1>4, <1>5, <1>6, <1>7, <1>8, <1>9, <1>10, <1>11, <1>12, <1>13, <1>14, <1>15, <1>16, <1>17, <1>18, <1>19, <1>20, <1>21, <1>22, <1>23, <1>24, <1>25, <1>26, <1>27, <1>28, <1>29, <1>30, <1>31, <1>32
     DEF Next, Worker, Callbacks, Environment

-----------------------------------------------------------------------------
(* The custody of the snapshots.                                            *)

\* Steps that copy nothing, open no session of a run and give up no spool that
\* somebody needs.
QuietStep ==
  /\ record' = record /\ runs' \in {runs, runs + 1}
  /\ \/ Follows(board, board')
     \/ board' = NoBoard /\ (board.session \notin Runs \/ run.release)
     \/ Idle /\ board.session \notin Runs /\ board'.session \notin Runs /\ run' = run
  /\ run' = NoRun \/ SameRun(run') \/ run' = RunOf(runs + 1)
  /\ ctl' = "checked" => \/ ctl = "checked" /\ SameRun(run')
                         \/ run' = RunOf(runs + 1) /\ runs' = runs + 1

LEMMA QuietStepKeepsCustody ==
  ASSUME AcquisitionInv, QuietStep, runs' \in 0..MaxRuns
  PROVE  CustodyInv'
<1> USE Values, Sizes
<1>0. /\ runs \in Nat /\ run \in RunRecords /\ board \in Boards /\ record' = record
      /\ CustodyInv /\ OwnerInv /\ BoardFits(board)
      /\ \A i \in 0..runs : i # runs + 1
      /\ runs' \in {runs, runs + 1}
  BY DEF AcquisitionInv, TypeOK, QuietStep, BoardInv
<1>1. \A r \in Runs : \A s \in record[r].stored : s[1] = r /\ r <= runs
  BY <1>0 DEF CustodyInv
<1>2. \A r \in Runs : \A s \in record'[r].stored : s[1] = r /\ r <= runs'
  BY <1>0, <1>1
<1>3. board'.session \in Runs => /\ record'[board'.session].stored \subseteq board'.snaps
                                 /\ board'.acked \subseteq record'[board'.session].stored
  BY <1>0 DEF QuietStep, Follows, CustodyInv
<1>4. run' = RunOf(runs + 1) => /\ runs + 1 \in Runs => record[runs + 1].stored = {}
                                /\ run'.id = runs + 1
  BY <1>0, <1>1 DEF RunOf
<1>5. ctl' = "checked" => record'[run'.id].stored = {}
  <2>1. CASE ctl = "checked" /\ SameRun(run')
    BY <1>0, <2>1 DEF CustodyInv, SameRun
  <2>2. CASE run' = RunOf(runs + 1) /\ runs' = runs + 1
    <3>1. runs + 1 \in Runs
      BY <1>0, <2>2 DEF Runs
    <3> QED
      BY <1>0, <1>4, <2>2, <3>1
  <2> QED
    BY <2>1, <2>2 DEF QuietStep
<1>6. run'.id \in Runs => run'.imported \subseteq record'[run'.id].stored
  <2>1. CASE SameRun(run')
    BY <1>0, <2>1 DEF SameRun, CustodyInv
  <2>2. CASE run' = RunOf(runs + 1)
    BY <2>2 DEF RunOf
  <2> QED
    BY <1>0, <2>1, <2>2 DEF QuietStep
<1>7. CASE ~SameRun(run')
  <2>1. ~run'.sent /\ ~run'.release
    BY <1>0, <1>7 DEF QuietStep, RunOf
  <2> QED
    BY <1>2, <1>3, <1>5, <1>6, <2>1 DEF CustodyInv
<1>8. CASE SameRun(run')
  <2>1. run'.sent => board'.st # "active"
    BY <1>0, <1>8 DEF SameRun, QuietStep, CustodyInv, Follows, Idle
  <2>2. run'.release => /\ run'.sent /\ run'.session # NoSession /\ record'[run'.id].analysed
                        /\ board'.snaps \subseteq record'[run'.id].stored
    BY <1>0, <1>8 DEF SameRun, QuietStep, CustodyInv, Follows, Idle
  <2> QED
    BY <1>2, <1>3, <1>5, <1>6, <2>1, <2>2 DEF CustodyInv
<1> QED
  BY <1>7, <1>8

\* The spool after the digitizer's own steps and its commands.
LEMMA SpoolsFollow ==
  ASSUME TypeOK, BoardFits(board)
  PROVE  /\ Follows(board, board) /\ Follows(board, Stopped(board))
         /\ board.st = "active" =>
              /\ Follows(board, Flushed(board))
              /\ Follows(board, [board EXCEPT !.st = "orphaned"])
              /\ Follows(board, [board EXCEPT !.seq = @ + 1])
<1>1. board \in Boards
  BY DEF TypeOK
<1>2. Follows(board, Stopped(board)) /\ Follows(board, board)
  BY <1>1, StoppingFits DEF Follows
<1>3. ASSUME board.st = "active"
      PROVE  Follows(board, Flushed(board))
  <2>1. /\ Flushed(board).session = board.session /\ Flushed(board).acked = board.acked
        /\ \/ Flushed(board) = board
           \/ /\ board.seq > board.cut
              /\ Flushed(board).snaps = board.snaps \cup {<<board.session, board.seq>>}
    BY <1>1, <1>3, Closing DEF BoardFits
  <2> QED
    BY <1>3, <2>1 DEF Follows
<1>4. ASSUME board.st = "active"
      PROVE  /\ Follows(board, [board EXCEPT !.st = "orphaned"])
             /\ Follows(board, [board EXCEPT !.seq = @ + 1])
  BY <1>1, <1>4 DEF Follows, Boards
<1> QED
  BY <1>2, <1>3, <1>4

\* The steps that are quiet.
Quiet ==
  \/ CanStart \/ Start \/ Stop \/ StopEventArrives
  \/ \E c \in Calls :
       \/ AskRecovery(c)
       \/ \E mode \in {"continuous", "one_shot"} : AskDiagnostic(c, mode)
       \/ \E what \in {"flush", "stop"} : AskRunningDiagnostic(c, what)
  \/ Maintain \/ CompleteLifecycle \/ BeginRecovery \/ ProcessControl
  \/ ConsumeReports \/ ConsumeSnapshots \/ ImportDiagnostic
  \/ AdvanceDiagnostic \/ ListDiagnostic
  \/ ClearRejectedStart \/ Defer \/ ReleaseAfterStopped \/ HandleFailure
  \/ Environment

LEMMA QuietStepsAreQuiet ==
  ASSUME AcquisitionInv, Quiet
  PROVE  QuietStep
<1> USE SpoolsFollow, Values, Sizes, StartedIsNotIdle DEF AcquisitionInv, BoardInv, WorkerFrame, QuietStep
<1>0. /\ run \in RunRecords /\ diag \in Diagnostics /\ TypeOK
      /\ (diag # NoDiag => Idle) /\ (diag.st = "running" => board.session = DiagnosticSession)
      /\ (run.release => ~Idle /\ ctl = "idle") /\ (diag.st = "finalizing" => board.session \notin Runs)
      /\ SameRun(run) /\ (Idle => run = NoRun)
  BY DEF TypeOK, OwnerInv, OneOwner, SameRun, Idle
<1>a. /\ [board EXCEPT !.acked = board.acked \cup diag.pend].session = board.session
      /\ [board EXCEPT !.acked = board.snaps].session = board.session
      /\ DiagnosticSession \notin Runs
  BY SpoolSessions
<1>1. CASE CanStart
  BY <1>0, <1>1 DEF CanStart, StartRefused
<1>2. CASE Start
  BY <1>0, <1>2 DEF Start, SameRun, RunRecords
<1>3. CASE Stop
  BY <1>0, <1>3, OnStopDoes DEF Stop
<1>4. CASE StopEventArrives
  BY <1>0, <1>4, OnStopDoes DEF StopEventArrives
<1>5. CASE Maintain
  BY <1>0, <1>5 DEF Maintain, RequestStop, FailDiagnostic
<1>6. CASE CompleteLifecycle
  BY <1>0, <1>6 DEF CompleteLifecycle
<1>7. CASE BeginRecovery
  BY <1>0, <1>7 DEF BeginRecovery, At, Busy
<1>8. CASE ProcessControl
  <2>1. run' = run /\ ctl' = ctl /\ runs' = runs /\ record' = record /\ control # << >>
    BY <1>8 DEF ProcessControl, At, Busy
  <2>2. Head(control)[1] \in {"continuous", "one_shot", "flush", "stop"}
        /\ Head(control)[2] \in Calls
    <3>1. Head(control) \in {"continuous", "one_shot", "flush", "stop"} \X Calls
      BY <2>1, QueuesAreTyped DEF TypeOK, QueuesTyped
    <3> QED
      BY <3>1
  <2>3. ASSUME NEW c \in Calls, FlushDiagnostic(c)
        PROVE  QuietStep
    <3>1. CASE board' = board \/ (board.st = "active" /\ board' = Flushed(board))
      BY <1>0, <2>1, <3>1
    <3>2. CASE board.session = DiagnosticSession 
               \/ (board.st = "active" /\ Flushed(board).session = DiagnosticSession)
      <4>1. board.session = DiagnosticSession
        BY <3>2, SpoolSessions
      <4>2. board'.session = DiagnosticSession
        BY <2>3, <4>1, FlushSessions
      <4>3. diag = NoDiag => board' = board
        BY <2>3 DEF FlushDiagnostic
      <4> QED
        BY <1>0, <1>a, <2>1, <4>1, <4>2, <4>3
    <3> QED
      BY <2>3, <3>1, <3>2, FlushDoes
  <2>4. ASSUME NEW c \in Calls, StopDiagnosticCall(c)
        PROVE  QuietStep
    BY <1>0, <2>1, <2>4, StopCallDoes
  <2>5. ASSUME NEW mode \in {"continuous", "one_shot"}, NEW c \in Calls,
               StartDiagnostic(mode, c)
        PROVE  QuietStep
    <3>1. Open(DiagnosticSession).session = DiagnosticSession
      <4>1. DiagnosticSession \in 1..DiagnosticSession
        OBVIOUS
      <4> QED
        BY <4>1
    <3> QED
      BY <1>0, <1>a, <2>1, <2>5, <3>1, StartDiagnosticDoes
  <2> QED
    BY <1>8, <2>2, <2>3, <2>4, <2>5 DEF ProcessControl
<1>9. CASE ConsumeReports
  BY <1>0, <1>9, ReportsDo DEF ConsumeReports
<1>10. CASE ConsumeSnapshots
  BY <1>0, <1>10, SnapshotsDo DEF ConsumeSnapshots
<1>11. CASE ImportDiagnostic
  <2>1. /\ run' = run /\ ctl' = ctl /\ runs' = runs /\ record' = record /\ Idle
        /\ \/ board' = board
           \/ /\ board.session = DiagnosticSession
              /\ board' = [board EXCEPT !.acked = board.acked \cup diag.pend]
    BY <1>11 DEF ImportDiagnostic, DiagnosticTransfer
  <2>2. \/ Follows(board, board')
        \/ board.session \notin Runs /\ board'.session \notin Runs
    <3>1. CASE board' = board
      BY <3>1
    <3>2. CASE /\ board.session = DiagnosticSession
               /\ board' = [board EXCEPT !.acked = board.acked \cup diag.pend]
      <4>1. board'.session = DiagnosticSession
        BY <1>a, <3>2
      <4> QED BY <1>a, <3>2, <4>1
    <3> QED BY <2>1, <3>1, <3>2
  <2>3. ctl' = "checked" => ctl = "checked" /\ SameRun(run')
    BY <1>0, <2>1 DEF SameRun
  <2>4. SameRun(run') /\ runs' \in {runs, runs + 1}
    BY <1>0, <2>1 DEF SameRun
  <2> QED
    BY <2>1, <2>2, <2>3, <2>4
<1>12. CASE AdvanceDiagnostic
  BY <1>0, <1>12, AdvanceDoes DEF AdvanceDiagnostic
<1>13. CASE ListDiagnostic
  <2>1. run' = run /\ ctl' = ctl /\ runs' = runs /\ record' = record
    BY <1>13 DEF ListDiagnostic
  <2>2. diag.st = "finalizing" /\ Idle
    BY <1>0, <1>13, ListDoes
  <2> QED
    BY <1>0, <1>a, <1>13, <2>1, <2>2, ListDoes
<1>14. CASE ClearRejectedStart
  BY <1>0, <1>14 DEF ClearRejectedStart
<1>15. CASE Defer
  BY <1>0, <1>15 DEF Defer
<1>16. CASE ReleaseAfterStopped
  BY <1>0, <1>16, ReleaseNeedsRun DEF ReleaseAfterStopped
<1>17. CASE HandleFailure
  BY <1>0, <1>17 DEF HandleFailure, RequestStop, FailDiagnostic
<1>18. CASE Pulse
  BY <1>0, <1>18 DEF Pulse, OutsideFrame
<1>19. CASE CloseSegment
  BY <1>0, <1>19 DEF CloseSegment, OutsideFrame
<1>20. CASE BoardFails
  BY <1>0, <1>20 DEF BoardFails, OutsideFrame
<1>21. CASE LinkBreaks
  BY <1>0, <1>21 DEF LinkBreaks, OutsideFrame
<1>22. CASE DrainElapses
  BY <1>0, <1>22 DEF DrainElapses, OutsideFrame, SameRun, RunRecords
<1>23. CASE OneShotTimesOut
  BY <1>0, <1>23 DEF OneShotTimesOut, OutsideFrame
<1>24. ASSUME NEW c \in Calls, AskRecovery(c)
      PROVE  QuietStep
  BY <1>0, <1>24 DEF AskRecovery
<1>25. ASSUME NEW c \in Calls, NEW mode \in {"continuous", "one_shot"}, AskDiagnostic(c, mode)
      PROVE  QuietStep
  BY <1>0, <1>25 DEF AskDiagnostic
<1>26. ASSUME NEW c \in Calls, NEW what \in {"flush", "stop"}, AskRunningDiagnostic(c, what)
      PROVE  QuietStep
  BY <1>0, <1>26 DEF AskRunningDiagnostic
<1> QED
  BY <1>1, <1>2, <1>3, <1>4, <1>5, <1>6, <1>7, <1>8, <1>9, <1>10, <1>11, <1>12, <1>13, <1>14, <1>15, <1>16, <1>17, <1>18, <1>19, <1>20, <1>21, <1>22, <1>23, <1>24, <1>25, <1>26
     DEF Quiet, Environment

\* A run is opened: its session starts empty.
LEMMA PreinitDoes ==
  ASSUME AcquisitionInv, Preinit
  PROVE  /\ runs' = runs /\ ~Idle /\ ctl = "checked" /\ ctl' # "checked"
         /\ \A r \in Runs : /\ record'[r].stored = record[r].stored
                            /\ record'[r].analysed = record[r].analysed
         /\ run'.id = run.id /\ run'.sent = run.sent /\ run'.release = run.release
         /\ run'.imported = run.imported
         /\ \/ board' = board
            \/ /\ board.session = NoSession /\ board'.session = run.id
               /\ board'.snaps = {} /\ board'.acked = {}
<1>1. /\ run \in RunRecords /\ record \in [Runs -> RecordContents] /\ run.id \in Runs
      /\ run.id \in 1..DiagnosticSession /\ ~Idle
  BY RunsHaveNames DEF AcquisitionInv, TypeOK, Preinit
<1>2. runs' = runs /\ ctl = "checked" /\ ctl' # "checked"
  BY DEF Preinit
<1>3. record' = record \/ record' = [record EXCEPT ![run.id].prov = TRUE]
  BY DEF Preinit
<1>4. \A r \in Runs : /\ record'[r].stored = record[r].stored
                      /\ record'[r].analysed = record[r].analysed
  BY <1>1, <1>3 DEF RecordContents
<1>5. run' = run \/ run' = [run EXCEPT !.session = run.id]
  BY DEF Preinit
<1>6. /\ run'.id = run.id /\ run'.sent = run.sent /\ run'.release = run.release
      /\ run'.imported = run.imported
  BY <1>1, <1>5 DEF RunRecords
<1>7. \/ board' = board
      \/ board.session = NoSession /\ board' \in {Open(run.id), Stopped(Open(run.id))}
  BY DEF Preinit
<1>8. /\ Open(run.id).session = run.id /\ Open(run.id).snaps = {} /\ Open(run.id).acked = {}
      /\ Open(run.id).seq = 0 /\ Open(run.id).cut = 0 /\ Open(run.id) \in Boards
      /\ BoardFits(Open(run.id))
  BY <1>1, Values, SpoolsFit
<1>9. /\ Stopped(Open(run.id)).session = run.id /\ Stopped(Open(run.id)).snaps = {}
      /\ Stopped(Open(run.id)).acked = {}
  BY <1>8, StoppingFits DEF Follows
<1> QED
  BY <1>1, <1>2, <1>4, <1>6, <1>7, <1>8, <1>9

LEMMA PreinitKeepsCustody ==
  ASSUME AcquisitionInv, Preinit
  PROVE  CustodyInv'
<1>1. /\ run.id \in Runs /\ record[run.id].stored = {} /\ ~run.sent /\ ~run.release
      /\ ctl # "idle"
  BY PreinitDoes, RunsHaveNames DEF AcquisitionInv, OwnerInv, CustodyInv
<1> QED
  BY <1>1, PreinitDoes DEF AcquisitionInv, CustodyInv

\* A snapshot of the session is copied into the record of its run, and may be
\* acknowledged then.
Copies(s) ==
  /\ s \in board.snaps /\ board.session \in Runs
  /\ \A r \in Runs : record'[r].analysed = record[r].analysed
  /\ \A r \in Runs : r # board.session => record'[r].stored = record[r].stored
  /\ record'[board.session].stored = record[board.session].stored \cup {s}
  /\ board' = board \/ board' = [board EXCEPT !.acked = @ \cup {s}]

LEMMA CopyKeepsCustody ==
  ASSUME AcquisitionInv, NEW s, Copies(s), runs' = runs, ctl' = ctl, ctl # "checked",
         run'.id = run.id, run'.sent = run.sent, run'.release = run.release,
         run'.session = run.session,
         run'.imported = run.imported \/ (run.id = board.session /\ run'.imported \subseteq run.imported \cup {s})
  PROVE  CustodyInv'
<1>0. board \in Boards /\ CustodyInv /\ BoardInv /\ runs \in Nat
  BY DEF AcquisitionInv, TypeOK
<1>1. /\ board'.session = board.session /\ board'.snaps = board.snaps /\ board'.st = board.st
      /\ board'.acked \subseteq board.acked \cup {s}
  BY <1>0 DEF Copies, Boards
<1>2. s[1] = board.session /\ board.session <= runs
  BY <1>0 DEF BoardInv, BoardFits, Copies
<1>3. \A r \in Runs : \A x \in record'[r].stored : x[1] = r /\ r <= runs'
  BY <1>0, <1>2 DEF Copies, CustodyInv
<1>4. board'.session \in Runs => /\ record'[board'.session].stored \subseteq board'.snaps
                                 /\ board'.acked \subseteq record'[board'.session].stored
  BY <1>0, <1>1 DEF Copies, CustodyInv
<1>5. run'.id \in Runs => run'.imported \subseteq record'[run'.id].stored
  BY <1>0 DEF Copies, CustodyInv
<1>6. run'.sent => board'.st # "active"
  BY <1>0, <1>1 DEF CustodyInv
<1>7. run'.release => /\ run'.sent /\ run'.session # NoSession /\ record'[run'.id].analysed
                      /\ board'.snaps \subseteq record'[run'.id].stored
  <2>1. run.release => run.id \in Runs
    BY RunsHaveNames, Values DEF AcquisitionInv, Idle
  <2> QED
    BY <1>0, <1>1, <2>1 DEF Copies, CustodyInv
<1> QED
  BY <1>3, <1>4, <1>5, <1>6, <1>7 DEF CustodyInv

\* An import leaves everything, or copies a snapshot.
LEMMA ImportCopies ==
  ASSUME AcquisitionInv, ~Idle, run.session # NoSession, NEW s, ImportStep(s)
  PROVE  /\ run.id \in Runs /\ run.session = run.id /\ ctl # "checked"
         /\ \/ /\ run' = run /\ board' = board
               /\ \A r \in Runs : /\ record'[r].stored = record[r].stored
                                  /\ record'[r].analysed = record[r].analysed
            \/ /\ Copies(s) /\ run.id = board.session
               /\ run'.id = run.id /\ run'.sent = run.sent /\ run'.release = run.release
               /\ run'.session = run.session /\ run'.imported \subseteq run.imported \cup {s}
<1>1. run.id \in Runs /\ run.session = run.id /\ ctl # "checked"
  BY RunsHaveNames DEF AcquisitionInv, OwnerInv
<1>2. s \in board.snaps => board.session = run.id
  BY ImportedAreOfTheRun
<1> QED
  BY <1>1, <1>2 DEF ImportStep, Copies

LEMMA ImportKeepsCustody ==
  ASSUME AcquisitionInv, ~Idle, run.session # NoSession, NEW s, ImportStep(s), runs' = runs,
         ctl' = ctl
  PROVE  CustodyInv'
<1>1. CASE /\ run' = run /\ board' = board
           /\ \A r \in Runs : /\ record'[r].stored = record[r].stored
                              /\ record'[r].analysed = record[r].analysed
  <2>1. run.id \in Runs /\ ctl # "checked"
    BY ImportCopies
  <2> QED
    BY <1>1, <2>1 DEF AcquisitionInv, CustodyInv
<1>2. CASE /\ Copies(s) /\ run.id = board.session
           /\ run'.id = run.id /\ run'.sent = run.sent /\ run'.release = run.release
           /\ run'.session = run.session /\ run'.imported \subseteq run.imported \cup {s}
  BY <1>2, ImportCopies, CopyKeepsCustody
<1> QED
  BY <1>1, <1>2, ImportCopies

\* A recovery copies, or leaves everything.
LEMMA RecoveryDoes ==
  ASSUME AcquisitionInv, RecoverSnapshot
  PROVE  /\ run' = run /\ ctl' = ctl /\ runs' = runs /\ ctl # "checked"
         /\ \/ board' = board /\ record' = record
            \/ \E s \in board.snaps : Copies(s)
<1>1. /\ run' = run /\ ctl' = ctl /\ runs' = runs /\ pc = "recover"
  BY DEF RecoverSnapshot, WorkerFrame
<1>2. board.session \in Runs /\ ctl # "checked" /\ record \in [Runs -> RecordContents]
  BY <1>1 DEF AcquisitionInv, OwnerInv, TypeOK
<1>3. PICK s \in Unrecovered, o \in Outcomes, stored \in BOOLEAN :
        /\ Executed(o) => stored
        /\ record' = IF stored THEN [record EXCEPT ![s[1]].stored = @ \cup {s}] ELSE record
        /\ board' = IF Executed(o) THEN [board EXCEPT !.acked = @ \cup {s}] ELSE board
  BY DEF RecoverSnapshot
<1>4. s \in board.snaps /\ s[1] = board.session
  BY DEF Unrecovered, AcquisitionInv, BoardInv, BoardFits
<1>5. CASE stored
  <2>1. record' = [record EXCEPT ![board.session].stored = @ \cup {s}]
    BY <1>3, <1>4, <1>5
  <2>2. /\ record'[board.session].stored = record[board.session].stored \cup {s}
        /\ \A r \in Runs : record'[r].analysed = record[r].analysed
        /\ \A r \in Runs : r # board.session => record'[r].stored = record[r].stored
    BY <1>2, <2>1 DEF RecordContents
  <2> QED
    BY <1>1, <1>2, <1>3, <1>4, <2>2 DEF Copies
<1>6. CASE ~stored
  BY <1>1, <1>2, <1>3, <1>6
<1> QED
  BY <1>5, <1>6

LEMMA FinishDoes ==
  ASSUME AcquisitionInv, FinishRecovery
  PROVE  /\ run' = run /\ ctl' = ctl /\ runs' = runs /\ ctl # "checked"
         /\ board.session \in Runs /\ board.snaps \subseteq board.acked
         /\ board' = board \/ board' = NoBoard
         /\ \A r \in Runs : record'[r].stored = record[r].stored
         /\ \A r \in Runs : r # board.session => record'[r].analysed = record[r].analysed
         /\ record'[board.session].analysed
<1>1. /\ run' = run /\ ctl' = ctl /\ runs' = runs /\ pc = "recover" /\ Unrecovered = {}
      /\ record' = [record EXCEPT ![board.session].analysed = TRUE]
      /\ board' = board \/ board' = NoBoard
  BY DEF FinishRecovery, WorkerFrame
<1>2. board.session \in Runs /\ ctl # "checked" /\ record \in [Runs -> RecordContents]
  BY <1>1 DEF AcquisitionInv, OwnerInv, TypeOK
<1>3. /\ \A r \in Runs : record'[r].stored = record[r].stored
      /\ \A r \in Runs : r # board.session => record'[r].analysed = record[r].analysed
      /\ record'[board.session].analysed
  BY <1>1, <1>2 DEF RecordContents
<1> QED
  BY <1>1, <1>2, <1>3 DEF Unrecovered

LEMMA FinishKeepsCustody ==
  ASSUME AcquisitionInv, FinishRecovery
  PROVE  CustodyInv'
<1>1. /\ run' = run /\ runs' = runs /\ ctl' # "checked" /\ board.session \in Runs
      /\ board' = board \/ board' = NoBoard
      /\ \A r \in Runs : record'[r].stored = record[r].stored
      /\ \A r \in Runs : record[r].analysed => record'[r].analysed
  BY FinishDoes
<1>2. CustodyInv /\ NoBoard.snaps = {} /\ NoBoard.session \notin Runs /\ NoBoard.st # "active"
      /\ (run.release => run.id \in Runs)
  BY Values, Sizes, RunsHaveNames DEF AcquisitionInv, Idle
<1> QED
  BY <1>1, <1>2 DEF CustodyInv

LEMMA FinalizationKeepsCustody ==
  ASSUME AcquisitionInv, BeginFinalization
  PROVE  /\ CustodyInv' /\ record' = record /\ Follows(board, board')
<1>1. record' = record /\ runs' = runs /\ ctl' = ctl
  BY DEF BeginFinalization, WorkerFrame
<1>2. /\ run'.id = run.id /\ run'.session = run.session /\ run'.release = run.release
      /\ run'.imported = run.imported
      /\ \/ run'.sent = run.sent
         \/ run'.sent /\ board' = Stopped(board) /\ run.session # NoSession
      /\ board' = board \/ board' = Stopped(board)
  BY FinalizationDoes
<1>3. /\ Follows(board, board') /\ Stopped(board).st # "active" /\ CustodyInv
      /\ (run.release => run.id \in Runs)
  BY <1>2, SpoolsFollow, StoppingFits, RunsHaveNames, Values
     DEF AcquisitionInv, BoardInv, TypeOK, Idle
<1>4. run'.sent => board'.st # "active"
  BY <1>2, <1>3 DEF CustodyInv, Follows
<1>5. run.release => run.sent /\ board.st # "active" /\ board'.snaps = board.snaps /\ run'.sent
  BY <1>2, <1>3 DEF CustodyInv, Follows
<1>6. board.snaps \subseteq board'.snaps /\ board'.session = board.session
      /\ board'.acked = board.acked
  BY <1>3 DEF Follows
<1>7. CustodyInv'
  BY <1>1, <1>2, <1>3, <1>4, <1>5, <1>6 DEF CustodyInv
<1> QED
  BY <1>1, <1>3, <1>7

\* The analysis of a run.
Analyses ==
  /\ run.id \in Runs /\ board.snaps \subseteq record[run.id].stored /\ board' = board
  /\ \A r \in Runs : record'[r].stored = record[r].stored
  /\ \A r \in Runs : r # run.id => record'[r].analysed = record[r].analysed
  /\ record'[run.id].analysed

LEMMA AnalysisDoes ==
  ASSUME AcquisitionInv, run.id \in Runs, Pending = {}, board' = board,
         record' = [record EXCEPT ![run.id].analysed = TRUE]
  PROVE  Analyses
<1>1. record \in [Runs -> RecordContents]
  BY DEF AcquisitionInv, TypeOK
<1>2. board.snaps \subseteq record[run.id].stored
  BY DEF Pending, AcquisitionInv, CustodyInv
<1> QED
  BY <1>1, <1>2 DEF Analyses, RecordContents

LEMMA ReconcileKeepsCustody ==
  ASSUME AcquisitionInv, Reconcile
  PROVE  CustodyInv'
<1>1. /\ runs' = runs /\ run.sent /\ run.session # NoSession /\ ctl # "checked"
      /\ CustodyInv /\ run \in RunRecords
  BY DEF Reconcile, AcquisitionInv, OwnerInv, WorkerFrame, TypeOK
<1>2. /\ ~Idle /\ run.id \in Runs /\ run.session = run.id
      /\ \/ \E s \in Events : ImportStep(s) /\ ctl' = ctl
         \/ SameRun(run') /\ board' = board /\ record' = record /\ ctl' = ctl
         \/ /\ Pending = {} /\ run' = [run EXCEPT !.wait = "no", !.release = TRUE]
            /\ board' = board /\ ctl' = "idle"
            /\ record' = [record EXCEPT ![run.id].analysed = TRUE]
  BY ReconcileDoes
<1>3. CASE \E s \in Events : ImportStep(s) /\ ctl' = ctl
  BY <1>1, <1>2, <1>3, ImportKeepsCustody
<1>4. CASE SameRun(run') /\ board' = board /\ record' = record /\ ctl' = ctl
  BY <1>1, <1>2, <1>4 DEF SameRun, CustodyInv
<1>5. CASE /\ Pending = {} /\ run' = [run EXCEPT !.wait = "no", !.release = TRUE]
           /\ board' = board /\ ctl' = "idle"
           /\ record' = [record EXCEPT ![run.id].analysed = TRUE]
  <2>1. Analyses
    BY <1>2, <1>5, AnalysisDoes
  <2>2. /\ run'.id = run.id /\ run'.session = run.session /\ run'.sent = run.sent
        /\ run'.imported = run.imported
    BY <1>1, <1>5 DEF RunRecords
  <2> QED
    BY <1>1, <1>2, <1>5, <2>1, <2>2 DEF Analyses, CustodyInv
<1> QED
  BY <1>2, <1>3, <1>4, <1>5

LEMMA CustodyKeeps ==
  ASSUME AcquisitionInv, Next
  PROVE  CustodyInv'
<1>1. runs' \in 0..MaxRuns
  BY TypesKeep DEF TypeOK
<1>2. CASE Quiet
  BY <1>1, <1>2, QuietStepsAreQuiet, QuietStepKeepsCustody
<1>3. CASE Preinit
  BY <1>3, PreinitKeepsCustody
<1>4. CASE RecoverSnapshot
  <2>1. CASE board' = board /\ record' = record
    BY <1>4, <2>1, RecoveryDoes DEF AcquisitionInv, CustodyInv
  <2>2. CASE \E s \in board.snaps : Copies(s)
    BY <1>4, <2>2, RecoveryDoes, CopyKeepsCustody
  <2> QED
    BY <1>4, <2>1, <2>2, RecoveryDoes
<1>5. CASE FinishRecovery
  BY <1>5, FinishKeepsCustody
<1>6. CASE ImportPending
  <2>1. ctl' = ctl /\ runs' = runs
    BY <1>6 DEF ImportPending, WorkerFrame
  <2>2. CASE run' = run /\ board' = board /\ record' = record
    BY <2>1, <2>2 DEF AcquisitionInv, CustodyInv
  <2>3. CASE run.session # NoSession /\ \E s \in Events : ImportStep(s)
    BY <1>6, <2>1, <2>3, ImportKeepsCustody, ImportPendingDoes
  <2> QED
    BY <1>6, <2>2, <2>3, ImportPendingDoes
<1>7. CASE BeginFinalization
  BY <1>7, FinalizationKeepsCustody
<1>8. CASE Reconcile
  BY <1>8, ReconcileKeepsCustody
<1> QED
  BY <1>2, <1>3, <1>4, <1>5, <1>6, <1>7, <1>8 DEF Next, Worker, Callbacks, Quiet

LEMMA InvariantStarts == Init => AcquisitionInv
<1> SUFFICES ASSUME Init PROVE AcquisitionInv
  OBVIOUS
<1> USE Values, Sizes DEF Init
<1>1. TypeOK
  <2>1. << >> \in Seq({"continuous", "one_shot", "flush", "stop"} \X Calls) /\ << >> \in Seq(Calls)
    OBVIOUS
  <2>2. "connect" \in Steps
    BY StepsAre
  <2>3. record \in [Runs -> RecordContents] /\ answers \in [Calls -> Nat]
    OBVIOUS
  <2>4. 0 \in 0..MaxRuns /\ 0 \in 0..MaxCalls /\ 0 \in 0..MaxFaults
    OBVIOUS
  <2>5. RestTypes
    BY <2>1, <2>2, <2>3, <2>4 DEF RestTypes
  <2>6. MainTypes
    BY <2>3, <2>4 DEF MainTypes
  <2> QED
    BY <2>5, <2>6, TypesSplit
<1>2. OwnerInv
  BY DEF OwnerInv, OneOwner, Idle
<1>3. BoardInv
  BY SpoolsFit DEF BoardInv
<1>4. CustodyInv
  BY DEF CustodyInv
<1> QED
  BY <1>1, <1>2, <1>3, <1>4 DEF AcquisitionInv

LEMMA InvariantStays ==
  ASSUME AcquisitionInv, [Next]_vars
  PROVE  AcquisitionInv'
<1>1. CASE Next
  <2>1. TypeOK' /\ CustodyInv'
    BY <1>1, TypesKeep, CustodyKeeps
  <2>2. OwnerInv' /\ BoardInv'
    <3>1. SessionInv' /\ ServiceInv'
      BY <1>1, SessionsKeep, ServiceKeeps
    <3>2. BoardFits(board)'
      BY <1>1, SpoolStaysFine DEF Fine, BoardFits
    <3>3. OwnerInv'
      BY <3>1 DEF OwnerInv, OneOwner, SessionInv, ServiceInv
    <3>4. BoardInv'
      BY <3>1, <3>2 DEF BoardInv, SessionInv
    <3> QED
      BY <3>3, <3>4
  <2> QED
    BY <2>1, <2>2 DEF AcquisitionInv
<1>2. CASE UNCHANGED vars
  <2> USE <1>2 DEF vars, service
  <2>1. TypeOK'
    BY DEF AcquisitionInv, TypeOK
  <2>2. OwnerInv'
    BY DEF AcquisitionInv, OwnerInv, OneOwner, Idle
  <2>3. BoardInv'
    BY DEF AcquisitionInv, BoardInv, BoardFits
  <2>4. CustodyInv'
    BY DEF AcquisitionInv, CustodyInv
  <2> QED
    BY <2>1, <2>2, <2>3, <2>4 DEF AcquisitionInv
<1> QED
  BY <1>1, <1>2

-----------------------------------------------------------------------------
(* The theorems about states.                                               *)

\* The inductive invariant holds in every behaviour: the types, who has the
\* digitizer, what is in its spool and what is in the records.
THEOREM AcquisitionInvariant == Spec => []AcquisitionInv
BY InvariantStarts, InvariantStays, PTL DEF Spec

\* Every variable of the service, the digitizer and the records keeps the values
\* that the code gives it, in every behaviour and for every bound.
THEOREM AcquisitionTypes == Spec => []TypeOK
<1>1. AcquisitionInv => TypeOK
  BY DEF AcquisitionInv
<1> QED
  BY <1>1, AcquisitionInvariant, PTL

\* A diagnostic and an exposure never overlap, and each holds the session that
\* it believes to hold, whatever the order of the callbacks, the operators'
\* calls, the worker's steps and the faults (_can_start, _on_preinit,
\* _start_diagnostic and the recovery of an orphaned session).
THEOREM TheDigitizerHasOneOwner == Spec => []OneOwner
<1>1. AcquisitionInv => OneOwner
  BY DEF AcquisitionInv, OwnerInv
<1> QED
  BY <1>1, AcquisitionInvariant, PTL

-----------------------------------------------------------------------------
(* The refinement: every step spools, copies, acknowledges, analyses or      *)
(* releases as SnapshotCustody allows, or does nothing that it sees.         *)

CustodyStutters == UNCHANGED <<Spooled, Kept, Analysed>>

\* What the records hold of a snapshot.
LEMMA KeptIsOfItsRun ==
  ASSUME AcquisitionInv, NEW s
  PROVE  /\ s \in Kept <=> s[1] \in Runs /\ s \in record[s[1]].stored
         /\ s \in board.snaps => s[1] = board.session
         /\ s \in Spooled <=> s \in board.snaps /\ s \notin board.acked /\ board.session \in Runs
<1>1. \A r \in Runs : \A x \in record[r].stored : x[1] = r
  BY DEF AcquisitionInv, CustodyInv
<1> QED
  BY <1>1 DEF Kept, Spooled, AcquisitionInv, BoardInv, BoardFits

\* The records are the same, or have one snapshot more.
LEMMA RecordsStay ==
  ASSUME record' = record \/ \A r \in Runs : record'[r].stored = record[r].stored
  PROVE  Kept' = Kept
BY DEF Kept

LEMMA AnalysesStay ==
  ASSUME record' = record \/ \A r \in Runs : record'[r].analysed = record[r].analysed
  PROVE  Analysed' = Analysed
BY DEF Analysed

LEMMA SegmentIsSpooled ==
  ASSUME AcquisitionInv, record' = record, Follows(board, board')
  PROVE  CustodyStutters \/ \E s \in Snapshots : Custody!Spool(s)
<1>1. /\ Kept' = Kept /\ Analysed' = Analysed /\ board \in Boards /\ BoardFits(board)
      /\ board'.session = board.session /\ board'.acked = board.acked
  BY RecordsStay, AnalysesStay DEF AcquisitionInv, TypeOK, BoardInv, Follows
<1>2. CASE board'.snaps = board.snaps \/ board.session \notin Runs
  BY <1>1, <1>2 DEF Spooled, CustodyStutters
<1>3. CASE /\ board.session \in Runs /\ board.seq > board.cut
           /\ board'.snaps = board.snaps \cup {<<board.session, board.seq>>}
  <2> DEFINE s == <<board.session, board.seq>>
  <2>1. board.seq \in 0..MaxPulses /\ board.cut \in 0..MaxPulses
    BY <1>1 DEF Boards
  <2>2. board.seq \in Pulses
    BY <1>3, <2>1, Sizes DEF Pulses
  <2>3. s \in Snapshots
    BY <1>3, <2>2 DEF Snapshots
  <2>4. s \notin board.snaps
    <3>1. \A x \in board.snaps : x[2] <= board.cut
      BY <1>1 DEF BoardFits
    <3>2. ~(board.seq <= board.cut)
      BY <1>3, <2>1
    <3> QED
      BY <3>1, <3>2
  <2>5. s \notin board.acked /\ s \notin record[board.session].stored
    BY <1>3, <2>4 DEF AcquisitionInv, CustodyInv
  <2>6. s[1] = board.session
    OBVIOUS
  <2>7. s \notin Kept /\ s \notin Spooled
    BY <2>4, <2>5, <2>6, KeptIsOfItsRun
  <2>8. Spooled' = Spooled \cup {s}
    <3> HIDE DEF s
    <3> QED
      BY <1>1, <1>3, <2>5 DEF Spooled, s
  <2> HIDE DEF s
  <2> QED
    BY <1>1, <2>3, <2>7, <2>8 DEF Custody!Spool
<1> QED
  BY <1>2, <1>3 DEF Follows

LEMMA CopyIsCustody ==
  ASSUME AcquisitionInv, NEW s, Copies(s)
  PROVE  CustodyStutters \/ \E x \in Snapshots, a \in BOOLEAN : Custody!Copy(x, a)
<1>1. /\ board \in Boards /\ s \in board.snaps /\ board.session \in Runs
      /\ s[1] = board.session
  BY KeptIsOfItsRun DEF Copies, AcquisitionInv, TypeOK
<1>2. s \in Snapshots
  <2>1. s \in Events
    BY <1>1 DEF Boards
  <2> QED
    BY <1>1, <2>1 DEF Events, Snapshots
<1>3. Analysed' = Analysed
  BY AnalysesStay DEF Copies
<1>4. Kept' = Kept \cup {s}
  <2>1. ASSUME NEW x
        PROVE  x \in Kept' <=> x \in Kept \cup {s}
    BY <1>1 DEF Kept, Copies
  <2> QED
    BY <2>1
<1>5. /\ board'.session = board.session /\ board'.snaps = board.snaps
      /\ board'.acked = board.acked \/ board'.acked = board.acked \cup {s}
  BY <1>1 DEF Copies, Boards
<1>6. Spooled' = Spooled \/ Spooled' = Spooled \ {s}
  BY <1>1, <1>5 DEF Spooled
<1>7. CASE s \in Spooled
  <2>1. CASE Spooled' = Spooled
    BY <1>2, <1>3, <1>4, <1>7, <2>1 DEF Custody!Copy
  <2>2. CASE Spooled' = Spooled \ {s}
    BY <1>2, <1>3, <1>4, <1>7, <2>2 DEF Custody!Copy
  <2> QED
    BY <1>6, <2>1, <2>2
<1>8. CASE s \notin Spooled
  <2>1. s \in board.acked
    BY <1>1, <1>8, KeptIsOfItsRun
  <2>2. s \in Kept
    BY <1>1, <2>1, KeptIsOfItsRun DEF AcquisitionInv, CustodyInv
  <2> QED
    BY <1>3, <1>4, <1>6, <1>8, <2>2 DEF CustodyStutters
<1> QED
  BY <1>7, <1>8

LEMMA AnalysisIsCustody ==
  ASSUME AcquisitionInv, Analyses
  PROVE  \E r \in Runs : Custody!Analyse(r)
<1>1. Kept' = Kept /\ Spooled' = Spooled
  BY RecordsStay DEF Analyses, Spooled
<1>2. Analysed' = Analysed \cup {run.id}
  BY DEF Analysed, Analyses
<1>3. ASSUME NEW s \in Spooled \cup Kept, s[1] = run.id
      PROVE  s \in Kept
  BY <1>3, KeptIsOfItsRun DEF Analyses
<1> QED
  BY <1>1, <1>2, <1>3 DEF Custody!Analyse, Analyses

LEMMA ReleaseIsCustody ==
  ASSUME AcquisitionInv, record' = record, board' = NoBoard,
         board.session \notin Runs \/ run.release
  PROVE  CustodyStutters \/ \E r \in Runs : Custody!Release(r)
<1>1. Kept' = Kept /\ Analysed' = Analysed /\ Spooled' = {}
  BY RecordsStay, AnalysesStay, Values DEF Spooled
<1>2. CASE board.session \notin Runs
  BY <1>1, <1>2 DEF Spooled, CustodyStutters
<1>3. CASE board.session \in Runs /\ run.release
  <2>1. run.session # NoSession /\ record[run.id].analysed /\ ~Idle
    BY <1>3, Values DEF AcquisitionInv, CustodyInv, Idle
  <2>2. run.id \in Runs /\ board.session = run.id
    BY <1>3, <2>1, RunsHaveNames, Sizes DEF AcquisitionInv, OwnerInv, OneOwner
  <2>3. \A s \in Spooled : s[1] = run.id /\ s \in Kept
    BY <1>3, <2>2, KeptIsOfItsRun DEF AcquisitionInv, CustodyInv
  <2>4. run.id \in Analysed
    BY <2>1, <2>2 DEF Analysed
  <2> QED
    BY <1>1, <2>2, <2>3, <2>4 DEF Custody!Release
<1> QED
  BY <1>2, <1>3

LEMMA FinishIsCustody ==
  ASSUME AcquisitionInv, FinishRecovery
  PROVE  \E r \in Runs : Custody!Analyse(r)
<1>1. /\ board.session \in Runs /\ board.snaps \subseteq board.acked
      /\ board' = board \/ board' = NoBoard
      /\ \A r \in Runs : record'[r].stored = record[r].stored
      /\ \A r \in Runs : r # board.session => record'[r].analysed = record[r].analysed
      /\ record'[board.session].analysed
  BY FinishDoes
<1>2. Kept' = Kept
  BY <1>1, RecordsStay
<1>3. Spooled = {} /\ Spooled' = {}
  BY <1>1, Values DEF Spooled
<1>4. Analysed' = Analysed \cup {board.session}
  BY <1>1 DEF Analysed
<1> QED
  BY <1>1, <1>2, <1>3, <1>4 DEF Custody!Analyse

LEMMA PreinitStutters ==
  ASSUME AcquisitionInv, Preinit
  PROVE  CustodyStutters
<1>1. /\ \A r \in Runs : /\ record'[r].stored = record[r].stored
                         /\ record'[r].analysed = record[r].analysed
      /\ \/ board' = board
         \/ board.session = NoSession /\ board'.snaps = {}
  BY PreinitDoes
<1>2. Kept' = Kept /\ Analysed' = Analysed
  BY <1>1, RecordsStay, AnalysesStay
<1>3. Spooled' = Spooled
  BY <1>1, Sizes DEF Spooled
<1> QED
  BY <1>2, <1>3 DEF CustodyStutters

LEMMA QuietIsCustody ==
  ASSUME AcquisitionInv, QuietStep
  PROVE  CustodyStutters \/ Custody!Next
<1>1. record' = record
  BY DEF QuietStep
<1>2. CASE Follows(board, board')
  BY <1>1, <1>2, SegmentIsSpooled DEF Custody!Next
<1>3. CASE board' = NoBoard /\ (board.session \notin Runs \/ run.release)
  BY <1>1, <1>3, ReleaseIsCustody DEF Custody!Next
<1>4. CASE board.session \notin Runs /\ board'.session \notin Runs
  <2>1. Kept' = Kept /\ Analysed' = Analysed
    BY <1>1, RecordsStay, AnalysesStay
  <2>2. Spooled' = Spooled
    BY <1>4 DEF Spooled
  <2> QED
    BY <2>1, <2>2 DEF CustodyStutters
<1> QED
  BY <1>2, <1>3, <1>4 DEF QuietStep

LEMMA ImportIsCustody ==
  ASSUME AcquisitionInv, ~Idle, run.session # NoSession, NEW s, ImportStep(s)
  PROVE  CustodyStutters \/ Custody!Next
<1>1. CASE Copies(s)
  BY <1>1, CopyIsCustody DEF Custody!Next
<1>2. CASE /\ board' = board
           /\ \A r \in Runs : /\ record'[r].stored = record[r].stored
                              /\ record'[r].analysed = record[r].analysed
  <2>1. Kept' = Kept /\ Analysed' = Analysed
    BY <1>2, RecordsStay, AnalysesStay
  <2> QED
    BY <1>2, <2>1 DEF Spooled, CustodyStutters
<1> QED
  BY <1>1, <1>2, ImportCopies

LEMMA UnchangedStutters ==
  ASSUME board' = board, record' = record
  PROVE  CustodyStutters
BY DEF CustodyStutters, Spooled, Kept, Analysed

LEMMA NextIsCustody ==
  ASSUME AcquisitionInv, Next
  PROVE  CustodyStutters \/ Custody!Next
<1>1. CASE Quiet
  BY <1>1, QuietStepsAreQuiet, QuietIsCustody
<1>2. CASE Preinit
  BY <1>2, PreinitStutters
<1>3. CASE RecoverSnapshot
  BY <1>3, RecoveryDoes, UnchangedStutters, CopyIsCustody DEF Custody!Next
<1>4. CASE FinishRecovery
  BY <1>4, FinishIsCustody DEF Custody!Next
<1>5. CASE ImportPending
  BY <1>5, ImportPendingDoes, UnchangedStutters, ImportIsCustody
<1>6. CASE BeginFinalization
  BY <1>6, FinalizationKeepsCustody, SegmentIsSpooled DEF Custody!Next
<1>7. CASE Reconcile
  <2>1. ~Idle /\ run.session # NoSession /\ run.id \in Runs
    BY <1>7, ReconcileDoes DEF Reconcile, AcquisitionInv, OwnerInv
  <2>2. CASE \E s \in Events : ImportStep(s)
    BY <2>1, <2>2, ImportIsCustody
  <2>3. CASE board' = board /\ record' = record
    BY <2>3, UnchangedStutters
  <2>4. CASE /\ Pending = {} /\ board' = board
             /\ record' = [record EXCEPT ![run.id].analysed = TRUE]
    BY <2>1, <2>4, AnalysisDoes, AnalysisIsCustody DEF Custody!Next
  <2> QED
    BY <1>7, <2>2, <2>3, <2>4, ReconcileDoes
<1> QED
  BY <1>1, <1>2, <1>3, <1>4, <1>5, <1>6, <1>7 DEF Next, Worker, Callbacks, Quiet

LEMMA CustodyStarts == Init => Custody!Init
<1> SUFFICES ASSUME Init PROVE Custody!Init
  OBVIOUS
<1>1. Spooled = {}
  BY Values, Sizes DEF Init, Spooled
<1>2. Kept = {} /\ Analysed = {}
  BY DEF Init, Kept, Analysed, NoRecord
<1> QED
  BY <1>1, <1>2 DEF Custody!Init

LEMMA CustodySteps ==
  ASSUME AcquisitionInv, [Next]_vars
  PROVE  [Custody!Next]_(Custody!custody)
<1>1. CASE Next
  BY <1>1, NextIsCustody DEF CustodyStutters, Custody!custody
<1>2. CASE UNCHANGED vars
  BY <1>2, UnchangedStutters DEF vars, CustodyStutters, Custody!custody
<1> QED
  BY <1>1, <1>2

\* No snapshot of an exposure is lost on its way from the digitizer into the
\* record of its run, whatever fails on the way: a snapshot leaves the spool only
\* when the record has a copy, a run is analysed only when everything spooled for
\* it is in its record, and its spool is given up only after that
\* (import_snapshot, _advance_finalization, _release_after_stopped and
\* _recover_orphaned_capture_session).
THEOREM SnapshotsStayKept == Spec => SnapshotsAreKept
BY CustodyStarts, CustodySteps, AcquisitionInvariant, PTL
   DEF Spec, SnapshotsAreKept, Custody!Spec
=============================================================================
