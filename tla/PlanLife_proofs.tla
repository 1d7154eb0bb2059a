---------------------------- MODULE PlanLife_proofs ----------------------------
(***************************************************************************)
(* Proofs about the planner and about the files of the batches: for every  *)
(* plan, history and configuration of the planner, and for every library,  *)
(* number of revisions, of failed writes and of kills.                     *)
(***************************************************************************)
EXTENDS PlanLife, WellFoundedInduction, FiniteSetTheorems, SequenceTheorems, TLAPS

-----------------------------------------------------------------------------
(* Smallest and largest elements, which First, Last and LastEnded choose.   *)

LEMMA NatMinimum ==
  ASSUME NEW S \in SUBSET Nat, S # {}
  PROVE  \E x \in S : \A y \in S : x <= y
<1> DEFINE R == OpToRel(<, Nat)
<1>1. IsWellFoundedOn(R, Nat)
  BY NatLessThanWellFounded
<1>2. PICK x \in S : \A y \in S : <<y, x>> \notin R
  <2> HIDE DEF R
  <2> QED BY <1>1, WFMin
<1>3. \A y \in S : ~ (y < x)
  BY <1>2 DEF OpToRel
<1> QED BY <1>3

LEMMA NatMaximum ==
  ASSUME NEW n \in Nat, NEW S \in SUBSET (0..n), S # {}
  PROVE  \E x \in S : \A y \in S : y <= x
<1> DEFINE T == {m \in 0..n : n - m \in S}
<1>1. T \in SUBSET Nat
  OBVIOUS
<1>2. T # {}
  <2>1. PICK x \in S : TRUE
    OBVIOUS
  <2>2. n - x \in 0..n /\ n - (n - x) = x
    BY <2>1
  <2> QED BY <2>1, <2>2
<1>3. PICK t \in T : \A u \in T : t <= u
  <2> HIDE DEF T
  <2> QED BY <1>1, <1>2, NatMinimum
<1>4. \A y \in S : y <= n - t
  <2> TAKE y \in S
  <2>1. n - y \in 0..n /\ n - (n - y) = y
    OBVIOUS
  <2>2. t <= n - y
    BY <1>3, <2>1
  <2> QED BY <2>2
<1> QED BY <1>3, <1>4

LEMMA FirstIsSmallest ==
  ASSUME NEW S \in SUBSET Nat, S # {}
  PROVE  First(S) \in S /\ \A q \in S : First(S) <= q
BY NatMinimum DEF First

LEMMA LastIsLargest ==
  ASSUME NEW n \in Nat, NEW S \in SUBSET (0..n), S # {}
  PROVE  Last(S) \in S /\ \A q \in S : q <= Last(S)
BY NatMaximum DEF Last

\* The run that ended last exists among any runs of a bounded history.
LEMMA LastEndedIsARun ==
  ASSUME NEW n \in Nat, NEW m \in Nat, NEW h, NEW S \in SUBSET (1..n), S # {},
         \A r \in S : h[r].end_time \in 0..m
  PROVE  LastEnded(S, h) \in S
<1> DEFINE E == {e \in 0..m : \E q \in S : h[q].end_time = e}
<1>1. PICK e \in E : \A f \in E : f <= e
  <2>1. E # {}
    OBVIOUS
  <2> HIDE DEF E
  <2>2. E \in SUBSET (0..m)
    BY DEF E
  <2> QED BY <2>1, <2>2, NatMaximum
<1> DEFINE Q == {q \in S : h[q].end_time = e}
<1>2. PICK r \in Q : \A q \in Q : q <= r
  <2>1. Q # {}
    OBVIOUS
  <2>2. Q \subseteq S /\ S \subseteq 0..n
    OBVIOUS
  <2> HIDE DEF Q
  <2> QED BY <2>1, <2>2, NatMaximum
<1>3. \A q \in S : \/ h[q].end_time < h[r].end_time
                   \/ h[q].end_time = h[r].end_time /\ q <= r
  <2> TAKE q \in S
  <2>1. h[q].end_time \in E
    OBVIOUS
  <2>2. h[q].end_time <= e /\ h[r].end_time = e
    BY <1>1, <2>1
  <2>3. CASE h[q].end_time = e
    BY <1>2, <2>3
  <2>4. CASE h[q].end_time # e
    BY <2>2, <2>4
  <2> QED BY <2>3, <2>4
<1> QED BY <1>3 DEF LastEnded

-----------------------------------------------------------------------------
(* Which decisions each stage of the planner can take. *)

LEMMA ProgressKinds ==
  ASSUME NEW p, NEW h, NEW c, NEW a, NEW s
  PROVE  AssessProgress(p, h, c, a, s).kind \in
           {"pause_failure", "paused", "complete", "wait_controller", "start_remainder"}
BY DEF AssessProgress, About, Plain, Decision

\* What a pause changes in the last stage.
LEMMA PausedProgress ==
  ASSUME NEW p, NEW h, NEW c, NEW a,
         AssessProgress(p, h, c, a, TRUE) # AssessProgress(p, h, c, a, FALSE)
  PROVE  /\ AssessProgress(p, h, c, a, TRUE) = Plain("paused")
         /\ AssessProgress(p, h, c, a, FALSE).kind \in
              {"complete", "wait_controller", "start_remainder"}
BY DEF AssessProgress, About, Plain, Decision

\* The history lets the planner get to its last stage.
NothingPending(p, h, f) ==
  /\ Invalid(p, h) = {} /\ Active(h) = {}
  /\ f \cap DOMAIN h = {}
  /\ {r \in DOMAIN h : h[r].status = "unknown"} = {}
  /\ {r \in DOMAIN h : NeedsRepair(h[r])} = {}
  /\ {r \in DOMAIN h : Unusable(h[r])} = {}

LEMMA LastStage ==
  ASSUME NEW p, NEW h, NEW c, NEW f, NEW a, NEW k, NEW s,
         Assess(p, h, c, f, a, k, s).kind \notin
           {"wait_active", "wait_finalization", "repair_metrics", "pause_error",
            "wait_controller"}
  PROVE  /\ NothingPending(p, h, f)
         /\ Assess(p, h, c, f, a, k, s) = AssessProgress(p, h, c, a, s)
BY DEF Assess, AssessActive, AssessTerminal, NothingPending, About, Decision

-----------------------------------------------------------------------------
(* Which runs a decision names. *)

\* Runs and end times of the history h are bounded.
Bounded(h, n, m) ==
  /\ n \in Nat /\ m \in Nat /\ DOMAIN h \subseteq 1..n
  /\ \A r \in DOMAIN h : h[r].end_time \in 0..m

\* A failure is about a run that is not acknowledged.
LEMMA ProgressNames ==
  ASSUME NEW n, NEW m, NEW h, Bounded(h, n, m), NEW p, NEW c, NEW a, NEW s,
         AssessProgress(p, h, c, a, s).kind = "pause_failure"
  PROVE  AssessProgress(p, h, c, a, s).run \in DOMAIN h \ a
<1> DEFINE d == AssessProgress(p, h, c, a, s)
           aborts == AbortBlockers(h, a)
           entry  == p[First(Incomplete(p, h))]
           runs   == RunsOf(entry.sample, h)
<1>1. CASE aborts # {}
  <2>1. d.run = LastEnded(aborts, h)
    BY <1>1 DEF AssessProgress, About, Decision
  <2>2. aborts \in SUBSET (1..n) /\ \A r \in aborts : h[r].end_time \in 0..m
    BY DEF AbortBlockers, Bounded
  <2>3. LastEnded(aborts, h) \in aborts
    <3> HIDE DEF aborts
    <3> QED BY <1>1, <2>2, LastEndedIsARun DEF Bounded
  <2> QED BY <2>1, <2>3 DEF AbortBlockers
<1>2. CASE aborts = {}
  <2>1. Shortfall(entry, h, a) /\ d.run = Last(runs)
    BY <1>2 DEF AssessProgress, About, Plain, Decision
  <2>2. runs \in SUBSET (0..n) /\ runs # {} /\ Last(runs) \notin a
    BY <2>1 DEF Shortfall, RunsOf, Bounded
  <2>3. Last(runs) \in runs
    <3> HIDE DEF runs
    <3> QED BY <2>2, LastIsLargest DEF Bounded
  <2> QED BY <2>1, <2>2, <2>3 DEF RunsOf
<1> QED BY <1>1, <1>2

\* A repair is of a run that needs one and is not given up.
LEMMA RepairNames ==
  ASSUME NEW n, NEW m, NEW h, Bounded(h, n, m),
         NEW p, NEW c, NEW f, NEW a, NEW k, NEW s,
         Assess(p, h, c, f, a, k, s).kind = "repair_metrics"
  PROVE  /\ Assess(p, h, c, f, a, k, s).run \in DOMAIN h \ k
         /\ NeedsRepair(h[Assess(p, h, c, f, a, k, s).run])
<1> DEFINE repair == {r \in DOMAIN h : NeedsRepair(h[r])}
<1>1. /\ repair # {} /\ First(repair) \notin k
      /\ Assess(p, h, c, f, a, k, s).run = First(repair)
  BY ProgressKinds DEF Assess, AssessActive, AssessTerminal, About, Decision
<1>2. repair \in SUBSET Nat
  BY DEF Bounded
<1> HIDE DEF repair
<1>3. First(repair) \in repair
  BY <1>1, <1>2, FirstIsSmallest
<1> QED BY <1>1, <1>3 DEF repair

-----------------------------------------------------------------------------
(* A decision that comes from the data does not depend on the operator.     *)

LEMMA DataDecisions == OperatorCannotOverrideData
<1> SUFFICES ASSUME Decided.kind \in
                      {"wait_active", "wait_finalization", "repair_metrics", "pause_error"},
                    NEW acks \in SUBSET DOMAIN history, NEW pause \in BOOLEAN
             PROVE  DecidedWith(acks, pause) = Decided
  BY DEF OperatorCannotOverrideData
<1>1. AssessProgress(plan, history, controller, acknowledged, paused).kind \notin
        {"wait_active", "wait_finalization", "repair_metrics", "pause_error"}
  BY ProgressKinds
<1> QED BY <1>1 DEF Decided, DecidedWith, Assess, AssessTerminal

(* The theorem: no acknowledgement and no pause hides an active or          *)
(* unfinished run, a repair or an error.                                    *)
THEOREM DataOverrideOperator == Spec => []OperatorCannotOverrideData
<1>1. Init => OperatorCannotOverrideData
  BY DataDecisions
<1>2. OperatorCannotOverrideData /\ [Next]_vars => OperatorCannotOverrideData'
  BY DataDecisions, PTL
<1> QED BY <1>1, <1>2, PTL DEF Spec

-----------------------------------------------------------------------------
(* A pause hides no failure and no error. *)

LEMMA PauseDecisions == PauseBlocksOnlyStartIntents
<1> SUFFICES ASSUME DecidedWith(acknowledged, TRUE) # DecidedWith(acknowledged, FALSE)
             PROVE  /\ DecidedWith(acknowledged, TRUE) = Plain("paused")
                    /\ DecidedWith(acknowledged, FALSE).kind \in
                         {"start_remainder", "complete", "wait_controller"}
  BY DEF PauseBlocksOnlyStartIntents
<1>1. \A pause \in BOOLEAN :
        DecidedWith(acknowledged, pause) =
          AssessProgress(plan, history, controller, acknowledged, pause)
  BY DEF DecidedWith, Assess, AssessTerminal
<1> QED BY <1>1, PausedProgress

(* The theorem: pausing replaces only decisions to start, to wait with a    *)
(* start or to complete.                                                    *)
THEOREM PauseHidesNothing == Spec => []PauseBlocksOnlyStartIntents
<1>1. Init => PauseBlocksOnlyStartIntents
  BY PauseDecisions
<1>2. PauseBlocksOnlyStartIntents /\ [Next]_vars => PauseBlocksOnlyStartIntents'
  BY PauseDecisions, PTL
<1> QED BY <1>1, <1>2, PTL DEF Spec

-----------------------------------------------------------------------------
(* Histories are well typed, and a decision names a run of its history.     *)

LEMMA NamedRuns ==
  ASSUME TypeOK, NEW acks, NEW pause
  PROVE  /\ DecidedWith(acks, pause).kind = "repair_metrics" =>
              DecidedWith(acks, pause).run \in DOMAIN history
         /\ DecidedWith(acks, pause).kind = "pause_failure" =>
              DecidedWith(acks, pause).run \in DOMAIN history \ acks
<1>1. Bounded(history, Len(history), MaxAttempts)
  <2>1. Len(history) \in Nat /\ DOMAIN history = 1..Len(history) /\ MaxAttempts \in Nat
    BY BoundAssumption DEF TypeOK
  <2>2. \A r \in DOMAIN history : history[r].end_time \in 0..MaxAttempts
    <3> TAKE r \in DOMAIN history
    <3>1. history[r] \in Attempt
      BY <2>1 DEF TypeOK
    <3>2. history[r].end_time \in Nat /\ history[r].end_time <= MaxAttempts
      BY <3>1 DEF TypeOK, Attempt
    <3> QED BY <2>1, <3>2
  <2> QED BY <2>1, <2>2 DEF Bounded
<1>2. ASSUME DecidedWith(acks, pause).kind = "repair_metrics"
      PROVE  DecidedWith(acks, pause).run \in DOMAIN history
  BY <1>1, <1>2, RepairNames DEF DecidedWith
<1>3. ASSUME DecidedWith(acks, pause).kind = "pause_failure"
      PROVE  DecidedWith(acks, pause).run \in DOMAIN history \ acks
  BY <1>1, <1>3, LastStage, ProgressNames DEF DecidedWith
<1> QED BY <1>2, <1>3

(* The theorem: types, and in particular the run a decision names is always *)
(* one of the history.                                                      *)
THEOREM PlannerTypes == Spec => []TypeOK
<1>1. Init => TypeOK
  BY BoundAssumption DEF Init, TypeOK, Stopped, Snapshot
<1>2. TypeOK /\ [Next]_vars => TypeOK'
  <2> SUFFICES ASSUME TypeOK, [Next]_vars PROVE TypeOK'
    OBVIOUS
  <2> USE BoundAssumption
  <2>1. ASSUME NEW s \in Samples, NEW valid \in BOOLEAN, RunRecorded(s, valid)
        PROVE  TypeOK'
    <3> DEFINE new == [sample |-> s, status |-> "active", end_time |-> 0,
                       dose |-> Missing, runtime |-> Missing,
                       snapshots |-> FALSE, valid |-> valid]
    <3>1. new \in Attempt
      BY DEF Attempt, RunStatus, Metric
    <3>2. /\ history' \in Seq(Attempt) /\ Len(history') <= MaxAttempts
          /\ DOMAIN history \subseteq DOMAIN history'
          /\ \A r \in DOMAIN history' : history'[r].end_time <= MaxAttempts
      <4> HIDE DEF new
      <4>1. history' = Append(history, new) /\ new.end_time = 0
        BY <2>1 DEF RunRecorded, new
      <4>2. /\ history \in Seq(Attempt) /\ DOMAIN history = 1..Len(history)
            /\ \A r \in DOMAIN history : history[r].end_time <= MaxAttempts
        BY DEF TypeOK
      <4>3. /\ history' \in Seq(Attempt) /\ Len(history') = Len(history) + 1
            /\ \A r \in DOMAIN history : history'[r] = history[r]
            /\ history'[Len(history) + 1] = new
        BY <3>1, <4>1, <4>2
      <4>4. Len(history) + 1 <= MaxAttempts
        BY <2>1, <4>2 DEF RunRecorded
      <4> QED BY <4>1, <4>2, <4>3, <4>4
    <3>3. controller' \in [available : BOOLEAN, idle : BOOLEAN, run : Nat \cup {NoRun}]
      BY <2>1 DEF RunRecorded, Snapshot, TypeOK
    <3> QED BY <2>1, <3>2, <3>3 DEF RunRecorded, TypeOK
  <2>2. ASSUME NEW r \in DOMAIN history, NEW status \in RunStatus \ {"active"},
               NEW outcome \in Outcomes, RunEnded(r, status, outcome)
        PROVE  TypeOK'
    <3> DEFINE ended == [history[r] EXCEPT !.status = status,
                           !.end_time = Len(history), !.dose = outcome.dose,
                           !.runtime = outcome.runtime,
                           !.snapshots = outcome.snapshots]
    <3>1. ended \in Attempt /\ ended.end_time = Len(history)
      <4>1. history[r] \in Attempt /\ Len(history) \in Nat
        BY DEF TypeOK
      <4>2. outcome \in [dose : Metric, runtime : Metric, snapshots : BOOLEAN]
        BY OutcomesAssumption
      <4> QED BY <4>1, <4>2 DEF Attempt
    <3>2. /\ history' = [history EXCEPT ![r] = ended] /\ DOMAIN history' = DOMAIN history
      BY <2>2 DEF RunEnded, TypeOK
    <3>3. /\ history' \in Seq(Attempt) /\ Len(history') = Len(history)
          /\ \A q \in DOMAIN history' : history'[q].end_time <= MaxAttempts
      <4> HIDE DEF ended
      <4> QED BY <3>1, <3>2 DEF TypeOK
    <3> QED BY <2>2, <3>2, <3>3 DEF RunEnded, TypeOK
  <2>3. ASSUME NEW r \in DOMAIN history, DelayPassed(r)
        PROVE  TypeOK'
    BY <2>3 DEF DelayPassed, TypeOK
  <2>4. ASSUME NEW r \in DOMAIN history, NEW outcome \in Outcomes,
               MetricsRepaired(r, outcome)
        PROVE  TypeOK'
    <3> DEFINE repaired == [history[r] EXCEPT !.dose = outcome.dose,
                                              !.runtime = outcome.runtime]
    <3>1. repaired \in Attempt /\ repaired.end_time = history[r].end_time
      <4>1. history[r] \in Attempt
        BY DEF TypeOK
      <4>2. outcome \in [dose : Metric, runtime : Metric, snapshots : BOOLEAN]
        BY OutcomesAssumption
      <4> QED BY <4>1, <4>2 DEF Attempt
    <3>2. history' = [history EXCEPT ![r] = repaired] /\ DOMAIN history' = DOMAIN history
      BY <2>4 DEF MetricsRepaired, TypeOK
    <3>3. /\ history' \in Seq(Attempt) /\ Len(history') = Len(history)
          /\ \A q \in DOMAIN history' : history'[q].end_time <= MaxAttempts
      <4> HIDE DEF repaired
      <4> QED BY <3>1, <3>2 DEF TypeOK
    <3> QED BY <2>4, <3>2, <3>3 DEF MetricsRepaired, TypeOK
  <2>5. ASSUME RepairBlocked
        PROVE  TypeOK'
    <3>1. Decided.run \in DOMAIN history
      BY <2>5, NamedRuns DEF RepairBlocked, Decided
    <3> QED BY <2>5, <3>1 DEF RepairBlocked, TypeOK
  <2>6. ASSUME ControllerChanges
        PROVE  TypeOK'
    <3>1. controller' \in [available : BOOLEAN, idle : BOOLEAN, run : Nat \cup {NoRun}]
      <4>1. CASE controller' = Stopped
        BY <4>1 DEF Stopped, Snapshot
      <4>2. CASE controller' = Unavailable
        BY <4>2 DEF Unavailable, Snapshot
      <4>3. ASSUME NEW q \in 1..MaxAttempts + 1, controller' = Snapshot(TRUE, FALSE, q)
            PROVE  controller' \in [available : BOOLEAN, idle : BOOLEAN, run : Nat \cup {NoRun}]
        BY <4>3, BoundAssumption DEF Snapshot
      <4> QED BY <2>6, <4>1, <4>2, <4>3 DEF ControllerChanges
    <3> QED BY <2>6, <3>1 DEF ControllerChanges, TypeOK
  <2>7. ASSUME OperatorActs
        PROVE  TypeOK'
    <3>1. CASE paused' = ~paused /\ UNCHANGED acknowledged
      BY <2>7, <3>1 DEF OperatorActs, TypeOK
    <3>2. CASE /\ Decided.kind = "pause_failure" /\ paused' = FALSE
               /\ acknowledged' = acknowledged \cup {Decided.run}
      <4>1. Decided.run \in DOMAIN history
        BY <3>2, NamedRuns DEF Decided
      <4> QED BY <2>7, <3>2, <4>1 DEF OperatorActs, TypeOK
    <3> QED BY <2>7, <3>1, <3>2 DEF OperatorActs
  <2>8. CASE UNCHANGED vars
    BY <2>8 DEF vars, TypeOK
  <2> QED BY <2>1, <2>2, <2>3, <2>4, <2>5, <2>6, <2>7, <2>8 DEF Next
<1> QED BY <1>1, <1>2, PTL DEF Spec

(* The theorem: a failure is asked about until it is acknowledged and never *)
(* again.                                                                   *)
THEOREM FailureAskedOnce == Spec => []FailureNeedsOneAcknowledgement
<1>1. TypeOK => FailureNeedsOneAcknowledgement
  BY NamedRuns DEF FailureNeedsOneAcknowledgement
<1> QED BY <1>1, PlannerTypes, PTL

-----------------------------------------------------------------------------
(* What it takes to start and to complete. *)

LEMMA CleanHistory ==
  ASSUME TypeOK, NothingPending(plan, history, finalizing)
  PROVE  HistoryIsClean
<1> SUFFICES ASSUME NEW r \in DOMAIN history
             PROVE  /\ history[r].valid /\ history[r].sample \in PlannedSamples(plan)
                    /\ history[r].status \in {"STOPPED", "ABORTED"}
                    /\ r \notin finalizing
                    /\ ~NeedsRepair(history[r]) /\ ~Unusable(history[r])
  BY DEF HistoryIsClean
<1>0. history[r] \in Attempt
  BY DEF TypeOK
<1>1. history[r].status \in RunStatus
  BY <1>0 DEF Attempt
<1>2. history[r].valid /\ history[r].sample \in PlannedSamples(plan)
  BY DEF NothingPending, Invalid
<1>3. history[r].status \notin {"active", "unknown"}
  BY DEF NothingPending, Active
<1>4. r \notin finalizing /\ ~NeedsRepair(history[r]) /\ ~Unusable(history[r])
  BY DEF NothingPending
<1> QED BY <1>1, <1>2, <1>3, <1>4 DEF RunStatus

LEMMA StartDecisions ==
  ASSUME TypeOK
  PROVE  StartIsJustified
<1> SUFFICES ASSUME Decided.kind = "start_remainder"
             PROVE  /\ ~paused /\ controller = Stopped
                    /\ HistoryIsClean /\ AbortsAreAcknowledged
                    /\ \E i \in DOMAIN plan :
                         /\ plan[i].sample = Decided.sample
                         /\ UnderTarget(plan[i], history)
                         /\ \A j \in 1..i-1 : ~UnderTarget(plan[j], history)
                         /\ \A r \in RunsOf(plan[i].sample, history) :
                              \E q \in RunsOf(plan[i].sample, history) \cap acknowledged :
                                q >= r
  BY DEF StartIsJustified
<1> DEFINE incomplete == Incomplete(plan, history)
           i == First(incomplete)
           runs == RunsOf(plan[i].sample, history)
           n == Len(history)
<1>1. /\ NothingPending(plan, history, finalizing)
      /\ Decided = AssessProgress(plan, history, controller, acknowledged, paused)
  BY LastStage DEF Decided, DecidedWith
<1>2. /\ AbortBlockers(history, acknowledged) = {}
      /\ incomplete # {} /\ ~Shortfall(plan[i], history, acknowledged)
      /\ ~paused /\ controller.available /\ controller.idle /\ controller.run = NoRun
      /\ Decided.sample = plan[i].sample
  BY <1>1 DEF AssessProgress, About, Plain, Decision
<1>3. controller = Stopped
  BY <1>2 DEF TypeOK, Stopped, Snapshot
<1>4. HistoryIsClean
  BY <1>1, CleanHistory
<1>5. AbortsAreAcknowledged
  BY <1>2 DEF AbortBlockers, IsLatest, RunsOf, AbortsAreAcknowledged
<1>6. i \in incomplete /\ \A j \in incomplete : i <= j
  <2>1. incomplete \in SUBSET Nat
    BY PlansAssumption DEF TypeOK, IsPlan, Incomplete
  <2> HIDE DEF incomplete
  <2> QED BY <1>2, <2>1, FirstIsSmallest
<1>7. \A j \in 1..i-1 : ~UnderTarget(plan[j], history)
  <2>1. DOMAIN plan = 1..Len(plan) /\ Len(plan) \in Nat
    BY PlansAssumption DEF TypeOK, IsPlan
  <2>2. i \in 1..Len(plan)
    BY <1>6, <2>1 DEF Incomplete
  <2> HIDE DEF i
  <2> QED BY <1>6, <2>1, <2>2 DEF Incomplete
<1>8. ASSUME runs # {}
      PROVE  Last(runs) \in runs \cap acknowledged /\ \A r \in runs : r <= Last(runs)
  <2>1. n \in Nat /\ runs \in SUBSET (0..n)
    BY DEF TypeOK, RunsOf
  <2>2. Last(runs) \in runs /\ \A r \in runs : r <= Last(runs)
    <3> HIDE DEF runs, n
    <3> QED BY <1>8, <2>1, LastIsLargest
  <2>3. CASE history[Last(runs)].status = "STOPPED"
    BY <1>2, <1>8, <2>2, <2>3 DEF Shortfall
  <2>4. CASE history[Last(runs)].status = "ABORTED"
    <3>1. \A q \in DOMAIN history :
            history[q].sample = history[Last(runs)].sample => q <= Last(runs)
      BY <2>2 DEF RunsOf
    <3> QED BY <1>5, <2>2, <2>4, <3>1 DEF AbortsAreAcknowledged, RunsOf
  <2> QED BY <1>4, <2>2, <2>3, <2>4 DEF HistoryIsClean, RunsOf
<1>9. \A r \in runs : \E q \in runs \cap acknowledged : q >= r
  <2> TAKE r \in runs
  <2>1. runs # {}
    OBVIOUS
  <2>2. Last(runs) \in runs \cap acknowledged /\ r <= Last(runs)
    BY <1>8, <2>1
  <2>3. r \in Int /\ Last(runs) \in Int
    BY <2>2 DEF RunsOf, TypeOK
  <2> QED BY <2>2, <2>3
<1>10. i \in DOMAIN plan /\ UnderTarget(plan[i], history)
  BY <1>6 DEF Incomplete
<1> QED BY <1>2, <1>3, <1>4, <1>5, <1>7, <1>9, <1>10

(* The theorem: whatever the plan and the history, an exposure is proposed  *)
(* only when nothing pends, fails or runs, and for the first incomplete     *)
(* sample whose latest run the operator has acknowledged.                   *)
THEOREM StartsAreJustified == Spec => []StartIsJustified
BY StartDecisions, PlannerTypes, PTL

LEMMA CompleteDecisions ==
  ASSUME TypeOK
  PROVE  CompleteIsJustified
<1> SUFFICES ASSUME Decided.kind = "complete"
             PROVE  /\ HistoryIsClean /\ AbortsAreAcknowledged /\ ~paused
                    /\ \A i \in DOMAIN plan : ~UnderTarget(plan[i], history)
  BY DEF CompleteIsJustified
<1>1. /\ NothingPending(plan, history, finalizing)
      /\ Decided = AssessProgress(plan, history, controller, acknowledged, paused)
  BY LastStage DEF Decided, DecidedWith
<1>2. /\ AbortBlockers(history, acknowledged) = {} /\ ~paused
      /\ Incomplete(plan, history) = {}
  BY <1>1 DEF AssessProgress, About, Plain, Decision
<1>3. AbortsAreAcknowledged
  BY <1>2 DEF AbortBlockers, IsLatest, RunsOf, AbortsAreAcknowledged
<1> QED BY <1>1, <1>2, <1>3, CleanHistory DEF Incomplete

(* The theorem: a batch is declared complete only with every target met and *)
(* nothing pending, failed or unacknowledged.                               *)
THEOREM CompletionsAreJustified == Spec => []CompleteIsJustified
BY CompleteDecisions, PlannerTypes, PTL


-----------------------------------------------------------------------------
(* The inductive invariant.                                                 *)

\* The file of a revision is opened once, and written after that.
Tidy(steps) ==
  /\ \A i \in DOMAIN steps : i > 1 /\ steps[i] = "revision" => steps[i - 1] = "open revision"
  /\ \A i, j \in DOMAIN steps :
       steps[i] = "open revision" /\ steps[j] \in {"open revision", "revision"} => i <= j

\* A batch is listed before anything else is done about it, and the file of a
\* revision is not there until its job opens it.
FileInv ==
  /\ \A b \in Batches, r \in Revisions : ~tags[b].listed => revisions[b][r] = None
  /\ job # NoJob =>
       /\ Tidy(job.steps)
       /\ tags[job.batch].listed \/ Head(job.steps) = "list"
       /\ \A i \in DOMAIN job.steps :
            job.steps[i] = "open revision" => revisions[job.batch][job.value.revision] = None
       /\ Head(job.steps) = "revision" => revisions[job.batch][job.value.revision] = Torn

\* An owned batch is found after a crash: it is listed and tagged as active, and
\* memory does not take it for anything else.
OwnedInv ==
  \A c \in owned :
    /\ tags[c].listed /\ tags[c].status = "active"
    /\ running /\ known[c] # None => known[c].status = "active"

\* The last step tags the batch with its status.
TagsLast(steps) ==
  \A i \in DOMAIN steps : steps[i] = "status" <=> i = Len(steps)

\* Whose job it may be.
JobInv ==
  job # NoJob =>
    /\ job.batch \in owned /\ job.then # "finish" => job.value.status = "active"
    /\ job.then # "keep" => TagsLast(job.steps) /\ tags[job.batch].listed
    /\ job.then \in {"activate", "restore"} =>
         job.value.status = "active" /\ owned \subseteq {job.batch}
    /\ job.then = "finish" => active = job.batch

Barred == \E error \in unreadable : error.status = "active"

\* Who holds the chamber.
HolderInv ==
  /\ \A b, c \in owned : b = c
  /\ running => \/ owned \subseteq {active}
                \/ Barred
                \/ job # NoJob /\ job.then = "restore"

StoreInv == StoreTypeOK /\ FileInv /\ OwnedInv /\ JobInv /\ HolderInv

-----------------------------------------------------------------------------
(* Values.                                                                  *)

LEMMA ValuesDiffer ==
  /\ \A m \in Manifests : m # None /\ m # Torn
  /\ None # Torn /\ \A f \in Files : Readable(f) <=> f \in Manifests
BY DEF Manifests, Files, None, Torn, Readable, Statuses

LEMMA CreateIsTidy ==
  /\ CreateSteps \in Seq(Names) \ {<<>>} /\ Tidy(CreateSteps)
  /\ Head(CreateSteps) = "list"
<1>1. CreateSteps \in Seq(Names) /\ Len(CreateSteps) = 7 /\ DOMAIN CreateSteps = 1..7
  BY DEF CreateSteps, Names
<1>2. /\ CreateSteps[1] = "list"
      /\ CreateSteps[2] = "name"
      /\ CreateSteps[3] = "status"
      /\ CreateSteps[4] = "open manifest"
      /\ CreateSteps[5] = "manifest"
      /\ CreateSteps[6] = "open revision"
      /\ CreateSteps[7] = "revision"
  BY DEF CreateSteps
<1>3. CreateSteps # <<>> /\ Head(CreateSteps) = CreateSteps[1]
  BY <1>1
<1>4. \A i \in DOMAIN CreateSteps : i = 1 \/ i = 2 \/ i = 3 \/ i = 4 \/ i = 5 \/ i = 6 \/ i = 7
  BY <1>1
<1>5. \A i \in DOMAIN CreateSteps : CreateSteps[i] = "revision" => i = 7
  BY <1>2, <1>4
<1>6. \A i \in DOMAIN CreateSteps : CreateSteps[i] = "open revision" => i = 6
  BY <1>2, <1>4
<1>7. Tidy(CreateSteps)
  <2>1. ASSUME NEW i \in DOMAIN CreateSteps, i > 1, CreateSteps[i] = "revision"
        PROVE  CreateSteps[i - 1] = "open revision"
    <3>1. i = 7 /\ i - 1 = 6
      BY <1>5, <2>1
    <3> QED
      BY <1>2, <3>1
  <2>2. ASSUME NEW i \in DOMAIN CreateSteps, NEW j \in DOMAIN CreateSteps,
               CreateSteps[i] = "open revision", CreateSteps[j] \in {"open revision", "revision"}
        PROVE  i <= j
    <3>1. i = 6 /\ (j = 6 \/ j = 7)
      BY <1>5, <1>6, <2>2
    <3> QED
      BY <3>1
  <2> QED
    BY <2>1, <2>2 DEF Tidy
<1> QED
  BY <1>1, <1>2, <1>3, <1>7

LEMMA RevisionIsTidy ==
  /\ RevisionSteps \in Seq(Names) \ {<<>>} /\ Tidy(RevisionSteps)
  /\ Head(RevisionSteps) = "open revision"
<1>1. RevisionSteps \in Seq(Names) /\ Len(RevisionSteps) = 5 /\ DOMAIN RevisionSteps = 1..5
  BY DEF RevisionSteps, Names
<1>2. /\ RevisionSteps[1] = "open revision"
      /\ RevisionSteps[2] = "revision"
      /\ RevisionSteps[3] = "open manifest"
      /\ RevisionSteps[4] = "manifest"
      /\ RevisionSteps[5] = "status"
  BY DEF RevisionSteps
<1>3. RevisionSteps # <<>> /\ Head(RevisionSteps) = RevisionSteps[1]
  BY <1>1
<1>4. \A i \in DOMAIN RevisionSteps : i = 1 \/ i = 2 \/ i = 3 \/ i = 4 \/ i = 5
  BY <1>1
<1>5. \A i \in DOMAIN RevisionSteps : RevisionSteps[i] = "revision" => i = 2
  BY <1>2, <1>4
<1>6. \A i \in DOMAIN RevisionSteps : RevisionSteps[i] = "open revision" => i = 1
  BY <1>2, <1>4
<1>7. Tidy(RevisionSteps)
  <2>1. ASSUME NEW i \in DOMAIN RevisionSteps, i > 1, RevisionSteps[i] = "revision"
        PROVE  RevisionSteps[i - 1] = "open revision"
    <3>1. i = 2 /\ i - 1 = 1
      BY <1>5, <2>1
    <3> QED
      BY <1>2, <3>1
  <2>2. ASSUME NEW i \in DOMAIN RevisionSteps, NEW j \in DOMAIN RevisionSteps,
               RevisionSteps[i] = "open revision", RevisionSteps[j] \in {"open revision", "revision"}
        PROVE  i <= j
    <3>1. i = 1 /\ (j = 1 \/ j = 2)
      BY <1>5, <1>6, <2>2
    <3> QED
      BY <3>1
  <2> QED
    BY <2>1, <2>2 DEF Tidy
<1> QED
  BY <1>1, <1>2, <1>3, <1>7

LEMMA ControlIsTidy ==
  /\ ControlSteps \in Seq(Names) \ {<<>>} /\ Tidy(ControlSteps)
  /\ TagsLast(ControlSteps) /\ Head(ControlSteps) = "open manifest"
  /\ \A i \in DOMAIN ControlSteps : ControlSteps[i] # "open revision"
<1>1. ControlSteps \in Seq(Names) /\ Len(ControlSteps) = 3 /\ DOMAIN ControlSteps = 1..3
  BY DEF ControlSteps, Names
<1>2. /\ ControlSteps[1] = "open manifest"
      /\ ControlSteps[2] = "manifest"
      /\ ControlSteps[3] = "status"
  BY DEF ControlSteps
<1>3. ControlSteps # <<>> /\ Head(ControlSteps) = ControlSteps[1]
  BY <1>1
<1>4. \A i \in DOMAIN ControlSteps : i = 1 \/ i = 2 \/ i = 3
  BY <1>1
<1>5. Tidy(ControlSteps)
  BY <1>2, <1>4 DEF Tidy
<1>6. TagsLast(ControlSteps)
  BY <1>1, <1>2, <1>4 DEF TagsLast
<1> QED
  BY <1>1, <1>2, <1>3, <1>4, <1>5, <1>6

LEMMA TailsAreTidy ==
  ASSUME NEW s \in Seq(Names) \ {<<>>}, Len(s) # 1
  PROVE  /\ Tail(s) \in Seq(Names) \ {<<>>}
         /\ 2 \in DOMAIN s /\ Head(Tail(s)) = s[2]
         /\ \A i \in DOMAIN Tail(s) : i + 1 \in DOMAIN s /\ Tail(s)[i] = s[i + 1]
         /\ Tidy(s) => Tidy(Tail(s))
         /\ TagsLast(s) => TagsLast(Tail(s))
<1>1. /\ Len(s) \in Nat /\ Len(s) > 1 /\ DOMAIN s = 1..Len(s)
      /\ Tail(s) \in Seq(Names) /\ Len(Tail(s)) = Len(s) - 1
      /\ \A i \in 1..Len(Tail(s)) : Tail(s)[i] = s[i + 1]
  BY HeadTailProperties
<1>2. /\ DOMAIN Tail(s) = 1..Len(s) - 1
      /\ \A i \in DOMAIN Tail(s) : i + 1 \in DOMAIN s /\ Tail(s)[i] = s[i + 1]
  <2>1. DOMAIN Tail(s) = 1..Len(Tail(s))
    BY <1>1
  <2> QED
    BY <1>1, <2>1
<1>3. Tail(s) # <<>> /\ 2 \in DOMAIN s /\ Head(Tail(s)) = s[2]
  <2>1. 1 \in DOMAIN Tail(s) /\ Tail(s)[1] = s[1 + 1]
    BY <1>1, <1>2
  <2>2. Tail(s) # <<>>
    <3>1. Len(<<>>) = 0 /\ Len(Tail(s)) # 0
      BY <1>1
    <3> QED
      BY <3>1
  <2>3. Head(Tail(s)) = Tail(s)[1]
    BY <1>1, <2>2
  <2> QED
    BY <1>1, <2>1, <2>2, <2>3
<1>4. Tidy(s) => Tidy(Tail(s))
  <2> SUFFICES ASSUME Tidy(s) PROVE Tidy(Tail(s))
    OBVIOUS
  <2>1. ASSUME NEW i \in DOMAIN Tail(s), i > 1, Tail(s)[i] = "revision"
        PROVE  Tail(s)[i - 1] = "open revision"
    <3>1. s[i + 1] = "revision" /\ i + 1 \in DOMAIN s /\ i + 1 > 1 /\ (i + 1) - 1 = i
      BY <1>1, <1>2, <2>1
    <3>2. s[(i + 1) - 1] = "open revision"
      BY <3>1 DEF Tidy
    <3>3. i - 1 \in DOMAIN Tail(s) /\ (i - 1) + 1 = i
      BY <1>1, <1>2, <2>1
    <3>4. Tail(s)[i - 1] = s[(i - 1) + 1]
      BY <1>2, <3>3
    <3> QED
      BY <3>1, <3>2, <3>3, <3>4
  <2>2. ASSUME NEW i \in DOMAIN Tail(s), NEW j \in DOMAIN Tail(s),
               Tail(s)[i] = "open revision", Tail(s)[j] \in {"open revision", "revision"}
        PROVE  i <= j
    <3>1. i + 1 <= j + 1
      BY <1>2, <2>2 DEF Tidy
    <3> QED
      BY <1>1, <3>1
  <2> QED
    BY <2>1, <2>2 DEF Tidy
<1>5. TagsLast(s) => TagsLast(Tail(s))
  BY <1>1, <1>2 DEF TagsLast
<1> QED
  BY <1>1, <1>2, <1>3, <1>4, <1>5

LEMMA JobIsSomebodys ==
  /\ NoJob \notin Jobs
         /\ \A j \in Jobs : j # NoJob /\ j.batch \in Batches
BY StoreAssumption DEF Jobs, NoJob, Nobody

-----------------------------------------------------------------------------
(* A command begins.                                                        *)

LEMMA BeginKeeps ==
  ASSUME StoreInv, Free,
         NEW b \in Batches, NEW value \in Manifests,
         NEW steps \in Seq(Names) \ {<<>>},
         NEW then \in {"keep", "activate", "restore", "finish"},
         Begin(b, value, steps, then),
         Tidy(steps), tags[b].listed \/ Head(steps) = "list",
         Head(steps) # "revision",
         revisions[b][value.revision] = None
           \/ \A i \in DOMAIN steps : steps[i] # "open revision",
         b \in owned /\ then # "finish" => value.status = "active",
         then # "keep" => TagsLast(steps) /\ tags[b].listed,
         then = "activate" => value.status = "active" /\ owned = {},
         then # "restore",
         then = "finish" => active = b
  PROVE  StoreInv'
<1> USE DEF StoreInv
<1>1. job' = [batch |-> b, value |-> value, steps |-> steps, then |-> then]
  BY DEF Begin
<1>2. job' \in Jobs /\ job' # NoJob
  BY <1>1, JobIsSomebodys DEF Jobs
<1>3. StoreTypeOK'
  BY <1>2 DEF StoreTypeOK, Begin
<1>4. FileInv'
  <2>1. revisions' = revisions /\ tags' = tags
    BY DEF Begin
  <2>3. job'.batch = b /\ job'.value = value /\ job'.steps = steps
    BY <1>1
  <2>2. \A c \in Batches, r \in Revisions : ~tags[c].listed => revisions[c][r] = None
    BY DEF FileInv
  <2> QED
    BY <2>1, <2>2, <2>3 DEF FileInv
<1>5. OwnedInv'
  BY DEF OwnedInv, Begin
<1>6. JobInv'
  <2>1. tags' = tags /\ owned' = owned /\ active' = active
    BY DEF Begin
  <2>2. job'.batch = b /\ job'.value = value /\ job'.steps = steps /\ job'.then = then
    BY <1>1
  <2> QED
    BY <2>1, <2>2 DEF JobInv
<1>7. HolderInv'
  BY DEF HolderInv, Begin, Free, Barred
<1> QED
  BY <1>3, <1>4, <1>5, <1>6, <1>7

LEMMA CreateKeeps ==
  ASSUME StoreInv, NEW b \in Batches, NEW text \in PlanTexts,
         Create(b, text)
  PROVE  StoreInv'
<1>1. Manifest("draft", 1, text) \in Manifests
  BY StoreAssumption DEF Manifest, Manifests, Statuses, Revisions
<1>2. revisions[b][1] = None /\ Manifest("draft", 1, text).revision = 1
  <2>1. 1 \in Revisions /\ ~tags[b].listed
    BY StoreAssumption DEF Create, Revisions, StoreInv, StoreTypeOK, Tags
  <2> QED
    BY <2>1 DEF StoreInv, FileInv, Manifest
<1>3. b \notin owned
  BY DEF Create, StoreInv, OwnedInv
<1> QED
  BY <1>1, <1>2, <1>3, CreateIsTidy, BeginKeeps DEF Create

LEMMA UpdateKeeps ==
  ASSUME StoreInv, NEW b \in Batches, NEW text \in PlanTexts,
         Update(b, text)
  PROVE  StoreInv'
<1> DEFINE value == Manifest(known[b].status, known[b].revision + 1, text)
<1>1. known[b] \in Manifests
  BY DEF Update, StoreInv, StoreTypeOK
<1>2. value \in Manifests /\ value.status = known[b].status
  BY <1>1, StoreAssumption DEF Update, Manifest, Manifests, Revisions
<1>3. /\ MaySaveRevision(b, value, known[b].revision)
      /\ Begin(b, value, RevisionSteps, "keep") /\ Free
  BY DEF Update
<1>4. tags[b].listed /\ revisions[b][value.revision] = None
  BY <1>3 DEF MaySaveRevision, Found
<1>5. b \in owned => value.status = "active"
  BY <1>2, <1>3 DEF Update, StoreInv, OwnedInv, Free
<1> HIDE DEF value
<1> QED
  BY <1>2, <1>3, <1>4, <1>5, RevisionIsTidy, BeginKeeps

LEMMA ControlKeeps ==
  ASSUME StoreInv, Free,
         NEW b \in Batches, NEW value \in Manifests,
         NEW then \in {"keep", "activate", "finish"},
         SaveControlState(b, value, then),
         b \in owned /\ then # "finish" => value.status = "active",
         then = "activate" => value.status = "active" /\ owned = {},
         then = "finish" => active = b
  PROVE  StoreInv'
<1>1. tags[b].listed /\ Begin(b, value, ControlSteps, then)
  BY DEF SaveControlState, MaySaveControlState, Found
<1> QED
  BY <1>1, ControlIsTidy, BeginKeeps

LEMMA CommandKeeps ==
  ASSUME StoreInv, Command
  PROVE  StoreInv'
<1> USE DEF StoreInv
<1>1. ASSUME NEW b \in Batches, NEW text \in PlanTexts, Create(b, text) \/ Update(b, text)
      PROVE  StoreInv'
  BY <1>1, CreateKeeps, UpdateKeeps
<1>2. ASSUME NEW b \in Batches, Activate(b)
      PROVE  StoreInv'
  <2>1. known[b] \in Manifests
    BY <1>2 DEF Activate, MayActivate, StoreTypeOK
  <2>2. [known[b] EXCEPT !.status = "active"] \in Manifests
    BY <2>1 DEF Manifests, Statuses
  <2>3. [known[b] EXCEPT !.status = "active"].status = "active"
    BY <2>1 DEF Manifests
  <2>4. owned = {}
    BY <1>2, StoreAssumption
       DEF Activate, MayActivate, Free, HolderInv, Barred, StoreTypeOK, Nobody
  <2>5. SaveControlState(b, [known[b] EXCEPT !.status = "active"], "activate") /\ Free
    BY <1>2 DEF Activate
  <2> QED
    BY <2>2, <2>3, <2>4, <2>5, ControlKeeps
<1>3. ASSUME NEW b \in Batches, NEW status \in Statuses, Free,
             known[b] # None, b \notin owned,
             SaveControlState(b, [known[b] EXCEPT !.status = status], "keep")
      PROVE  StoreInv'
  <2>1. [known[b] EXCEPT !.status = status] \in Manifests
    BY <1>3 DEF Manifests, StoreTypeOK
  <2> QED
    BY <1>3, <2>1, ControlKeeps
<1>4. ASSUME NEW b \in Batches, Withdraw(b) \/ Unwithdraw(b)
      PROVE  StoreInv'
  <2>1. b \notin owned /\ Free /\ known[b] # None
    BY <1>4 DEF Withdraw, Unwithdraw, OwnedInv, Free
  <2> QED
    BY <1>3, <1>4, <2>1 DEF Withdraw, Unwithdraw, Statuses
<1>5. CASE Control
  <2>1. active \in Batches /\ known[active] \in Manifests /\ Free
    BY <1>5 DEF Control, StoreTypeOK
  <2>2. active \in owned => known[active].status = "active"
    BY <2>1 DEF OwnedInv, Free, StoreTypeOK
  <2> QED
    BY <1>5, <2>1, <2>2, ControlKeeps DEF Control
<1>6. ASSUME NEW status \in {"completed", "cancelled"}, Finish(status)
      PROVE  StoreInv'
  <2>1. active \in Batches /\ known[active] \in Manifests /\ Free
    BY <1>6 DEF Finish, StoreTypeOK
  <2>2. [known[active] EXCEPT !.status = status] \in Manifests
    BY <2>1 DEF Manifests, Statuses
  <2> QED
    BY <1>6, <2>1, <2>2, ControlKeeps DEF Finish
<1> QED
  BY <1>1, <1>2, <1>4, <1>5, <1>6 DEF Command

-----------------------------------------------------------------------------
(* A write.                                                                 *)

LEMMA JobParts ==
  ASSUME StoreTypeOK, job # NoJob
  PROVE  /\ job \in Jobs /\ job.batch \in Batches /\ job.value \in Manifests
         /\ job.value.revision \in Revisions /\ job.value.status \in Statuses
         /\ job.steps \in Seq(Names) \ {<<>>}
         /\ job.then \in {"keep", "activate", "restore", "finish"}
         /\ Head(job.steps) = job.steps[1] /\ 1 \in DOMAIN job.steps
         /\ job.steps[1] \in Names
<1>1. job \in Jobs
  BY DEF StoreTypeOK
<1>2. job.steps \in Seq(Names) \ {<<>>}
  BY <1>1 DEF Jobs
<1>3. /\ Head(job.steps) = job.steps[1] /\ 1 \in DOMAIN job.steps
      /\ job.steps[1] \in Names
  BY <1>2
<1> QED
  BY <1>1, <1>2, <1>3 DEF Jobs, Manifests

\* What a write leaves alone, and what it does to the batch of the job.
LEMMA WrittenChanges ==
  ASSUME StoreTypeOK, NEW b \in Batches, NEW value \in Manifests, NEW step \in Names,
         value.revision \in Revisions, value.status \in Statuses,
         Written(step, b, value)
  PROVE  /\ manifests' \in [Batches -> Files]
         /\ revisions' \in [Batches -> [Revisions -> Files]]
         /\ tags' \in [Batches -> Tags]
         /\ \A c \in Batches : c # b => tags'[c] = tags[c] /\ revisions'[c] = revisions[c]
         /\ tags'[b].listed = (tags[b].listed \/ step = "list")
         /\ tags'[b].status = IF step = "status" THEN value.status ELSE tags[b].status
         /\ step \notin {"open revision", "revision"} => revisions' = revisions
         /\ step = "open revision" => revisions'[b][value.revision] = Torn
         /\ \A r \in Revisions : r # value.revision => revisions'[b][r] = revisions[b][r]
<1>1. manifests' \in [Batches -> Files]
  BY DEF StoreTypeOK, Written, Files, Names
<1>2. /\ revisions' \in [Batches -> [Revisions -> Files]]
      /\ \A c \in Batches : c # b => revisions'[c] = revisions[c]
      /\ step \notin {"open revision", "revision"} => revisions' = revisions
      /\ step = "open revision" => revisions'[b][value.revision] = Torn
      /\ \A r \in Revisions : r # value.revision => revisions'[b][r] = revisions[b][r]
  <2>1. CASE step = "open revision"
    BY <2>1 DEF StoreTypeOK, Written, Files
  <2>2. CASE step = "revision"
    BY <2>2 DEF StoreTypeOK, Written, Files
  <2>3. CASE step \notin {"open revision", "revision"}
    BY <2>3 DEF StoreTypeOK, Written, Files
  <2> QED
    BY <2>1, <2>2, <2>3
<1>3. /\ tags' \in [Batches -> Tags]
      /\ \A c \in Batches : c # b => tags'[c] = tags[c]
      /\ tags'[b].listed = (tags[b].listed \/ step = "list")
      /\ tags'[b].status = IF step = "status" THEN value.status ELSE tags[b].status
  <2>0. tags[b] \in Tags
    BY DEF StoreTypeOK
  <2>1. CASE step = "list"
    <3>1. tags' = [tags EXCEPT ![b].listed = TRUE]
      BY <2>1 DEF Written
    <3> QED
      BY <2>0, <2>1, <3>1 DEF StoreTypeOK, Tags
  <2>2. CASE step = "name"
    <3>1. tags' = [tags EXCEPT ![b].named = TRUE]
      BY <2>2 DEF Written
    <3> QED
      BY <2>0, <2>2, <3>1 DEF StoreTypeOK, Tags
  <2>3. CASE step = "status"
    <3>1. tags' = [tags EXCEPT ![b].status = value.status]
      BY <2>3 DEF Written
    <3> QED
      BY <2>0, <2>3, <3>1 DEF StoreTypeOK, Tags
  <2>4. CASE step \notin {"list", "name", "status"}
    <3>1. tags' = tags
      BY <2>4 DEF Written
    <3> QED
      BY <2>0, <2>4, <3>1 DEF StoreTypeOK, Tags
  <2> QED
    BY <2>1, <2>2, <2>3, <2>4
<1> QED
  BY <1>1, <1>2, <1>3

\* What every write keeps, whether it is the last of its job or not.
\* The same of the step of the job that is written.
LEMMA WriteDoes ==
  ASSUME StoreTypeOK, job # NoJob, Written(job.steps[1], job.batch, job.value)
  PROVE  /\ manifests' \in [Batches -> Files]
         /\ revisions' \in [Batches -> [Revisions -> Files]]
         /\ tags' \in [Batches -> Tags]
         /\ \A c \in Batches : c # job.batch => tags'[c] = tags[c] /\ revisions'[c] = revisions[c]
         /\ tags'[job.batch].listed = (tags[job.batch].listed \/ job.steps[1] = "list")
         /\ tags'[job.batch].status = IF job.steps[1] = "status" THEN job.value.status
                                      ELSE tags[job.batch].status
         /\ job.steps[1] \notin {"open revision", "revision"} => revisions' = revisions
         /\ job.steps[1] = "open revision" => revisions'[job.batch][job.value.revision] = Torn
         /\ \A r \in Revisions : r # job.value.revision =>
              revisions'[job.batch][r] = revisions[job.batch][r]
<1> DEFINE b == job.batch
           value == job.value
           step == job.steps[1]
<1>1. /\ b \in Batches /\ value \in Manifests /\ step \in Names
      /\ value.revision \in Revisions /\ value.status \in Statuses /\ Written(step, b, value)
  BY JobParts
<1> HIDE DEF b, value, step
<1>2. /\ manifests' \in [Batches -> Files]
      /\ revisions' \in [Batches -> [Revisions -> Files]]
      /\ tags' \in [Batches -> Tags]
      /\ \A c \in Batches : c # b => tags'[c] = tags[c] /\ revisions'[c] = revisions[c]
      /\ tags'[b].listed = (tags[b].listed \/ step = "list")
      /\ tags'[b].status = IF step = "status" THEN value.status ELSE tags[b].status
      /\ step \notin {"open revision", "revision"} => revisions' = revisions
      /\ step = "open revision" => revisions'[b][value.revision] = Torn
      /\ \A r \in Revisions : r # value.revision => revisions'[b][r] = revisions[b][r]
  BY <1>1, WrittenChanges
<1> QED BY <1>2 DEF b, value, step

LEMMA WriteKeepsFiles ==
  ASSUME StoreInv, Write
  PROVE  /\ \A c \in Batches, r \in Revisions : ~tags'[c].listed => revisions'[c][r] = None
         /\ \A c \in Batches : tags[c].listed => tags'[c].listed
         /\ \A c \in owned : c # job.batch \/ job.then # "finish" =>
              tags'[c].listed /\ tags'[c].status = "active"
<1>0. /\ job # NoJob /\ StoreTypeOK /\ FileInv /\ OwnedInv /\ JobInv /\ owned \subseteq Batches
      /\ Written(job.steps[1], job.batch, job.value)
      /\ \A c \in Batches : tags[c].listed \in BOOLEAN
  BY JobParts DEF Write, StoreInv, StoreTypeOK, Tags
<1>1. ASSUME NEW c \in Batches, NEW r \in Revisions, ~tags'[c].listed
      PROVE  revisions'[c][r] = None
  <2>1. c # job.batch
    BY <1>0, <1>1, JobParts, WriteDoes DEF FileInv
  <2>2. tags'[c] = tags[c] /\ revisions'[c] = revisions[c]
    BY <1>0, <2>1, JobParts, WriteDoes
  <2> QED
    BY <1>0, <1>1, <2>2 DEF FileInv
<1>2. ASSUME NEW c \in Batches, tags[c].listed
      PROVE  tags'[c].listed
  BY <1>0, <1>2, JobParts, WriteDoes
<1>3. ASSUME NEW c \in owned, c # job.batch \/ job.then # "finish"
      PROVE  tags'[c].listed /\ tags'[c].status = "active"
  <2>1. tags[c].listed /\ tags[c].status = "active" /\ c \in Batches
    BY <1>0 DEF OwnedInv
  <2>2. tags'[c].listed
    BY <1>2, <2>1
  <2>3. CASE c # job.batch
    <3>1. tags'[c] = tags[c]
      BY <1>0, <2>1, <2>3, JobParts, WriteDoes
    <3> QED
      BY <2>1, <3>1
  <2>4. CASE c = job.batch
    <3>1. job.value.status = "active"
      BY <1>0, <1>3, <2>4 DEF JobInv
    <3>2. tags'[job.batch].status =
            IF job.steps[1] = "status" THEN job.value.status ELSE tags[job.batch].status
      BY <1>0, JobParts, WriteDoes
    <3> QED
      BY <2>1, <2>2, <2>4, <3>1, <3>2
  <2> QED
    BY <2>3, <2>4
<1> QED
  BY <1>1, <1>2, <1>3

LEMMA StepKeeps ==
  ASSUME StoreInv, Write, Len(job.steps) # 1
  PROVE  StoreInv'
<1> USE DEF StoreInv
<1>1. /\ job # NoJob /\ job' = [job EXCEPT !.steps = Tail(@)]
      /\ Written(job.steps[1], job.batch, job.value)
      /\ UNCHANGED <<known, active, owned, unreadable, running, troubles>>
  BY JobParts DEF Write
<1>2. /\ job'.batch = job.batch /\ job'.value = job.value /\ job'.then = job.then
      /\ job'.steps = Tail(job.steps)
      /\ job' \in Jobs /\ job' # NoJob
  <2>1. Tail(job.steps) \in Seq(Names) \ {<<>>}
    BY <1>1, JobParts, TailsAreTidy
  <2>2. job'.batch = job.batch /\ job'.value = job.value /\ job'.then = job.then
        /\ job'.steps = Tail(job.steps) /\ job' \in Jobs
    BY <1>1, <2>1, JobParts DEF Jobs
  <2> QED
    BY <2>2, JobIsSomebodys
<1>3. StoreTypeOK'
  BY <1>1, <1>2, JobParts, WriteDoes DEF StoreTypeOK
<1>4. FileInv'
  <2>1. Tidy(job'.steps)
    BY <1>1, <1>2, JobParts, TailsAreTidy DEF FileInv
  <2>2. tags'[job'.batch].listed
    BY <1>1, <1>2, JobParts, WriteDoes DEF FileInv
  <2>3. ASSUME NEW i \in DOMAIN job'.steps, job'.steps[i] = "open revision"
        PROVE  revisions'[job'.batch][job'.value.revision] = None
    <3>1. i \in Nat \ {0} /\ i + 1 \in DOMAIN job.steps /\ job.steps[i + 1] = "open revision"
      <4>1. Tail(job.steps) \in Seq(Names) /\ i \in DOMAIN Tail(job.steps)
        BY <1>1, <1>2, <2>3, JobParts, TailsAreTidy
      <4>2. i \in 1..Len(Tail(job.steps)) /\ Len(Tail(job.steps)) \in Nat
        BY <4>1
      <4>3. i + 1 \in DOMAIN job.steps /\ Tail(job.steps)[i] = job.steps[i + 1]
        BY <1>1, <4>1, JobParts, TailsAreTidy
      <4>4. job.steps[i + 1] = "open revision"
        BY <1>2, <2>3, <4>3
      <4>5. i \in Nat \ {0}
        BY <4>2
      <4> QED
        BY <4>3, <4>4, <4>5
    <3>2. job.steps[1] \notin {"open revision", "revision"}
      <4>1. job.steps[1] \in {"open revision", "revision"} => i + 1 <= 1
        BY <1>1, <3>1, JobParts DEF FileInv, Tidy
      <4>2. i \in Nat /\ i # 0
        BY <3>1
      <4>3. ~(i + 1 <= 1)
        BY <4>2
      <4> QED
        BY <4>1, <4>3
    <3>3. revisions' = revisions
      BY <1>1, <3>2, JobParts, WriteDoes
    <3> QED
      BY <1>1, <1>2, <3>1, <3>3 DEF FileInv
  <2>4. ASSUME Head(job'.steps) = "revision"
        PROVE  revisions'[job'.batch][job'.value.revision] = Torn
    <3>1. 2 \in DOMAIN job.steps /\ job.steps[2] = "revision"
      BY <1>1, <1>2, <2>4, JobParts, TailsAreTidy
    <3>2. Tidy(job.steps)
      BY <1>1 DEF FileInv
    <3>6. 2 > 1
      OBVIOUS
    <3>3. job.steps[2 - 1] = "open revision"
      BY <3>1, <3>2, <3>6 DEF Tidy
    <3>4. 2 - 1 = 1
      OBVIOUS
    <3>5. job.steps[1] = "open revision"
      BY <3>3, <3>4
    <3>7. revisions'[job.batch][job.value.revision] = Torn
      BY <1>1, <3>5, JobParts, WriteDoes
    <3> QED
      BY <1>2, <3>7
  <2> QED
    BY <1>2, <2>1, <2>2, <2>3, <2>4, WriteKeepsFiles DEF FileInv
<1>5. OwnedInv'
  <2>1. job.then = "finish" => job.steps[1] # "status"
    BY <1>1, JobParts DEF JobInv, TagsLast
  <2>2. ASSUME NEW c \in owned
        PROVE  tags'[c].listed /\ tags'[c].status = "active"
    <3>1. CASE c # job.batch \/ job.then # "finish"
      BY <3>1, WriteKeepsFiles
    <3>2. CASE c = job.batch /\ job.then = "finish"
      <4>1. tags[c].listed /\ tags[c].status = "active" /\ c \in Batches
        BY DEF OwnedInv, StoreTypeOK
      <4>2. tags'[c].listed
        BY <4>1, WriteKeepsFiles
      <4>3. tags'[job.batch].status = tags[job.batch].status
        BY <1>1, <2>1, <3>2, JobParts, WriteDoes
      <4> QED
        BY <3>2, <4>1, <4>2, <4>3
    <3> QED
      BY <3>1, <3>2
  <2> QED
    BY <1>1, <2>2 DEF OwnedInv
<1>6. JobInv'
  <2>1. job.then # "keep" => TagsLast(job'.steps) /\ tags'[job'.batch].listed
    BY <1>1, <1>2, JobParts, TailsAreTidy, WriteKeepsFiles DEF JobInv
  <2> QED
    BY <1>1, <1>2, <2>1 DEF JobInv
<1>7. HolderInv'
  BY <1>1, <1>2 DEF HolderInv, Barred
<1> QED
  BY <1>3, <1>4, <1>5, <1>6, <1>7

\* The last step tags the batch, so what the answer makes active is tagged so.
LEMMA AnswerKeeps ==
  ASSUME StoreInv, Write, Len(job.steps) = 1
  PROVE  StoreInv'
<1> USE DEF StoreInv
<1>1. /\ job # NoJob /\ job' = NoJob
      /\ known' = [known EXCEPT ![job.batch] = job.value]
      /\ Written(job.steps[1], job.batch, job.value)
      /\ UNCHANGED <<unreadable, running, troubles>> /\ running
  BY JobParts DEF Write, Answer
<1>2. known' \in [Batches -> Manifests \cup {None}] /\ known'[job.batch] = job.value
      /\ \A c \in Batches : c # job.batch => known'[c] = known[c]
  BY <1>1, JobParts DEF StoreTypeOK
<1>3. job.value # None
  BY <1>1, JobParts, ValuesDiffer
<1>4. CASE job.then \in {"activate", "restore"}
  <2>1. active' = job.batch /\ owned' = {job.batch} /\ job.value.status = "active"
    BY <1>1, <1>4 DEF Write, Answer, JobInv
  <2>2. StoreTypeOK'
    BY <1>1, <1>2, <1>3, <2>1, JobParts, WriteDoes DEF StoreTypeOK
  <2>3. FileInv'
    BY <1>1, WriteKeepsFiles DEF FileInv
  <2>4. OwnedInv'
    <3>1. tags'[job.batch].listed
      BY <1>1, <1>4, JobParts, WriteKeepsFiles DEF JobInv
    <3>2. job.steps[1] = "status"
      BY <1>1, <1>4, JobParts DEF JobInv, TagsLast
    <3>3. tags'[job.batch].status = "active"
      BY <1>1, <2>1, <3>2, JobParts, WriteDoes
    <3> QED
      BY <1>2, <2>1, <3>1, <3>3 DEF OwnedInv
  <2>5. JobInv'
    BY <1>1 DEF JobInv
  <2>6. HolderInv'
    BY <2>1 DEF HolderInv
  <2> QED
    BY <2>2, <2>3, <2>4, <2>5, <2>6
<1>5. CASE job.then = "finish"
  <2>1. active' = Nobody /\ owned' = owned \ {job.batch} /\ active = job.batch
    BY <1>1, <1>5 DEF Write, Answer, JobInv
  <2>2. StoreTypeOK'
    BY <1>1, <1>2, <2>1, JobParts, WriteDoes, StoreAssumption DEF StoreTypeOK, Nobody
  <2>3. FileInv'
    BY <1>1, WriteKeepsFiles DEF FileInv
  <2>4. OwnedInv'
    <3>1. ASSUME NEW c \in owned'
          PROVE  c # job.batch /\ c \in owned /\ c \in Batches
      BY <2>1 DEF StoreTypeOK
    <3> QED
      BY <1>1, <1>2, <3>1, WriteKeepsFiles DEF OwnedInv
  <2>5. JobInv'
    BY <1>1 DEF JobInv
  <2>6. HolderInv'
    BY <1>1, <1>5, <2>1 DEF HolderInv, Barred
  <2> QED
    BY <2>2, <2>3, <2>4, <2>5, <2>6
<1>6. CASE job.then = "keep"
  <2>1. active' = active /\ owned' = owned
    BY <1>1, <1>6 DEF Write, Answer
  <2>2. StoreTypeOK'
    <3>1. active' \in Batches => known'[active'] # None
      BY <1>2, <1>3, <2>1 DEF StoreTypeOK
    <3> QED
      BY <1>1, <1>2, <2>1, <3>1, JobParts, WriteDoes DEF StoreTypeOK
  <2>3. FileInv'
    BY <1>1, WriteKeepsFiles DEF FileInv
  <2>4. OwnedInv'
    <3>1. job.batch \in owned => job.value.status = "active"
      BY <1>1, <1>6 DEF JobInv
    <3> QED
      BY <1>1, <1>2, <1>6, <2>1, <3>1, WriteKeepsFiles DEF OwnedInv, StoreTypeOK
  <2>5. JobInv'
    BY <1>1 DEF JobInv
  <2>6. HolderInv'
    BY <1>1, <1>6, <2>1 DEF HolderInv, Barred
  <2> QED
    BY <2>2, <2>3, <2>4, <2>5, <2>6
<1> QED
  BY <1>1, <1>4, <1>5, <1>6, JobParts

-----------------------------------------------------------------------------
(* Failures.                                                                *)

LEMMA TroubleKeeps ==
  ASSUME StoreInv, WriteFails \/ Crash
  PROVE  StoreInv'
<1> USE DEF StoreInv
<1>1. /\ job' = NoJob /\ troubles < MaxTroubles /\ troubles' = troubles + 1
      /\ UNCHANGED <<manifests, revisions, tags, known, active, unreadable, owned>>
      /\ running' => running /\ job.then # "restore"
  BY DEF WriteFails, Crash
<1>2. StoreTypeOK'
  <2>1. running' \in BOOLEAN
    BY DEF WriteFails, Crash
  <2>2. troubles' \in 0..MaxTroubles
    BY <1>1, StoreAssumption DEF StoreTypeOK
  <2> QED
    BY <1>1, <2>1, <2>2 DEF StoreTypeOK
<1>3. FileInv' /\ JobInv'
  BY <1>1 DEF FileInv, JobInv
<1>4. OwnedInv'
  BY <1>1 DEF OwnedInv
<1>5. HolderInv'
  BY <1>1 DEF HolderInv, Barred
<1> QED
  BY <1>2, <1>3, <1>4, <1>5

-----------------------------------------------------------------------------
(* The start.                                                               *)

LEMMA OnlyOne ==
  ASSUME NEW S, IsFiniteSet(S), Cardinality(S) <= 1, NEW x \in S, NEW y \in S
  PROVE  x = y
<1> SUFFICES ASSUME x # y PROVE FALSE
  OBVIOUS
<1>1. IsFiniteSet({x}) /\ Cardinality({x}) = 1
  BY FS_Singleton
<1>2. IsFiniteSet({x} \cup {y}) /\ Cardinality({x} \cup {y}) = 2
  <2>1. y \notin {x}
    OBVIOUS
  <2>2. IsFiniteSet({x} \cup {y}) /\ Cardinality({x} \cup {y}) = Cardinality({x}) + 1
    BY <1>1, <2>1, FS_AddElement
  <2> QED
    BY <1>1, <2>2
<1>3. Cardinality({x} \cup {y}) <= Cardinality(S)
  BY FS_Subset
<1>4. Cardinality(S) \in Nat
  BY FS_CardinalityType
<1> QED
  BY <1>2, <1>3, <1>4

\* An owned batch that the start cannot read bars every activation; one that it
\* can read is live.
LEMMA OwnedIsLive ==
  ASSUME StoreInv, Start, NEW c \in owned',
         ~ \E error \in LoadErrors : error.status = "active"
  PROVE  c \in Live
<1>1. c \in owned /\ c \notin Loaded \ Live
  BY DEF Start
<1>2. c \in Listed /\ tags[c].status = "active"
  BY <1>1 DEF StoreInv, OwnedInv, StoreTypeOK, Listed
<1>3. CASE c \notin Loaded
  <2>1. [batch |-> c, status |-> tags[c].status] \in LoadErrors
    BY <1>2, <1>3 DEF LoadErrors
  <2> QED
    BY <1>2, <2>1
<1> QED
  BY <1>1, <1>3

LEMMA StartKeeps ==
  ASSUME StoreInv, Start
  PROVE  StoreInv'
<1> USE DEF StoreInv
<1>1. /\ UNCHANGED <<manifests, revisions, tags, troubles>>
      /\ known' = [b \in Batches |-> IF b \in Loaded THEN manifests[b] ELSE None]
      /\ unreadable' = LoadErrors /\ owned' = owned \ (Loaded \ Live)
      /\ active' = Nobody /\ running' = TRUE /\ StoreTypeOK
  BY DEF Start
<1>2. /\ Live \subseteq Loaded /\ Loaded \subseteq Listed /\ Listed \subseteq Batches
      /\ \A b \in Loaded : manifests[b] \in Manifests
  BY <1>1, ValuesDiffer DEF Live, Loaded, Listed, StoreTypeOK
<1>3. \/ job' = NoJob /\ (Live = {} \/ \E error \in LoadErrors : error.status = "active")
      \/ /\ ~ \E error \in LoadErrors : error.status = "active"
         /\ Cardinality(Live) <= 1
         /\ \E b \in Live : job' = [batch |-> b, value |-> manifests[b],
                                    steps |-> ControlSteps, then |-> "restore"]
  BY DEF Start
<1>4. job' \in Jobs \cup {NoJob}
  <2>1. ASSUME NEW b \in Live
        PROVE  [batch |-> b, value |-> manifests[b], steps |-> ControlSteps,
                then |-> "restore"] \in Jobs
    <3>1. b \in Batches /\ manifests[b] \in Manifests
      BY <1>2
    <3> QED
      BY <3>1, ControlIsTidy DEF Jobs
  <2> QED
    BY <1>3, <2>1
<1>5. StoreTypeOK'
  <2>1. known' \in [Batches -> Manifests \cup {None}]
    BY <1>1, <1>2
  <2>2. LoadErrors \subseteq [batch : Batches, status : Statuses \cup {"none"}]
    BY <1>1, <1>2 DEF LoadErrors, StoreTypeOK, Tags
  <2> QED
    BY <1>1, <1>4, <2>1, <2>2, StoreAssumption DEF StoreTypeOK, Nobody
<1>6. OwnedInv'
  <2>1. ASSUME NEW c \in owned', known'[c] # None
        PROVE  known'[c].status = "active"
    <3>1. c \in owned /\ c \in Batches /\ c \notin Loaded \ Live
      BY <1>1 DEF StoreTypeOK
    <3>2. c \in Loaded /\ known'[c] = manifests[c]
      BY <1>1, <2>1, <3>1
    <3> QED
      BY <3>1, <3>2 DEF Live
  <2> QED
    BY <1>1, <2>1 DEF OwnedInv
<1>7. CASE job' = NoJob
  <2>1. FileInv' /\ JobInv'
    BY <1>1, <1>7 DEF FileInv, JobInv
  <2>2. Live = {} => owned' = {} \/ \E error \in LoadErrors : error.status = "active"
    BY OwnedIsLive
  <2>3. owned' = {} \/ Barred'
    BY <1>1, <1>3, <1>7, <2>2, JobIsSomebodys, ControlIsTidy DEF Barred, NoJob
  <2>4. HolderInv'
    BY <1>1, <2>3 DEF HolderInv
  <2> QED
    BY <1>5, <1>6, <2>1, <2>4
<1>8. CASE job' # NoJob
  <2>1. PICK b \in Live : job' = [batch |-> b, value |-> manifests[b],
                                  steps |-> ControlSteps, then |-> "restore"]
    BY <1>3, <1>8
  <2>2. /\ job'.batch = b /\ job'.value = manifests[b] /\ job'.steps = ControlSteps
        /\ job'.then = "restore"
    BY <2>1
  <2>3. tags[b].listed /\ manifests[b].status = "active"
    BY <1>2, <2>1 DEF Live, Listed
  <2>4. owned' \subseteq {b}
    <3>1. IsFiniteSet(Live)
      BY <1>2, FS_Subset, StoreAssumption
    <3>2. owned' \subseteq Live /\ Cardinality(Live) <= 1
      BY <1>3, <1>8, OwnedIsLive
    <3> QED
      BY <2>1, <3>1, <3>2, OnlyOne
  <2>5. FileInv'
    BY <1>1, <2>2, <2>3, ControlIsTidy DEF FileInv
  <2>6. JobInv'
    BY <1>1, <2>2, <2>3, <2>4, ControlIsTidy DEF JobInv
  <2>7. HolderInv'
    BY <1>8, <2>2, <2>4 DEF HolderInv
  <2> QED
    BY <1>5, <1>6, <2>5, <2>6, <2>7
<1> QED
  BY <1>7, <1>8

-----------------------------------------------------------------------------
(* The theorems.                                                            *)

LEMMA InitHolds ==
  ASSUME StoreInit
  PROVE  StoreInv
<1>1. StoreTypeOK
  <2>1. [listed |-> FALSE, named |-> FALSE, status |-> "none"] \in Tags
    BY DEF Tags
  <2>2. active \notin Batches /\ running \in BOOLEAN /\ 0 \in 0..MaxTroubles
    BY StoreAssumption DEF StoreInit, Nobody
  <2> QED
    BY <2>1, <2>2 DEF StoreInit, StoreTypeOK, Files
<1>2. FileInv /\ OwnedInv /\ JobInv /\ HolderInv
  BY DEF StoreInit, FileInv, OwnedInv, JobInv, HolderInv
<1> QED
  BY <1>1, <1>2 DEF StoreInv

LEMMA NextKeeps ==
  ASSUME StoreInv, [StoreNext]_storeVars
  PROVE  StoreInv'
<1>1. CASE StoreNext
  BY <1>1, CommandKeeps, StepKeeps, AnswerKeeps, TroubleKeeps, StartKeeps DEF StoreNext
<1>2. CASE UNCHANGED storeVars
  BY <1>2 DEF storeVars, StoreInv, StoreTypeOK, FileInv, OwnedInv, JobInv, HolderInv, Barred
<1> QED
  BY <1>1, <1>2

LEMMA StoreInvHolds ==
  StoreSpec => []StoreInv
<1>1. StoreInit => StoreInv
  BY InitHolds
<1>2. StoreInv /\ [StoreNext]_storeVars => StoreInv'
  BY NextKeeps
<1> QED
  BY <1>1, <1>2, PTL DEF StoreSpec

\* The repository and what the controller holds of it stay well-formed.
THEOREM StoreTypes ==
  StoreSpec => []StoreTypeOK
<1>1. StoreInv => StoreTypeOK
  BY DEF StoreInv
<1> QED
  BY <1>1, StoreInvHolds, PTL

\* A revision on file stays as it was first written: what a job opens was not
\* there, and what it writes it has opened in the step before.
LEMMA WritesKeepRevisions ==
  ASSUME StoreInv, [StoreNext]_storeVars,
         NEW b \in Batches, NEW r \in Revisions, Readable(revisions[b][r])
  PROVE  revisions'[b][r] = revisions[b][r]
<1>1. CASE Write
  <2>1. /\ job # NoJob /\ StoreTypeOK /\ FileInv
        /\ Written(job.steps[1], job.batch, job.value)
    BY <1>1, JobParts DEF Write, StoreInv
  <2>2. CASE b # job.batch \/ r # job.value.revision
    <3>1. CASE b # job.batch
      <4>1. revisions'[b] = revisions[b]
        BY <2>1, <3>1, JobParts, WriteDoes
      <4> QED
        BY <4>1
    <3>2. CASE b = job.batch /\ r # job.value.revision
      <4>1. \A q \in Revisions : q # job.value.revision =>
              revisions'[job.batch][q] = revisions[job.batch][q]
        BY <2>1, JobParts, WriteDoes
      <4>2. revisions'[job.batch][r] = revisions[job.batch][r]
        BY <3>2, <4>1
      <4> QED
        BY <3>2, <4>2
    <3> QED
      BY <2>2, <3>1, <3>2
  <2>3. CASE b = job.batch /\ r = job.value.revision
    <3>1. revisions[b][r] # None /\ revisions[b][r] # Torn
      BY DEF Readable
    <3>2. job.steps[1] \notin {"open revision", "revision"}
      BY <2>1, <2>3, <3>1, JobParts DEF FileInv
    <3> QED
      BY <2>1, <3>2, JobParts, WriteDoes
  <2> QED
    BY <2>2, <2>3
<1>2. CASE ~Write
  <2>1. UNCHANGED revisions
    BY <1>2 DEF StoreNext, Command, Create, Update, Activate, Withdraw, Unwithdraw, Control,
      Finish, SaveControlState, Begin, WriteFails, Crash, Start, storeVars
  <2> QED
    BY <2>1
<1> QED
  BY <1>1, <1>2

\* For every library and any number of failed writes and kills, a revision of a
\* plan that is on file is never changed.
THEOREM FiledRevisionsAreKept ==
  StoreSpec => RevisionsAreKept
<1>1. StoreInv /\ [StoreNext]_storeVars =>
        [\A b \in Batches, r \in Revisions :
           Readable(revisions[b][r]) => revisions'[b][r] = revisions[b][r]]_storeVars
  BY WritesKeepRevisions
<1> QED
  BY <1>1, StoreInvHolds, PTL DEF StoreSpec, RevisionsAreKept

\* For every library and any number of failed writes and kills, at most one
\* batch has the chamber.
THEOREM OneBatchHasTheChamber ==
  StoreSpec => []OneBatchIsActive
<1>1. StoreInv => OneBatchIsActive
  <2> SUFFICES ASSUME \A b, c \in owned : b = c
               PROVE  Cardinality(owned) <= 1
    BY DEF StoreInv, HolderInv, OneBatchIsActive
  <2>1. CASE owned = {}
    BY <2>1, FS_EmptySet
  <2>2. CASE owned # {}
    <3>1. PICK b \in owned : TRUE
      BY <2>2
    <3>2. owned = {b}
      BY <3>1
    <3> QED
      BY <3>2, FS_Singleton
  <2> QED
    BY <2>1, <2>2
<1> QED
  BY <1>1, StoreInvHolds, PTL

-----------------------------------------------------------------------------
(* The transfer of settings to the exposure controller.                     *)

Titles == {item.name : item \in Items} \cup {""}
Item == [name : Titles, time : Nat, dose : Nat]
Writes == [key : {"name"}, value : Titles] \cup [key : {"time", "dose"}, value : Nat]

\* What is left to write, of the order of the automata and of the two of the form.
Auto4 == <<"name", "time", "dose", "prepare">>
Auto3 == <<"time", "dose", "prepare">>
Auto2 == <<"dose", "prepare">>
Auto1 == <<"prepare">>
AutoKeys == {Auto4, Auto3, Auto2, Auto1}

TimeFirst == <<"name", "time", "dose">>
DoseFirst == <<"name", "dose", "time">>
FormKeys == {TimeFirst, DoseFirst, <<"time", "dose">>, <<"dose", "time">>, <<"time">>, <<"dose">>}

AllKeys == AutoKeys \cup FormKeys \cup {<< >>}

LEMMA AutoOrder ==
  /\ Head(Auto4) = "name" /\ Tail(Auto4) = Auto3 /\ Len(Auto4) = 4
  /\ Head(Auto3) = "time" /\ Tail(Auto3) = Auto2 /\ Len(Auto3) = 3
  /\ Head(Auto2) = "dose" /\ Tail(Auto2) = Auto1 /\ Len(Auto2) = 2
  /\ Head(Auto1) = "prepare" /\ Len(Auto1) = 1
  /\ Auto4 # Auto3 /\ Auto4 # Auto2 /\ Auto4 # Auto1
  /\ Auto3 # Auto2 /\ Auto3 # Auto1 /\ Auto2 # Auto1
  /\ << >> \notin AutoKeys
BY DEF Auto4, Auto3, Auto2, Auto1, AutoKeys

LEMMA FormOrders ==
  /\ \A s \in FormKeys : /\ Head(s) \in {"name", "time", "dose"} /\ s # << >>
                         /\ Len(s) # 1 => Tail(s) \in FormKeys
BY DEF FormKeys, TimeFirst, DoseFirst

TransferTypes ==
  /\ settings \in Item
  /\ transfer \in [Transfer!Writers -> [item : Item, keys : AllKeys]]
  /\ given \in [Transfer!Writers -> {Transfer!NoWrite} \cup Writes]
  /\ \A w \in Transfer!Writers : transfer[w].keys = << >> => Transfer!Idle(w)
  /\ \A w \in Transfer!Automata : transfer[w].keys \in AutoKeys \cup {<< >>}
  /\ transfer["operator"].keys \in FormKeys \cup {<< >>}

\* A write that was given up is still on its way only before the first key of the
\* next transfer.
GivenUp ==
  \A w \in Transfer!Automata :
    given[w] # Transfer!NoWrite => Transfer!Idle(w) \/ transfer[w].keys = Auto4

\* The keys that an automaton has passed have the values of its item.
Handed(w) ==
  LET keys == transfer[w].keys
      item == transfer[w].item
  IN  /\ keys \in {Auto3, Auto2, Auto1} => settings.name = item.name
      /\ keys \in {Auto2, Auto1} => settings.time = item.time
      /\ keys = Auto1 => settings.dose = item.dose

TransferInv ==
  /\ TransferTypes /\ GivenUp /\ Transfer!OneTarget(settings)
  /\ \A w \in Transfer!Automata : w \notin disturbed => Handed(w)

LEMMA WritersNamed ==
  /\ Transfer!Writers = {"batch", "queue", "operator"}
  /\ Transfer!Automata = {"batch", "queue"}
  /\ Transfer!AutomaticOrder = Auto4
  /\ Transfer!NoTransfer \in [item : Item, keys : AllKeys] /\ Transfer!NoTransfer.keys = << >>
  /\ Transfer!Defaults \in Item
<1>1. /\ Transfer!Writers = {"batch", "queue", "operator"}
      /\ Transfer!Automata = {"batch", "queue"}
      /\ Transfer!AutomaticOrder = Auto4
  BY DEF Transfer!Writers, Transfer!Automata, Transfer!AutomaticOrder, Auto4
<1>2. Transfer!Defaults \in Item
  BY DEF Transfer!Defaults, Item, Titles
<1>3. << >> \in AllKeys
  BY DEF AllKeys
<1>4. Transfer!NoTransfer \in [item : Item, keys : AllKeys] /\ Transfer!NoTransfer.keys = << >>
  BY <1>2, <1>3 DEF Transfer!NoTransfer
<1> QED BY <1>1, <1>2, <1>4

LEMMA TransferInvInit == Transfer!Init => TransferInv
<1> SUFFICES ASSUME Transfer!Init PROVE TransferInv
  OBVIOUS
<1>1. /\ settings = Transfer!Defaults
      /\ transfer = [w \in Transfer!Writers |-> Transfer!NoTransfer]
      /\ given = [w \in Transfer!Writers |-> Transfer!NoWrite]
  BY DEF Transfer!Init
<1>2. TransferTypes
  BY <1>1, WritersNamed DEF TransferTypes, Transfer!Idle
<1>3. GivenUp
  BY <1>1, WritersNamed DEF GivenUp
<1>4. Transfer!OneTarget(settings)
  <2>1. settings.time = 0
    BY <1>1 DEF Transfer!Defaults
  <2>2. ~(settings.time > 1)
    BY <2>1
  <2> QED BY <2>2 DEF Transfer!OneTarget, Transfer!Edge
<1>5. ASSUME NEW w \in Transfer!Automata PROVE Handed(w)
  <2>1. transfer[w].keys = << >>
    BY <1>1, WritersNamed
  <2>2. << >> \notin {Auto3, Auto2, Auto1}
    BY AutoOrder DEF AutoKeys
  <2> QED BY <2>1, <2>2 DEF Handed
<1> QED BY <1>2, <1>3, <1>4, <1>5 DEF TransferInv

\* A key that is accepted leaves one target.
LEMMA AcceptedKey ==
  ASSUME settings \in Item, Transfer!OneTarget(settings), NEW write \in Writes,
         ~Transfer!Refused(write.key, write.value),
         settings' = [settings EXCEPT ![write.key] = write.value]
  PROVE  /\ settings' \in Item /\ Transfer!OneTarget(settings')
         /\ settings'[write.key] = write.value
         /\ \A k \in {"name", "time", "dose"} : k # write.key => settings'[k] = settings[k]
<1>1. CASE write.key = "name" /\ write.value \in Titles
  BY <1>1 DEF Item, Transfer!OneTarget
<1>2. CASE write.key = "time" /\ write.value \in Nat
  <2>1. settings' \in Item /\ settings'.time = write.value /\ settings'.dose = settings.dose
        /\ settings'.name = settings.name
    BY <1>2 DEF Item
  <2>2. ~(write.value > Transfer!Edge /\ settings.dose >= Transfer!Edge)
    BY <1>2 DEF Transfer!Refused
  <2>3. Transfer!OneTarget(settings')
    BY <1>2, <2>1, <2>2 DEF Transfer!OneTarget, Item, Transfer!Edge
  <2> QED BY <1>2, <2>1, <2>3
<1>3. CASE write.key = "dose" /\ write.value \in Nat
  <2>1. settings' \in Item /\ settings'.dose = write.value /\ settings'.time = settings.time
        /\ settings'.name = settings.name
    BY <1>3 DEF Item
  <2>2. ~(write.value > Transfer!Edge /\ settings.time >= Transfer!Edge)
    BY <1>3 DEF Transfer!Refused
  <2>3. Transfer!OneTarget(settings')
    BY <1>3, <2>1, <2>2 DEF Transfer!OneTarget, Item, Transfer!Edge
  <2> QED BY <1>3, <2>1, <2>3
<1> QED BY <1>1, <1>2, <1>3 DEF Writes

\* What is left of a transfer after a key.
LEMMA GoesOnTyped ==
  ASSUME TransferTypes, NEW w \in Transfer!Writers, ~Transfer!Idle(w),
         transfer[w].keys # Auto1,
         Transfer!GoesOn(w) \/ Transfer!Ends(w)
  PROVE  /\ transfer' \in [Transfer!Writers -> [item : Item, keys : AllKeys]]
         /\ \A v \in Transfer!Writers : v # w => transfer'[v] = transfer[v]
         /\ \/ transfer'[w] = Transfer!NoTransfer
            \/ /\ transfer'[w].item = transfer[w].item /\ transfer'[w].keys # << >>
               /\ transfer[w].keys = Auto4 => transfer'[w].keys = Auto3
               /\ transfer[w].keys = Auto3 => transfer'[w].keys = Auto2
               /\ transfer[w].keys = Auto2 => transfer'[w].keys = Auto1
               /\ transfer[w].keys \in FormKeys => transfer'[w].keys \in FormKeys
<1>1. /\ transfer \in [Transfer!Writers -> [item : Item, keys : AllKeys]]
      /\ transfer[w].keys \in AutoKeys \cup FormKeys
  BY DEF TransferTypes, AllKeys
<1>2. CASE transfer' = [transfer EXCEPT ![w] = Transfer!NoTransfer]
  BY <1>1, <1>2, WritersNamed
<1>3. CASE Len(transfer[w].keys) # 1 /\ transfer' = [transfer EXCEPT ![w].keys = Tail(@)]
  <2> DEFINE rest == Tail(transfer[w].keys)
  <2>1. /\ rest \in AutoKeys \cup FormKeys /\ rest # << >>
        /\ transfer[w].keys \in FormKeys => rest \in FormKeys
        /\ transfer[w].keys = Auto4 => rest = Auto3
        /\ transfer[w].keys = Auto3 => rest = Auto2
        /\ transfer[w].keys = Auto2 => rest = Auto1
    BY <1>1, <1>3, AutoOrder, FormOrders DEF AutoKeys
  <2>2. /\ transfer' \in [Transfer!Writers -> [item : Item, keys : AllKeys]]
        /\ \A v \in Transfer!Writers : v # w => transfer'[v] = transfer[v]
        /\ transfer'[w].keys = rest /\ transfer'[w].item = transfer[w].item
    <3>1. rest \in AllKeys /\ transfer' = [transfer EXCEPT ![w].keys = rest]
      BY <1>3, <2>1 DEF AllKeys
    <3> HIDE DEF rest
    <3> QED BY <1>1, <3>1
  <2> HIDE DEF rest
  <2> QED BY <2>1, <2>2
<1> QED BY <1>2, <1>3 DEF Transfer!GoesOn, Transfer!Ends


LEMMA WriteKeyStep ==
  ASSUME TransferInv, NEW w \in Transfer!Writers, Transfer!WriteKey(w)
  PROVE  TransferInv'
<1> USE DEF TransferInv
<1>1. /\ ~Transfer!Idle(w) /\ given[w] = Transfer!NoWrite /\ Head(transfer[w].keys) # "prepare"
      /\ ~Transfer!Refused(Transfer!NextKey(w), Transfer!NextValue(w))
      /\ settings' = [settings EXCEPT ![Transfer!NextKey(w)] = Transfer!NextValue(w)]
      /\ disturbed' = disturbed \cup (Transfer!Writers \ {w})
      /\ Transfer!GoesOn(w) /\ given' = given
  BY DEF Transfer!WriteKey, Transfer!Writing, Transfer!Accept
<1>2. /\ transfer[w] \in [item : Item, keys : AllKeys]
      /\ transfer[w].keys \in (AutoKeys \ {Auto1}) \cup FormKeys
      /\ w \in Transfer!Automata => transfer[w].keys \in AutoKeys \ {Auto1}
  BY <1>1, WritersNamed, AutoOrder DEF TransferTypes, AutoKeys
<1>3. Transfer!NextKey(w) \in {"name", "time", "dose"}
  BY <1>2, AutoOrder, FormOrders DEF Transfer!NextKey, AutoKeys
<1> DEFINE write == [key |-> Transfer!NextKey(w), value |-> Transfer!NextValue(w)]
<1>4. write \in Writes
  BY <1>2, <1>3 DEF Writes, Transfer!NextValue, Item
<1>5. /\ settings' \in Item /\ Transfer!OneTarget(settings')
      /\ settings'[Transfer!NextKey(w)] = Transfer!NextValue(w)
      /\ \A k \in {"name", "time", "dose"} : k # Transfer!NextKey(w) => settings'[k] = settings[k]
  <2>1. settings \in Item /\ write.key = Transfer!NextKey(w) /\ write.value = Transfer!NextValue(w)
    BY DEF TransferTypes
  <2> HIDE DEF write
  <2> QED BY <1>1, <1>4, <2>1, AcceptedKey
<1>6. /\ transfer' \in [Transfer!Writers -> [item : Item, keys : AllKeys]]
      /\ \A v \in Transfer!Writers : v # w => transfer'[v] = transfer[v]
      /\ \/ transfer'[w] = Transfer!NoTransfer
         \/ /\ transfer'[w].item = transfer[w].item /\ transfer'[w].keys # << >>
            /\ transfer[w].keys = Auto4 => transfer'[w].keys = Auto3
            /\ transfer[w].keys = Auto3 => transfer'[w].keys = Auto2
            /\ transfer[w].keys = Auto2 => transfer'[w].keys = Auto1
            /\ transfer[w].keys \in FormKeys => transfer'[w].keys \in FormKeys
  BY <1>1, <1>2, AutoOrder, FormOrders, GoesOnTyped
<1>7. TransferTypes'
  BY <1>1, <1>2, <1>5, <1>6, WritersNamed, AutoOrder
     DEF TransferTypes, Transfer!Idle, AutoKeys
<1>8. GivenUp'
  BY <1>1, <1>6, WritersNamed DEF GivenUp, Transfer!Idle
<1>9. ASSUME NEW v \in Transfer!Automata, v \notin disturbed'
      PROVE  Handed(v)'
  <2>1. v = w /\ v \notin disturbed
    BY <1>1, <1>9, WritersNamed
  <2>2. Handed(w) /\ transfer[w].keys \in {Auto4, Auto3, Auto2}
    BY <1>2, <1>9, <2>1 DEF AutoKeys
  <2>3. CASE transfer'[w] = Transfer!NoTransfer
    BY <2>1, <2>3, WritersNamed, AutoOrder DEF Handed, AutoKeys
  <2>4. CASE transfer'[w] # Transfer!NoTransfer
    <3>1. /\ transfer'[w].item = transfer[w].item
          /\ settings'[Head(transfer[w].keys)] = transfer[w].item[Head(transfer[w].keys)]
      BY <1>5, <1>6, <2>4 DEF Transfer!NextKey, Transfer!NextValue
    <3>2. CASE transfer[w].keys = Auto4
      <4>1. transfer'[w].keys = Auto3 /\ settings'.name = transfer[w].item.name
        BY <1>6, <2>4, <3>1, <3>2, AutoOrder
      <4> QED BY <2>1, <3>1, <4>1, AutoOrder DEF Handed
    <3>3. CASE transfer[w].keys = Auto3
      <4>1. transfer'[w].keys = Auto2 /\ settings'.time = transfer[w].item.time
        BY <1>6, <2>4, <3>1, <3>3, AutoOrder
      <4>2. settings'.name = settings.name
        BY <1>5, <3>3, AutoOrder DEF Transfer!NextKey
      <4> QED BY <2>1, <2>2, <3>1, <3>3, <4>1, <4>2, AutoOrder DEF Handed
    <3>4. CASE transfer[w].keys = Auto2
      <4>1. transfer'[w].keys = Auto1 /\ settings'.dose = transfer[w].item.dose
        BY <1>6, <2>4, <3>1, <3>4, AutoOrder
      <4>2. settings'.name = settings.name /\ settings'.time = settings.time
        BY <1>5, <3>4, AutoOrder DEF Transfer!NextKey
      <4> QED BY <2>1, <2>2, <3>1, <3>4, <4>1, <4>2, AutoOrder DEF Handed
    <3> QED BY <2>2, <3>2, <3>3, <3>4
  <2> QED BY <2>3, <2>4
<1> QED BY <1>5, <1>7, <1>8, <1>9

\* Frames: what a step leaves alone.
LEMMA HandedKept ==
  ASSUME TransferInv, settings' = settings,
         \A w \in Transfer!Automata : w \notin disturbed' =>
            \/ transfer'[w].keys \in {<< >>, Auto4}
            \/ w \notin disturbed /\ transfer'[w] = transfer[w]
  PROVE  \A w \in Transfer!Automata : w \notin disturbed' => Handed(w)'
<1> SUFFICES ASSUME NEW w \in Transfer!Automata, w \notin disturbed' PROVE Handed(w)'
  OBVIOUS
<1>1. CASE transfer'[w].keys \in {<< >>, Auto4}
  BY <1>1, AutoOrder DEF Handed, AutoKeys
<1>2. CASE w \notin disturbed /\ transfer'[w] = transfer[w]
  BY <1>2 DEF TransferInv, Handed
<1> QED BY <1>1, <1>2

LEMMA BeginTransferStep ==
  ASSUME TransferInv, NEW w \in Transfer!Writers, NEW item \in Items,
         Transfer!BeginTransfer(w, item)
  PROVE  TransferInv'
<1> USE DEF TransferInv
<1> DEFINE keys == IF w \in Transfer!Automata THEN Auto4 ELSE Transfer!FormOrder(item)
           fresh == [item |-> item, keys |-> keys]
<1>1. /\ Transfer!Idle(w) /\ transfer' = [transfer EXCEPT ![w] = fresh]
      /\ disturbed' = disturbed \ {w} /\ UNCHANGED <<settings, given>>
  BY WritersNamed DEF Transfer!BeginTransfer
<1>2. item \in Item
  BY LifeAssumption DEF Item, Titles
<1>3. /\ w \in Transfer!Automata => keys = Auto4
      /\ w = "operator" => keys \in FormKeys
      /\ keys \in AutoKeys \cup FormKeys
  BY WritersNamed DEF Transfer!FormOrder, FormKeys, TimeFirst, DoseFirst, AutoKeys
<1> HIDE DEF keys
<1>4. fresh \in [item : Item, keys : AllKeys] /\ fresh.keys = keys /\ keys # << >>
  BY <1>2, <1>3, AutoOrder, FormOrders DEF AllKeys
<1> HIDE DEF fresh
<1>5. /\ transfer' \in [Transfer!Writers -> [item : Item, keys : AllKeys]]
      /\ transfer'[w] = fresh /\ \A v \in Transfer!Writers : v # w => transfer'[v] = transfer[v]
  BY <1>1, <1>4 DEF TransferTypes
<1>6. TransferTypes'
  BY <1>1, <1>3, <1>4, <1>5, WritersNamed DEF TransferTypes, Transfer!Idle, AutoKeys
<1>7. GivenUp'
  BY <1>1, <1>3, <1>4, <1>5, WritersNamed DEF GivenUp, Transfer!Idle
<1>8. \A v \in Transfer!Automata : v \notin disturbed' => Handed(v)'
  BY <1>1, <1>3, <1>4, <1>5, WritersNamed, HandedKept
<1> QED BY <1>1, <1>6, <1>7, <1>8

\* A step that ends a transfer at most.
LEMMA EndsStep ==
  ASSUME TransferInv, NEW w \in Transfer!Writers,
         Transfer!Ends(w), UNCHANGED <<settings, disturbed>>,
         \/ given' = given
         \/ \E write \in Writes : given' = [given EXCEPT ![w] = write]
  PROVE  TransferInv'
<1> USE DEF TransferInv
<1>1. /\ transfer' \in [Transfer!Writers -> [item : Item, keys : AllKeys]]
      /\ transfer'[w] = Transfer!NoTransfer
      /\ \A v \in Transfer!Writers : v # w => transfer'[v] = transfer[v]
  BY WritersNamed DEF Transfer!Ends, TransferTypes
<1>2. /\ given' \in [Transfer!Writers -> {Transfer!NoWrite} \cup Writes]
      /\ \A v \in Transfer!Writers : v # w => given'[v] = given[v]
  BY DEF TransferTypes
<1>3. TransferTypes'
  BY <1>1, <1>2, WritersNamed DEF TransferTypes, Transfer!Idle
<1>4. GivenUp'
  BY <1>1, <1>2, WritersNamed DEF GivenUp, Transfer!Idle
<1>5. \A v \in Transfer!Automata : v \notin disturbed' => Handed(v)'
  BY <1>1, WritersNamed, HandedKept
<1> QED BY <1>3, <1>4, <1>5

LEMMA WriteRefusedStep ==
  ASSUME TransferInv, NEW w \in Transfer!Writers, Transfer!WriteRefused(w)
  PROVE  TransferInv'
<1> USE DEF TransferInv
<1>1. /\ ~Transfer!Idle(w) /\ UNCHANGED <<settings, given, disturbed>>
      /\ Transfer!Ends(w) \/ (w = "operator" /\ Transfer!GoesOn(w))
  BY DEF Transfer!WriteRefused, Transfer!AfterRefusal, Transfer!Writing
<1>2. CASE Transfer!Ends(w)
  BY <1>1, <1>2, EndsStep
<1>3. CASE w = "operator" /\ Transfer!GoesOn(w)
  <2>1. transfer[w].keys \in FormKeys /\ transfer[w].keys # Auto1
    <3>1. transfer[w].keys \in FormKeys
      BY <1>1, <1>3, WritersNamed DEF TransferTypes
    <3> QED BY <3>1, AutoOrder, FormOrders
  <2>2. /\ transfer' \in [Transfer!Writers -> [item : Item, keys : AllKeys]]
        /\ \A v \in Transfer!Writers : v # w => transfer'[v] = transfer[v]
        /\ \/ transfer'[w] = Transfer!NoTransfer
           \/ transfer'[w].keys # << >> /\ transfer'[w].keys \in FormKeys
    BY <1>1, <1>3, <2>1, GoesOnTyped
  <2>3. TransferTypes'
    BY <1>1, <1>3, <2>2, WritersNamed DEF TransferTypes, Transfer!Idle
  <2>4. GivenUp'
    BY <1>1, <1>3, <2>2, WritersNamed DEF GivenUp, Transfer!Idle
  <2>5. \A v \in Transfer!Automata : v \notin disturbed' => Handed(v)'
    BY <1>1, <1>3, <2>2, WritersNamed, HandedKept
  <2> QED BY <1>1, <2>3, <2>4, <2>5
<1> QED BY <1>1, <1>2, <1>3

LEMMA WriteTimesOutStep ==
  ASSUME TransferInv, NEW w \in Transfer!Writers, Transfer!WriteTimesOut(w)
  PROVE  TransferInv'
<1> DEFINE write == [key |-> Transfer!NextKey(w), value |-> Transfer!NextValue(w)]
<1>1. /\ ~Transfer!Idle(w) /\ Head(transfer[w].keys) # "prepare"
      /\ given' = [given EXCEPT ![w] = write]
      /\ Transfer!Ends(w) /\ UNCHANGED <<settings, disturbed>>
  BY DEF Transfer!WriteTimesOut, Transfer!Writing
<1>2. /\ transfer[w] \in [item : Item, keys : AllKeys]
      /\ transfer[w].keys \in (AutoKeys \ {Auto1}) \cup FormKeys
  BY <1>1, WritersNamed, AutoOrder DEF TransferInv, TransferTypes, AutoKeys
<1>3. Transfer!NextKey(w) \in {"name", "time", "dose"}
  BY <1>2, AutoOrder, FormOrders DEF Transfer!NextKey, AutoKeys
<1>4. write \in Writes
  BY <1>2, <1>3 DEF Writes, Transfer!NextValue, Item
<1> HIDE DEF write
<1> QED BY <1>1, <1>4, EndsStep

LEMMA LateWriteStep ==
  ASSUME TransferInv, NEW w \in Transfer!Writers, Transfer!LateWrite(w)
  PROVE  TransferInv'
<1> USE DEF TransferInv
<1>1. /\ given[w] # Transfer!NoWrite /\ given' = [given EXCEPT ![w] = Transfer!NoWrite]
      /\ transfer' = transfer
  BY DEF Transfer!LateWrite
<1>2. given[w] \in Writes
  BY <1>1 DEF TransferTypes
<1>3. /\ given' \in [Transfer!Writers -> {Transfer!NoWrite} \cup Writes]
      /\ \A v \in Transfer!Writers : given'[v] \in {given[v], Transfer!NoWrite}
  BY <1>1 DEF TransferTypes
<1>4. GivenUp'
  BY <1>1, <1>3, WritersNamed DEF GivenUp, Transfer!Idle
<1>5. CASE UNCHANGED <<settings, disturbed>>
  <2>1. TransferTypes'
    BY <1>1, <1>3, <1>5 DEF TransferTypes, Transfer!Idle
  <2>2. \A v \in Transfer!Automata : v \notin disturbed' => Handed(v)'
    BY <1>1, <1>5, HandedKept
  <2> QED BY <1>4, <1>5, <2>1, <2>2
<1>6. CASE ~Transfer!Refused(given[w].key, given[w].value)
           /\ Transfer!Accept(w, given[w].key, given[w].value)
  <2>1. /\ settings' = [settings EXCEPT ![given[w].key] = given[w].value]
        /\ disturbed' = disturbed \cup (Transfer!Writers \ {w})
    BY <1>6 DEF Transfer!Accept
  <2>2. settings' \in Item /\ Transfer!OneTarget(settings')
    BY <1>2, <1>6, <2>1, AcceptedKey DEF TransferTypes
  <2>3. TransferTypes'
    BY <1>1, <1>3, <2>2 DEF TransferTypes, Transfer!Idle
  <2>4. ASSUME NEW v \in Transfer!Automata, v \notin disturbed'
        PROVE  Handed(v)'
    <3>1. v = w
      BY <2>1, <2>4, WritersNamed
    <3>2. transfer[v].keys \in {<< >>, Auto4}
      BY <1>1, <2>4, <3>1, WritersNamed DEF GivenUp, Transfer!Idle
    <3> QED BY <1>1, <3>2, AutoOrder DEF Handed, AutoKeys
  <2> QED BY <1>4, <2>2, <2>3, <2>4
<1> QED BY <1>5, <1>6 DEF Transfer!LateWrite

LEMMA RestartStep ==
  ASSUME TransferInv, Transfer!Restart
  PROVE  TransferInv'
<1> USE DEF TransferInv
<1>1. /\ settings' = Transfer!Defaults /\ disturbed' = Transfer!Writers
      /\ UNCHANGED <<transfer, given>>
  BY DEF Transfer!Restart
<1>2. TransferTypes'
  BY <1>1, WritersNamed DEF TransferTypes, Transfer!Idle
<1>3. GivenUp'
  BY <1>1 DEF GivenUp, Transfer!Idle
<1>4. Transfer!OneTarget(settings')
  <2>1. settings'.time = 0
    BY <1>1 DEF Transfer!Defaults
  <2>2. ~(settings'.time > 1)
    BY <2>1
  <2> QED BY <2>2 DEF Transfer!OneTarget, Transfer!Edge
<1>5. \A w \in Transfer!Automata : w \in disturbed'
  BY <1>1, WritersNamed
<1> QED BY <1>2, <1>3, <1>4, <1>5

LEMMA TransferStep ==
  ASSUME TransferInv, [Transfer!Next]_(Transfer!transferVars)
  PROVE  TransferInv'
<1>1. CASE UNCHANGED <<settings, transfer, given, disturbed>>
  <2>1. TransferTypes' /\ GivenUp'
    BY <1>1 DEF TransferInv, TransferTypes, GivenUp, Transfer!Idle
  <2>2. \A v \in Transfer!Automata : v \notin disturbed' => Handed(v)'
    BY <1>1, HandedKept
  <2> QED BY <1>1, <2>1, <2>2 DEF TransferInv
<1>2. CASE Transfer!Restart
  BY <1>2, RestartStep
<1>3. CASE Transfer!EndRun \/ UNCHANGED Transfer!transferVars
  BY <1>1, <1>3 DEF Transfer!EndRun, Transfer!transferVars
<1>4. ASSUME NEW w \in Transfer!Writers, Transfer!Writer(w)
      PROVE  TransferInv'
  <2>1. CASE Transfer!AcquireAutomation(w) \/ Transfer!ReleaseAutomation(w)
    BY <1>1, <2>1 DEF Transfer!AcquireAutomation, Transfer!ReleaseAutomation
  <2>2. CASE Transfer!Prepare(w)
    <3>1. Transfer!Ends(w) /\ UNCHANGED <<settings, disturbed, given>>
      BY <2>2 DEF Transfer!Prepare
    <3> QED BY <3>1, EndsStep
  <2> QED
    BY <1>4, <2>1, <2>2, BeginTransferStep, WriteKeyStep, WriteRefusedStep, WriteTimesOutStep,
       LateWriteStep DEF Transfer!Writer
<1> QED BY <1>2, <1>3, <1>4 DEF Transfer!Next

\* A run that is begun has the settings of the transfer that ends.
LEMMA RunBegun ==
  ASSUME TransferInv, [Transfer!Next]_(Transfer!transferVars),
         NEW w \in Transfer!Writers,
         run = Transfer!NotRunning, run' # Transfer!NotRunning,
         ~Transfer!Idle(w), transfer'[w] = Transfer!NoTransfer
  PROVE  Transfer!OneTarget(run') /\ (w \in disturbed \/ run' = transfer[w].item)
<1>1. PICK v \in Transfer!Writers : Transfer!Prepare(v)
  BY DEF Transfer!Next, Transfer!Writer, Transfer!AcquireAutomation, Transfer!ReleaseAutomation,
         Transfer!BeginTransfer, Transfer!WriteKey, Transfer!WriteRefused, Transfer!WriteTimesOut,
         Transfer!LateWrite, Transfer!EndRun, Transfer!Restart, Transfer!transferVars
<1>2. run' = settings /\ ~Transfer!Idle(v) /\ Head(transfer[v].keys) = "prepare" /\ Transfer!Ends(v)
  BY <1>1 DEF Transfer!Prepare, Transfer!NextKey
<1>3. v = w
  BY <1>2 DEF TransferInv, TransferTypes, Transfer!Ends, Transfer!Idle
<1>4. w \in Transfer!Automata /\ transfer[w].keys = Auto1
  <2>1. transfer[w].keys \notin FormKeys
    BY <1>2, <1>3, FormOrders
  <2> QED BY <1>2, <1>3, <2>1, WritersNamed, AutoOrder DEF TransferInv, TransferTypes, AutoKeys
<1>5. w \notin disturbed => settings = transfer[w].item
  <2>1. settings \in Item /\ transfer[w].item \in Item
    BY DEF TransferInv, TransferTypes
  <2>2. w \notin disturbed => /\ settings.name = transfer[w].item.name
                              /\ settings.time = transfer[w].item.time
                              /\ settings.dose = transfer[w].item.dose
    BY <1>4 DEF TransferInv, Handed
  <2> QED BY <2>1, <2>2 DEF Item
<1> QED BY <1>2, <1>5 DEF TransferInv

\* The theorem: whatever is refused, given up or written by others, a run is
\* started with one target at most, and with the settings of its item and no
\* other unless somebody else wrote during the transfer.
THEOREM RunsHaveTheirSettings == Transfer!Spec => RunHasItsSettings
<1>1. Transfer!Init => TransferInv
  BY TransferInvInit
<1>2. TransferInv /\ [Transfer!Next]_(Transfer!transferVars) => TransferInv'
  BY TransferStep
<1>3. TransferInv /\ [Transfer!Next]_(Transfer!transferVars) =>
        [\A w \in Transfer!Writers :
           run = Transfer!NotRunning /\ run' # Transfer!NotRunning /\ ~Transfer!Idle(w)
             /\ transfer'[w] = Transfer!NoTransfer =>
               /\ Transfer!OneTarget(run')
               /\ w \in disturbed \/ run' = transfer[w].item]_(Transfer!transferVars)
  BY RunBegun
<1> QED
  BY <1>1, <1>2, <1>3, PTL
     DEF Transfer!Spec, RunHasItsSettings, Transfer!RunHasItsSettings

-----------------------------------------------------------------------------
(* The editors.  What an entry of a plan holds does not matter to the       *)
(* argument: sequences are typed by their own elements.                     *)

Elements(s) == {s[i] : i \in DOMAIN s}
IsSequence(s) == s \in Seq(Elements(s))

LEMMA AppendedTo ==
  ASSUME NEW s, IsSequence(s), NEW x
  PROVE  /\ IsSequence(Append(s, x)) /\ Elements(Append(s, x)) = Elements(s) \cup {x}
         /\ Len(s) \in Nat /\ Len(Append(s, x)) = Len(s) + 1 /\ Append(s, x)[Len(s) + 1] = x
         /\ \A i \in 1..Len(s) : Append(s, x)[i] = s[i]
<1> DEFINE S == Elements(s) \cup {x}
           t == Append(s, x)
<1>1. s \in Seq(S) /\ x \in S
  BY DEF IsSequence
<1> HIDE DEF S
<1>2. /\ t \in Seq(S) /\ Len(t) = Len(s) + 1 /\ t[Len(s) + 1] = x
      /\ \A i \in 1..Len(s) : t[i] = s[i]
  BY <1>1, AppendProperties
<1>3. DOMAIN t = 1..(Len(s) + 1) /\ DOMAIN s = 1..Len(s) /\ Len(s) \in Nat
  BY <1>1, <1>2
<1> HIDE DEF t
<1>4. Elements(t) = Elements(s) \cup {x}
  <2>1. \A i \in 1..(Len(s) + 1) : i \in 1..Len(s) \/ i = Len(s) + 1
    BY <1>3
  <2>2. Elements(t) \subseteq Elements(s) \cup {x}
    BY <2>1, <1>2, <1>3 DEF Elements
  <2>3. Elements(s) \subseteq Elements(t)
    <3> SUFFICES ASSUME NEW i \in 1..Len(s) PROVE s[i] \in Elements(t)
      BY <1>3 DEF Elements
    <3>1. i \in DOMAIN t /\ t[i] = s[i]
      BY <1>2, <1>3
    <3> QED BY <3>1 DEF Elements
  <2>4. x \in Elements(t)
    <3>1. Len(s) + 1 \in DOMAIN t
      BY <1>3
    <3> QED BY <3>1, <1>2 DEF Elements
  <2> QED BY <2>2, <2>3, <2>4
<1>5. IsSequence(t)
  BY <1>2, <1>4 DEF IsSequence, S
<1> QED BY <1>2, <1>3, <1>4, <1>5 DEF t

LEMMA TakenFrom ==
  ASSUME NEW s, IsSequence(s), s # << >>
  PROVE  /\ IsSequence(Tail(s)) /\ Elements(Tail(s)) \subseteq Elements(s)
         /\ Head(s) \in Elements(s)
<1> DEFINE S == Elements(s)
           t == Tail(s)
<1>1. s \in Seq(S)
  BY DEF IsSequence
<1>2. /\ t \in Seq(S) /\ Head(s) = s[1] /\ Head(s) \in S
      /\ Len(t) = Len(s) - 1 /\ Len(s) \in Nat \ {0}
      /\ \A i \in 1..Len(t) : t[i] = s[i + 1]
  <2> HIDE DEF S
  <2> QED BY <1>1, HeadTailProperties
<1>3. DOMAIN t = 1..Len(t) /\ DOMAIN s = 1..Len(s) /\ Len(t) \in Nat
  BY <1>1, <1>2
<1> HIDE DEF t
<1>4. Elements(t) \subseteq Elements(s)
  <2> SUFFICES ASSUME NEW i \in 1..Len(t) PROVE t[i] \in Elements(s)
    BY <1>3 DEF Elements
  <2>1. i + 1 \in DOMAIN s /\ t[i] = s[i + 1]
    BY <1>2, <1>3
  <2> QED BY <2>1 DEF Elements
<1>5. t \in [1..Len(t) -> Elements(t)]
  BY <1>2, <1>3 DEF Elements
<1>6. IsSequence(t)
  <2>1. t \in Seq(Elements(t))
    BY <1>3, <1>5
  <2> QED BY <2>1 DEF IsSequence
<1> QED BY <1>2, <1>4, <1>6 DEF t

-----------------------------------------------------------------------------
(* The inductive invariant of the editors.                                  *)

IsDraft(d) == d = [batch |-> d.batch, revision |-> d.revision, entries |-> d.entries,
                   order |-> d.order, typed |-> d.typed, seen |-> d.seen]

EditorTypes ==
  /\ editor = [e \in Editors |-> editor[e]] /\ \A e \in Editors : IsDraft(editor[e])
  /\ commands = [e \in Editors |-> commands[e]] /\ \A e \in Editors : IsSequence(commands[e])
  /\ late = [e \in Editors |-> late[e]] /\ \A e \in Editors : IsSequence(late[e])
  /\ unread = [e \in Editors |-> unread[e]] /\ \A e \in Editors : IsSequence(unread[e])
  /\ stored = [plans |-> stored.plans, active |-> stored.active, busy |-> stored.busy]
  /\ IsSequence(stored.plans)
  /\ ghost \in [edited : [Editors -> BOOLEAN], raised : [Editors -> BOOLEAN],
                base : [Editors -> Nat], lineage : Seq([base : Nat, raised : BOOLEAN])]

\* The number of a revision that an editor holds is that of the plan it loaded,
\* unless it was raised; a draft nobody changed is that plan.
Held ==
  \A e \in Editors :
    /\ ~ghost.raised[e] => ghost.base[e] = editor[e].revision
    /\ stored.plans = << >> => ghost.base[e] = 0
    /\ editor[e].batch /\ ~ghost.edited[e] /\ ~ghost.raised[e] =>
         /\ editor[e].revision \in 1..Len(stored.plans)
         /\ editor[e].entries = stored.plans[editor[e].revision]

\* A command on its way.
Founded(c) ==
  /\ c.name = "update" => c.raised \/ c.base = c.expected
  /\ c.name = "create" => c.base = 0
  /\ c.base \in Nat /\ c.raised \in BOOLEAN

Sent == \A e \in Editors : \A c \in Elements(commands[e]) \cup Elements(late[e]) : Founded(c)

\* A manifest on its way back, of the stored plans.
Genuine(m, plans) ==
  m.kind = "manifest" => m.revision \in 1..Len(plans) /\ m.entries = plans[m.revision]

Received == \A e \in Editors : \A m \in Elements(unread[e]) : Genuine(m, stored.plans)

Filed ==
  /\ Len(ghost.lineage) = Len(stored.plans)
  /\ \A k \in 1..Len(stored.plans) :
       /\ Editor!WellFormed(stored.plans[k])
       /\ ghost.lineage[k].raised \/ ghost.lineage[k].base = k - 1

EditorInv == EditorTypes /\ Held /\ Sent /\ Received /\ Filed

LEMMA EditorInvInit == Editor!Init => EditorInv
<1> SUFFICES ASSUME Editor!Init PROVE EditorInv
  OBVIOUS
<1> USE DEF Editor!Init
<1>1. IsSequence(<< >>) /\ Elements(<< >>) = {} /\ Len(<< >>) = 0
  BY DEF IsSequence, Elements
<1>2. ghost \in [edited : [Editors -> BOOLEAN], raised : [Editors -> BOOLEAN],
                 base : [Editors -> Nat], lineage : Seq([base : Nat, raised : BOOLEAN])]
  OBVIOUS
<1>3. EditorTypes
  BY <1>1, <1>2 DEF EditorTypes, IsDraft
<1>4. Held
  BY DEF Held
<1>5. Sent /\ Received /\ Filed
  BY <1>1 DEF Sent, Received, Filed
<1> QED BY <1>3, <1>4, <1>5 DEF EditorInv

-----------------------------------------------------------------------------
(* The drafts.                                                              *)

\* A draft after clicks of the operator is of the same revision.
SameRevision(d, old) == IsDraft(d) /\ d.batch = old.batch /\ d.revision = old.revision

LEMMA RevisionKept ==
  ASSUME NEW old, NEW d, SameRevision(d, old), NEW x
  PROVE  /\ SameRevision([d EXCEPT !.entries = x], old)
         /\ SameRevision([d EXCEPT !.order = x], old)
         /\ SameRevision([d EXCEPT !.typed = x], old)
<1> DEFINE f == [batch |-> d.batch, revision |-> d.revision, entries |-> d.entries,
                 order |-> d.order, typed |-> d.typed, seen |-> d.seen]
<1>1. d = f /\ d.batch = old.batch /\ d.revision = old.revision
  BY DEF SameRevision, IsDraft
<1>2. /\ [f EXCEPT !.entries = x] = [batch |-> d.batch, revision |-> d.revision, entries |-> x,
                                     order |-> d.order, typed |-> d.typed, seen |-> d.seen]
      /\ [f EXCEPT !.order = x] = [batch |-> d.batch, revision |-> d.revision, entries |-> d.entries,
                                   order |-> x, typed |-> d.typed, seen |-> d.seen]
      /\ [f EXCEPT !.typed = x] = [batch |-> d.batch, revision |-> d.revision, entries |-> d.entries,
                                   order |-> d.order, typed |-> x, seen |-> d.seen]
  OBVIOUS
<1> QED BY <1>1, <1>2 DEF SameRevision, IsDraft

\* Two fields at once.
LEMMA RevisionKeptTwice ==
  ASSUME NEW old, NEW d, SameRevision(d, old), NEW x, NEW y
  PROVE  /\ SameRevision([d EXCEPT !.entries = x, !.typed = y], old)
         /\ SameRevision([d EXCEPT !.typed = x, !.order = y], old)
<1>1. [d EXCEPT !.entries = x, !.typed = y] = [[d EXCEPT !.entries = x] EXCEPT !.typed = y]
  OBVIOUS
<1>2. [d EXCEPT !.typed = x, !.order = y] = [[d EXCEPT !.typed = x] EXCEPT !.order = y]
  OBVIOUS
<1> QED BY <1>1, <1>2, RevisionKept

LEMMA CommitsKeep ==
  ASSUME NEW old, IsDraft(old), NEW c \in Editor!Commits(old)
  PROVE  SameRevision(c.draft, old)
<1> DEFINE over == Editor!Overridden(old.entries, Editor!Selection(old), old.typed.value)
<1>1. SameRevision(old, old)
  BY DEF SameRevision
<1>2. \/ c = [draft |-> old, done |-> TRUE] \/ c = [draft |-> old, done |-> FALSE]
      \/ c = [draft |-> [old EXCEPT !.typed = Editor!Blank], done |-> TRUE]
      \/ c = [draft |-> [old EXCEPT !.entries = over, !.typed = Editor!Blank], done |-> TRUE]
  BY DEF Editor!Commits
<1> HIDE DEF over
<1>3. \/ c.draft = old \/ c.draft = [old EXCEPT !.typed = Editor!Blank]
      \/ c.draft = [old EXCEPT !.entries = over, !.typed = Editor!Blank]
  BY <1>2
<1>4. SameRevision([old EXCEPT !.typed = Editor!Blank], old)
  BY <1>1, RevisionKept
<1>5. SameRevision([old EXCEPT !.entries = over, !.typed = Editor!Blank], old)
  BY <1>1, RevisionKeptTwice
<1> QED BY <1>1, <1>3, <1>4, <1>5

\* The ghosts after a click.
LEMMA GhostSet ==
  ASSUME ghost \in [edited : [Editors -> BOOLEAN], raised : [Editors -> BOOLEAN],
                    base : [Editors -> Nat], lineage : Seq([base : Nat, raised : BOOLEAN])],
         NEW e \in Editors, NEW v \in BOOLEAN
  PROVE  /\ LET g == [ghost EXCEPT !.edited[e] = v]
            IN  /\ g \in [edited : [Editors -> BOOLEAN], raised : [Editors -> BOOLEAN],
                          base : [Editors -> Nat], lineage : Seq([base : Nat, raised : BOOLEAN])]
                /\ g.edited = [ghost.edited EXCEPT ![e] = v] /\ g.raised = ghost.raised
                /\ g.base = ghost.base /\ g.lineage = ghost.lineage
         /\ LET g == [ghost EXCEPT !.raised[e] = v]
            IN  /\ g \in [edited : [Editors -> BOOLEAN], raised : [Editors -> BOOLEAN],
                          base : [Editors -> Nat], lineage : Seq([base : Nat, raised : BOOLEAN])]
                /\ g.raised = [ghost.raised EXCEPT ![e] = v] /\ g.edited = ghost.edited
                /\ g.base = ghost.base /\ g.lineage = ghost.lineage
<1> DEFINE L == Seq([base : Nat, raised : BOOLEAN])
           G == [edited : [Editors -> BOOLEAN], raised : [Editors -> BOOLEAN],
                 base : [Editors -> Nat], lineage : L]
<1> HIDE DEF L
<1>1. ghost \in G
  BY DEF L
<1>2. [ghost.edited EXCEPT ![e] = v] \in [Editors -> BOOLEAN]
      /\ [ghost.raised EXCEPT ![e] = v] \in [Editors -> BOOLEAN]
  BY <1>1
<1>3. ASSUME NEW h \in [Editors -> BOOLEAN]
      PROVE  /\ [ghost EXCEPT !.edited = h] \in G /\ [ghost EXCEPT !.edited = h].edited = h
             /\ [ghost EXCEPT !.edited = h].raised = ghost.raised
             /\ [ghost EXCEPT !.edited = h].base = ghost.base
             /\ [ghost EXCEPT !.edited = h].lineage = ghost.lineage
             /\ [ghost EXCEPT !.raised = h] \in G /\ [ghost EXCEPT !.raised = h].raised = h
             /\ [ghost EXCEPT !.raised = h].edited = ghost.edited
             /\ [ghost EXCEPT !.raised = h].base = ghost.base
             /\ [ghost EXCEPT !.raised = h].lineage = ghost.lineage
  BY <1>1
<1> QED BY <1>2, <1>3 DEF L

\* What an editor and the ghosts are after a step that stores nothing.
Drawn ==
  /\ editor' = [e \in Editors |-> editor'[e]] /\ \A e \in Editors : IsDraft(editor'[e])
  /\ ghost' \in [edited : [Editors -> BOOLEAN], raised : [Editors -> BOOLEAN],
                 base : [Editors -> Nat], lineage : Seq([base : Nat, raised : BOOLEAN])]
  /\ ghost'.lineage = ghost.lineage
  /\ Held'

LEMMA DrawKeeps ==
  ASSUME EditorInv, NEW e \in Editors, NEW d, SameRevision(d, editor[e]), Editor!Draw(e, d),
         stored' = stored
  PROVE  Drawn
<1> DEFINE v == ghost.edited[e] \/ d.entries # editor[e].entries
           g == [ghost EXCEPT !.edited[e] = v]
<1>1. editor' = [editor EXCEPT ![e] = d] /\ ghost' = g
  BY DEF Editor!Draw
<1>2. /\ editor = [x \in Editors |-> editor[x]] /\ \A x \in Editors : IsDraft(editor[x])
      /\ ghost \in [edited : [Editors -> BOOLEAN], raised : [Editors -> BOOLEAN],
                    base : [Editors -> Nat], lineage : Seq([base : Nat, raised : BOOLEAN])]
  BY DEF EditorInv, EditorTypes
<1>3. v \in BOOLEAN /\ (~v => ~ghost.edited[e] /\ d.entries = editor[e].entries)
  BY <1>2
<1> HIDE DEF v
<1>4. /\ g \in [edited : [Editors -> BOOLEAN], raised : [Editors -> BOOLEAN],
                base : [Editors -> Nat], lineage : Seq([base : Nat, raised : BOOLEAN])]
      /\ g.edited = [ghost.edited EXCEPT ![e] = v] /\ g.raised = ghost.raised
      /\ g.base = ghost.base /\ g.lineage = ghost.lineage
  BY <1>2, <1>3, GhostSet
<1> HIDE DEF g
<1>5. /\ editor' = [x \in Editors |-> editor'[x]]
      /\ editor'[e] = d /\ \A x \in Editors : x # e => editor'[x] = editor[x]
  <2>1. editor' = [x \in Editors |-> IF x = e THEN d ELSE editor[x]]
    BY <1>1, <1>2
  <2> QED BY <2>1
<1>6. \A x \in Editors : IsDraft(editor'[x])
  BY <1>2, <1>5 DEF SameRevision
<1>7. ghost'.edited[e] = v /\ \A x \in Editors : x # e => ghost'.edited[x] = ghost.edited[x]
  BY <1>1, <1>2, <1>4
<1>8. /\ editor'[e].batch = editor[e].batch /\ editor'[e].revision = editor[e].revision
      /\ (~v => editor'[e].entries = editor[e].entries)
  BY <1>3, <1>5 DEF SameRevision
<1>9. Held'
  <2> SUFFICES ASSUME NEW x \in Editors
               PROVE  /\ ~ghost'.raised[x] => ghost'.base[x] = editor'[x].revision
                      /\ stored'.plans = << >> => ghost'.base[x] = 0
                      /\ editor'[x].batch /\ ~ghost'.edited[x] /\ ~ghost'.raised[x] =>
                           /\ editor'[x].revision \in 1..Len(stored'.plans)
                           /\ editor'[x].entries = stored'.plans[editor'[x].revision]
    BY DEF Held
  <2>1. /\ ~ghost.raised[x] => ghost.base[x] = editor[x].revision
        /\ stored.plans = << >> => ghost.base[x] = 0
        /\ editor[x].batch /\ ~ghost.edited[x] /\ ~ghost.raised[x] =>
             /\ editor[x].revision \in 1..Len(stored.plans)
             /\ editor[x].entries = stored.plans[editor[x].revision]
    BY DEF EditorInv, Held
  <2>2. CASE x # e
    BY <1>1, <1>4, <1>5, <1>7, <2>1, <2>2
  <2>3. CASE x = e
    BY <1>1, <1>3, <1>4, <1>5, <1>7, <1>8, <2>1, <2>3
  <2> QED BY <2>2, <2>3
<1> QED BY <1>1, <1>4, <1>5, <1>6, <1>9 DEF Drawn

\* A step of an editor alone.
LEMMA DrawnKeeps ==
  ASSUME EditorInv, Drawn, UNCHANGED <<late, unread, stored>>,
         \/ commands' = commands
         \/ \E c : Founded(c) /\ \E e \in Editors : commands' = [commands EXCEPT ![e] = Append(@, c)]
  PROVE  EditorInv'
<1>1. /\ commands' = [x \in Editors |-> commands'[x]]
      /\ \A x \in Editors : /\ IsSequence(commands'[x])
                            /\ \A c \in Elements(commands'[x]) :
                                 c \in Elements(commands[x]) \/ Founded(c)
  <2>0. commands = [x \in Editors |-> commands[x]] /\ \A x \in Editors : IsSequence(commands[x])
    BY DEF EditorInv, EditorTypes
  <2>1. CASE commands' = commands
    BY <2>0, <2>1
  <2>2. ASSUME NEW e \in Editors, NEW c, Founded(c), commands' = [commands EXCEPT ![e] = Append(@, c)]
        PROVE  /\ commands' = [x \in Editors |-> commands'[x]]
               /\ \A x \in Editors : /\ IsSequence(commands'[x])
                                     /\ \A b \in Elements(commands'[x]) :
                                          b \in Elements(commands[x]) \/ Founded(b)
    <3>1. /\ commands' = [x \in Editors |-> commands'[x]]
          /\ commands'[e] = Append(commands[e], c)
          /\ \A x \in Editors : x # e => commands'[x] = commands[x]
      <4>1. commands' = [x \in Editors |-> IF x = e THEN Append(commands[e], c) ELSE commands[x]]
        BY <2>0, <2>2
      <4> QED BY <4>1
    <3>2. IsSequence(commands'[e]) /\ Elements(commands'[e]) = Elements(commands[e]) \cup {c}
      BY <2>0, <3>1, AppendedTo
    <3> QED BY <2>0, <2>2, <3>1, <3>2
  <2> QED BY <2>1, <2>2
<1>2. EditorTypes'
  BY <1>1 DEF EditorInv, EditorTypes, Drawn
<1>3. Sent'
  BY <1>1 DEF EditorInv, Sent
<1>4. Received' /\ Filed'
  BY DEF EditorInv, Received, Filed, Drawn
<1> QED BY <1>2, <1>3, <1>4 DEF EditorInv, Drawn

-----------------------------------------------------------------------------
(* The clicks of the operator, and the commands.                            *)

LEMMA ClickKeeps ==
  ASSUME EditorInv, NEW e \in Editors, NEW d, SameRevision(d, editor[e]), Editor!Draw(e, d),
         Editor!Elsewhere
  PROVE  EditorInv'
<1>1. UNCHANGED <<commands, late, unread, stored>>
  BY DEF Editor!Elsewhere
<1>2. Drawn
  BY <1>1, DrawKeeps
<1> QED BY <1>1, <1>2, DrawnKeeps

LEMMA SelfRevision ==
  ASSUME EditorInv, NEW e \in Editors
  PROVE  IsDraft(editor[e]) /\ SameRevision(editor[e], editor[e])
BY DEF EditorInv, EditorTypes, SameRevision

LEMMA FormKeeps ==
  ASSUME EditorInv, NEW e \in Editors,
         Editor!Type(e) \/ Editor!ApplyOverrides(e) \/ Editor!ClearOverrides(e)
  PROVE  EditorInv'
<1>1. IsDraft(editor[e]) /\ SameRevision(editor[e], editor[e])
  BY SelfRevision
<1>2. CASE Editor!Type(e)
  <2>1. PICK value \in Editor!Overrides :
               Editor!Draw(e, [editor[e] EXCEPT !.typed = [dirty |-> TRUE, value |-> value]])
    BY <1>2 DEF Editor!Type
  <2>2. SameRevision([editor[e] EXCEPT !.typed = [dirty |-> TRUE, value |-> value]], editor[e])
    BY <1>1, RevisionKept
  <2>3. Editor!Elsewhere
    BY <1>2 DEF Editor!Type
  <2> QED BY <2>1, <2>2, <2>3, ClickKeeps
<1>3. CASE Editor!ApplyOverrides(e)
  <2>1. PICK c \in Editor!Commits(editor[e]) : Editor!Draw(e, c.draft)
    BY <1>3 DEF Editor!ApplyOverrides
  <2>2. SameRevision(c.draft, editor[e])
    BY <1>1, CommitsKeep
  <2>3. Editor!Elsewhere
    BY <1>3 DEF Editor!ApplyOverrides
  <2> QED BY <2>1, <2>2, <2>3, ClickKeeps
<1>4. CASE Editor!ClearOverrides(e)
  <2> DEFINE over == Editor!Overridden(editor[e].entries, Editor!Selection(editor[e]), Editor!Inherit)
             d == [editor[e] EXCEPT !.entries = over, !.typed = Editor!Blank]
  <2>1. Editor!Draw(e, d) /\ Editor!Elsewhere
    BY <1>4 DEF Editor!ClearOverrides
  <2>2. SameRevision(d, editor[e])
    <3> HIDE DEF over
    <3> QED BY <1>1, RevisionKeptTwice
  <2> HIDE DEF d
  <2> QED BY <2>1, <2>2, ClickKeeps
<1> QED BY <1>2, <1>3, <1>4

LEMMA ToggleKeeps ==
  ASSUME EditorInv, NEW e \in Editors, Editor!Toggle(e)
  PROVE  EditorInv'
<1>1. IsDraft(editor[e]) /\ SameRevision(editor[e], editor[e])
  BY SelfRevision
<1>2. PICK sample \in Places :
      \E c \in (IF sample \in Editor!Selection(editor[e]) /\ ~Editor!AllPlanned(editor[e])
                THEN {[draft |-> editor[e], done |-> TRUE]} ELSE Editor!Commits(editor[e])) :
        Editor!Draw(e, IF ~c.done THEN c.draft
                       ELSE [c.draft EXCEPT !.typed = Editor!Blank,
                               !.order = IF sample \in Editor!Selection(editor[e])
                                         THEN Editor!Remove(@, sample)
                                         ELSE Append(@, sample)])
  BY DEF Editor!Toggle
<1>3. Editor!Elsewhere
  BY DEF Editor!Toggle
<1>4. PICK c \in (IF sample \in Editor!Selection(editor[e]) /\ ~Editor!AllPlanned(editor[e])
                 THEN {[draft |-> editor[e], done |-> TRUE]} ELSE Editor!Commits(editor[e])) :
        Editor!Draw(e, IF ~c.done THEN c.draft
                       ELSE [c.draft EXCEPT !.typed = Editor!Blank,
                               !.order = IF sample \in Editor!Selection(editor[e])
                                         THEN Editor!Remove(@, sample)
                                         ELSE Append(@, sample)])
  BY <1>2
<1>5. SameRevision(c.draft, editor[e])
  <2>1. c = [draft |-> editor[e], done |-> TRUE] \/ c \in Editor!Commits(editor[e])
    BY <1>4
  <2> QED BY <1>1, <2>1, CommitsKeep
<1> DEFINE order == IF sample \in Editor!Selection(editor[e])
                    THEN Editor!Remove(c.draft.order, sample) ELSE Append(c.draft.order, sample)
           d == [c.draft EXCEPT !.typed = Editor!Blank, !.order = order]
<1>6. Editor!Draw(e, c.draft) \/ Editor!Draw(e, d)
  BY <1>4
<1>7. SameRevision(d, editor[e])
  <2> HIDE DEF order
  <2> QED BY <1>5, RevisionKeptTwice
<1> HIDE DEF d
<1> QED BY <1>3, <1>5, <1>6, <1>7, ClickKeeps

LEMMA EntriesKeep ==
  ASSUME EditorInv, NEW e \in Editors,
         Editor!Generate(e) \/ Editor!RemoveEntry(e) \/ Editor!MoveEntry(e)
  PROVE  EditorInv'
<1>1. IsDraft(editor[e]) /\ SameRevision(editor[e], editor[e])
  BY SelfRevision
<1>2. CASE Editor!Generate(e)
  <2>1. PICK c \in Editor!Commits(editor[e]) :
          \/ \E generated \in Editor!Generated(c.draft.order) :
               Editor!Draw(e, [c.draft EXCEPT !.entries = Editor!Applied(@, generated)])
          \/ Editor!Draw(e, c.draft)
    BY <1>2 DEF Editor!Generate
  <2>2. SameRevision(c.draft, editor[e])
    BY <1>1, CommitsKeep
  <2>3. Editor!Elsewhere
    BY <1>2 DEF Editor!Generate
  <2>4. ASSUME NEW generated,
               Editor!Draw(e, [c.draft EXCEPT !.entries = Editor!Applied(@, generated)])
        PROVE  EditorInv'
    <3> DEFINE x == Editor!Applied(c.draft.entries, generated)
               d == [c.draft EXCEPT !.entries = x]
    <3>1. Editor!Draw(e, d)
      BY <2>4
    <3>2. SameRevision(d, editor[e])
      <4> HIDE DEF x
      <4> QED BY <2>2, RevisionKept
    <3> HIDE DEF d
    <3> QED BY <2>3, <3>1, <3>2, ClickKeeps
  <2> QED BY <2>1, <2>2, <2>3, <2>4, ClickKeeps
<1>3. CASE Editor!RemoveEntry(e)
  <2>1. PICK k \in 1..Len(editor[e].entries) :
          Editor!Draw(e, [editor[e] EXCEPT
            !.entries = Editor!RemoveAt(@, k),
            !.typed = IF editor[e].order = <<>> THEN @ ELSE Editor!Blank])
    BY <1>3 DEF Editor!RemoveEntry
  <2> DEFINE x == Editor!RemoveAt(editor[e].entries, k)
             y == IF editor[e].order = <<>> THEN editor[e].typed ELSE Editor!Blank
             d == [editor[e] EXCEPT !.entries = x, !.typed = y]
  <2>2. Editor!Draw(e, d)
    BY <2>1
  <2>3. SameRevision(d, editor[e])
    <3> HIDE DEF x, y
    <3> QED BY <1>1, RevisionKeptTwice
  <2>4. Editor!Elsewhere
    BY <1>3 DEF Editor!RemoveEntry
  <2> HIDE DEF d
  <2> QED BY <2>2, <2>3, <2>4, ClickKeeps
<1>4. CASE Editor!MoveEntry(e)
  <2>1. PICK k \in 1..(Len(editor[e].entries) - 1) :
          Editor!Draw(e, [editor[e] EXCEPT !.entries =
            [@ EXCEPT ![k] = editor[e].entries[k + 1], ![k + 1] = editor[e].entries[k]]])
    BY <1>4 DEF Editor!MoveEntry
  <2> DEFINE x == [editor[e].entries EXCEPT ![k] = editor[e].entries[k + 1],
                                            ![k + 1] = editor[e].entries[k]]
             d == [editor[e] EXCEPT !.entries = x]
  <2>2. Editor!Draw(e, d)
    BY <2>1
  <2>3. SameRevision(d, editor[e])
    <3> HIDE DEF x
    <3> QED BY <1>1, RevisionKept
  <2>4. Editor!Elsewhere
    BY <1>4 DEF Editor!MoveEntry
  <2> HIDE DEF d
  <2> QED BY <2>2, <2>3, <2>4, ClickKeeps
<1> QED BY <1>2, <1>3, <1>4

\* The ghosts after a load.
LEMMA GhostReset ==
  ASSUME ghost \in [edited : [Editors -> BOOLEAN], raised : [Editors -> BOOLEAN],
                    base : [Editors -> Nat], lineage : Seq([base : Nat, raised : BOOLEAN])],
         NEW e \in Editors, NEW n \in Nat
  PROVE  LET g == [ghost EXCEPT !.edited[e] = FALSE, !.raised[e] = FALSE, !.base[e] = n]
         IN  /\ g \in [edited : [Editors -> BOOLEAN], raised : [Editors -> BOOLEAN],
                       base : [Editors -> Nat], lineage : Seq([base : Nat, raised : BOOLEAN])]
             /\ g.edited = [ghost.edited EXCEPT ![e] = FALSE]
             /\ g.raised = [ghost.raised EXCEPT ![e] = FALSE]
             /\ g.base = [ghost.base EXCEPT ![e] = n] /\ g.lineage = ghost.lineage
<1> DEFINE L == Seq([base : Nat, raised : BOOLEAN])
           h1 == [ghost.edited EXCEPT ![e] = FALSE]
           h2 == [ghost.raised EXCEPT ![e] = FALSE]
           h3 == [ghost.base EXCEPT ![e] = n]
           f == [edited |-> h1, raised |-> h2, base |-> h3, lineage |-> ghost.lineage]
<1>1. h1 \in [Editors -> BOOLEAN] /\ h2 \in [Editors -> BOOLEAN] /\ h3 \in [Editors -> Nat]
  OBVIOUS
<1> HIDE DEF L
<1>2. ghost.lineage \in L
      /\ ghost = [edited |-> ghost.edited, raised |-> ghost.raised, base |-> ghost.base,
                  lineage |-> ghost.lineage]
  BY DEF L
<1>3. [ghost EXCEPT !.edited[e] = FALSE, !.raised[e] = FALSE, !.base[e] = n] = f
  <2> DEFINE g0 == [edited |-> ghost.edited, raised |-> ghost.raised, base |-> ghost.base,
                    lineage |-> ghost.lineage]
             g1 == [edited |-> h1, raised |-> ghost.raised, base |-> ghost.base,
                    lineage |-> ghost.lineage]
             g2 == [edited |-> h1, raised |-> h2, base |-> ghost.base, lineage |-> ghost.lineage]
  <2>1. /\ [g0 EXCEPT !.edited = h1] = g1 /\ [g1 EXCEPT !.raised = h2] = g2
        /\ [g2 EXCEPT !.base = h3] = f
    <3> HIDE DEF h1, h2, h3
    <3> QED OBVIOUS
  <2>2. g0.edited = ghost.edited /\ g1.raised = ghost.raised /\ g2.base = ghost.base
    <3> HIDE DEF h1, h2
    <3> QED OBVIOUS
  <2> HIDE DEF g0, g1, g2, f
  <2>3. /\ [g0 EXCEPT !.edited[e] = FALSE] = g1 /\ [g1 EXCEPT !.raised[e] = FALSE] = g2
        /\ [g2 EXCEPT !.base[e] = n] = f
    BY <2>1, <2>2
  <2>4. [ghost EXCEPT !.edited[e] = FALSE, !.raised[e] = FALSE, !.base[e] = n]
          = [[[ghost EXCEPT !.edited[e] = FALSE] EXCEPT !.raised[e] = FALSE] EXCEPT !.base[e] = n]
    OBVIOUS
  <2>5. ghost = g0
    BY <1>2 DEF g0
  <2> QED BY <2>3, <2>4, <2>5
<1> HIDE DEF h1, h2, h3
<1>4. f \in [edited : [Editors -> BOOLEAN], raised : [Editors -> BOOLEAN],
             base : [Editors -> Nat], lineage : L]
  BY <1>1, <1>2
<1> QED BY <1>3, <1>4 DEF L, h1, h2, h3

LEMMA StillDrawn ==
  ASSUME EditorInv, UNCHANGED <<editor, ghost, stored>>
  PROVE  Drawn
<1>1. Held'
  BY DEF EditorInv, Held
<1> QED BY <1>1 DEF EditorInv, EditorTypes, Drawn

\* What is sent is founded on what its editor holds.
LEMMA CommandFounded ==
  ASSUME EditorInv, NEW e \in Editors, NEW d, SameRevision(d, editor[e]),
         NEW name, name = "create" => stored.plans = << >>
  PROVE  Founded(Editor!Command(e, name, d))
<1>1. ghost.base[e] \in Nat /\ ghost.raised[e] \in BOOLEAN
  BY DEF EditorInv, EditorTypes
<1>2. ghost.raised[e] \/ ghost.base[e] = d.revision
  BY DEF EditorInv, Held, SameRevision
<1>3. stored.plans = << >> => ghost.base[e] = 0
  BY DEF EditorInv, Held
<1> QED BY <1>1, <1>2, <1>3 DEF Founded, Editor!Command

LEMMA RequestKeeps ==
  ASSUME EditorInv, NEW e \in Editors,
         \/ Editor!SaveNew(e) \/ Editor!SaveRevision(e)
         \/ Editor!LoadSelected(e) \/ Editor!Activate(e)
  PROVE  EditorInv'
<1>1. IsDraft(editor[e]) /\ SameRevision(editor[e], editor[e])
  BY SelfRevision
<1>2. ASSUME NEW name, name = "create" => stored.plans = << >>,
             NEW c \in Editor!Commits(editor[e]), Editor!Draw(e, c.draft),
             Editor!Request(e, Editor!Command(e, name, c.draft)) \/ Editor!Elsewhere
      PROVE  EditorInv'
  <2>1. SameRevision(c.draft, editor[e])
    BY <1>1, CommitsKeep
  <2>2. CASE Editor!Elsewhere
    BY <1>2, <2>1, <2>2, ClickKeeps
  <2>3. CASE Editor!Request(e, Editor!Command(e, name, c.draft))
    <3>1. /\ UNCHANGED <<late, unread, stored>>
          /\ commands' = [commands EXCEPT ![e] = Append(@, Editor!Command(e, name, c.draft))]
      BY <2>3 DEF Editor!Request
    <3>2. Founded(Editor!Command(e, name, c.draft))
      BY <1>2, <2>1, CommandFounded
    <3>3. Drawn
      BY <1>2, <2>1, <3>1, DrawKeeps
    <3> QED BY <3>1, <3>2, <3>3, DrawnKeeps
  <2> QED BY <1>2, <2>2, <2>3
<1>3. ASSUME NEW name, name # "create", UNCHANGED <<editor, ghost>>,
             Editor!Request(e, Editor!Command(e, name, editor[e]))
      PROVE  EditorInv'
  <2>1. /\ UNCHANGED <<late, unread, stored>>
        /\ commands' = [commands EXCEPT ![e] = Append(@, Editor!Command(e, name, editor[e]))]
    BY <1>3 DEF Editor!Request
  <2>2. Founded(Editor!Command(e, name, editor[e]))
    BY <1>1, <1>3, CommandFounded
  <2>3. Drawn
    BY <1>3, <2>1, StillDrawn
  <2> QED BY <2>1, <2>2, <2>3, DrawnKeeps
<1>4. CASE Editor!SaveNew(e)
  BY <1>2, <1>4 DEF Editor!SaveNew
<1>5. CASE Editor!SaveRevision(e)
  <2>1. PICK c \in Editor!Commits(editor[e]) :
          /\ Editor!Draw(e, c.draft)
          /\ Editor!Request(e, Editor!Command(e, "update", c.draft)) \/ Editor!Elsewhere
    BY <1>5 DEF Editor!SaveRevision
  <2>2. "update" = "create" => stored.plans = << >>
    OBVIOUS
  <2> QED BY <1>2, <2>1, <2>2
<1>6. CASE Editor!LoadSelected(e)
  BY <1>3, <1>6 DEF Editor!LoadSelected
<1>7. CASE Editor!Activate(e)
  BY <1>3, <1>7 DEF Editor!Activate
<1> QED BY <1>4, <1>5, <1>6, <1>7

LEMMA NewDraftKeeps ==
  ASSUME EditorInv, NEW e \in Editors, Editor!NewDraft(e)
  PROVE  EditorInv'
<1> DEFINE blank == [batch |-> FALSE, revision |-> 0, entries |-> << >>, order |-> << >>,
                     typed |-> Editor!Blank, seen |-> editor[e].seen]
<1>0. UNCHANGED <<commands, late, unread, stored>>
  BY DEF Editor!NewDraft, Editor!Elsewhere
<1>1. /\ editor = [x \in Editors |-> editor[x]] /\ \A x \in Editors : IsDraft(editor[x])
      /\ ghost \in [edited : [Editors -> BOOLEAN], raised : [Editors -> BOOLEAN],
                    base : [Editors -> Nat], lineage : Seq([base : Nat, raised : BOOLEAN])]
  BY DEF EditorInv, EditorTypes
<1>2. /\ editor' = [x \in Editors |-> editor'[x]] /\ editor'[e] = blank
      /\ \A x \in Editors : x # e => editor'[x] = editor[x]
  <2> DEFINE old == editor[e]
             d == [old EXCEPT !.batch = FALSE, !.revision = 0, !.entries = << >>,
                              !.order = << >>, !.typed = Editor!Blank]
  <2>1. d = blank
    <3> DEFINE no == FALSE
               form == Editor!Blank
               f0 == [batch |-> old.batch, revision |-> old.revision, entries |-> old.entries,
                      order |-> old.order, typed |-> old.typed, seen |-> old.seen]
               f1 == [f0 EXCEPT !.batch = no]
               f2 == [f1 EXCEPT !.revision = 0]
               f3 == [f2 EXCEPT !.entries = << >>]
               f4 == [f3 EXCEPT !.order = << >>]
               f5 == [f4 EXCEPT !.typed = form]
    <3>1. old = f0
      BY <1>1 DEF IsDraft
    <3> HIDE DEF old, no, form
    <3>2. f1 = [batch |-> no, revision |-> old.revision, entries |-> old.entries,
                order |-> old.order, typed |-> old.typed, seen |-> old.seen]
      OBVIOUS
    <3> HIDE DEF f1
    <3>3. f2 = [batch |-> no, revision |-> 0, entries |-> old.entries,
                order |-> old.order, typed |-> old.typed, seen |-> old.seen]
      BY <3>2
    <3> HIDE DEF f2
    <3>4. f3 = [batch |-> no, revision |-> 0, entries |-> << >>,
                order |-> old.order, typed |-> old.typed, seen |-> old.seen]
      BY <3>3
    <3> HIDE DEF f3
    <3>5. f4 = [batch |-> no, revision |-> 0, entries |-> << >>,
                order |-> << >>, typed |-> old.typed, seen |-> old.seen]
      BY <3>4
    <3> HIDE DEF f4
    <3>6. f5 = [batch |-> no, revision |-> 0, entries |-> << >>,
                order |-> << >>, typed |-> form, seen |-> old.seen]
      BY <3>5
    <3>7. d = f5
      <4> HIDE DEF f0
      <4> QED BY <3>1 DEF f1, f2, f3, f4, f5, no, form
    <3> HIDE DEF f5
    <3> QED BY <3>6, <3>7 DEF old, no, form
  <2>2. editor' = [editor EXCEPT ![e] = d]
    BY DEF Editor!NewDraft
  <2> HIDE DEF d
  <2> QED BY <1>1, <2>1, <2>2
<1>3. /\ ghost' \in [edited : [Editors -> BOOLEAN], raised : [Editors -> BOOLEAN],
                     base : [Editors -> Nat], lineage : Seq([base : Nat, raised : BOOLEAN])]
      /\ ghost'.lineage = ghost.lineage
      /\ ghost'.raised = [ghost.raised EXCEPT ![e] = FALSE]
      /\ ghost'.edited = [ghost.edited EXCEPT ![e] = FALSE]
      /\ ghost'.base = [ghost.base EXCEPT ![e] = 0]
  <2>1. ghost' = [ghost EXCEPT !.edited[e] = FALSE, !.raised[e] = FALSE, !.base[e] = 0]
    BY DEF Editor!NewDraft
  <2> QED BY <1>1, <2>1, GhostReset
<1>4. \A x \in Editors : IsDraft(editor'[x])
  BY <1>1, <1>2 DEF IsDraft
<1>5. Held'
  <2> SUFFICES ASSUME NEW x \in Editors
               PROVE  /\ ~ghost'.raised[x] => ghost'.base[x] = editor'[x].revision
                      /\ stored'.plans = << >> => ghost'.base[x] = 0
                      /\ editor'[x].batch /\ ~ghost'.edited[x] /\ ~ghost'.raised[x] =>
                           /\ editor'[x].revision \in 1..Len(stored'.plans)
                           /\ editor'[x].entries = stored'.plans[editor'[x].revision]
    BY DEF Held
  <2>1. CASE x = e
    BY <1>1, <1>2, <1>3, <2>1
  <2>2. CASE x # e
    <3>1. /\ ghost'.raised[x] = ghost.raised[x] /\ ghost'.edited[x] = ghost.edited[x]
          /\ ghost'.base[x] = ghost.base[x] /\ editor'[x] = editor[x]
      BY <1>1, <1>2, <1>3, <2>2
    <3> QED BY <1>0, <3>1 DEF EditorInv, Held
  <2> QED BY <2>1, <2>2
<1>6. Drawn
  BY <1>2, <1>3, <1>4, <1>5 DEF Drawn
<1> QED BY <1>0, <1>6, DrawnKeeps

-----------------------------------------------------------------------------
(* The queues of the editors.                                               *)

IsQueue(q) == q = [x \in Editors |-> q[x]] /\ \A x \in Editors : IsSequence(q[x])
Grown(q, r, e, c) == r = [q EXCEPT ![e] = Append(@, c)]
Shrunk(q, r, e) == q[e] # << >> /\ r = [q EXCEPT ![e] = Tail(@)]

LEMMA QueueGrows ==
  ASSUME NEW q, IsQueue(q), NEW e \in Editors, NEW c, NEW r, Grown(q, r, e, c)
  PROVE  IsQueue(r) /\ \A x \in Editors : Elements(r[x]) \subseteq Elements(q[x]) \cup {c}
<1>1. /\ r = [x \in Editors |-> r[x]] /\ r[e] = Append(q[e], c)
      /\ \A x \in Editors : x # e => r[x] = q[x]
  <2>1. r = [x \in Editors |-> IF x = e THEN Append(q[e], c) ELSE q[x]]
    BY DEF IsQueue, Grown
  <2> QED BY <2>1
<1>2. IsSequence(r[e]) /\ Elements(r[e]) = Elements(q[e]) \cup {c}
  <2>1. IsSequence(q[e])
    BY DEF IsQueue
  <2>2. IsSequence(Append(q[e], c)) /\ Elements(Append(q[e], c)) = Elements(q[e]) \cup {c}
    BY <2>1, AppendedTo
  <2> QED BY <1>1, <2>2
<1> QED BY <1>1, <1>2 DEF IsQueue

LEMMA QueueShrinks ==
  ASSUME NEW q, IsQueue(q), NEW e \in Editors, NEW r, Shrunk(q, r, e)
  PROVE  /\ IsQueue(r) /\ \A x \in Editors : Elements(r[x]) \subseteq Elements(q[x])
         /\ Head(q[e]) \in Elements(q[e])
<1>1. /\ r = [x \in Editors |-> r[x]] /\ r[e] = Tail(q[e])
      /\ \A x \in Editors : x # e => r[x] = q[x]
  <2>1. r = [x \in Editors |-> IF x = e THEN Tail(q[e]) ELSE q[x]]
    BY DEF IsQueue, Shrunk
  <2> QED BY <2>1
<1>2. IsSequence(r[e]) /\ Elements(r[e]) \subseteq Elements(q[e]) /\ Head(q[e]) \in Elements(q[e])
  BY <1>1, TakenFrom DEF IsQueue, Shrunk
<1> QED BY <1>1, <1>2 DEF IsQueue

LEMMA QueuesAre ==
  ASSUME EditorInv
  PROVE  IsQueue(commands) /\ IsQueue(late) /\ IsQueue(unread)
BY DEF EditorInv, EditorTypes, IsQueue

LEMMA GiveUpKeeps ==
  ASSUME EditorInv, NEW e \in Editors, Editor!GiveUp(e)
  PROVE  EditorInv'
<1> DEFINE c == Head(commands[e])
<1>1. /\ Grown(late, late', e, c) /\ Shrunk(commands, commands', e)
      /\ UNCHANGED <<editor, unread, stored, ghost>>
  BY DEF Editor!GiveUp, Grown, Shrunk
<1> HIDE DEF c
<1>2. /\ IsQueue(commands') /\ c \in Elements(commands[e])
      /\ \A x \in Editors : Elements(commands'[x]) \subseteq Elements(commands[x])
  BY <1>1, QueuesAre, QueueShrinks DEF c
<1>3. IsQueue(late') /\ \A x \in Editors : Elements(late'[x]) \subseteq Elements(late[x]) \cup {c}
  BY <1>1, QueuesAre, QueueGrows
<1>4. EditorTypes'
  BY <1>1, <1>2, <1>3 DEF EditorInv, EditorTypes, IsQueue
<1>5. Sent'
  BY <1>2, <1>3 DEF EditorInv, Sent
<1>6. Held' /\ Received' /\ Filed'
  BY <1>1 DEF EditorInv, Held, Received, Filed
<1> QED BY <1>4, <1>5, <1>6 DEF EditorInv

\* The queues after an answer.
Answered(m) ==
  /\ IsQueue(commands') /\ IsQueue(late') /\ IsQueue(unread')
  /\ \A x \in Editors : Elements(unread'[x]) \subseteq Elements(unread[x]) \cup {m}
  /\ Sent'

LEMMA ReplyKeeps ==
  ASSUME EditorInv, NEW e \in Editors, late[e] # << >> \/ commands[e] # << >>,
         NEW m, Editor!Answer(e, m)
  PROVE  Answered(m) /\ Founded(Editor!Arrived(e))
<1>1. IsQueue(commands) /\ IsQueue(late) /\ IsQueue(unread)
  BY QueuesAre
<1>2. CASE late[e] # << >>
  <2>1. Shrunk(late, late', e) /\ UNCHANGED <<commands, unread>>
    BY <1>2 DEF Editor!Answer, Shrunk
  <2>2. /\ IsQueue(late') /\ Head(late[e]) \in Elements(late[e])
        /\ \A x \in Editors : Elements(late'[x]) \subseteq Elements(late[x])
    BY <1>1, <2>1, QueueShrinks
  <2>3. Sent'
    BY <2>1, <2>2 DEF EditorInv, Sent
  <2>4. Founded(Editor!Arrived(e))
    BY <1>2, <2>2 DEF EditorInv, Sent, Editor!Arrived
  <2>5. Answered(m)
    BY <1>1, <2>1, <2>2, <2>3 DEF Answered
  <2> QED BY <2>4, <2>5
<1>3. CASE late[e] = << >>
  <2>1. Shrunk(commands, commands', e) /\ Grown(unread, unread', e, m) /\ UNCHANGED late
    BY <1>3 DEF Editor!Answer, Shrunk, Grown
  <2>2. /\ IsQueue(commands') /\ Head(commands[e]) \in Elements(commands[e])
        /\ \A x \in Editors : Elements(commands'[x]) \subseteq Elements(commands[x])
    BY <1>1, <2>1, QueueShrinks
  <2>3. /\ IsQueue(unread')
        /\ \A x \in Editors : Elements(unread'[x]) \subseteq Elements(unread[x]) \cup {m}
    BY <1>1, <2>1, QueueGrows
  <2>4. Sent'
    BY <2>1, <2>2 DEF EditorInv, Sent
  <2>5. Founded(Editor!Arrived(e))
    BY <1>3, <2>2 DEF EditorInv, Sent, Editor!Arrived
  <2>6. Answered(m)
    BY <1>1, <2>1, <2>2, <2>3, <2>4 DEF Answered
  <2> QED BY <2>5, <2>6
<1> QED BY <1>2, <1>3

-----------------------------------------------------------------------------
(* The controller carries out a command.                                    *)

\* The plans are as before, whatever else is known of the batch.
LEMMA ExecuteKeepsPlans ==
  ASSUME EditorInv, NEW e \in Editors, late[e] # << >> \/ commands[e] # << >>,
         NEW m, Editor!Answer(e, m), Genuine(m, stored.plans),
         UNCHANGED <<editor, ghost>>, stored'.plans = stored.plans,
         stored' = [plans |-> stored'.plans, active |-> stored'.active, busy |-> stored'.busy]
  PROVE  EditorInv'
<1>1. Answered(m)
  BY ReplyKeeps
<1>2. EditorTypes'
  BY <1>1 DEF EditorInv, EditorTypes, Answered, IsQueue
<1>3. Received'
  BY <1>1 DEF EditorInv, Received, Answered
<1>4. Held' /\ Filed'
  BY DEF EditorInv, Held, Filed
<1> QED BY <1>1, <1>2, <1>3, <1>4 DEF EditorInv, Answered

\* A plan more.
LEMMA StoringKeeps ==
  ASSUME EditorInv, NEW e \in Editors, late[e] # << >> \/ commands[e] # << >>,
         NEW c, c = Editor!Arrived(e), Editor!Stores(c),
         stored' = [stored EXCEPT !.plans = Append(@, c.entries)],
         Editor!Answer(e, Editor!Manifest(stored'.plans)),
         ghost' = [ghost EXCEPT !.lineage = Append(@, [base |-> c.base, raised |-> c.raised])],
         editor' = editor
  PROVE  EditorInv'
<1> DEFINE m == Editor!Manifest(stored'.plans)
           n == Len(stored.plans)
           source == [base |-> c.base, raised |-> c.raised]
<1>1. Answered(m) /\ Founded(c)
  BY ReplyKeeps
<1>2. /\ IsSequence(stored.plans)
      /\ stored = [plans |-> stored.plans, active |-> stored.active, busy |-> stored.busy]
      /\ ghost.lineage \in Seq([base : Nat, raised : BOOLEAN])
      /\ Len(ghost.lineage) = n
  BY DEF EditorInv, EditorTypes, Filed
<1>3. /\ stored'.plans = Append(stored.plans, c.entries)
      /\ stored' = [plans |-> stored'.plans, active |-> stored'.active, busy |-> stored'.busy]
  BY <1>2
<1>4. /\ IsSequence(stored'.plans) /\ n \in Nat /\ Len(stored'.plans) = n + 1
      /\ stored'.plans[n + 1] = c.entries
      /\ \A k \in 1..n : stored'.plans[k] = stored.plans[k]
  BY <1>2, <1>3, AppendedTo
<1>5. /\ ghost'.lineage = Append(ghost.lineage, source)
      /\ ghost'.edited = ghost.edited /\ ghost'.raised = ghost.raised /\ ghost'.base = ghost.base
      /\ ghost' \in [edited : [Editors -> BOOLEAN], raised : [Editors -> BOOLEAN],
                     base : [Editors -> Nat], lineage : Seq([base : Nat, raised : BOOLEAN])]
  <2> DEFINE l == Append(ghost.lineage, source)
             L == Seq([base : Nat, raised : BOOLEAN])
  <2>1. source \in [base : Nat, raised : BOOLEAN]
    BY <1>1 DEF Founded
  <2>2. l \in L
    <3> HIDE DEF source
    <3> QED BY <1>2, <2>1, AppendProperties
  <2>3. ghost \in [edited : [Editors -> BOOLEAN], raised : [Editors -> BOOLEAN],
                   base : [Editors -> Nat], lineage : L]
    BY DEF EditorInv, EditorTypes
  <2>4. ghost' = [ghost EXCEPT !.lineage = l]
    OBVIOUS
  <2> HIDE DEF l, L
  <2>5. /\ ghost'.lineage = l
        /\ ghost'.edited = ghost.edited /\ ghost'.raised = ghost.raised /\ ghost'.base = ghost.base
        /\ ghost' \in [edited : [Editors -> BOOLEAN], raised : [Editors -> BOOLEAN],
                       base : [Editors -> Nat], lineage : L]
    BY <2>2, <2>3, <2>4
  <2> QED BY <2>5 DEF l, L
<1>6. /\ Len(ghost'.lineage) = n + 1 /\ ghost'.lineage[n + 1] = source
      /\ \A k \in 1..n : ghost'.lineage[k] = ghost.lineage[k]
  <2>1. source \in [base : Nat, raised : BOOLEAN]
    BY <1>1 DEF Founded
  <2> DEFINE R == [base : Nat, raised : BOOLEAN]
  <2> HIDE DEF source, R
  <2>2. ghost.lineage \in Seq(R) /\ source \in R
    BY <1>2, <2>1 DEF R
  <2>3. /\ Len(Append(ghost.lineage, source)) = Len(ghost.lineage) + 1
        /\ Append(ghost.lineage, source)[Len(ghost.lineage) + 1] = source
        /\ \A k \in 1..Len(ghost.lineage) : Append(ghost.lineage, source)[k] = ghost.lineage[k]
    BY <2>2, AppendProperties
  <2>4. Len(ghost.lineage) = n /\ ghost'.lineage = Append(ghost.lineage, source)
    BY <1>2, <1>5
  <2> HIDE DEF n
  <2> QED BY <2>3, <2>4
<1>7. Editor!WellFormed(c.entries) /\ (c.raised \/ c.base = n)
  <2>1. CASE c.name = "create" /\ Editor!MayCreate(c)
    <3>1. stored.plans = << >> /\ c.base = 0
      BY <1>1, <2>1 DEF Founded, Editor!MayCreate
    <3>2. n = 0
      BY <3>1
    <3> QED BY <2>1, <3>1, <3>2 DEF Editor!MayCreate
  <2>2. CASE c.name = "update" /\ Editor!MayUpdate(c)
    BY <1>1, <2>2 DEF Founded, Editor!MayUpdate
  <2> QED BY <2>1, <2>2 DEF Editor!Stores
<1>8. m.revision = n + 1 /\ m.entries = c.entries
  <2>1. m.revision = Len(stored'.plans) /\ m.entries = stored'.plans[Len(stored'.plans)]
    BY DEF Editor!Manifest, Editor!Last
  <2> QED BY <1>4, <2>1
<1> HIDE DEF m, n, source
<1>9. \A k \in 1..(n + 1) : k \in 1..n \/ k = n + 1
  BY <1>4
<1>10. EditorTypes'
  BY <1>1, <1>3, <1>4, <1>5 DEF EditorInv, EditorTypes, Answered, IsQueue
<1>11. Held'
  <2> SUFFICES ASSUME NEW x \in Editors
               PROVE  /\ ~ghost'.raised[x] => ghost'.base[x] = editor'[x].revision
                      /\ stored'.plans = << >> => ghost'.base[x] = 0
                      /\ editor'[x].batch /\ ~ghost'.edited[x] /\ ~ghost'.raised[x] =>
                           /\ editor'[x].revision \in 1..Len(stored'.plans)
                           /\ editor'[x].entries = stored'.plans[editor'[x].revision]
    BY DEF Held
  <2>1. /\ ~ghost.raised[x] => ghost.base[x] = editor[x].revision
        /\ editor[x].batch /\ ~ghost.edited[x] /\ ~ghost.raised[x] =>
             /\ editor[x].revision \in 1..n
             /\ editor[x].entries = stored.plans[editor[x].revision]
    BY DEF EditorInv, Held, n
  <2>2. stored'.plans # << >>
    BY <1>4
  <2>3. \A k \in 1..n : k \in 1..(n + 1)
    BY <1>4
  <2> QED BY <1>4, <1>5, <2>1, <2>2, <2>3
<1>12. Received'
  <2> SUFFICES ASSUME NEW x \in Editors, NEW a \in Elements(unread'[x])
               PROVE  Genuine(a, stored'.plans)
    BY DEF Received
  <2>1. CASE a = m
    BY <1>4, <1>8, <2>1 DEF Genuine
  <2>2. CASE a \in Elements(unread[x])
    <3>1. Genuine(a, stored.plans)
      BY <2>2 DEF EditorInv, Received
    <3> QED BY <1>4, <3>1 DEF Genuine, n
  <2> QED BY <1>1, <2>1, <2>2 DEF Answered
<1>13. Filed'
  <2>1. /\ n = Len(stored.plans)
        /\ \A k \in 1..n : /\ Editor!WellFormed(stored.plans[k])
                           /\ ghost.lineage[k].raised \/ ghost.lineage[k].base = k - 1
    BY DEF EditorInv, Filed, n
  <2>2. source.raised = c.raised /\ source.base = c.base
    BY DEF source
  <2>3. ASSUME NEW k \in 1..(n + 1)
        PROVE  /\ Editor!WellFormed(stored'.plans[k])
               /\ ghost'.lineage[k].raised \/ ghost'.lineage[k].base = k - 1
    <3>1. CASE k \in 1..n
      BY <1>4, <1>6, <2>1, <3>1
    <3>2. CASE k = n + 1
      <4>1. stored'.plans[k] = c.entries /\ ghost'.lineage[k] = source /\ k - 1 = n
        BY <1>4, <1>6, <3>2
      <4> QED BY <1>7, <2>2, <4>1 DEF n
    <3> QED BY <1>9, <3>1, <3>2
  <2> QED BY <1>4, <1>6, <2>3 DEF Filed
<1> QED BY <1>1, <1>10, <1>11, <1>12, <1>13 DEF EditorInv, Answered

LEMMA ExecuteKeeps ==
  ASSUME EditorInv, NEW e \in Editors, Editor!Execute(e)
  PROVE  EditorInv'
<1> DEFINE c == Editor!Arrived(e)
<1>1. late[e] # << >> \/ commands[e] # << >>
  BY DEF Editor!Execute
<1>2. editor' = editor
  BY DEF Editor!Execute
<1>3. stored = [plans |-> stored.plans, active |-> stored.active, busy |-> stored.busy]
  BY DEF EditorInv, EditorTypes
<1>4. CASE /\ Editor!Stores(c)
           /\ stored' = [stored EXCEPT !.plans = Append(@, c.entries)]
           /\ Editor!Answer(e, Editor!Manifest(stored'.plans))
           /\ ghost' = [ghost EXCEPT !.lineage =
                Append(@, [base |-> c.base, raised |-> c.raised])]
  <2> HIDE DEF c
  <2>1. c = Editor!Arrived(e)
    BY DEF c
  <2> QED BY <1>1, <1>2, <1>4, <2>1, StoringKeeps
<1>5. CASE /\ stored.plans # << >> /\ Editor!Answer(e, Editor!Manifest(stored.plans))
           /\ UNCHANGED <<stored, ghost>>
  <2> DEFINE m == Editor!Manifest(stored.plans)
  <2>1. IsSequence(stored.plans) /\ stored.plans # << >>
    BY <1>5 DEF EditorInv, EditorTypes
  <2>2. Len(stored.plans) \in 1..Len(stored.plans)
    <3> DEFINE s == stored.plans
    <3>1. s \in Seq(Elements(s)) /\ s # << >>
      BY <2>1 DEF IsSequence
    <3> HIDE DEF s
    <3>2. Len(s) \in Nat /\ Len(s) # 0
      BY <3>1, EmptySeq, LenProperties
    <3> QED BY <3>2 DEF s
  <2>3. Genuine(m, stored.plans)
    BY <2>2 DEF Genuine, Editor!Manifest, Editor!Last
  <2> HIDE DEF m
  <2>4. Editor!Answer(e, m)
    BY <1>5 DEF m
  <2> QED BY <1>1, <1>2, <1>3, <1>5, <2>3, <2>4, ExecuteKeepsPlans
<1>6. CASE /\ stored' = [stored EXCEPT !.active = TRUE] /\ ghost' = ghost
           /\ Editor!Answer(e, Editor!Message("done"))
  <2> DEFINE m == Editor!Message("done")
             inforce == TRUE
  <2>1. Genuine(m, stored.plans)
    BY DEF Genuine, Editor!Message
  <2>2. stored' = [plans |-> stored.plans, active |-> inforce, busy |-> stored.busy]
    BY <1>3, <1>6
  <2> HIDE DEF m, inforce
  <2>3. /\ stored'.plans = stored.plans
        /\ stored' = [plans |-> stored'.plans, active |-> stored'.active, busy |-> stored'.busy]
    BY <2>2
  <2>4. Editor!Answer(e, m)
    BY <1>6 DEF m
  <2> QED BY <1>1, <1>2, <1>6, <2>1, <2>3, <2>4, ExecuteKeepsPlans
<1>7. CASE Editor!Answer(e, Editor!Message("error")) /\ UNCHANGED <<stored, ghost>>
  <2> DEFINE m == Editor!Message("error")
  <2>1. Genuine(m, stored.plans)
    BY DEF Genuine, Editor!Message
  <2> HIDE DEF m
  <2>2. Editor!Answer(e, m)
    BY <1>7 DEF m
  <2> QED BY <1>1, <1>2, <1>3, <1>7, <2>1, <2>2, ExecuteKeepsPlans
<1> QED BY <1>4, <1>5, <1>6, <1>7 DEF Editor!Execute

LEMMA ExposeKeeps ==
  ASSUME EditorInv, Editor!Expose
  PROVE  EditorInv'
<1> DEFINE busy == ~stored.busy
<1>1. /\ stored' = [stored EXCEPT !.busy = busy]
      /\ UNCHANGED <<editor, commands, late, unread, ghost>>
  BY DEF Editor!Expose
<1>2. stored = [plans |-> stored.plans, active |-> stored.active, busy |-> stored.busy]
  BY DEF EditorInv, EditorTypes
<1> HIDE DEF busy
<1>3. /\ stored'.plans = stored.plans
      /\ stored' = [plans |-> stored'.plans, active |-> stored'.active, busy |-> stored'.busy]
  BY <1>1, <1>2
<1>4. EditorTypes'
  BY <1>1, <1>3 DEF EditorInv, EditorTypes
<1>5. Held' /\ Sent' /\ Received' /\ Filed'
  BY <1>1, <1>3 DEF EditorInv, Held, Sent, Received, Filed
<1> QED BY <1>4, <1>5 DEF EditorInv

LEMMA PublishKeeps ==
  ASSUME EditorInv, Editor!PublishState
  PROVE  EditorInv'
<1> DEFINE m == Editor!State
<1>1. /\ unread' = [e \in Editors |-> Append(unread[e], m)]
      /\ UNCHANGED <<editor, commands, late, stored, ghost>>
  BY DEF Editor!PublishState
<1>2. Genuine(m, stored.plans)
  BY DEF Genuine, Editor!State
<1> HIDE DEF m
<1>3. /\ unread' = [e \in Editors |-> unread'[e]]
      /\ \A e \in Editors : unread'[e] = Append(unread[e], m)
  BY <1>1
<1>4. \A e \in Editors : IsSequence(unread'[e]) /\ Elements(unread'[e]) = Elements(unread[e]) \cup {m}
  <2> SUFFICES ASSUME NEW e \in Editors
               PROVE  IsSequence(unread'[e]) /\ Elements(unread'[e]) = Elements(unread[e]) \cup {m}
    OBVIOUS
  <2>1. IsSequence(unread[e])
    BY DEF EditorInv, EditorTypes
  <2>2. /\ IsSequence(Append(unread[e], m))
        /\ Elements(Append(unread[e], m)) = Elements(unread[e]) \cup {m}
    BY <2>1, AppendedTo
  <2> QED BY <1>3, <2>2
<1>5. EditorTypes'
  BY <1>1, <1>3, <1>4 DEF EditorInv, EditorTypes
<1>6. Received'
  BY <1>1, <1>2, <1>4 DEF EditorInv, Received
<1>7. Held' /\ Sent' /\ Filed'
  BY <1>1 DEF EditorInv, Held, Sent, Filed
<1> QED BY <1>5, <1>6, <1>7 DEF EditorInv

-----------------------------------------------------------------------------
(* An editor takes a message.                                               *)

\* A draft that was loaded, and one that was rendered.
LEMMA LoadedIs ==
  ASSUME NEW d, IsDraft(d), NEW m
  PROVE  /\ IsDraft(Editor!Loaded(d, m)) /\ Editor!Loaded(d, m).revision = m.revision
         /\ Editor!Loaded(d, m).entries = m.entries
<1> DEFINE yes == TRUE
           form == Editor!Blank
           f0 == [batch |-> d.batch, revision |-> d.revision, entries |-> d.entries,
                  order |-> d.order, typed |-> d.typed, seen |-> d.seen]
           f1 == [f0 EXCEPT !.batch = yes]
           f2 == [f1 EXCEPT !.revision = m.revision]
           f3 == [f2 EXCEPT !.entries = m.entries]
           f4 == [f3 EXCEPT !.order = << >>]
           f5 == [f4 EXCEPT !.typed = form]
<1>1. d = f0
  BY DEF IsDraft
<1> HIDE DEF yes, form
<1>2. f1 = [batch |-> yes, revision |-> d.revision, entries |-> d.entries,
            order |-> d.order, typed |-> d.typed, seen |-> d.seen]
  OBVIOUS
<1> HIDE DEF f1
<1>3. f2 = [batch |-> yes, revision |-> m.revision, entries |-> d.entries,
            order |-> d.order, typed |-> d.typed, seen |-> d.seen]
  BY <1>2
<1> HIDE DEF f2
<1>4. f3 = [batch |-> yes, revision |-> m.revision, entries |-> m.entries,
            order |-> d.order, typed |-> d.typed, seen |-> d.seen]
  BY <1>3
<1> HIDE DEF f3
<1>5. f4 = [batch |-> yes, revision |-> m.revision, entries |-> m.entries,
            order |-> << >>, typed |-> d.typed, seen |-> d.seen]
  BY <1>4
<1> HIDE DEF f4
<1>6. f5 = [batch |-> yes, revision |-> m.revision, entries |-> m.entries,
            order |-> << >>, typed |-> form, seen |-> d.seen]
  BY <1>5
<1>7. Editor!Loaded(d, m) = f5
  <2> HIDE DEF f0
  <2> QED BY <1>1 DEF Editor!Loaded, f1, f2, f3, f4, f5, yes, form
<1> HIDE DEF f5
<1> QED BY <1>6, <1>7 DEF IsDraft

LEMMA RenderedIs ==
  ASSUME NEW d, IsDraft(d), NEW m
  PROVE  /\ IsDraft(Editor!Rendered(d, m)) /\ Editor!Rendered(d, m).batch = d.batch
         /\ Editor!Rendered(d, m).entries = d.entries
<1> DEFINE s == [revision |-> m.revision, active |-> m.active, editable |-> m.editable]
           r == IF m.active /\ d.batch THEN m.revision ELSE d.revision
           f0 == [batch |-> d.batch, revision |-> d.revision, entries |-> d.entries,
                  order |-> d.order, typed |-> d.typed, seen |-> d.seen]
           f1 == [f0 EXCEPT !.seen = s]
           f2 == [f1 EXCEPT !.revision = r]
<1>1. d = f0
  BY DEF IsDraft
<1>2. Editor!Rendered(d, m) = f2
  <2> DEFINE g1 == [d EXCEPT !.seen = s]
  <2>1. g1.revision = d.revision
    <3> HIDE DEF s
    <3>1. [f0 EXCEPT !.seen = s].revision = d.revision
      OBVIOUS
    <3> QED BY <1>1, <3>1
  <2>2. Editor!Rendered(d, m) = [g1 EXCEPT !.revision = IF m.active /\ d.batch THEN m.revision ELSE @]
    BY DEF Editor!Rendered
  <2>3. g1 = f1
    <3> HIDE DEF f0, s
    <3> QED BY <1>1
  <2> HIDE DEF g1, f1
  <2> QED BY <2>1, <2>2, <2>3
<1> HIDE DEF s, r
<1>3. f1 = [batch |-> d.batch, revision |-> d.revision, entries |-> d.entries,
            order |-> d.order, typed |-> d.typed, seen |-> s]
  OBVIOUS
<1> HIDE DEF f1
<1>4. f2 = [batch |-> d.batch, revision |-> r, entries |-> d.entries,
            order |-> d.order, typed |-> d.typed, seen |-> s]
  BY <1>3
<1> HIDE DEF f2
<1> QED BY <1>2, <1>4 DEF IsDraft

\* A draft in place of another.
LEMMA Replaced ==
  ASSUME EditorInv, NEW e \in Editors, NEW d, editor' = [editor EXCEPT ![e] = d], IsDraft(d)
  PROVE  /\ editor' = [x \in Editors |-> editor'[x]] /\ editor'[e] = d
         /\ \A x \in Editors : IsDraft(editor'[x])
         /\ \A x \in Editors : x # e => editor'[x] = editor[x]
<1>1. editor = [x \in Editors |-> editor[x]] /\ \A x \in Editors : IsDraft(editor[x])
  BY DEF EditorInv, EditorTypes
<1>2. editor' = [x \in Editors |-> IF x = e THEN d ELSE editor[x]]
  BY <1>1
<1> QED BY <1>1, <1>2

LEMMA ManifestLoads ==
  ASSUME EditorInv, NEW e \in Editors, NEW m, Genuine(m, stored.plans), m.kind = "manifest",
         editor' = [editor EXCEPT ![e] = Editor!Loaded(editor[e], m)],
         ghost' = [ghost EXCEPT !.edited[e] = FALSE, !.raised[e] = FALSE,
                                !.base[e] = m.revision],
         stored' = stored
  PROVE  Drawn
<1> DEFINE d == Editor!Loaded(editor[e], m)
<1>1. IsDraft(d) /\ d.revision = m.revision /\ d.entries = m.entries
  BY SelfRevision, LoadedIs
<1>2. editor' = [editor EXCEPT ![e] = d]
  OBVIOUS
<1> HIDE DEF d
<1>3. /\ editor' = [x \in Editors |-> editor'[x]] /\ editor'[e] = d
      /\ \A x \in Editors : IsDraft(editor'[x])
      /\ \A x \in Editors : x # e => editor'[x] = editor[x]
  BY <1>1, <1>2, Replaced
<1>4. m.revision \in 1..Len(stored.plans) /\ m.entries = stored.plans[m.revision]
  BY DEF Genuine
<1>5. m.revision \in Nat /\ stored.plans # << >>
  <2>1. Len(<< >>) = 0 /\ Len(stored.plans) \in Nat
    <3> DEFINE s == stored.plans
    <3>1. s \in Seq(Elements(s))
      BY DEF EditorInv, EditorTypes, IsSequence
    <3> HIDE DEF s
    <3>2. Len(s) \in Nat
      BY <3>1, LenProperties
    <3> QED BY <3>2 DEF s
  <2> QED BY <1>4, <2>1
<1>6. ghost \in [edited : [Editors -> BOOLEAN], raised : [Editors -> BOOLEAN],
                 base : [Editors -> Nat], lineage : Seq([base : Nat, raised : BOOLEAN])]
  BY DEF EditorInv, EditorTypes
<1>7. /\ ghost' \in [edited : [Editors -> BOOLEAN], raised : [Editors -> BOOLEAN],
                     base : [Editors -> Nat], lineage : Seq([base : Nat, raised : BOOLEAN])]
      /\ ghost'.lineage = ghost.lineage
      /\ ghost'.edited = [ghost.edited EXCEPT ![e] = FALSE]
      /\ ghost'.raised = [ghost.raised EXCEPT ![e] = FALSE]
      /\ ghost'.base = [ghost.base EXCEPT ![e] = m.revision]
  BY <1>5, <1>6, GhostReset
<1>8. Held'
  <2> SUFFICES ASSUME NEW x \in Editors
               PROVE  /\ ~ghost'.raised[x] => ghost'.base[x] = editor'[x].revision
                      /\ stored'.plans = << >> => ghost'.base[x] = 0
                      /\ editor'[x].batch /\ ~ghost'.edited[x] /\ ~ghost'.raised[x] =>
                           /\ editor'[x].revision \in 1..Len(stored'.plans)
                           /\ editor'[x].entries = stored'.plans[editor'[x].revision]
    BY DEF Held
  <2>1. CASE x = e
    <3>1. ghost'.base[e] = m.revision
      BY <1>6, <1>7
    <3> QED BY <1>1, <1>3, <1>4, <1>5, <2>1, <3>1
  <2>2. CASE x # e
    <3>1. /\ ghost'.raised[x] = ghost.raised[x] /\ ghost'.edited[x] = ghost.edited[x]
          /\ ghost'.base[x] = ghost.base[x] /\ editor'[x] = editor[x]
      BY <1>3, <1>6, <1>7, <2>2
    <3> QED BY <3>1 DEF EditorInv, Held
  <2> QED BY <2>1, <2>2
<1> QED BY <1>3, <1>7, <1>8 DEF Drawn

LEMMA StateRenders ==
  ASSUME EditorInv, NEW e \in Editors, NEW m,
         editor' = [editor EXCEPT ![e] = Editor!Rendered(editor[e], m)],
         ghost' = [ghost EXCEPT !.raised[e] =
           @ \/ Editor!Rendered(editor[e], m).revision # editor[e].revision],
         stored' = stored
  PROVE  Drawn
<1> DEFINE d == Editor!Rendered(editor[e], m)
           v == ghost.raised[e] \/ d.revision # editor[e].revision
           g == [ghost EXCEPT !.raised[e] = v]
<1>1. IsDraft(d) /\ d.batch = editor[e].batch /\ d.entries = editor[e].entries
  BY SelfRevision, RenderedIs
<1>2. editor' = [editor EXCEPT ![e] = d] /\ ghost' = g
  OBVIOUS
<1> HIDE DEF d
<1>3. /\ editor' = [x \in Editors |-> editor'[x]] /\ editor'[e] = d
      /\ \A x \in Editors : IsDraft(editor'[x])
      /\ \A x \in Editors : x # e => editor'[x] = editor[x]
  BY <1>1, <1>2, Replaced
<1>4. ghost \in [edited : [Editors -> BOOLEAN], raised : [Editors -> BOOLEAN],
                 base : [Editors -> Nat], lineage : Seq([base : Nat, raised : BOOLEAN])]
  BY DEF EditorInv, EditorTypes
<1>5. v \in BOOLEAN /\ (~v => ~ghost.raised[e] /\ d.revision = editor[e].revision)
  BY <1>4
<1> HIDE DEF v
<1>6. /\ g \in [edited : [Editors -> BOOLEAN], raised : [Editors -> BOOLEAN],
                base : [Editors -> Nat], lineage : Seq([base : Nat, raised : BOOLEAN])]
      /\ g.raised = [ghost.raised EXCEPT ![e] = v] /\ g.edited = ghost.edited
      /\ g.base = ghost.base /\ g.lineage = ghost.lineage
  BY <1>4, <1>5, GhostSet
<1> HIDE DEF g
<1>7. ghost'.raised[e] = v /\ \A x \in Editors : x # e => ghost'.raised[x] = ghost.raised[x]
  BY <1>2, <1>4, <1>6
<1>8. Held'
  <2> SUFFICES ASSUME NEW x \in Editors
               PROVE  /\ ~ghost'.raised[x] => ghost'.base[x] = editor'[x].revision
                      /\ stored'.plans = << >> => ghost'.base[x] = 0
                      /\ editor'[x].batch /\ ~ghost'.edited[x] /\ ~ghost'.raised[x] =>
                           /\ editor'[x].revision \in 1..Len(stored'.plans)
                           /\ editor'[x].entries = stored'.plans[editor'[x].revision]
    BY DEF Held
  <2>1. /\ ~ghost.raised[x] => ghost.base[x] = editor[x].revision
        /\ stored.plans = << >> => ghost.base[x] = 0
        /\ editor[x].batch /\ ~ghost.edited[x] /\ ~ghost.raised[x] =>
             /\ editor[x].revision \in 1..Len(stored.plans)
             /\ editor[x].entries = stored.plans[editor[x].revision]
    BY DEF EditorInv, Held
  <2>2. CASE x = e
    BY <1>1, <1>2, <1>3, <1>5, <1>6, <1>7, <2>1, <2>2
  <2>3. CASE x # e
    BY <1>2, <1>3, <1>6, <1>7, <2>1, <2>3
  <2> QED BY <2>2, <2>3
<1> QED BY <1>2, <1>3, <1>6, <1>8 DEF Drawn

LEMMA TakeKeeps ==
  ASSUME EditorInv, NEW e \in Editors, Editor!TakeMessage(e)
  PROVE  EditorInv'
<1> DEFINE m == Head(unread[e])
<1>1. Shrunk(unread, unread', e) /\ UNCHANGED <<commands, late, stored>>
  BY DEF Editor!TakeMessage, Shrunk
<1>2. /\ IsQueue(unread') /\ m \in Elements(unread[e])
      /\ \A x \in Editors : Elements(unread'[x]) \subseteq Elements(unread[x])
  BY <1>1, QueuesAre, QueueShrinks
<1>3. Genuine(m, stored.plans)
  BY <1>2 DEF EditorInv, Received
<1>4. Drawn
  <2>1. CASE m.kind = "manifest"
    <3>1. /\ editor' = [editor EXCEPT ![e] = Editor!Loaded(editor[e], m)]
          /\ ghost' = [ghost EXCEPT !.edited[e] = FALSE, !.raised[e] = FALSE,
                                    !.base[e] = m.revision]
      BY <2>1 DEF Editor!TakeMessage
    <3> HIDE DEF m
    <3> QED BY <1>1, <1>3, <2>1, <3>1, ManifestLoads
  <2>2. CASE m.kind = "state"
    <3>1. /\ editor' = [editor EXCEPT ![e] = Editor!Rendered(editor[e], m)]
          /\ ghost' = [ghost EXCEPT !.raised[e] =
               @ \/ Editor!Rendered(editor[e], m).revision # editor[e].revision]
      BY <2>2 DEF Editor!TakeMessage
    <3> HIDE DEF m
    <3> QED BY <1>1, <3>1, StateRenders
  <2>3. CASE m.kind # "manifest" /\ m.kind # "state"
    <3>1. UNCHANGED <<editor, ghost>>
      BY <2>3 DEF Editor!TakeMessage
    <3> QED BY <1>1, <3>1, StillDrawn
  <2> QED BY <2>1, <2>2, <2>3
<1> HIDE DEF m
<1>5. EditorTypes'
  BY <1>1, <1>2, <1>4 DEF EditorInv, EditorTypes, Drawn, IsQueue
<1>6. Received' /\ Sent' /\ Filed'
  BY <1>1, <1>2, <1>4 DEF EditorInv, Received, Sent, Filed, Drawn
<1> QED BY <1>4, <1>5, <1>6 DEF EditorInv, Drawn

-----------------------------------------------------------------------------
LEMMA EditorInvNext == EditorInv /\ [Editor!Next]_(Editor!editorVars) => EditorInv'
<1> SUFFICES ASSUME EditorInv, [Editor!Next]_(Editor!editorVars) PROVE EditorInv'
  OBVIOUS
<1>1. CASE UNCHANGED Editor!editorVars
  BY <1>1 DEF Editor!editorVars, EditorInv, EditorTypes, Held, Sent, Received, Filed
<1>2. CASE Editor!Expose \/ Editor!PublishState
  BY <1>2, ExposeKeeps, PublishKeeps
<1>3. ASSUME NEW e \in Editors,
             \/ Editor!Type(e) \/ Editor!ApplyOverrides(e) \/ Editor!ClearOverrides(e)
             \/ Editor!Toggle(e) \/ Editor!Generate(e) \/ Editor!RemoveEntry(e)
             \/ Editor!MoveEntry(e) \/ Editor!NewDraft(e)
      PROVE  EditorInv'
  BY <1>3, FormKeeps, ToggleKeeps, EntriesKeep, NewDraftKeeps
<1>4. ASSUME NEW e \in Editors,
             \/ Editor!SaveNew(e) \/ Editor!SaveRevision(e) \/ Editor!LoadSelected(e)
             \/ Editor!Activate(e) \/ Editor!Execute(e) \/ Editor!GiveUp(e)
             \/ Editor!TakeMessage(e)
      PROVE  EditorInv'
  BY <1>4, RequestKeeps, ExecuteKeeps, GiveUpKeeps, TakeKeeps
<1> QED BY <1>1, <1>2, <1>3, <1>4 DEF Editor!Next

\* Whatever the editors do, and whatever waits run out: a draft nobody changed
\* is the plan of the revision its editor holds, and a plan is stored only by an
\* editor that held the one before it or was given its number (SaveRevision,
\* MayUpdate, Loaded).
THEOREM SavesFollow == Editor!Spec => []SavesFollowWhatWasLoaded
<1>1. EditorInv => SavesFollowWhatWasLoaded
  BY DEF EditorInv, Held, Filed, SavesFollowWhatWasLoaded, Editor!SavesFollowWhatWasLoaded
<1> QED BY <1>1, EditorInvInit, EditorInvNext, PTL DEF Editor!Spec

-----------------------------------------------------------------------------
(* The composition.                                                         *)

\* Every behaviour of the composed plans is one of each part, so the theorems
\* of the parts hold for what is model-checked together.
THEOREM PlansAreTheirParts == PlansSpec => Spec /\ StoreSpec /\ Editor!Spec /\ Transfer!Spec
<1>1. PlansInit => Init /\ StoreInit /\ Editor!Init /\ Transfer!Init
  BY DEF PlansInit
<1>2. [PlansNext]_allVars =>
        /\ [Next]_vars /\ [StoreNext]_storeVars
        /\ [Editor!Next]_(Editor!editorVars) /\ [Transfer!Next]_(Transfer!transferVars)
  <2> SUFFICES ASSUME [PlansNext]_allVars
               PROVE  /\ [Next]_vars /\ [StoreNext]_storeVars
                      /\ [Editor!Next]_(Editor!editorVars) /\ [Transfer!Next]_(Transfer!transferVars)
    OBVIOUS
  <2>1. editorVars' = editorVars => UNCHANGED Editor!editorVars
    BY DEF editorVars, Editor!editorVars
  <2>2. transferVars' = transferVars => UNCHANGED Transfer!transferVars
    BY DEF transferVars, Transfer!transferVars
  <2>3. \/ allVars' = allVars
        \/ Next /\ UNCHANGED <<editorVars, storeVars, transferVars>>
        \/ Editor!Next /\ UNCHANGED <<vars, storeVars, transferVars>>
        \/ StoreNext /\ UNCHANGED <<vars, editorVars, transferVars>>
        \/ Transfer!Next /\ UNCHANGED <<vars, editorVars, storeVars>>
    BY DEF PlansNext
  <2>4. CASE allVars' = allVars
    BY <2>1, <2>2, <2>4 DEF allVars
  <2> QED BY <2>1, <2>2, <2>3, <2>4
<1> QED BY <1>1, <1>2, PTL DEF PlansSpec, Spec, StoreSpec, Editor!Spec, Transfer!Spec

=============================================================================
