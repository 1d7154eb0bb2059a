------------------------ MODULE BatchController_proofs ------------------------
(***************************************************************************)
(* Proofs about the batch controller, for every set of batches, plans,     *)
(* outcomes, commands and faults and every bound.                          *)
(***************************************************************************)
EXTENDS BatchController, WellFoundedInduction, FiniteSetTheorems, TLAPS

-----------------------------------------------------------------------------
(* Smallest and largest elements, which First, Last and LastEnded choose.   *)

LEMMA NatMinimum ==
  ASSUME NEW S \in SUBSET Nat, S # {}
  PROVE  \E x \in S : \A y \in S : x <= y
<1> DEFINE R == OpToRel(<, Nat)
<1>1. IsWellFoundedOn(R, Nat)
  BY NatLessThanWellFounded
<1>2. PICK x \in S : \A y \in S : <<y, x>> \notin R
  <2> HIDE DEF R
  <2> QED BY <1>1, WFMin
<1>3. \A y \in S : ~ (y < x)
  BY <1>2 DEF OpToRel
<1> QED BY <1>3

LEMMA NatMaximum ==
  ASSUME NEW n \in Nat, NEW S \in SUBSET (0..n), S # {}
  PROVE  \E x \in S : \A y \in S : y <= x
<1> DEFINE T == {m \in 0..n : n - m \in S}
<1>1. T \in SUBSET Nat
  OBVIOUS
<1>2. T # {}
  <2>1. PICK x \in S : TRUE
    OBVIOUS
  <2>2. n - x \in 0..n /\ n - (n - x) = x
    BY <2>1
  <2> QED BY <2>1, <2>2
<1>3. PICK t \in T : \A u \in T : t <= u
  <2> HIDE DEF T
  <2> QED BY <1>1, <1>2, NatMinimum
<1>4. \A y \in S : y <= n - t
  <2> TAKE y \in S
  <2>1. n - y \in 0..n /\ n - (n - y) = y
    OBVIOUS
  <2>2. t <= n - y
    BY <1>3, <2>1
  <2> QED BY <2>2
<1> QED BY <1>3, <1>4

LEMMA FirstIsSmallest ==
  ASSUME NEW S \in SUBSET Nat, S # {}
  PROVE  First(S) \in S /\ \A q \in S : First(S) <= q
BY NatMinimum DEF First

LEMMA LastIsLargest ==
  ASSUME NEW n \in Nat, NEW S \in SUBSET (0..n), S # {}
  PROVE  Last(S) \in S /\ \A q \in S : q <= Last(S)
BY NatMaximum DEF Last

\* The run that ended last exists among any runs of a bounded history.
LEMMA LastEndedIsARun ==
  ASSUME NEW n \in Nat, NEW m \in Nat, NEW h, NEW S \in SUBSET (1..n), S # {},
         \A r \in S : h[r].end_time \in 0..m
  PROVE  LastEnded(S, h) \in S
<1> DEFINE E == {e \in 0..m : \E q \in S : h[q].end_time = e}
<1>1. PICK e \in E : \A f \in E : f <= e
  <2>1. E # {}
    OBVIOUS
  <2> HIDE DEF E
  <2>2. E \in SUBSET (0..m)
    BY DEF E
  <2> QED BY <2>1, <2>2, NatMaximum
<1> DEFINE Q == {q \in S : h[q].end_time = e}
<1>2. PICK r \in Q : \A q \in Q : q <= r
  <2>1. Q # {}
    OBVIOUS
  <2>2. Q \subseteq S /\ S \subseteq 0..n
    OBVIOUS
  <2> HIDE DEF Q
  <2> QED BY <2>1, <2>2, NatMaximum
<1>3. \A q \in S : \/ h[q].end_time < h[r].end_time
                   \/ h[q].end_time = h[r].end_time /\ q <= r
  <2> TAKE q \in S
  <2>1. h[q].end_time \in E
    OBVIOUS
  <2>2. h[q].end_time <= e /\ h[r].end_time = e
    BY <1>1, <2>1
  <2>3. CASE h[q].end_time = e
    BY <1>2, <2>3
  <2>4. CASE h[q].end_time # e
    BY <2>2, <2>4
  <2> QED BY <2>3, <2>4
<1> QED BY <1>3 DEF LastEnded

-----------------------------------------------------------------------------
(* Which decisions each stage of the planner can take. *)

LEMMA ProgressKinds ==
  ASSUME NEW p, NEW h, NEW c, NEW a, NEW s
  PROVE  AssessProgress(p, h, c, a, s).kind \in
           {"pause_failure", "paused", "complete", "wait_controller", "start_remainder"}
BY DEF AssessProgress, About, Plain, Decision

\* What a pause changes in the last stage.
LEMMA PausedProgress ==
  ASSUME NEW p, NEW h, NEW c, NEW a,
         AssessProgress(p, h, c, a, TRUE) # AssessProgress(p, h, c, a, FALSE)
  PROVE  /\ AssessProgress(p, h, c, a, TRUE) = Plain("paused")
         /\ AssessProgress(p, h, c, a, FALSE).kind \in
              {"complete", "wait_controller", "start_remainder"}
BY DEF AssessProgress, About, Plain, Decision

\* The history lets the planner get to its last stage.
NothingPending(p, h, f) ==
  /\ Invalid(p, h) = {} /\ Active(h) = {}
  /\ f \cap DOMAIN h = {}
  /\ {r \in DOMAIN h : h[r].status = "unknown"} = {}
  /\ {r \in DOMAIN h : NeedsRepair(h[r])} = {}
  /\ {r \in DOMAIN h : Unusable(h[r])} = {}

LEMMA LastStage ==
  ASSUME NEW p, NEW h, NEW c, NEW f, NEW a, NEW k, NEW s,
         Assess(p, h, c, f, a, k, s).kind \notin
           {"wait_active", "wait_finalization", "repair_metrics", "pause_error",
            "wait_controller"}
  PROVE  /\ NothingPending(p, h, f)
         /\ Assess(p, h, c, f, a, k, s) = AssessProgress(p, h, c, a, s)
BY DEF Assess, AssessActive, AssessTerminal, NothingPending, About, Decision

LEMMA DecisionKinds ==
  ASSUME NEW p, NEW h, NEW c, NEW f, NEW a, NEW k, NEW s
  PROVE  /\ Assess(p, h, c, f, a, k, s).kind \in DecisionKind
         /\ s => Assess(p, h, c, f, a, k, s).kind \notin {"start_remainder", "complete"}
<1>1. AssessProgress(p, h, c, a, s).kind \in DecisionKind
  BY ProgressKinds DEF DecisionKind
<1>2. s => AssessProgress(p, h, c, a, s).kind \notin {"start_remainder", "complete"}
  BY DEF AssessProgress, About, Plain, Decision
<1>3. CASE Assess(p, h, c, f, a, k, s) = AssessProgress(p, h, c, a, s)
  BY <1>1, <1>2, <1>3
<1>4. CASE Assess(p, h, c, f, a, k, s) # AssessProgress(p, h, c, a, s)
  BY <1>4 DEF Assess, AssessActive, AssessTerminal, About, Decision, DecisionKind
<1> QED BY <1>3, <1>4

-----------------------------------------------------------------------------
(* Which runs a decision names. *)

\* Runs and end times of the history h are bounded.
Bounded(h, n, m) ==
  /\ n \in Nat /\ m \in Nat /\ DOMAIN h \subseteq 1..n
  /\ \A r \in DOMAIN h : h[r].end_time \in 0..m

\* A failure is about a run that is not acknowledged.
LEMMA ProgressNames ==
  ASSUME NEW n, NEW m, NEW h, Bounded(h, n, m), NEW p, NEW c, NEW a, NEW s,
         AssessProgress(p, h, c, a, s).kind = "pause_failure"
  PROVE  AssessProgress(p, h, c, a, s).run \in DOMAIN h \ a
<1> DEFINE d == AssessProgress(p, h, c, a, s)
           aborts == AbortBlockers(h, a)
           entry  == p[First(Incomplete(p, h))]
           runs   == RunsOf(entry.sample, h)
<1>1. CASE aborts # {}
  <2>1. d.run = LastEnded(aborts, h)
    BY <1>1 DEF AssessProgress, About, Decision
  <2>2. aborts \in SUBSET (1..n) /\ \A r \in aborts : h[r].end_time \in 0..m
    BY DEF AbortBlockers, Bounded
  <2>3. LastEnded(aborts, h) \in aborts
    <3> HIDE DEF aborts
    <3> QED BY <1>1, <2>2, LastEndedIsARun DEF Bounded
  <2> QED BY <2>1, <2>3 DEF AbortBlockers
<1>2. CASE aborts = {}
  <2>1. Shortfall(entry, h, a) /\ d.run = Last(runs)
    BY <1>2 DEF AssessProgress, About, Plain, Decision
  <2>2. runs \in SUBSET (0..n) /\ runs # {} /\ Last(runs) \notin a
    BY <2>1 DEF Shortfall, RunsOf, Bounded
  <2>3. Last(runs) \in runs
    <3> HIDE DEF runs
    <3> QED BY <2>2, LastIsLargest DEF Bounded
  <2> QED BY <2>1, <2>2, <2>3 DEF RunsOf
<1> QED BY <1>1, <1>2

\* A repair is of a run that needs one and is not given up.
LEMMA RepairNames ==
  ASSUME NEW n, NEW m, NEW h, Bounded(h, n, m),
         NEW p, NEW c, NEW f, NEW a, NEW k, NEW s,
         Assess(p, h, c, f, a, k, s).kind = "repair_metrics"
  PROVE  /\ Assess(p, h, c, f, a, k, s).run \in DOMAIN h \ k
         /\ NeedsRepair(h[Assess(p, h, c, f, a, k, s).run])
<1> DEFINE repair == {r \in DOMAIN h : NeedsRepair(h[r])}
<1>1. /\ repair # {} /\ First(repair) \notin k
      /\ Assess(p, h, c, f, a, k, s).run = First(repair)
  BY ProgressKinds DEF Assess, AssessActive, AssessTerminal, About, Decision
<1>2. repair \in SUBSET Nat
  BY DEF Bounded
<1> HIDE DEF repair
<1>3. First(repair) \in repair
  BY <1>1, <1>2, FirstIsSmallest
<1> QED BY <1>1, <1>3 DEF repair

-----------------------------------------------------------------------------
(* The types of decisions. *)

DecisionAbout(h) ==
  [kind : DecisionKind, run : DOMAIN h \cup {NoRun}, sample : Samples \cup {NoSample},
   amount : Nat]

WellTyped(p, h, n, m) ==
  /\ p \in Seq(PlanEntry) /\ Bounded(h, n, m)
  /\ \A r \in DOMAIN h : h[r].sample \in Samples

LEMMA SimpleDecisions ==
  ASSUME NEW p, NEW h, NEW n, NEW m, WellTyped(p, h, n, m), NEW kind \in DecisionKind
  PROVE  /\ Plain(kind) \in DecisionAbout(h)
         /\ \A r \in DOMAIN h : About(kind, h, r) \in DecisionAbout(h)
BY DEF WellTyped, Plain, About, Decision, DecisionAbout

\* The chosen runs are runs of the history.
LEMMA ChosenRuns ==
  ASSUME NEW h, NEW n, NEW m, Bounded(h, n, m), NEW S \in SUBSET DOMAIN h, S # {}
  PROVE  First(S) \in DOMAIN h /\ Last(S) \in DOMAIN h /\ LastEnded(S, h) \in DOMAIN h
<1>1. /\ n \in Nat /\ m \in Nat /\ S \in SUBSET (1..n) /\ S \in SUBSET (0..n)
      /\ S \in SUBSET Nat /\ \A r \in S : h[r].end_time \in 0..m
  BY DEF Bounded
<1>2. First(S) \in S
  BY <1>1, FirstIsSmallest
<1>3. Last(S) \in S
  BY <1>1, LastIsLargest
<1>4. LastEnded(S, h) \in S
  BY <1>1, LastEndedIsARun
<1> QED BY <1>2, <1>3, <1>4

\* A start is for a planned sample.
LEMMA StartNames ==
  ASSUME NEW p \in Seq(PlanEntry), NEW h, NEW c, NEW a, NEW s,
         AssessProgress(p, h, c, a, s).kind = "start_remainder"
  PROVE  AssessProgress(p, h, c, a, s).sample \in Samples
<1> DEFINE incomplete == Incomplete(p, h)
<1>1. /\ incomplete # {}
      /\ AssessProgress(p, h, c, a, s).sample = p[First(incomplete)].sample
  BY DEF AssessProgress, About, Plain, Decision
<1>2. incomplete \in SUBSET DOMAIN p /\ DOMAIN p \in SUBSET Nat
  BY DEF Incomplete
<1>3. First(incomplete) \in DOMAIN p
  <2> HIDE DEF incomplete
  <2> QED BY <1>1, <1>2, FirstIsSmallest
<1>4. p[First(incomplete)] \in PlanEntry
  BY <1>3
<1> QED BY <1>1, <1>4 DEF PlanEntry

LEMMA ProgressTyped ==
  ASSUME NEW p, NEW h, NEW n, NEW m, WellTyped(p, h, n, m), NEW c, NEW a, NEW s
  PROVE  AssessProgress(p, h, c, a, s) \in DecisionAbout(h)
<1> DEFINE d == AssessProgress(p, h, c, a, s)
           aborts == AbortBlockers(h, a)
           incomplete == Incomplete(p, h)
           entry  == p[First(incomplete)]
           runs   == RunsOf(entry.sample, h)
<1>0. /\ "pause_failure" \in DecisionKind /\ "paused" \in DecisionKind
      /\ "complete" \in DecisionKind /\ "wait_controller" \in DecisionKind
      /\ "start_remainder" \in DecisionKind
  BY DEF DecisionKind
<1>1. CASE aborts # {}
  <2>1. d = About("pause_failure", h, LastEnded(aborts, h))
    BY <1>1 DEF AssessProgress
  <2>2. aborts \in SUBSET DOMAIN h
    BY DEF AbortBlockers
  <2>3. LastEnded(aborts, h) \in DOMAIN h
    <3> HIDE DEF aborts
    <3> QED BY <1>1, <2>2, ChosenRuns DEF WellTyped
  <2> QED BY <1>0, <2>1, <2>3, SimpleDecisions
<1>2. CASE aborts = {} /\ incomplete # {} /\ Shortfall(entry, h, a)
  <2>1. d = About("pause_failure", h, Last(runs))
    BY <1>2 DEF AssessProgress
  <2>2. runs \in SUBSET DOMAIN h /\ runs # {}
    BY <1>2 DEF RunsOf, Shortfall
  <2>3. Last(runs) \in DOMAIN h
    <3> HIDE DEF runs
    <3> QED BY <2>2, ChosenRuns DEF WellTyped
  <2> QED BY <1>0, <2>1, <2>3, SimpleDecisions
<1>3. CASE aborts = {} /\ ~(incomplete # {} /\ Shortfall(entry, h, a))
  <2>1. \/ d \in {Plain("paused"), Plain("complete"), Plain("wait_controller")}
        \/ /\ incomplete # {}
           /\ d = Decision("start_remainder", NoRun, entry.sample, Remainder(entry, h))
    BY <1>3 DEF AssessProgress
  <2>2. ASSUME incomplete # {} PROVE entry.sample \in Samples
    <3>1. incomplete \in SUBSET Nat
      BY DEF Incomplete, WellTyped
    <3>2. First(incomplete) \in incomplete
      <4> HIDE DEF incomplete
      <4> QED BY <2>2, <3>1, FirstIsSmallest
    <3>3. entry \in PlanEntry
      BY <3>2 DEF Incomplete, WellTyped
    <3> QED BY <3>3 DEF PlanEntry
  <2>3. Remainder(entry, h) \in Nat
    BY DEF Remainder
  <2> HIDE DEF incomplete, entry, d
  <2>4. CASE d \in {Plain("paused"), Plain("complete"), Plain("wait_controller")}
    BY <1>0, <2>4, SimpleDecisions DEF d
  <2>5. CASE /\ incomplete # {}
             /\ d = Decision("start_remainder", NoRun, entry.sample, Remainder(entry, h))
    BY <1>0, <2>2, <2>3, <2>5 DEF Decision, DecisionAbout, d
  <2> QED BY <2>1, <2>4, <2>5 DEF d
<1> QED BY <1>1, <1>2, <1>3

LEMMA DecisionTyped ==
  ASSUME NEW p, NEW h, NEW n, NEW m, WellTyped(p, h, n, m),
         NEW c, NEW f, NEW a, NEW k, NEW s
  PROVE  Assess(p, h, c, f, a, k, s) \in DecisionAbout(h)
<1> DEFINE d == Assess(p, h, c, f, a, k, s)
           sets == {Invalid(p, h), Active(h), f \cap DOMAIN h,
                    {r \in DOMAIN h : h[r].status = "unknown"},
                    {r \in DOMAIN h : NeedsRepair(h[r])},
                    {r \in DOMAIN h : Unusable(h[r])}}
<1>1. \/ d = AssessProgress(p, h, c, a, s)
      \/ \E S \in sets, kind \in DecisionKind :
           /\ S # {}
           /\ \/ d = About(kind, h, First(S)) \/ d = About(kind, h, Last(S))
              \/ d = About(kind, h, LastEnded(S, h))
  <2>1. CASE Invalid(p, h) # {}
    BY <2>1 DEF Assess, DecisionKind
  <2>2. CASE Invalid(p, h) = {} /\ Active(h) # {}
    <3>1. d \in {About(kind, h, First(Active(h))) :
                   kind \in {"wait_controller", "wait_active", "pause_error"}}
             \cup {About("pause_error", h, Last(Active(h)))}
      BY <2>2 DEF Assess, AssessActive
    <3> QED BY <2>2, <3>1 DEF DecisionKind
  <2>3. CASE Invalid(p, h) = {} /\ Active(h) = {}
    BY <2>3 DEF Assess, AssessTerminal, DecisionKind
  <2> QED BY <2>1, <2>2, <2>3
<1>2. \A S \in sets : S \in SUBSET DOMAIN h
  BY DEF Invalid, Active
<1>3. ASSUME NEW S \in sets, NEW kind \in DecisionKind, S # {}
      PROVE  /\ About(kind, h, First(S)) \in DecisionAbout(h)
             /\ About(kind, h, Last(S)) \in DecisionAbout(h)
             /\ About(kind, h, LastEnded(S, h)) \in DecisionAbout(h)
  <2> HIDE DEF sets
  <2>1. First(S) \in DOMAIN h /\ Last(S) \in DOMAIN h /\ LastEnded(S, h) \in DOMAIN h
    BY <1>2, <1>3, ChosenRuns DEF WellTyped
  <2> QED BY <2>1, SimpleDecisions
<1>4. AssessProgress(p, h, c, a, s) \in DecisionAbout(h)
  BY ProgressTyped
<1> HIDE DEF d, sets
<1> QED BY <1>1, <1>3, <1>4 DEF d

-----------------------------------------------------------------------------
(* Types, in four parts, with what keeps them inductive: a run whose repair *)
(* is not blocked has repairs left, a failure names its run, a start names  *)
(* its sample, and a poll is about a batch.                                 *)

ManifestsTyped ==
  /\ store \in [Batches -> Manifest] /\ known \in [Batches -> Manifest]
  /\ active \in Batches \cup {NoBatch} /\ manifest \in Manifest

RunsTyped ==
  /\ attempts \in Seq(Run) /\ Len(attempts) <= MaxRuns
  /\ settled \subseteq DOMAIN attempts
  /\ lease \in {"none", "batch", "other"}
  /\ current \in DOMAIN attempts \cup {NoRun, ForeignRun}

GoodCoordinator(c) ==
  /\ c \in Coordinator
  /\ \A r \in 1..MaxRuns : r \notin c.blocked => c.repairs[r] < RepairLimit
  /\ c.last.kind = "pause_failure" => c.last.run \in 1..MaxRuns
  /\ c.last.kind = "start_remainder" => c.last.sample \in Samples

CoordTyped ==
  /\ leaseOwned \in BOOLEAN /\ unanswered \in BOOLEAN
  /\ mode \in {"manual", "automatic"}
  /\ coordLive \in BOOLEAN /\ GoodCoordinator(coord)

WorkerTyped ==
  /\ pc \in Places /\ task \in Tasks /\ starting \in BOOLEAN
  /\ DOMAIN loaded \subseteq DOMAIN attempts /\ \A r \in DOMAIN loaded : loaded[r] \in Run
  /\ seen \in [available : BOOLEAN, idle : BOOLEAN,
               run : DOMAIN attempts \cup {NoRun, ForeignRun}]
  /\ repaired \subseteq DOMAIN attempts
  /\ consent \in BOOLEAN /\ alarm \in BOOLEAN
  /\ pc \notin {"down", "idle"} => active # NoBatch
  /\ pc = "start" => coord.last.kind = "start_remainder"

TypeInv == ManifestsTyped /\ RunsTyped /\ CoordTyped /\ WorkerTyped

-----------------------------------------------------------------------------
(* What the saves do to the manifests, on disk and in memory.               *)

\* A save of m for b that raised: by a fault, perhaps after it was written, or
\* because of the revision on disk.
Raised(b, m) ==
  /\ UNCHANGED known
  /\ \/ "save" \in Faults /\ store' \in {store, [store EXCEPT ![b] = m]}
     \/ store[b].revision # m.revision /\ UNCHANGED store

Created(p) == [NoManifest EXCEPT !.status = "draft", !.paused = TRUE, !.plan = p,
                                 !.revision = 1]

Updated(b, p) == [known[b] EXCEPT !.plan = p, !.revision = @ + 1]

Withdrawn(b) == [known[b] EXCEPT !.status = "withdrawn", !.paused = TRUE]

Unwithdrawn(b) == [known[b] EXCEPT !.status = "draft", !.paused = TRUE,
                                   !.cancel_pending = FALSE]

Finished ==
  [manifest EXCEPT
     !.status = IF manifest.cancel_pending THEN "cancelled" ELSE "completed",
     !.paused = TRUE, !.cancel_pending = FALSE, !.acknowledged = coord.acknowledged]

Onlookers == <<active, manifest, coordLive, coord, leaseOwned, unanswered, lease, mode,
               worker, ghosts, attempts>>

LEMMA CreateWrites ==
  ASSUME NEW b \in Batches, NEW p \in Plans, Create(b, p)
  PROVE  /\ Saved(b, Created(p)) \/ Raised(b, Created(p))
         /\ pc = "idle" /\ store[b].status = "absent" /\ MaxRevision > 0
         /\ UNCHANGED Onlookers
BY DEF Create, Free, Created, SaveRaised, Raised, OnlyManifests, SameLease, Unaffected,
   Onlookers

LEMMA UpdateWrites ==
  ASSUME NEW b \in Batches, NEW p \in Plans, Update(b, p)
  PROVE  /\ \/ /\ Saved(b, Updated(b, p))
               /\ manifest' = IF active = b THEN Updated(b, p) ELSE manifest
               /\ coord' \in {coord, [coord EXCEPT !.plan = p, !.last = NoDecision]}
            \/ Raised(b, Updated(b, p)) /\ UNCHANGED <<manifest, coord>>
         /\ pc = "idle" /\ known[b].status \notin Archived \cup {"absent"}
         /\ known[b].revision < MaxRevision /\ store[b].revision = known[b].revision
         /\ UNCHANGED <<active, coordLive, leaseOwned, unanswered, lease, mode, worker, ghosts>>
BY DEF Update, Free, Updated, SaveRaised, Raised, SameLease, Unaffected

LEMMA WithdrawalWrites ==
  ASSUME NEW b \in Batches, Withdraw(b) \/ Unwithdraw(b)
  PROVE  /\ \E m \in {Withdrawn(b), Unwithdrawn(b)} : Saved(b, m) \/ Raised(b, m)
         /\ pc = "idle" /\ known[b].status \in {"draft", "withdrawn"}
         /\ UNCHANGED Onlookers
BY DEF Withdraw, Unwithdraw, Free, Withdrawn, Unwithdrawn, SaveControlState, SaveRaised,
   Raised, OnlyManifests, SameLease, Unaffected, Onlookers

LEMMA ActivationWrites ==
  ASSUME NEW b \in Batches, Activate(b)
  PROVE  /\ \/ /\ Saved(b, Activated(b)) /\ manifest' = Activated(b) /\ active' = b
               /\ coordLive' = TRUE /\ coord' = NewCoordinator(Activated(b))
               /\ lease' = "batch" /\ leaseOwned' = TRUE
               /\ consent' = TRUE /\ alarm' = FALSE /\ BeginPoll("auto")
            \/ /\ Raised(b, Activated(b)) \/ UNCHANGED <<store, known>>
               /\ lease' = "batch" /\ leaseOwned' \in {leaseOwned, TRUE}
               /\ NotActivated
         /\ pc = "idle" /\ active = NoBatch /\ known[b].status \in {"draft", "cancelled"}
         /\ UNCHANGED <<unanswered, mode>>
BY DEF Activate, Free, MayActivate, SaveControlState, SaveRaised, Raised, GrantUnheard,
   Unaffected

\* What a pause, a cancellation or a resume makes of the manifest.
Relabelled(m) ==
  /\ m \in Manifest /\ m.status = manifest.status /\ m.plan = manifest.plan
  /\ m.revision = manifest.revision /\ m.acknowledged = manifest.acknowledged

LEMMA ControlWrites ==
  ASSUME ManifestsTyped, Pause \/ Cancel \/ Resume
  PROVE  /\ \E m : /\ Relabelled(m) /\ manifest' = m
                   /\ \/ /\ Saved(active, m)
                         /\ BeginPoll("look") \/ (Resume /\ BeginPoll("auto"))
                      \/ Raised(active, m) /\ ToIdle
         /\ pc = "idle" /\ active \in Batches /\ active # NoBatch /\ coordLive
         /\ UNCHANGED <<active, coordLive, lease, leaseOwned, unanswered, mode>>
<1> DEFINE P == [manifest EXCEPT !.paused = TRUE]
           C == [manifest EXCEPT !.paused = TRUE, !.cancel_pending = TRUE]
           R == [manifest EXCEPT !.paused = FALSE]
<1>1. manifest \in Manifest /\ active \in Batches \cup {NoBatch}
  BY DEF ManifestsTyped
<1>2. Relabelled(P) /\ Relabelled(C) /\ Relabelled(R)
  BY <1>1 DEF Relabelled, Manifest
<1>3. /\ pc = "idle" /\ active \in Batches /\ active # NoBatch /\ coordLive
      /\ UNCHANGED <<active, coordLive, lease, leaseOwned, unanswered, mode>>
  BY <1>1 DEF Pause, Cancel, Resume, Commandable, Free, SameRuntime, SameLease, Unaffected
<1> HIDE DEF P, C, R
<1>4. CASE Pause
  <2>1. /\ manifest' = P
        /\ (Saved(active, P) /\ BeginPoll("look")) \/ (Raised(active, P) /\ ToIdle)
    BY <1>4 DEF Pause, SaveActive, SaveControlState, SaveRaised, Raised, P
  <2> QED BY <1>2, <1>3, <2>1
<1>5. CASE Cancel
  <2>1. /\ manifest' = C
        /\ (Saved(active, C) /\ BeginPoll("look")) \/ (Raised(active, C) /\ ToIdle)
    BY <1>5 DEF Cancel, SaveActive, SaveControlState, SaveRaised, Raised, C
  <2> QED BY <1>2, <1>3, <2>1
<1>6. CASE Resume
  <2>1. /\ manifest' = R
        /\ (Saved(active, R) /\ BeginPoll("auto")) \/ (Raised(active, R) /\ ToIdle)
    BY <1>6 DEF Resume, SaveActive, SaveControlState, SaveRaised, Raised, R
  <2> QED BY <1>2, <1>3, <1>6, <2>1
<1> QED BY <1>4, <1>5, <1>6

LEMMA DispatchWrites ==
  ASSUME Dispatch
  PROVE  /\ \/ UNCHANGED <<store, known, manifest>> /\ ToIdle
            \/ /\ Synced = manifest /\ UNCHANGED <<store, known, manifest>>
               /\ ActOnDecision(manifest)
            \/ /\ manifest' = Synced
               /\ \/ Saved(active, Synced) /\ ActOnDecision(Synced)
                  \/ Raised(active, Synced) /\ ToIdle
         /\ pc = "dispatch" /\ StaysLive
BY DEF Dispatch, SaveActive, SaveControlState, SaveRaised, Raised

LEMMA FinishWrites ==
  ASSUME FinishActive
  PROVE  /\ \/ /\ Saved(active, Finished)
               /\ coordLive' = FALSE /\ coord' = NoCoordinator /\ GoTo("release")
            \/ Raised(active, Finished) /\ UNCHANGED <<coordLive, coord>> /\ ToIdle
         /\ pc = "finish"
         /\ UNCHANGED <<attempts, settled, current, mode, lease, leaseOwned, unanswered,
                        active, manifest, ghosts>>
BY DEF FinishActive, Finished, SaveControlState, SaveRaised, Raised, SameLease, Unaffected

\* The steps that write to the run library.
WritesRuns ==
  \/ RepairMetrics \/ StartExposure
  \/ \E outcome \in Outcomes : RunEnds(outcome)
  \/ \E r \in DOMAIN attempts : MetricsRecorded(r)

LEMMA RunsUnchanged ==
  ASSUME Next, ~WritesRuns
  PROVE  UNCHANGED attempts
<1>1. ASSUME Boot \/ Crash \/ Shutdown PROVE UNCHANGED attempts
  BY <1>1 DEF Boot, Crash, Shutdown, Down
<1>2. ASSUME Command PROVE UNCHANGED attempts
  BY <1>2 DEF Command, Create, Update, Activate, NotActivated, Withdraw, Unwithdraw, OnlyManifests, Pause, Resume,
     Continue, Cancel, Refresh, SetMode, Unaffected
<1>3. ASSUME Timer PROVE UNCHANGED attempts
  BY <1>3 DEF Timer, Unaffected
<1>4. ASSUME Poll PROVE UNCHANGED attempts
  BY <1>4 DEF WritesRuns, Poll, EnsureActiveRuntime, LoadAttempts, ReadController,
     SourceFailure, Publish, Dispatch, StaysLive, CheckCancel, FinishActive,
     ReleaseAutomation, StartRefused, Unaffected, PollOnly, durable
<1>5. ASSUME Environment PROVE UNCHANGED attempts
  BY <1>5 DEF WritesRuns, Environment, Settle, RunOrphaned, ForeignRunChanges, QueueLease, ReleaseCarriedOut
<1> QED BY <1>1, <1>2, <1>3, <1>4, <1>5 DEF Next

-----------------------------------------------------------------------------
(* The run library and the exposure controller. *)

LEMMA RunInLibrary ==
  ASSUME RunsTyped
  PROVE  /\ Len(attempts) \in Nat /\ MaxRuns \in Nat
         /\ DOMAIN attempts = 1..Len(attempts) /\ DOMAIN attempts \subseteq 1..MaxRuns
         /\ \A r \in DOMAIN attempts : attempts[r] \in Run
         /\ NoRun \notin Nat
<1>1. attempts \in Seq(Run) /\ Len(attempts) <= MaxRuns /\ MaxRuns \in Nat
  BY ScopeAssumption DEF RunsTyped
<1> QED BY <1>1, ValuesAssumption

\* Writing to a run of the library.
LEMMA RunWritten ==
  ASSUME RunsTyped, NEW r \in DOMAIN attempts, NEW new \in Run,
         attempts' = [attempts EXCEPT ![r] = new],
         UNCHANGED <<settled, lease>>, current' \in {current, NoRun}
  PROVE  RunsTyped' /\ DOMAIN attempts' = DOMAIN attempts /\ Len(attempts') = Len(attempts)
<1>1. /\ attempts' \in Seq(Run) /\ Len(attempts') = Len(attempts)
      /\ DOMAIN attempts' = DOMAIN attempts
  BY DEF RunsTyped
<1> QED BY <1>1 DEF RunsTyped

LEMMA RunStarted ==
  ASSUME TypeInv, StartExposure
  PROVE  RunsTyped' /\ Len(attempts') = Len(attempts) + 1
<1> DEFINE new ==
      [sample |-> coord.last.sample, status |-> "active", end_time |-> 0,
       dose |-> Missing, runtime |-> Missing, snapshots |-> FALSE, valid |-> TRUE,
       batch |-> active, revision |-> manifest.revision,
       amount |-> coord.last.amount, measured |-> [dose |-> 0, runtime |-> 0]]
<1>1. coord.last.sample \in Samples /\ active \in Batches /\ coord.last.amount \in Nat
  BY DEF TypeInv, WorkerTyped, CoordTyped, ManifestsTyped, StartExposure,
        GoodCoordinator, Coordinator
<1>2. manifest.revision \in 0..MaxRevision /\ MaxRuns \in Nat
  BY ScopeAssumption DEF TypeInv, ManifestsTyped, Manifest
<1>3. new \in Run
  BY <1>1, <1>2 DEF Run, RunStatus, Metric, Metrics
<1>4. attempts' = Append(attempts, new)
  BY DEF StartExposure
<1>5. /\ attempts' \in Seq(Run) /\ Len(attempts') = Len(attempts) + 1
      /\ DOMAIN attempts \subseteq DOMAIN attempts' /\ Len(attempts) + 1 \in DOMAIN attempts'
  <2> HIDE DEF new
  <2>1. attempts \in Seq(Run)
    BY DEF TypeInv, RunsTyped
  <2> QED BY <1>3, <1>4, <2>1
<1>6. Len(attempts') <= MaxRuns
  BY <1>2, <1>5 DEF TypeInv, RunsTyped, StartExposure
<1> QED BY <1>5, <1>6 DEF TypeInv, RunsTyped, StartExposure

\* The run a repair is about, and what the repair writes.
Repaired(r) ==
  [attempts[r] EXCEPT !.dose = attempts[r].measured.dose,
                      !.runtime = attempts[r].measured.runtime]

LEMMA RepairedTyped ==
  ASSUME RunsTyped, NEW r \in DOMAIN attempts
  PROVE  /\ Repaired(r) \in Run
         /\ [attempts EXCEPT ![r].dose = attempts[r].measured.dose,
                             ![r].runtime = attempts[r].measured.runtime]
              = [attempts EXCEPT ![r] = Repaired(r)]
<1>1. attempts[r] \in Run
  BY RunInLibrary
<1>2. attempts[r].measured.dose \in Metric /\ attempts[r].measured.runtime \in Metric
  BY <1>1 DEF Run, Metrics, Metric
<1>3. Repaired(r) \in Run
  BY <1>1, <1>2 DEF Run, Repaired
<1>4. attempts \in Seq(Run)
  BY DEF RunsTyped
<1>5. [attempts EXCEPT ![r].dose = attempts[r].measured.dose,
                       ![r].runtime = attempts[r].measured.runtime]
        = [attempts EXCEPT ![r] = Repaired(r)]
  BY <1>1, <1>4 DEF Run, Repaired
<1> QED BY <1>3, <1>5

-----------------------------------------------------------------------------
(* What a poll assesses is a well-typed history. *)

LEMMA AssessedTyped ==
  ASSUME TypeInv
  PROVE  /\ Assessed \in DecisionAbout(loaded)
         /\ Assessed.kind = "repair_metrics" =>
              Assessed.run \in DOMAIN attempts \ coord.blocked
         /\ Assessed.kind = "pause_failure" => Assessed.run \in 1..MaxRuns
         /\ Assessed.kind = "start_remainder" => Assessed.sample \in Samples
<1>1. DOMAIN loaded \subseteq DOMAIN attempts /\ DOMAIN loaded \subseteq 1..MaxRuns
  BY RunInLibrary DEF TypeInv, WorkerTyped
<1>2. \A r \in DOMAIN loaded : loaded[r].sample \in Samples /\ loaded[r].end_time \in 0..MaxRuns
  BY DEF TypeInv, WorkerTyped, Run
<1>3. coord.plan \in Seq(PlanEntry)
  <2>1. coord.plan \in Plans \/ coord.plan = << >>
    BY DEF TypeInv, CoordTyped, GoodCoordinator, Coordinator
  <2>2. CASE coord.plan \in Plans
    BY <2>2, ScopeAssumption DEF IsPlan
  <2>3. CASE coord.plan = << >>
    BY <2>3
  <2> QED BY <2>1, <2>2, <2>3
<1>4. Bounded(loaded, MaxRuns, MaxRuns)
  BY <1>1, <1>2, ScopeAssumption DEF Bounded
<1>5. WellTyped(coord.plan, loaded, MaxRuns, MaxRuns)
  BY <1>2, <1>3, <1>4 DEF WellTyped
<1>6. Assessed \in DecisionAbout(loaded)
  BY <1>5, DecisionTyped DEF Assessed
<1>7. Assessed.kind = "repair_metrics" => Assessed.run \in DOMAIN loaded \ coord.blocked
  BY <1>4, RepairNames DEF Assessed
<1>8. Assessed.kind = "pause_failure" => Assessed.run \in DOMAIN loaded
  BY <1>4, LastStage, ProgressNames DEF Assessed
<1>9. Assessed.kind = "start_remainder" => Assessed.sample \in Samples
  <2> SUFFICES ASSUME Assessed.kind = "start_remainder" PROVE Assessed.sample \in Samples
    OBVIOUS
  <2>1. Assessed = AssessProgress(coord.plan, loaded, seen, coord.acknowledged,
                                  coord.paused \/ Latched)
    BY LastStage DEF Assessed
  <2> QED BY <1>3, <2>1, StartNames
<1> QED BY <1>1, <1>6, <1>7, <1>8, <1>9

LEMMA HistoryTyped ==
  ASSUME RunsTyped
  PROVE  /\ DOMAIN HistoryOf(active) \subseteq DOMAIN attempts
         /\ \A r \in DOMAIN HistoryOf(active) : HistoryOf(active)[r] \in Run
BY RunInLibrary DEF HistoryOf, RunsOfBatch

LEMMA RunsStep ==
  ASSUME TypeInv, Next
  PROVE  RunsTyped' /\ DOMAIN attempts \subseteq DOMAIN attempts'
<1>0. /\ RunsTyped /\ MaxRuns \in Nat /\ DOMAIN attempts \subseteq 1..MaxRuns
      /\ \A r \in DOMAIN attempts : attempts[r] \in Run
  BY RunInLibrary DEF TypeInv
<1>1. ASSUME StartExposure PROVE RunsTyped' /\ DOMAIN attempts \subseteq DOMAIN attempts'
  <2>1. RunsTyped' /\ Len(attempts') = Len(attempts) + 1
    BY <1>1, RunStarted
  <2>2. DOMAIN attempts' = 1..Len(attempts') /\ DOMAIN attempts = 1..Len(attempts)
    BY <1>0, <2>1 DEF RunsTyped
  <2> QED BY <1>0, <2>1, <2>2 DEF RunsTyped
<1>2. ASSUME RepairMetrics PROVE RunsTyped' /\ DOMAIN attempts \subseteq DOMAIN attempts'
  <2> DEFINE r == Assessed.run
  <2>1. r \in DOMAIN attempts
    BY <1>2, AssessedTyped DEF RepairMetrics, MustRepair
  <2>2. Repaired(r) \in Run
    BY <1>0, <2>1, RepairedTyped
  <2>3. /\ attempts' \in {attempts, [attempts EXCEPT ![r] = Repaired(r)]}
        /\ UNCHANGED <<settled, lease, current>>
    BY <1>0, <1>2, <2>1, RepairedTyped DEF RepairMetrics, PollOnly
  <2>4. CASE attempts' = attempts
    BY <1>0, <2>3, <2>4 DEF RunsTyped
  <2>5. CASE attempts' = [attempts EXCEPT ![r] = Repaired(r)]
    <3> HIDE DEF r
    <3> QED BY <1>0, <2>1, <2>2, <2>3, <2>5, RunWritten
  <2> QED BY <2>3, <2>4, <2>5
<1>3. ASSUME NEW outcome \in Outcomes, RunEnds(outcome)
      PROVE  RunsTyped' /\ DOMAIN attempts \subseteq DOMAIN attempts'
  <2>1. PICK late \in BOOLEAN :
          attempts' = [attempts EXCEPT ![current] =
            [@ EXCEPT !.status = outcome.status, !.end_time = current,
               !.dose = IF late THEN Missing ELSE outcome.dose,
               !.runtime = IF late THEN Missing ELSE outcome.runtime,
               !.snapshots = TRUE,
               !.measured = [dose |-> outcome.dose, runtime |-> outcome.runtime]]]
    BY <1>3 DEF RunEnds
  <2> DEFINE new ==
            [attempts[current] EXCEPT !.status = outcome.status, !.end_time = current,
               !.dose = IF late THEN Missing ELSE outcome.dose,
               !.runtime = IF late THEN Missing ELSE outcome.runtime,
               !.snapshots = TRUE,
               !.measured = [dose |-> outcome.dose, runtime |-> outcome.runtime]]
  <2>2. /\ current \in DOMAIN attempts /\ current \in 0..MaxRuns
        /\ attempts[current] \in Run
    BY <1>0, <1>3 DEF RunEnds
  <2>3. outcome \in [status : {"STOPPED", "ABORTED"}, dose : Int, runtime : Int]
    BY ScopeAssumption
  <2>4. new \in Run
    BY <2>2, <2>3 DEF Run, RunStatus, Metric, Metrics
  <2>5. attempts' = [attempts EXCEPT ![current] = new]
    BY <1>0, <2>1, <2>2 DEF RunsTyped
  <2>6. UNCHANGED <<settled, lease>> /\ current' = NoRun
    BY <1>3 DEF RunEnds
  <2> HIDE DEF new
  <2> QED BY <1>0, <2>2, <2>4, <2>5, <2>6, RunWritten
<1>4. ASSUME NEW r \in DOMAIN attempts, MetricsRecorded(r)
      PROVE  RunsTyped' /\ DOMAIN attempts \subseteq DOMAIN attempts'
  <2>1. /\ Repaired(r) \in Run /\ attempts' = [attempts EXCEPT ![r] = Repaired(r)]
        /\ UNCHANGED <<settled, lease, current>>
    BY <1>0, <1>4, RepairedTyped DEF MetricsRecorded
  <2> QED BY <1>0, <2>1, RunWritten
<1>5. ASSUME ~WritesRuns
      PROVE  RunsTyped' /\ DOMAIN attempts \subseteq DOMAIN attempts'
  <2>1. UNCHANGED attempts
    BY <1>5, RunsUnchanged
  <2>2. \/ UNCHANGED settled
        \/ \E r \in DOMAIN attempts : settled' = settled \cup {r}
    BY <1>5, <2>1 DEF WritesRuns, Next, Boot, Crash, Shutdown, Down, Command, Create,
       Update, Activate, NotActivated, Withdraw, Unwithdraw, OnlyManifests, Pause, Resume, Continue, Cancel, Refresh,
       SetMode, Unaffected, Timer, Poll, EnsureActiveRuntime, LoadAttempts,
       ReadController, SourceFailure, Publish, Dispatch, StaysLive, CheckCancel,
       FinishActive, ReleaseAutomation, StartRefused, PollOnly, durable, Environment,
       Settle, RunOrphaned, ForeignRunChanges, QueueLease, ReleaseCarriedOut
  <2>3. current' \in {current, NoRun, ForeignRun}
    BY <1>5, <2>1 DEF WritesRuns, Next, Boot, Crash, Shutdown, Down, Command, Create,
       Update, Activate, NotActivated, Withdraw, Unwithdraw, OnlyManifests, Pause, Resume, Continue, Cancel, Refresh,
       SetMode, Unaffected, Timer, Poll, EnsureActiveRuntime, LoadAttempts,
       ReadController, SourceFailure, Publish, Dispatch, StaysLive, CheckCancel,
       FinishActive, ReleaseAutomation, StartRefused, PollOnly, durable, Environment,
       Settle, RunOrphaned, ForeignRunChanges, QueueLease, ReleaseCarriedOut
  <2>4. lease' \in {"none", "batch", "other"}
    BY <1>0, <1>5, <2>1 DEF WritesRuns, RunsTyped, Next, Boot, Crash, Shutdown, Down, Command, Create,
       Update, Activate, GrantUnheard, Withdraw, Unwithdraw, OnlyManifests, Pause, Resume, Continue, Cancel, Refresh,
       SetMode, SameRuntime, SameLease, Unaffected, Timer, Poll, EnsureActiveRuntime, AcquireLease,
       LoadAttempts, ReadController, SourceFailure, Publish, Dispatch, StaysLive, CheckCancel,
       FinishActive, ReleaseAutomation, StartRefused, PollOnly, durable, Environment,
       Settle, RunOrphaned, ForeignRunChanges, QueueLease, ReleaseCarriedOut
  <2> QED BY <1>0, <2>1, <2>2, <2>3, <2>4 DEF RunsTyped
<1> QED BY <1>1, <1>2, <1>3, <1>4, <1>5 DEF WritesRuns

-----------------------------------------------------------------------------
(* The manifests. *)

LEMMA ManifestsUnchanged ==
  ASSUME Next, ManifestsTyped,
         ~(Boot \/ Crash \/ Shutdown \/ Command \/ Dispatch \/ FinishActive \/ ReleaseAutomation)
  PROVE  ManifestsTyped'
<1>1. UNCHANGED <<store, known, active, manifest>>
  BY DEF Next, Timer, SameRuntime, SameLease, Unaffected, Poll, EnsureActiveRuntime, LoadAttempts,
     ReadController, SourceFailure, RepairMetrics, Publish, StaysLive, CheckCancel,
     StartExposure, StartRefused, PollOnly, durable, memory, Environment, RunEnds,
     MetricsRecorded, Settle, RunOrphaned, ForeignRunChanges, QueueLease, ReleaseCarriedOut, Outside
<1> QED BY <1>1 DEF ManifestsTyped

\* Saving a manifest of some batch, or failing to.
LEMMA ManifestSaved ==
  ASSUME ManifestsTyped, NEW b, NEW new \in Manifest,
         \/ Saved(b, new) \/ Raised(b, new) \/ UNCHANGED <<store, known>>,
         active' \in Batches \cup {NoBatch}, manifest' \in Manifest
  PROVE  ManifestsTyped'
BY DEF ManifestsTyped, Saved, Raised

LEMMA NoManifestTyped == NoManifest \in Manifest
BY ScopeAssumption DEF NoManifest, Manifest, ManifestStatus

\* What the saves write is a manifest.
LEMMA EditsTyped ==
  ASSUME TypeInv, NEW b \in Batches
  PROVE  /\ \A p \in Plans : MaxRevision > 0 => Created(p) \in Manifest
         /\ \A p \in Plans : known[b].revision < MaxRevision => Updated(b, p) \in Manifest
         /\ Withdrawn(b) \in Manifest /\ Unwithdrawn(b) \in Manifest
         /\ Activated(b) \in Manifest
<1>0. known[b] \in Manifest /\ MaxRevision \in Nat
  BY ScopeAssumption DEF TypeInv, ManifestsTyped
<1>1. ASSUME NEW p \in Plans, MaxRevision > 0 PROVE Created(p) \in Manifest
  <2>1. 1 \in 0..MaxRevision /\ "draft" \in ManifestStatus
    BY <1>0, <1>1 DEF ManifestStatus
  <2> QED BY <2>1, NoManifestTyped DEF Created, Manifest
<1>2. ASSUME NEW p \in Plans, known[b].revision < MaxRevision PROVE Updated(b, p) \in Manifest
  <2>1. known[b].revision + 1 \in 0..MaxRevision
    BY <1>0, <1>2 DEF Manifest
  <2> QED BY <1>0, <2>1 DEF Updated, Manifest
<1>3. "withdrawn" \in ManifestStatus /\ "draft" \in ManifestStatus /\ "active" \in ManifestStatus
  BY DEF ManifestStatus
<1>4. Withdrawn(b) \in Manifest /\ Unwithdrawn(b) \in Manifest /\ Activated(b) \in Manifest
  BY <1>0, <1>3 DEF Withdrawn, Unwithdrawn, Activated, Manifest
<1> QED BY <1>1, <1>2, <1>4

LEMMA CommandManifests ==
  ASSUME TypeInv, Command
  PROVE  ManifestsTyped'
<1>0. /\ ManifestsTyped /\ manifest \in Manifest /\ active \in Batches \cup {NoBatch}
  BY DEF TypeInv, ManifestsTyped
<1>1. ASSUME NEW b \in Batches, NEW p \in Plans, Create(b, p) PROVE ManifestsTyped'
  <2>1. /\ Saved(b, Created(p)) \/ Raised(b, Created(p))
        /\ MaxRevision > 0 /\ UNCHANGED <<active, manifest>>
    BY <1>1, CreateWrites DEF Onlookers
  <2> QED BY <1>0, <2>1, EditsTyped, ManifestSaved
<1>2. ASSUME NEW b \in Batches, NEW p \in Plans, Update(b, p) PROVE ManifestsTyped'
  <2>1. /\ Saved(b, Updated(b, p)) \/ Raised(b, Updated(b, p))
        /\ known[b].revision < MaxRevision /\ UNCHANGED active
        /\ manifest' \in {Updated(b, p), manifest}
    BY <1>2, UpdateWrites
  <2> QED BY <1>0, <2>1, EditsTyped, ManifestSaved
<1>3. ASSUME NEW b \in Batches, Withdraw(b) \/ Unwithdraw(b) PROVE ManifestsTyped'
  <2>1. /\ \E m \in {Withdrawn(b), Unwithdrawn(b)} : Saved(b, m) \/ Raised(b, m)
        /\ UNCHANGED <<active, manifest>>
    BY <1>3, WithdrawalWrites DEF Onlookers
  <2> QED BY <1>0, <2>1, EditsTyped, ManifestSaved
<1>5. ASSUME NEW b \in Batches, Activate(b) PROVE ManifestsTyped'
  <2>1. /\ \/ Saved(b, Activated(b)) \/ Raised(b, Activated(b)) \/ UNCHANGED <<store, known>>
        /\ \/ manifest' = Activated(b) /\ active' = b
           \/ UNCHANGED <<manifest, active>>
    BY <1>5, ActivationWrites DEF NotActivated
  <2>2. Activated(b) \in Manifest
    BY EditsTyped
  <2> QED BY <1>0, <2>1, <2>2, ManifestSaved
<1>7. ASSUME Pause \/ Cancel \/ Resume PROVE ManifestsTyped'
  <2>1. /\ \E m : /\ Relabelled(m) /\ manifest' = m
                  /\ Saved(active, m) \/ Raised(active, m)
        /\ UNCHANGED active
    BY <1>0, <1>7, ControlWrites
  <2> QED BY <1>0, <2>1, ManifestSaved DEF Relabelled
<1>8. ASSUME Continue \/ Refresh \/ \E m \in {"manual", "automatic"} : SetMode(m)
      PROVE  ManifestsTyped'
  <2>1. UNCHANGED <<store, known, active, manifest>>
    BY <1>8 DEF Continue, Refresh, SetMode, SameRuntime
  <2> QED BY <1>0, <2>1 DEF ManifestsTyped
<1> QED BY <1>1, <1>2, <1>3, <1>5, <1>7, <1>8 DEF Command

LEMMA FinishedTyped ==
  ASSUME TypeInv
  PROVE  /\ Synced \in Manifest /\ Finished \in Manifest
         /\ Finished.status = (IF manifest.cancel_pending THEN "cancelled" ELSE "completed")
         /\ Finished.plan = manifest.plan /\ Finished.revision = manifest.revision
         /\ Finished.acknowledged = coord.acknowledged
         /\ Synced.status = manifest.status /\ Synced.plan = manifest.plan
         /\ Synced.revision = manifest.revision
         /\ Synced.acknowledged = coord.acknowledged
<1>1. manifest \in Manifest /\ coord.acknowledged \in SUBSET (1..MaxRuns)
  BY DEF TypeInv, ManifestsTyped, CoordTyped, GoodCoordinator, Coordinator
<1>2. "cancelled" \in ManifestStatus /\ "completed" \in ManifestStatus
  BY DEF ManifestStatus
<1> QED BY <1>1, <1>2 DEF Synced, Finished, Manifest

LEMMA ManifestsStep ==
  ASSUME TypeInv, Next
  PROVE  ManifestsTyped'
<1>0. /\ ManifestsTyped /\ store \in [Batches -> Manifest] /\ known \in [Batches -> Manifest]
      /\ manifest \in Manifest /\ active \in Batches \cup {NoBatch}
      /\ \A b \in Batches : store[b] \in Manifest
  BY DEF TypeInv, ManifestsTyped
<1>1. ASSUME Boot PROVE ManifestsTyped'
  <2>0. known' = store'
    BY <1>1 DEF Boot
  <2>1. CASE UNCHANGED <<store, active, manifest>>
    BY <1>0, <2>0, <2>1 DEF ManifestsTyped
  <2>2. CASE \E b \in LiveManifests :
               /\ store' = [store EXCEPT ![b] = Restored(store[b])]
               /\ active' = b /\ manifest' = store'[b]
    <3>1. PICK b \in Batches :
               /\ store' = [store EXCEPT ![b] = Restored(store[b])]
               /\ active' = b /\ manifest' = store'[b]
      BY <2>2 DEF LiveManifests
    <3>2. Restored(store[b]) \in Manifest
      BY <1>0 DEF Restored, Manifest
    <3>3. store' \in [Batches -> Manifest] /\ manifest' \in Manifest
      BY <1>0, <3>1, <3>2
    <3> QED BY <2>0, <3>1, <3>3 DEF ManifestsTyped
  <2> QED BY <1>1, <2>1, <2>2 DEF Boot
<1>2. ASSUME Crash \/ Shutdown PROVE ManifestsTyped'
  <2>1. active' = NoBatch /\ manifest' = NoManifest /\ UNCHANGED <<store, known>>
    BY <1>2 DEF Crash, Shutdown, Down
  <2> QED BY <1>0, <2>1, NoManifestTyped DEF ManifestsTyped
<1>3. ASSUME Dispatch PROVE ManifestsTyped'
  <2>1. Synced \in Manifest
    BY FinishedTyped
  <2>2. /\ UNCHANGED active
        /\ \/ UNCHANGED <<store, known, manifest>>
           \/ /\ manifest' = Synced
              /\ Saved(active, Synced) \/ Raised(active, Synced)
    BY <1>3, DispatchWrites DEF StaysLive
  <2> QED BY <1>0, <2>1, <2>2, ManifestSaved
<1>4. ASSUME FinishActive PROVE ManifestsTyped'
  <2>1. Finished \in Manifest
    BY FinishedTyped
  <2>2. /\ UNCHANGED <<active, manifest>>
        /\ Saved(active, Finished) \/ Raised(active, Finished)
    BY <1>4, FinishWrites
  <2> QED BY <1>0, <2>1, <2>2, ManifestSaved
<1>5. ASSUME ReleaseAutomation PROVE ManifestsTyped'
  <2>1. /\ UNCHANGED <<store, known>> /\ active' \in {active, NoBatch}
        /\ manifest' \in {manifest, NoManifest}
    BY <1>5 DEF ReleaseAutomation
  <2> QED BY <1>0, <2>1, NoManifestTyped DEF ManifestsTyped
<1> QED BY <1>0, <1>1, <1>2, <1>3, <1>4, <1>5, CommandManifests, ManifestsUnchanged

-----------------------------------------------------------------------------
(* The coordinator. *)

LEMMA PlainTyped ==
  ASSUME NEW kind \in DecisionKind \cup {"none"}
  PROVE  Plain(kind) \in [kind : DecisionKind \cup {"none"}, run : 1..MaxRuns \cup {NoRun},
                         sample : Samples \cup {NoSample}, amount : Nat]
BY DEF Plain, Decision

LEMMA NewCoordinatorGood ==
  ASSUME NEW m \in Manifest
  PROVE  GoodCoordinator(NewCoordinator(m))
<1>1. NoDecision \in [kind : DecisionKind \cup {"none"}, run : 1..MaxRuns \cup {NoRun},
                      sample : Samples \cup {NoSample}, amount : Nat]
      /\ NoDecision.kind = "none"
  BY PlainTyped DEF NoDecision, Plain, Decision
<1>2. RepairLimit \in Nat \ {0} /\ SourceFailureLimit \in Nat \ {0}
  BY ScopeAssumption
<1>3. /\ m.plan \in Plans \cup {<< >>} /\ m.paused \in BOOLEAN
      /\ m.acknowledged \in SUBSET (1..MaxRuns)
  BY DEF Manifest
<1>4. NewCoordinator(m) \in Coordinator
  BY <1>1, <1>2, <1>3 DEF NewCoordinator, Coordinator
<1> QED BY <1>1, <1>2, <1>4 DEF GoodCoordinator, NewCoordinator

LEMMA SameCoordinator ==
  ASSUME Next, CoordTyped,
         ~(Boot \/ Crash \/ Shutdown \/ Command \/ EnsureActiveRuntime \/ ReadController
           \/ SourceFailure \/ RepairMetrics \/ Publish \/ FinishActive \/ ReleaseAutomation)
  PROVE  CoordTyped'
<1>1. UNCHANGED <<leaseOwned, unanswered, mode, coordLive, coord>>
  BY DEF Next, Timer, SameRuntime, SameLease, Unaffected, Poll, LoadAttempts, Dispatch, StaysLive,
     CheckCancel, StartExposure, StartRefused, PollOnly, durable, memory, Environment,
     RunEnds, MetricsRecorded, Settle, RunOrphaned, ForeignRunChanges, QueueLease, ReleaseCarriedOut, Outside
<1> QED BY <1>1 DEF CoordTyped

LEMMA RepairCounted ==
  ASSUME TypeInv, RepairMetrics
  PROVE  GoodCoordinator(coord')
<1> DEFINE r == Assessed.run
           count == coord.repairs[r] + 1
<1>1. r \in 1..MaxRuns /\ r \notin coord.blocked
  BY AssessedTyped, RunInLibrary DEF RepairMetrics, MustRepair, TypeInv
<1>2. /\ GoodCoordinator(coord) /\ coord \in Coordinator
      /\ RepairLimit \in Nat \ {0}
      /\ coord.repairs \in [1..MaxRuns -> 0..RepairLimit]
      /\ coord.blocked \in SUBSET (1..MaxRuns)
  BY ScopeAssumption DEF TypeInv, CoordTyped, GoodCoordinator, Coordinator
<1>3. count \in 0..RepairLimit /\ 0 \in 0..RepairLimit
  <2>1. coord.repairs[r] \in 0..RepairLimit /\ coord.repairs[r] < RepairLimit
    BY <1>1, <1>2 DEF GoodCoordinator
  <2> QED BY <1>2, <2>1
<1>4. \E n \in {0, count} :
        coord' = [coord EXCEPT !.repairs[r] = n,
                       !.blocked = IF n >= RepairLimit THEN @ \cup {r} ELSE @]
  BY DEF RepairMetrics
<1> HIDE DEF r, count
<1>5. PICK n \in 0..RepairLimit :
        coord' = [coord EXCEPT !.repairs[r] = n,
                       !.blocked = IF n >= RepairLimit THEN @ \cup {r} ELSE @]
  <2>1. PICK n \in {0, count} :
          coord' = [coord EXCEPT !.repairs[r] = n,
                         !.blocked = IF n >= RepairLimit THEN @ \cup {r} ELSE @]
    BY <1>4
  <2>2. n \in 0..RepairLimit
    BY <1>3
  <2> QED BY <2>1, <2>2
<1> DEFINE R == [coord.repairs EXCEPT ![r] = n]
           B == IF n >= RepairLimit THEN coord.blocked \cup {r} ELSE coord.blocked
<1>6. /\ R \in [1..MaxRuns -> 0..RepairLimit] /\ B \in SUBSET (1..MaxRuns)
      /\ \A q \in 1..MaxRuns : q \notin B => R[q] < RepairLimit
  BY <1>1, <1>2 DEF GoodCoordinator
<1>7. coord' = [coord EXCEPT !.repairs = R, !.blocked = B]
  BY <1>2, <1>5 DEF Coordinator
<1> HIDE DEF R, B
<1>8. coord' \in Coordinator /\ coord'.repairs = R /\ coord'.blocked = B
      /\ coord'.last = coord.last
  BY <1>2, <1>6, <1>7 DEF Coordinator
<1> QED BY <1>2, <1>6, <1>8 DEF GoodCoordinator

LEMMA ResumedGood ==
  ASSUME GoodCoordinator(coord)
  PROVE  GoodCoordinator(Resumed)
<1>1. /\ coord \in Coordinator /\ RepairLimit \in Nat \ {0}
      /\ coord.last.kind = "pause_failure" => coord.last.run \in 1..MaxRuns
      /\ SourceFailureLimit \in Nat \ {0}
  BY ScopeAssumption DEF GoodCoordinator
<1> DEFINE A == coord.acknowledged \cup
                  (IF coord.last.kind = "pause_failure" THEN {coord.last.run} ELSE {})
           R == [r \in 1..MaxRuns |-> 0]
<1>2. A \in SUBSET (1..MaxRuns)
  BY <1>1 DEF Coordinator
<1>3. R \in [1..MaxRuns -> 0..RepairLimit] /\ \A r \in 1..MaxRuns : R[r] < RepairLimit
  BY <1>1
<1>4. Resumed = [coord EXCEPT !.acknowledged = A, !.paused = FALSE, !.source_paused = FALSE,
                   !.logic_paused = FALSE, !.failures = 0, !.repairs = R, !.blocked = {}]
  BY <1>1 DEF Resumed, Coordinator
<1> HIDE DEF A, R
<1>5. Resumed.repairs = R /\ Resumed.last = coord.last
  BY <1>1, <1>4 DEF Coordinator
<1>6. Resumed \in Coordinator
  <2>1. 0 \in 0..SourceFailureLimit
    BY <1>1
  <2>2. R \in [1..MaxRuns -> 0..RepairLimit] /\ {} \in SUBSET (1..MaxRuns)
    BY <1>3
  <2> QED BY <1>1, <1>2, <1>4, <2>1, <2>2 DEF Coordinator
<1> QED BY <1>3, <1>5, <1>6 DEF GoodCoordinator

\* A decision other than a failure and a start names nothing the code uses.
LEMMA Redecided ==
  ASSUME GoodCoordinator(coord), NEW c \in Coordinator,
         c.repairs = coord.repairs, c.blocked = coord.blocked,
         \/ c.last.kind \notin {"pause_failure", "start_remainder"}
         \/ c.last = coord.last
  PROVE  GoodCoordinator(c)
BY DEF GoodCoordinator

LEMMA CommandCoordinator ==
  ASSUME TypeInv, Command
  PROVE  CoordTyped'
<1>0. /\ CoordTyped /\ GoodCoordinator(coord) /\ coord \in Coordinator
  BY DEF TypeInv, CoordTyped, GoodCoordinator
<1>1. ASSUME NEW b \in Batches, NEW p \in Plans, Create(b, p) PROVE CoordTyped'
  BY <1>0, <1>1, CreateWrites DEF Onlookers, CoordTyped
<1>2. ASSUME NEW b \in Batches, NEW p \in Plans, Update(b, p) PROVE CoordTyped'
  <2> DEFINE c == [coord EXCEPT !.plan = p, !.last = NoDecision]
  <2>1. c \in Coordinator /\ c.last.kind = "none"
    BY <1>0, PlainTyped DEF Coordinator, NoDecision, Plain, Decision
  <2>2. GoodCoordinator(c)
    BY <1>0, <2>1, Redecided DEF Coordinator
  <2>3. coord' \in {c, coord} /\ UNCHANGED <<leaseOwned, unanswered, mode, coordLive>>
    BY <1>2, UpdateWrites
  <2> HIDE DEF c
  <2> QED BY <1>0, <2>2, <2>3 DEF CoordTyped
<1>3. ASSUME NEW b \in Batches, Withdraw(b) \/ Unwithdraw(b) PROVE CoordTyped'
  BY <1>0, <1>3, WithdrawalWrites DEF Onlookers, CoordTyped
<1>4. ASSUME NEW b \in Batches, Activate(b) PROVE CoordTyped'
  <2>1. Activated(b) \in Manifest
    BY EditsTyped
  <2>2. /\ leaseOwned' \in {leaseOwned, TRUE} /\ UNCHANGED <<unanswered, mode>>
        /\ \/ coordLive' = TRUE /\ coord' = NewCoordinator(Activated(b))
           \/ UNCHANGED <<coordLive, coord>>
    BY <1>4, ActivationWrites DEF NotActivated
  <2> QED BY <1>0, <2>1, <2>2, NewCoordinatorGood DEF CoordTyped
<1>5. ASSUME Pause \/ Cancel PROVE CoordTyped'
  <2> DEFINE c == [coord EXCEPT !.paused = TRUE]
  <2>1. c \in Coordinator
    BY <1>0 DEF Coordinator
  <2>2. GoodCoordinator(c)
    BY <1>0, <2>1, Redecided DEF Coordinator
  <2>3. coord' = c /\ UNCHANGED <<leaseOwned, unanswered, mode, coordLive>>
    BY <1>5 DEF Pause, Cancel, SameRuntime, SameLease, Unaffected
  <2> HIDE DEF c
  <2> QED BY <1>0, <2>2, <2>3 DEF CoordTyped
<1>6. ASSUME Resume PROVE CoordTyped'
  <2>1. coord' = Resumed /\ UNCHANGED <<leaseOwned, unanswered, mode, coordLive>>
    BY <1>6 DEF Resume, SameRuntime, SameLease, Unaffected
  <2> QED BY <1>0, <2>1, ResumedGood DEF CoordTyped
<1>7. ASSUME Continue \/ Refresh \/ \E m \in {"manual", "automatic"} : SetMode(m)
      PROVE  CoordTyped'
  <2>1. /\ UNCHANGED <<leaseOwned, unanswered, coordLive, coord>>
        /\ mode' \in {mode, "manual", "automatic"}
    BY <1>7 DEF Continue, Refresh, SetMode, SameRuntime, SameLease, Unaffected
  <2> QED BY <1>0, <2>1 DEF CoordTyped
<1> QED BY <1>1, <1>2, <1>3, <1>4, <1>5, <1>6, <1>7 DEF Command

LEMMA CoordStep ==
  ASSUME TypeInv, Next
  PROVE  CoordTyped'
<1>0. /\ CoordTyped /\ GoodCoordinator(coord) /\ coord \in Coordinator
      /\ manifest \in Manifest /\ SourceFailureLimit \in Nat \ {0}
  BY ScopeAssumption DEF TypeInv, CoordTyped, GoodCoordinator, ManifestsTyped
<1>1. GoodCoordinator(NoCoordinator)
  BY NoManifestTyped, NewCoordinatorGood DEF NoCoordinator
<1>2. ASSUME Boot \/ ReleaseAutomation PROVE CoordTyped'
  BY <1>0, <1>2 DEF Boot, ReleaseAutomation, Unaffected, CoordTyped
<1>3. ASSUME Crash \/ Shutdown PROVE CoordTyped'
  BY <1>1, <1>3 DEF Crash, Shutdown, Down, CoordTyped
<1>4. ASSUME EnsureActiveRuntime PROVE CoordTyped'
  <2>1. /\ UNCHANGED <<mode, unanswered>> /\ leaseOwned' \in {leaseOwned, TRUE}
        /\ \/ coordLive' = TRUE /\ coord' = NewCoordinator(manifest)
           \/ UNCHANGED <<coordLive, coord>>
    BY <1>4 DEF EnsureActiveRuntime, AcquireLease, SameLease, GrantUnheard, Unaffected
  <2> QED BY <1>0, <2>1, NewCoordinatorGood DEF CoordTyped
<1>5. ASSUME ReadController PROVE CoordTyped'
  <2> DEFINE c == [coord EXCEPT !.failures = 0]
  <2>1. c \in Coordinator
    BY <1>0 DEF Coordinator
  <2>2. GoodCoordinator(c)
    BY <1>0, <2>1, Redecided DEF Coordinator
  <2>3. coord' = c /\ UNCHANGED <<leaseOwned, unanswered, mode, coordLive>>
    BY <1>5 DEF ReadController, PollOnly
  <2> HIDE DEF c
  <2> QED BY <1>0, <2>2, <2>3 DEF CoordTyped
<1>6. ASSUME SourceFailure PROVE CoordTyped'
  <2> DEFINE failed == IF coord.failures < SourceFailureLimit
                       THEN coord.failures + 1 ELSE SourceFailureLimit
             stop == failed = SourceFailureLimit
             last == Plain(IF stop THEN "pause_error" ELSE "wait_controller")
             c == [coord EXCEPT !.failures = failed, !.source_paused = @ \/ stop,
                                !.last = last]
  <2>1. failed \in 0..SourceFailureLimit
    BY <1>0 DEF Coordinator
  <2>2. /\ last.kind \notin {"pause_failure", "start_remainder"}
        /\ last \in [kind : DecisionKind \cup {"none"}, run : 1..MaxRuns \cup {NoRun},
                     sample : Samples \cup {NoSample}, amount : Nat]
    <3>1. "pause_error" \in DecisionKind /\ "wait_controller" \in DecisionKind
      BY DEF DecisionKind
    <3> HIDE DEF stop
    <3> QED BY <3>1, PlainTyped DEF Plain, Decision
  <2>3. coord' = c /\ UNCHANGED <<leaseOwned, unanswered, mode, coordLive>>
    BY <1>6 DEF SourceFailure, PollOnly
  <2>4. (coord.source_paused \/ stop) \in BOOLEAN
    BY <1>0 DEF Coordinator
  <2> HIDE DEF failed, stop, last
  <2>5. c \in Coordinator /\ c.last = last /\ c.repairs = coord.repairs
        /\ c.blocked = coord.blocked
    BY <1>0, <2>1, <2>2, <2>4 DEF Coordinator
  <2> HIDE DEF c
  <2> QED BY <1>0, <2>2, <2>3, <2>5, Redecided DEF CoordTyped
<1>7. ASSUME RepairMetrics PROVE CoordTyped'
  <2>1. UNCHANGED <<leaseOwned, unanswered, mode, coordLive>>
    BY <1>7 DEF RepairMetrics, PollOnly
  <2> QED BY <1>0, <1>7, <2>1, RepairCounted DEF CoordTyped
<1>8. ASSUME Publish PROVE CoordTyped'
  <2> DEFINE clear == Assessed.kind \in {"paused", "start_remainder", "complete"}
             shown == IF Latched /\ clear THEN Plain("pause_error") ELSE Assessed
             logic == coord.logic_paused \/ Assessed.kind = "pause_error"
             c == [coord EXCEPT !.last = shown, !.logic_paused = logic]
  <2>1. /\ shown \in [kind : DecisionKind \cup {"none"}, run : 1..MaxRuns \cup {NoRun},
                      sample : Samples \cup {NoSample}, amount : Nat]
        /\ shown.kind = "pause_failure" => shown.run \in 1..MaxRuns
        /\ shown.kind = "start_remainder" => shown.sample \in Samples
    <3>1. "pause_error" \in DecisionKind
      BY DEF DecisionKind
    <3>2. DOMAIN loaded \subseteq 1..MaxRuns
      BY RunInLibrary DEF TypeInv, WorkerTyped
    <3>3. CASE shown = Assessed
      BY <3>2, <3>3, AssessedTyped DEF DecisionAbout
    <3>4. CASE shown = Plain("pause_error")
      BY <3>1, <3>4, PlainTyped DEF Plain, Decision
    <3> QED BY <3>3, <3>4
  <2>2. logic \in BOOLEAN
    BY <1>0 DEF Coordinator
  <2>3. coord' = c /\ UNCHANGED <<leaseOwned, unanswered, mode, coordLive>>
    BY <1>0, <1>8 DEF Publish, PollOnly, Coordinator
  <2> HIDE DEF shown, logic
  <2>4. c \in Coordinator /\ c.last = shown /\ c.repairs = coord.repairs
        /\ c.blocked = coord.blocked
    BY <1>0, <2>1, <2>2 DEF Coordinator
  <2> HIDE DEF c
  <2>5. GoodCoordinator(c)
    BY <1>0, <2>1, <2>4 DEF GoodCoordinator
  <2> QED BY <1>0, <2>3, <2>5 DEF CoordTyped
<1>9. ASSUME FinishActive PROVE CoordTyped'
  <2>1. /\ UNCHANGED <<leaseOwned, unanswered, mode>>
        /\ \/ coordLive' = FALSE /\ coord' = NoCoordinator
           \/ UNCHANGED <<coordLive, coord>>
    BY <1>9, FinishWrites
  <2> QED BY <1>0, <1>1, <2>1 DEF CoordTyped
<1> QED BY <1>0, <1>2, <1>3, <1>4, <1>5, <1>6, <1>7, <1>8, <1>9, CommandCoordinator,
           SameCoordinator

-----------------------------------------------------------------------------
(* The worker thread. *)

\* What the steps of the world outside keep of the worker's state.
LEMMA WorkerUnchanged ==
  ASSUME WorkerTyped, UNCHANGED <<worker, ghosts, active>>,
         DOMAIN attempts \subseteq DOMAIN attempts', coord'.last = coord.last
  PROVE  WorkerTyped'
BY DEF WorkerTyped, worker, ghosts

LEMMA WorkerForgets ==
  ASSUME Forget
  PROVE  /\ DOMAIN loaded' \subseteq DOMAIN attempts'
         /\ \A r \in DOMAIN loaded' : loaded'[r] \in Run
         /\ seen' \in [available : BOOLEAN, idle : BOOLEAN,
                       run : DOMAIN attempts' \cup {NoRun, ForeignRun}]
         /\ repaired' \subseteq DOMAIN attempts'
<1>1. loaded' = << >> /\ repaired' = {}
  BY DEF Forget
<1>2. seen' = [available |-> FALSE, idle |-> FALSE, run |-> NoRun]
  BY DEF Forget, Unavailable, Snapshot
<1>3. DOMAIN loaded' = {}
  BY <1>1
<1> QED BY <1>1, <1>2, <1>3

LEMMA WorkerIdle ==
  ASSUME ToIdle, consent' \in BOOLEAN, alarm' \in BOOLEAN
  PROVE  WorkerTyped'
BY WorkerForgets DEF WorkerTyped, ToIdle, Places, Tasks

LEMMA PollBegun ==
  ASSUME NEW t \in Tasks, BeginPoll(t), consent' \in BOOLEAN, alarm' \in BOOLEAN,
         active' # NoBatch
  PROVE  WorkerTyped'
BY WorkerForgets DEF WorkerTyped, BeginPoll, Places

LEMMA PollDone ==
  ASSUME WorkerTyped, AfterPoll, active # NoBatch, UNCHANGED <<active, consent>>,
         alarm' \in BOOLEAN
  PROVE  WorkerTyped'
BY WorkerForgets DEF WorkerTyped, AfterPoll, Places, Tasks

LEMMA WorkerMoves ==
  ASSUME WorkerTyped, NEW place \in Places \ {"start"}, GoTo(place), active # NoBatch,
         UNCHANGED <<active, consent, alarm>>, DOMAIN attempts \subseteq DOMAIN attempts'
  PROVE  WorkerTyped'
BY DEF WorkerTyped, GoTo

LEMMA PollRestarted ==
  ASSUME WorkerTyped, StartPoll, active # NoBatch, UNCHANGED <<active, consent, alarm>>
  PROVE  WorkerTyped'
BY WorkerForgets DEF WorkerTyped, StartPoll, Places

LEMMA DecisionActedOn ==
  ASSUME WorkerTyped, NEW m, ActOnDecision(m), active # NoBatch,
         UNCHANGED <<attempts, active, consent, alarm>>
  PROVE  WorkerTyped'
<1>1. consent' \in BOOLEAN /\ alarm' \in BOOLEAN
  BY DEF WorkerTyped
<1>2. \/ GoTo("cancel") \/ GoTo("finish") \/ StartPoll \/ ToIdle
  BY DEF ActOnDecision
<1>3. "cancel" \in Places \ {"start"} /\ "finish" \in Places \ {"start"}
  BY DEF Places
<1> QED BY <1>1, <1>2, <1>3, WorkerIdle, WorkerMoves, PollRestarted

LEMMA CommandWorker ==
  ASSUME TypeInv, Command
  PROVE  WorkerTyped'
<1>0. /\ WorkerTyped /\ ManifestsTyped
      /\ pc = "idle" /\ consent \in BOOLEAN /\ alarm \in BOOLEAN
      /\ NoBatch \notin Batches /\ {"auto", "continue", "look"} \subseteq Tasks
      /\ UNCHANGED attempts
  BY ScopeAssumption DEF TypeInv, WorkerTyped, Tasks, Command, Create, Update, Activate, NotActivated,
     Withdraw, Unwithdraw, OnlyManifests, Pause, Resume, Continue, Cancel, Refresh, SetMode, Commandable,
     Free, Unaffected
<1>1. ASSUME UNCHANGED <<worker, ghosts>> PROVE WorkerTyped'
  BY <1>0, <1>1 DEF WorkerTyped, worker, ghosts
<1>2. ASSUME NEW b \in Batches, NEW p \in Plans, Create(b, p) \/ Update(b, p)
      PROVE  WorkerTyped'
  BY <1>1, <1>2, CreateWrites, UpdateWrites DEF Onlookers
<1>3. ASSUME NEW b \in Batches, Withdraw(b) \/ Unwithdraw(b) PROVE WorkerTyped'
  BY <1>1, <1>3, WithdrawalWrites DEF Onlookers
<1>4. ASSUME NEW b \in Batches, Activate(b) PROVE WorkerTyped'
  <2>1. \/ UNCHANGED <<worker, ghosts>>
        \/ active' = b /\ consent' = TRUE /\ alarm' = FALSE /\ BeginPoll("auto")
    BY <1>4, ActivationWrites DEF NotActivated
  <2> QED BY <1>0, <1>1, <2>1, PollBegun
<1>5. ASSUME Pause \/ Cancel \/ Resume PROVE WorkerTyped'
  <2>1. active' # NoBatch /\ consent' \in BOOLEAN /\ alarm' \in BOOLEAN
    BY <1>0, <1>5 DEF Pause, Cancel, Resume, Commandable, SameRuntime, SameLease
  <2>2. BeginPoll("look") \/ BeginPoll("auto") \/ ToIdle
    BY <1>0, <1>5, ControlWrites
  <2> QED BY <1>0, <2>1, <2>2, PollBegun, WorkerIdle
<1>6. ASSUME Continue \/ Refresh PROVE WorkerTyped'
  <2>1. /\ active' # NoBatch /\ UNCHANGED <<consent, alarm>>
        /\ BeginPoll("continue") \/ BeginPoll("look")
    BY <1>6 DEF Continue, Refresh, Commandable, SameRuntime, SameLease, ghosts
  <2> QED BY <1>0, <2>1, PollBegun
<1>7. ASSUME NEW m, SetMode(m) PROVE WorkerTyped'
  <2>1. /\ UNCHANGED <<active, consent, alarm>>
        /\ IF active = NoBatch THEN UNCHANGED worker ELSE BeginPoll("auto")
    BY <1>7 DEF SetMode, SameRuntime, SameLease, ghosts
  <2>2. CASE active = NoBatch
    BY <1>1, <2>1, <2>2 DEF ghosts
  <2>3. CASE active # NoBatch
    BY <1>0, <2>1, <2>3, PollBegun
  <2> QED BY <2>2, <2>3
<1> QED BY <1>2, <1>3, <1>4, <1>5, <1>6, <1>7 DEF Command

LEMMA WorkerStep ==
  ASSUME TypeInv, Next
  PROVE  WorkerTyped'
<1>0. /\ WorkerTyped /\ RunsTyped /\ consent \in BOOLEAN /\ alarm \in BOOLEAN
      /\ NoBatch \notin Batches
      /\ pc \notin {"down", "idle"} => active # NoBatch
      /\ DOMAIN attempts \subseteq DOMAIN attempts'
  BY ScopeAssumption, RunsStep DEF TypeInv, WorkerTyped
<1>1. ASSUME Boot \/ ReleaseAutomation \/ StartExposure \/ StartRefused PROVE WorkerTyped'
  <2>1. ToIdle /\ consent' \in BOOLEAN /\ alarm' \in BOOLEAN
    BY <1>0, <1>1 DEF Boot, ReleaseAutomation, StartExposure, StartRefused, ghosts
  <2> QED BY <2>1, WorkerIdle
<1>2. ASSUME Crash \/ Shutdown PROVE WorkerTyped'
  <2>1. /\ pc' = "down" /\ task' = "none" /\ starting' = FALSE /\ Forget
        /\ UNCHANGED <<consent, alarm>>
    BY <1>2 DEF Crash, Shutdown, Down
  <2> QED BY <1>0, <2>1, WorkerForgets DEF WorkerTyped, Places, Tasks
<1>3. ASSUME Timer PROVE WorkerTyped'
  <2>1. active' # NoBatch /\ UNCHANGED <<consent, alarm>> /\ BeginPoll("auto")
    BY <1>3 DEF Timer, SameRuntime, SameLease, ghosts
  <2> QED BY <1>0, <2>1, PollBegun DEF Tasks
<1>4. ASSUME EnsureActiveRuntime PROVE WorkerTyped'
  <2>1. /\ active # NoBatch /\ UNCHANGED <<active, consent, alarm>>
        /\ GoTo("load") \/ GoTo("idle") \/ ToIdle
    BY <1>4 DEF EnsureActiveRuntime, ghosts
  <2>2. "load" \in Places \ {"start"} /\ "idle" \in Places \ {"start"}
    BY DEF Places
  <2> QED BY <1>0, <2>1, <2>2, WorkerIdle, WorkerMoves
<1>5. ASSUME LoadAttempts PROVE WorkerTyped'
  <2>1. /\ loaded' = HistoryOf(active) /\ pc' = "snapshot" /\ active # NoBatch
        /\ UNCHANGED <<attempts, active, consent, alarm, task, starting, seen, repaired>>
    BY <1>0, <1>5 DEF LoadAttempts, PollOnly
  <2> QED BY <1>0, <2>1, HistoryTyped DEF WorkerTyped, Places
<1>6. ASSUME ReadController PROVE WorkerTyped'
  <2>1. /\ seen' = Snapshot(TRUE, current = NoRun, current) /\ pc' = "assess"
        /\ active # NoBatch
        /\ UNCHANGED <<attempts, active, consent, alarm, task, starting, loaded, repaired>>
    BY <1>0, <1>6 DEF ReadController, PollOnly
  <2>2. seen' \in [available : BOOLEAN, idle : BOOLEAN,
                   run : DOMAIN attempts' \cup {NoRun, ForeignRun}]
    BY <1>0, <2>1 DEF Snapshot, RunsTyped
  <2> QED BY <1>0, <2>1, <2>2 DEF WorkerTyped, Places
<1>7. ASSUME SourceFailure PROVE WorkerTyped'
  <2>1. AfterPoll /\ active # NoBatch /\ UNCHANGED <<active, consent>>
    BY <1>0, <1>7 DEF SourceFailure, PollOnly
  <2>2. alarm' \in BOOLEAN
    BY <1>7 DEF SourceFailure
  <2> QED BY <1>0, <2>1, <2>2, PollDone
<1>8. ASSUME Publish PROVE WorkerTyped'
  <2>1. AfterPoll /\ active # NoBatch /\ UNCHANGED <<active, consent>>
    BY <1>0, <1>8 DEF Publish, PollOnly
  <2>2. alarm' \in BOOLEAN
    BY <1>8 DEF Publish
  <2> QED BY <1>0, <2>1, <2>2, PollDone
<1>9. ASSUME RepairMetrics PROVE WorkerTyped'
  <2> DEFINE r == Assessed.run
             written == [attempts EXCEPT ![r].dose = attempts[r].measured.dose,
                                         ![r].runtime = attempts[r].measured.runtime]
  <2>1. /\ r \in DOMAIN attempts /\ pc = "assess"
        /\ written = [attempts EXCEPT ![r] = Repaired(r)] /\ Repaired(r) \in Run
    BY <1>0, <1>9, AssessedTyped, RepairedTyped DEF RepairMetrics, MustRepair
  <2>2. /\ repaired' = repaired \cup {r}
        /\ loaded' \in {loaded, [q \in RunsOfBatch(active) |-> written[q]]}
        /\ UNCHANGED <<active, consent, alarm, pc, task, starting, seen>>
    BY <1>9 DEF RepairMetrics, PollOnly
  <2>3. \A q \in DOMAIN attempts : written[q] \in Run
    <3> HIDE DEF r
    <3>1. \A q \in DOMAIN attempts : attempts[q] \in Run
      BY <1>0, RunInLibrary
    <3> QED BY <1>0, <2>1, <3>1 DEF RunsTyped
  <2> HIDE DEF written, r
  <2>4. /\ DOMAIN loaded' \subseteq DOMAIN attempts
        /\ \A q \in DOMAIN loaded' : loaded'[q] \in Run
    <3>1. CASE loaded' = loaded
      BY <1>0, <3>1 DEF WorkerTyped
    <3>2. CASE loaded' = [q \in RunsOfBatch(active) |-> written[q]]
      BY <2>3, <3>2 DEF RunsOfBatch
    <3> QED BY <2>2, <3>1, <3>2
  <2> QED BY <1>0, <2>1, <2>2, <2>4 DEF WorkerTyped
<1>10. ASSUME Dispatch PROVE WorkerTyped'
  <2>1. active # NoBatch /\ UNCHANGED <<attempts, active, consent, alarm>>
    BY <1>0, <1>10 DEF Dispatch, StaysLive, ghosts
  <2>2. ToIdle \/ ActOnDecision(manifest) \/ ActOnDecision(Synced)
    BY <1>10, DispatchWrites
  <2> QED BY <1>0, <2>1, <2>2, WorkerIdle, DecisionActedOn
<1>11. ASSUME CheckCancel PROVE WorkerTyped'
  <2>1. /\ active # NoBatch /\ UNCHANGED <<attempts, active, consent, alarm>>
        /\ GoTo("finish") \/ StartPoll \/ ToIdle
    BY <1>0, <1>11 DEF CheckCancel, StaysLive, ghosts
  <2>2. "finish" \in Places \ {"start"}
    BY DEF Places
  <2> QED BY <1>0, <2>1, <2>2, WorkerIdle, WorkerMoves, PollRestarted
<1>12. ASSUME FinishActive PROVE WorkerTyped'
  <2>1. /\ active # NoBatch /\ UNCHANGED <<active, consent, alarm>>
        /\ GoTo("release") \/ ToIdle
    BY <1>0, <1>12, FinishWrites DEF ghosts
  <2>2. "release" \in Places \ {"start"}
    BY DEF Places
  <2> QED BY <1>0, <2>1, <2>2, WorkerIdle, WorkerMoves
<1>13. ASSUME Environment PROVE WorkerTyped'
  <2>1. UNCHANGED <<worker, ghosts, active, coord>>
    BY <1>13 DEF Environment, RunEnds, MetricsRecorded, Settle, RunOrphaned,
       ForeignRunChanges, QueueLease, ReleaseCarriedOut, Outside, memory
  <2> QED BY <1>0, <2>1, WorkerUnchanged
<1> QED BY <1>1, <1>2, <1>3, <1>4, <1>5, <1>6, <1>7, <1>8, <1>9, <1>10, <1>11, <1>12,
           <1>13, CommandWorker DEF Next, Poll

-----------------------------------------------------------------------------

LEMMA TypeInvInit == Init => TypeInv
<1> SUFFICES ASSUME Init PROVE TypeInv
  OBVIOUS
<1>1. ManifestsTyped
  BY NoManifestTyped DEF Init, ManifestsTyped
<1>2. RunsTyped
  BY ScopeAssumption DEF Init, RunsTyped
<1>3. CoordTyped
  BY NoManifestTyped, NewCoordinatorGood DEF Init, CoordTyped, NoCoordinator
<1>4. WorkerTyped
  <2>1. loaded = << >> /\ repaired = {}
    BY DEF Init
  <2>2. DOMAIN loaded = {}
    BY <2>1
  <2>3. seen \in [available : BOOLEAN, idle : BOOLEAN,
                  run : DOMAIN attempts \cup {NoRun, ForeignRun}]
    BY DEF Init, Unavailable, Snapshot
  <2> QED BY <2>1, <2>2, <2>3 DEF Init, WorkerTyped, Places, Tasks
<1> QED BY <1>1, <1>2, <1>3, <1>4 DEF TypeInv

LEMMA TypeInvStep == TypeInv /\ [Next]_vars => TypeInv'
<1> SUFFICES ASSUME TypeInv, [Next]_vars PROVE TypeInv'
  OBVIOUS
<1>1. ASSUME Next PROVE TypeInv'
  BY <1>1, ManifestsStep, RunsStep, CoordStep, WorkerStep DEF TypeInv
<1>2. ASSUME UNCHANGED vars PROVE TypeInv'
  BY <1>2 DEF vars, durable, memory, worker, ghosts, TypeInv, ManifestsTyped, RunsTyped,
     CoordTyped, WorkerTyped
<1> QED BY <1>1, <1>2

LEMMA TypeInvHolds == Spec => []TypeInv
BY TypeInvInit, TypeInvStep, PTL DEF Spec

(* The theorem: the variables of the batch controller keep their types; in  *)
(* particular the runs, samples and amounts the coordinator acts on exist.  *)
THEOREM ControllerTypes == Spec => []TypeOK
<1>1. TypeInv => TypeOK
  BY DEF TypeInv, TypeOK, ManifestsTyped, RunsTyped, CoordTyped, GoodCoordinator, WorkerTyped
<1> QED BY <1>1, TypeInvHolds, PTL

-----------------------------------------------------------------------------
(* The automation lease. *)

LeaseInv ==
  /\ leaseOwned => lease = "batch" \/ unanswered
  /\ unanswered => "lease" \in Faults
  /\ coordLive => leaseOwned
  /\ pc \in {"load", "snapshot", "assess", "dispatch", "cancel", "finish", "start"} => coordLive
  /\ pc = "release" => ~coordLive

LEMMA LeaseCommand ==
  ASSUME TypeInv, LeaseInv, Command \/ Timer
  PROVE  LeaseInv'
<1>1. ASSUME NEW b \in Batches, Activate(b) PROVE LeaseInv'
  <2>1. /\ lease' = "batch" /\ pc = "idle" /\ UNCHANGED unanswered
        /\ \/ leaseOwned' = TRUE /\ coordLive' = TRUE /\ BeginPoll("auto")
           \/ (leaseOwned => leaseOwned') /\ UNCHANGED <<coordLive, pc>>
    BY <1>1, ActivationWrites DEF NotActivated, worker
  <2>2. CASE leaseOwned' = TRUE /\ coordLive' = TRUE /\ BeginPoll("auto")
    <3>1. pc' = "load"
      BY <2>2 DEF BeginPoll
    <3> QED BY <2>1, <2>2, <3>1 DEF LeaseInv
  <2>3. CASE (leaseOwned => leaseOwned') /\ UNCHANGED <<coordLive, pc>>
    BY <2>1, <2>3 DEF LeaseInv
  <2> QED BY <2>1, <2>2, <2>3
<1>2. ASSUME NEW b \in Batches, NEW p \in Plans, Create(b, p) \/ Update(b, p)
      PROVE  LeaseInv'
  <2>1. UNCHANGED <<leaseOwned, unanswered, lease, coordLive, pc>>
    BY <1>2, CreateWrites, UpdateWrites DEF Onlookers, worker
  <2> QED BY <2>1 DEF LeaseInv
<1>5. ASSUME NEW b \in Batches, Withdraw(b) \/ Unwithdraw(b) PROVE LeaseInv'
  <2>1. UNCHANGED <<leaseOwned, unanswered, lease, coordLive, pc>>
    BY <1>5, WithdrawalWrites DEF Onlookers, worker
  <2> QED BY <2>1 DEF LeaseInv
<1>3. ASSUME Pause \/ Cancel \/ Resume PROVE LeaseInv'
  <2>1. UNCHANGED <<lease, leaseOwned, unanswered, coordLive>>
    BY <1>3, ControlWrites DEF TypeInv
  <2>2. BeginPoll("look") \/ BeginPoll("auto") \/ ToIdle
    BY <1>3, ControlWrites DEF TypeInv
  <2>3. pc' \in {"load", "ensure", "idle"} /\ (pc' = "load" => coordLive')
    BY <2>2 DEF BeginPoll, ToIdle
  <2> QED BY <2>1, <2>3 DEF LeaseInv
<1>4. ASSUME Continue \/ Refresh \/ Timer \/ \E m \in {"manual", "automatic"} : SetMode(m)
      PROVE  LeaseInv'
  <2>1. UNCHANGED <<lease, leaseOwned, unanswered, coordLive>>
    BY <1>4 DEF Continue, Refresh, Timer, SetMode, SameRuntime, SameLease
  <2>2. \/ pc' = pc
        \/ BeginPoll("auto") \/ BeginPoll("continue") \/ BeginPoll("look")
    BY <1>4 DEF Continue, Refresh, Timer, SetMode, worker
  <2>3. pc' = pc \/ (pc' \in {"load", "ensure"} /\ (pc' = "load" => coordLive'))
    BY <2>2 DEF BeginPoll
  <2>4. CASE pc' = pc
    BY <2>1, <2>4 DEF LeaseInv
  <2>5. CASE pc' \in {"load", "ensure"} /\ (pc' = "load" => coordLive')
    BY <2>1, <2>5 DEF LeaseInv
  <2> QED BY <2>3, <2>4, <2>5
<1> QED BY <1>1, <1>2, <1>3, <1>4, <1>5 DEF Command

LEMMA LeasePoll ==
  ASSUME TypeInv, LeaseInv, Poll
  PROVE  LeaseInv'
<1>1. ASSUME EnsureActiveRuntime PROVE LeaseInv'
  BY <1>1 DEF EnsureActiveRuntime, AcquireLease, SameLease, GrantUnheard, GoTo, ToIdle, LeaseInv
<1>2. ASSUME LoadAttempts \/ ReadController \/ RepairMetrics PROVE LeaseInv'
  <2>1. /\ UNCHANGED <<lease, leaseOwned, unanswered, coordLive>>
        /\ pc \in {"load", "snapshot", "assess"} /\ pc' \in {"snapshot", "assess"}
    BY <1>2 DEF LoadAttempts, ReadController, RepairMetrics, PollOnly
  <2> QED BY <2>1 DEF LeaseInv
<1>3. ASSUME SourceFailure \/ Publish PROVE LeaseInv'
  <2>1. /\ pc \in {"load", "snapshot", "assess"} /\ UNCHANGED <<lease, leaseOwned, unanswered, coordLive>>
        /\ pc' \in {"dispatch", "start", "idle"}
    BY <1>3 DEF SourceFailure, Publish, PollOnly, AfterPoll
  <2> QED BY <2>1 DEF LeaseInv
<1>4. ASSUME Dispatch \/ CheckCancel PROVE LeaseInv'
  <2>1. /\ pc \in {"dispatch", "cancel"} /\ UNCHANGED <<lease, leaseOwned, unanswered, coordLive>>
    BY <1>4 DEF Dispatch, CheckCancel, StaysLive
  <2>2. pc' \in {"load", "cancel", "finish", "idle"}
    BY <1>4, DispatchWrites DEF CheckCancel, ActOnDecision, GoTo, StartPoll, ToIdle
  <2> QED BY <2>1, <2>2 DEF LeaseInv
<1>5. ASSUME FinishActive PROVE LeaseInv'
  <2>1. /\ pc = "finish" /\ UNCHANGED <<lease, leaseOwned, unanswered>>
        /\ \/ coordLive' = FALSE /\ pc' = "release"
           \/ UNCHANGED coordLive /\ pc' = "idle"
    BY <1>5, FinishWrites DEF GoTo, ToIdle
  <2> QED BY <2>1 DEF LeaseInv
<1>7. ASSUME ReleaseAutomation PROVE LeaseInv'
  <2>1. pc = "release" /\ pc' = "idle" /\ UNCHANGED coordLive
    BY <1>7 DEF ReleaseAutomation, ToIdle
  <2>2. \/ leaseOwned' = FALSE /\ unanswered' = FALSE
        \/ /\ UNCHANGED <<lease, leaseOwned>> /\ "lease" \in Faults
           /\ unanswered => unanswered'
    BY <1>7 DEF ReleaseAutomation
  <2>3. ~coordLive'
    BY <2>1 DEF LeaseInv
  <2> QED BY <2>1, <2>2, <2>3 DEF LeaseInv
<1>6. ASSUME StartExposure \/ StartRefused PROVE LeaseInv'
  BY <1>6 DEF StartExposure, StartRefused, ToIdle, LeaseInv, memory, durable
<1> QED BY <1>1, <1>2, <1>3, <1>4, <1>5, <1>6, <1>7 DEF Poll

LEMMA LeaseInvStep == TypeInv /\ LeaseInv /\ [Next]_vars => LeaseInv'
<1> SUFFICES ASSUME TypeInv, LeaseInv, [Next]_vars PROVE LeaseInv'
  OBVIOUS
<1>1. ASSUME Boot \/ Crash \/ Shutdown PROVE LeaseInv'
  BY <1>1 DEF Boot, Crash, Shutdown, Down, ToIdle, LeaseInv
<1>2. ASSUME Environment PROVE LeaseInv'
  <2>1. /\ UNCHANGED <<leaseOwned, unanswered, coordLive, pc>>
        /\ lease = "batch" => lease' = "batch" \/ unanswered
    BY <1>2 DEF Environment, RunEnds, MetricsRecorded, Settle, RunOrphaned,
       ForeignRunChanges, QueueLease, ReleaseCarriedOut, Outside, memory, worker
  <2> QED BY <2>1 DEF LeaseInv
<1>3. ASSUME UNCHANGED vars PROVE LeaseInv'
  BY <1>3 DEF vars, durable, memory, worker, LeaseInv
<1> QED BY <1>1, <1>2, <1>3, LeaseCommand, LeasePoll DEF Next

\* Only a start makes the run library grow.
LEMMA OnlyStartsStart ==
  ASSUME TypeInv, Next, RunStarts
  PROVE  StartExposure
<1> SUFFICES ASSUME ~StartExposure PROVE Len(attempts') = Len(attempts)
  BY RunInLibrary DEF RunStarts, TypeInv
<1>0. RunsTyped
  BY DEF TypeInv
<1>1. ASSUME NEW r \in DOMAIN attempts, NEW new,
             attempts' = [attempts EXCEPT ![r] = new]
      PROVE  Len(attempts') = Len(attempts)
  BY <1>0, <1>1 DEF RunsTyped
<1>2. ASSUME RepairMetrics PROVE Len(attempts') = Len(attempts)
  <2> DEFINE r == Assessed.run
  <2>1. r \in DOMAIN attempts
    BY <1>2, AssessedTyped DEF RepairMetrics, MustRepair
  <2>2. attempts' \in {attempts, [attempts EXCEPT ![r] = Repaired(r)]}
    BY <1>0, <1>2, <2>1, RepairedTyped DEF RepairMetrics
  <2> HIDE DEF r
  <2> QED BY <1>1, <2>1, <2>2
<1>3. ASSUME NEW outcome \in Outcomes, RunEnds(outcome) PROVE Len(attempts') = Len(attempts)
  <2>1. /\ current \in DOMAIN attempts
        /\ \E new : attempts' = [attempts EXCEPT ![current] = new]
    BY <1>0, <1>3 DEF RunEnds, RunsTyped
  <2> QED BY <1>1, <2>1
<1>4. ASSUME NEW r \in DOMAIN attempts, MetricsRecorded(r)
      PROVE  Len(attempts') = Len(attempts)
  <2>1. attempts' = [attempts EXCEPT ![r] = Repaired(r)]
    BY <1>0, <1>4, RepairedTyped DEF MetricsRecorded
  <2> QED BY <1>1, <2>1
<1> QED BY <1>2, <1>3, <1>4, RunsUnchanged DEF WritesRuns

(* The theorem: no exposure starts unless the batch controller owns the     *)
(* automation lease, whatever fails, crashes and competes for it; except    *)
(* after a release that was not answered in time, which may have taken the  *)
(* lease away and leaves `_lease_owned` set (`_release_automation`).        *)
THEOREM StartsHoldTheLease == Spec => StartHoldsLease
<1>1. Init => LeaseInv
  BY DEF Init, LeaseInv
<1>2. TypeInv /\ LeaseInv /\ [Next]_vars => (RunStarts => lease = "batch" \/ unanswered)
  <2> SUFFICES ASSUME TypeInv, LeaseInv, [Next]_vars, RunStarts
               PROVE  lease = "batch" \/ unanswered
    OBVIOUS
  <2>1. Next
    BY RunInLibrary DEF RunStarts, vars, durable, TypeInv
  <2>2. pc = "start"
    BY <2>1, OnlyStartsStart DEF StartExposure
  <2> QED BY <2>2 DEF LeaseInv
<1> QED BY <1>1, <1>2, LeaseInvStep, TypeInvHolds, PTL DEF Spec, StartHoldsLease

(* The theorem: without that fault there is no exception; every exposure    *)
(* starts while the batch controller owns the lease, through failing saves, *)
(* reads and starts, crashes and commands in any order.                     *)
THEOREM StartsAlwaysHoldTheLease ==
  ASSUME "lease" \notin Faults
  PROVE  Spec => [][RunStarts => lease = "batch"]_vars
<1>1. Init => LeaseInv
  BY DEF Init, LeaseInv
<1>2. LeaseInv => ~unanswered
  BY DEF LeaseInv
<1> QED BY <1>1, <1>2, LeaseInvStep, TypeInvHolds, StartsHoldTheLease, PTL
           DEF Spec, StartHoldsLease

-----------------------------------------------------------------------------
(* The active manifests, as the controller knows them: the manifest of a    *)
(* save that raised may be on disk, but it is not known, and not counted.   *)

Live(b) == known[b].status = "active"

\* No manifest is known as active but the one in memory, and none at all once
\* it is finished.
LiveInv ==
  /\ \A b, c \in Batches : Live(b) /\ Live(c) => b = c
  /\ pc # "down" => \A b \in Batches : Live(b) => b = active
  /\ pc = "release" => \A b \in Batches : ~Live(b)

LEMMA LiveKept ==
  ASSUME LiveInv, pc # "down", pc' # "release", UNCHANGED active,
         \A b \in Batches : Live(b)' => Live(b) \/ b = active
  PROVE  LiveInv'
BY DEF LiveInv

\* A manifest that is saved makes at most itself active.
LEMMA LiveSaved ==
  ASSUME ManifestsTyped, NEW b, NEW new, Saved(b, new) \/ UNCHANGED known,
         NEW c \in Batches
  PROVE  Live(c)' => Live(c) \/ (c = b /\ new.status = "active")
BY DEF ManifestsTyped, Live, Saved

LEMMA LiveCommand ==
  ASSUME TypeInv, LiveInv, Command
  PROVE  LiveInv'
<1>0. /\ ManifestsTyped /\ pc = "idle" /\ NoBatch \notin Batches
      /\ \A b \in Batches : known[b] \in Manifest
  BY ScopeAssumption DEF TypeInv, ManifestsTyped, Command, Create, Update, Activate,
     Withdraw, Unwithdraw, Pause, Resume, Continue, Cancel, Refresh, SetMode, Commandable, Free
<1>1. ASSUME NEW b \in Batches, Activate(b) PROVE LiveInv'
  <2>1. \A c \in Batches : ~Live(c)
    BY <1>0, <1>1, ActivationWrites DEF LiveInv
  <2>2. CASE Saved(b, Activated(b)) /\ active' = b /\ BeginPoll("auto")
    <3>1. \A c \in Batches : Live(c)' => c = b
      BY <1>0, <2>1, <2>2, LiveSaved
    <3>2. pc' # "release"
      BY <2>2 DEF BeginPoll
    <3> QED BY <2>2, <3>1, <3>2 DEF LiveInv
  <2>3. CASE UNCHANGED <<known, active, pc>>
    BY <1>0, <2>1, <2>3 DEF LiveInv, Live
  <2> QED BY <1>1, <2>2, <2>3, ActivationWrites DEF NotActivated, Raised, worker
<1>2. ASSUME NEW b \in Batches, NEW new, Saved(b, new) \/ Raised(b, new),
             new.status # "active" \/ Live(b), UNCHANGED <<active, pc>>
      PROVE  LiveInv'
  <2>1. \A c \in Batches : Live(c)' => Live(c)
    BY <1>0, <1>2, LiveSaved DEF Raised
  <2> QED BY <1>0, <1>2, <2>1, LiveKept
<1>3. ASSUME NEW b \in Batches, NEW p \in Plans, Create(b, p) PROVE LiveInv'
  <2>1. Created(p).status = "draft"
    BY DEF Created, NoManifest
  <2> QED BY <1>2, <1>3, <2>1, CreateWrites DEF Onlookers, worker
<1>4. ASSUME NEW b \in Batches, NEW p \in Plans, Update(b, p) PROVE LiveInv'
  <2>1. Updated(b, p).status = known[b].status
    BY <1>0 DEF Updated, Manifest
  <2> QED BY <1>2, <1>4, <2>1, UpdateWrites DEF Live, worker
<1>5. ASSUME NEW b \in Batches, Withdraw(b) \/ Unwithdraw(b) PROVE LiveInv'
  <2>1. Withdrawn(b).status = "withdrawn" /\ Unwithdrawn(b).status = "draft"
    BY <1>0 DEF Withdrawn, Unwithdrawn, Manifest
  <2> QED BY <1>2, <1>5, <2>1, WithdrawalWrites DEF Onlookers, worker
<1>6. ASSUME Pause \/ Cancel \/ Resume PROVE LiveInv'
  <2>1. PICK m : /\ Saved(active, m) \/ Raised(active, m)
                 /\ BeginPoll("look") \/ BeginPoll("auto") \/ ToIdle
    BY <1>0, <1>6, ControlWrites
  <2>2. pc' # "release" /\ UNCHANGED active
    BY <1>0, <1>6, <2>1, ControlWrites DEF BeginPoll, ToIdle
  <2>3. \A c \in Batches : Live(c)' => Live(c) \/ c = active
    BY <1>0, <2>1, LiveSaved DEF Raised
  <2> QED BY <1>0, <2>2, <2>3, LiveKept
<1>7. ASSUME Continue \/ Refresh \/ \E m \in {"manual", "automatic"} : SetMode(m)
      PROVE  LiveInv'
  <2>1. UNCHANGED <<known, active>>
    BY <1>7 DEF Continue, Refresh, SetMode, SameRuntime
  <2>2. pc' \in {pc, "load", "ensure"}
    BY <1>7 DEF Continue, Refresh, SetMode, BeginPoll, worker
  <2> QED BY <1>0, <2>1, <2>2, LiveKept DEF Live
<1> QED BY <1>1, <1>3, <1>4, <1>5, <1>6, <1>7 DEF Command

\* A set of at most one element.
LEMMA AtMostOne ==
  ASSUME NEW S, IsFiniteSet(S), Cardinality(S) <= 1, NEW x \in S, NEW y \in S
  PROVE  x = y
<1> SUFFICES ASSUME x # y PROVE FALSE
  OBVIOUS
<1>1. IsFiniteSet({x}) /\ Cardinality({x}) = 1
  BY FS_Singleton
<1>2. Cardinality({x} \cup {y}) = 2
  BY <1>1, FS_AddElement
<1>3. Cardinality({x} \cup {y}) <= Cardinality(S)
  BY FS_Subset
<1>4. Cardinality(S) \in Nat
  BY FS_CardinalityType
<1> QED BY <1>2, <1>3, <1>4

LEMMA LiveBoot ==
  ASSUME TypeInv, Boot
  PROVE  LiveInv'
<1>1. pc' = "idle" /\ known' = store'
  BY DEF Boot, ToIdle
<1>2. \A b, c \in LiveManifests : b = c
  <2>1. IsFiniteSet(LiveManifests) /\ Cardinality(LiveManifests) <= 1
    BY ScopeAssumption, FS_Subset DEF Boot, LiveManifests
  <2> QED BY <2>1, AtMostOne
<1>3. CASE LiveManifests = {} /\ UNCHANGED store
  BY <1>1, <1>3 DEF LiveManifests, LiveInv, Live
<1>4. CASE \E b \in LiveManifests :
             store' = [store EXCEPT ![b] = Restored(store[b])] /\ active' = b
  <2>1. PICK b \in LiveManifests :
          store' = [store EXCEPT ![b] = Restored(store[b])] /\ active' = b
    BY <1>4
  <2>2. \A c \in Batches : Live(c)' => c \in LiveManifests
    BY <1>1, <2>1 DEF TypeInv, ManifestsTyped, LiveManifests, Live
  <2> QED BY <1>1, <1>2, <2>1, <2>2 DEF LiveInv
<1> QED BY <1>3, <1>4 DEF Boot

LEMMA LiveInvStep == TypeInv /\ LiveInv /\ [Next]_vars => LiveInv'
<1> SUFFICES ASSUME TypeInv, LiveInv, [Next]_vars PROVE LiveInv'
  OBVIOUS
<1>0. ManifestsTyped
  BY DEF TypeInv
<1>2. ASSUME Crash \/ Shutdown PROVE LiveInv'
  BY <1>2 DEF Crash, Shutdown, Down, LiveInv, Live
<1>3. ASSUME Timer \/ EnsureActiveRuntime \/ LoadAttempts \/ ReadController
             \/ SourceFailure \/ RepairMetrics \/ Publish \/ CheckCancel
             \/ StartExposure \/ StartRefused
      PROVE  LiveInv'
  <2>1. UNCHANGED <<known, active>> /\ pc # "down" /\ pc # "release"
    BY <1>3 DEF Timer, SameRuntime, EnsureActiveRuntime, Unaffected, LoadAttempts,
       ReadController, SourceFailure, RepairMetrics, Publish, PollOnly, CheckCancel,
       StaysLive, StartExposure, StartRefused, memory, durable
  <2>2. pc' # "release"
    BY <1>3, <2>1 DEF Timer, BeginPoll, EnsureActiveRuntime, GoTo, ToIdle, LoadAttempts,
       ReadController, SourceFailure, RepairMetrics, Publish, AfterPoll, CheckCancel,
       StartPoll, StartExposure, StartRefused
  <2> QED BY <2>1, <2>2, LiveKept DEF Live
<1>4. ASSUME Dispatch PROVE LiveInv'
  <2>1. UNCHANGED active /\ pc = "dispatch"
    BY <1>4 DEF Dispatch, StaysLive
  <2>2. pc' # "release"
    BY <1>4, DispatchWrites DEF ActOnDecision, GoTo, StartPoll, ToIdle
  <2>3. Saved(active, Synced) \/ UNCHANGED known
    BY <1>4, DispatchWrites DEF Raised
  <2>4. \A b \in Batches : Live(b)' => Live(b) \/ b = active
    BY <1>0, <2>3, LiveSaved
  <2> QED BY <2>1, <2>2, <2>4, LiveKept
<1>5. ASSUME FinishActive PROVE LiveInv'
  <2>1. Finished.status # "active" /\ pc = "finish" /\ UNCHANGED active
    BY <1>5, FinishedTyped, FinishWrites
  <2>2. CASE Saved(active, Finished)
    <3>1. \A b \in Batches : Live(b)' => Live(b) /\ b # active
      BY <1>0, <2>1, <2>2 DEF ManifestsTyped, Live, Saved
    <3>2. \A b \in Batches : ~Live(b)'
      BY <2>1, <3>1 DEF LiveInv
    <3> QED BY <3>2 DEF LiveInv
  <2>3. CASE UNCHANGED known /\ ToIdle
    BY <2>1, <2>3, LiveKept DEF Live, ToIdle
  <2> QED BY <1>5, <2>2, <2>3, FinishWrites DEF Raised
<1>6. ASSUME ReleaseAutomation PROVE LiveInv'
  BY <1>6 DEF ReleaseAutomation, ToIdle, LiveInv, Live
<1>7. ASSUME Environment \/ UNCHANGED vars PROVE LiveInv'
  <2>1. UNCHANGED <<known, active, pc>>
    BY <1>7 DEF Environment, RunEnds, MetricsRecorded, Settle, RunOrphaned,
       ForeignRunChanges, QueueLease, ReleaseCarriedOut, Outside, memory, worker, vars, durable
  <2> QED BY <2>1 DEF LiveInv, Live
<1> QED BY <1>2, <1>3, <1>4, <1>5, <1>6, <1>7, LiveCommand, LiveBoot DEF Next, Poll

(* The theorem: there are never two active manifests on disk but for those  *)
(* whose last save raised after it was written.                             *)
THEOREM OneActiveManifest == Spec => []AtMostOneActiveManifest
<1>1. Init => LiveInv
  BY DEF Init, LiveInv, Live, NoManifest
<1>2. LiveInv => AtMostOneActiveManifest
  <2> DEFINE Counted == LiveManifests \ Astray
  <2> SUFFICES ASSUME LiveInv PROVE Cardinality(Counted) <= 1
    BY DEF AtMostOneActiveManifest
  <2>1. \A b \in Counted : b \in Batches /\ Live(b)
    BY DEF LiveManifests, Astray, Live
  <2>2. CASE Counted = {}
    BY <2>2, FS_EmptySet
  <2>3. CASE Counted # {}
    <3>1. PICK b \in Counted : TRUE
      BY <2>3
    <3>2. Counted = {b}
      BY <2>1, <3>1 DEF LiveInv
    <3> HIDE DEF Counted
    <3> QED BY <3>2, FS_Singleton
  <2> QED BY <2>2, <2>3
<1> QED BY <1>1, <1>2, LiveInvStep, TypeInvHolds, PTL DEF Spec

-----------------------------------------------------------------------------
(* Consent and errors.  What the operator has stopped, and what an error    *)
(* has stopped, is held by the coordinator while there is one, and by the   *)
(* manifest, as the active one and as the one last saved, while there is    *)
(* none.  A release of the lease that fails breaks this: it leaves an       *)
(* active batch in memory without the coordinator that held it.             *)

Held == ~consent \/ alarm

HoldInv ==
  /\ active # NoBatch /\ coordLive /\ ~consent => coord.paused
  /\ active # NoBatch /\ coordLive /\ alarm => coord.paused \/ Latched
  /\ active # NoBatch /\ ~coordLive /\ pc # "release" /\ Held =>
       manifest.paused /\ known[active].paused
  /\ pc = "start" => ~coord.paused /\ ~Latched
  /\ pc = "down" => ~coordLive /\ active = NoBatch

\* The coordinator holds on to what it held, and only it matters.
LEMMA HeldByCoordinator ==
  ASSUME HoldInv, coordLive, active # NoBatch, pc # "down",
         UNCHANGED <<active, coordLive, consent>>, pc' \notin {"down", "start"},
         coord'.paused = coord.paused, alarm' = alarm,
         coord'.source_paused = coord.source_paused,
         coord'.logic_paused = coord.logic_paused
  PROVE  HoldInv'
BY DEF HoldInv, Held, Latched

\* Nothing that matters changes.
LEMMA HoldKept ==
  ASSUME HoldInv, UNCHANGED <<active, coordLive, coord, consent, alarm, manifest, known>>,
         pc' = pc \/ (pc' \notin {"down", "start"} /\ pc \notin {"down", "release"})
  PROVE  HoldInv'
BY DEF HoldInv, Held, Latched

LEMMA HoldCommand ==
  ASSUME TypeInv, HoldInv, Command
  PROVE  HoldInv'
<1>0. /\ pc = "idle" /\ known \in [Batches -> Manifest] /\ active \in Batches \cup {NoBatch}
      /\ \A b \in Batches : known[b] \in Manifest
      /\ manifest \in Manifest /\ coord \in Coordinator /\ NoBatch \notin Batches
      /\ ManifestsTyped
  BY ScopeAssumption DEF TypeInv, ManifestsTyped, CoordTyped, GoodCoordinator, Command,
     Create, Update, Activate, Withdraw, Unwithdraw, Pause, Resume, Continue, Cancel,
     Refresh, SetMode, Commandable, Free
<1>1. ASSUME NEW b \in Batches, Activate(b) PROVE HoldInv'
  <2>1. active = NoBatch
    BY <1>1, ActivationWrites
  <2>2. CASE UNCHANGED <<active, pc>>
    BY <1>0, <2>1, <2>2 DEF HoldInv
  <2>3. CASE coordLive' = TRUE /\ consent' = TRUE /\ alarm' = FALSE /\ BeginPoll("auto")
    <3>1. pc' = "load"
      BY <2>3 DEF BeginPoll
    <3> QED BY <2>3, <3>1 DEF HoldInv, Held
  <2> QED BY <1>1, <2>2, <2>3, ActivationWrites DEF NotActivated, worker
<1>3. ASSUME NEW b \in Batches, NEW p \in Plans, Create(b, p) PROVE HoldInv'
  <2>1. Created(p).paused
    BY DEF Created, NoManifest
  <2>2. /\ Saved(b, Created(p)) \/ Raised(b, Created(p))
        /\ UNCHANGED <<active, coordLive, consent, alarm, pc, manifest, coord>>
    BY <1>3, CreateWrites DEF Onlookers, worker, ghosts
  <2>3. active \in Batches /\ known[active].paused => known'[active].paused
    BY <1>0, <2>1, <2>2 DEF Saved, Raised
  <2> QED BY <1>0, <2>2, <2>3 DEF HoldInv, Held, Latched
<1>4. ASSUME NEW b \in Batches, NEW p \in Plans, Update(b, p) PROVE HoldInv'
  <2>1. Updated(b, p).paused = known[b].paused
    BY <1>0 DEF Updated, Manifest
  <2>2. /\ coord'.paused = coord.paused /\ coord'.source_paused = coord.source_paused
        /\ coord'.logic_paused = coord.logic_paused
    <3>1. coord' \in {coord, [coord EXCEPT !.plan = p, !.last = NoDecision]}
      BY <1>4, UpdateWrites
    <3> QED BY <1>0, <3>1 DEF Coordinator
  <2>3. /\ Saved(b, Updated(b, p)) \/ Raised(b, Updated(b, p))
        /\ manifest' = manifest \/ (manifest' = Updated(b, p) /\ active = b)
        /\ UNCHANGED <<active, coordLive, consent, alarm, pc>>
    BY <1>4, UpdateWrites DEF worker, ghosts
  <2>4. active \in Batches /\ known[active].paused => known'[active].paused
    BY <1>0, <2>1, <2>3 DEF Saved, Raised
  <2>5. active \in Batches /\ known[active].paused /\ manifest.paused => manifest'.paused
    BY <2>1, <2>3
  <2> QED BY <1>0, <2>2, <2>3, <2>4, <2>5 DEF HoldInv, Held, Latched
<1>8. ASSUME NEW b \in Batches, Withdraw(b) \/ Unwithdraw(b) PROVE HoldInv'
  <2>1. Withdrawn(b).paused /\ Unwithdrawn(b).paused
    BY <1>0 DEF Withdrawn, Unwithdrawn, Manifest
  <2>2. /\ \E m \in {Withdrawn(b), Unwithdrawn(b)} : Saved(b, m) \/ Raised(b, m)
        /\ UNCHANGED <<active, coordLive, consent, alarm, pc, manifest, coord>>
    BY <1>8, WithdrawalWrites DEF Onlookers, worker, ghosts
  <2>3. active \in Batches /\ known[active].paused => known'[active].paused
    BY <1>0, <2>1, <2>2 DEF Saved, Raised
  <2> QED BY <1>0, <2>2, <2>3 DEF HoldInv, Held, Latched
<1>5. ASSUME Pause \/ Cancel PROVE HoldInv'
  <2>1. /\ coordLive /\ coord' = [coord EXCEPT !.paused = TRUE]
        /\ UNCHANGED <<active, coordLive>>
    BY <1>5 DEF Pause, Cancel, SameRuntime, SameLease
  <2>2. BeginPoll("look") \/ BeginPoll("auto") \/ ToIdle
    BY <1>0, <1>5, ControlWrites
  <2>3. pc' \in {"load", "ensure", "idle"}
    BY <2>2 DEF BeginPoll, ToIdle
  <2>4. coord'.paused
    BY <1>0, <2>1 DEF Coordinator
  <2> QED BY <2>1, <2>3, <2>4 DEF HoldInv
<1>6. ASSUME Resume PROVE HoldInv'
  <2>1. /\ coordLive /\ UNCHANGED <<active, coordLive>> /\ consent' = TRUE /\ alarm' = FALSE
    BY <1>6 DEF Resume, SameRuntime, SameLease
  <2>2. BeginPoll("look") \/ BeginPoll("auto") \/ ToIdle
    BY <1>0, <1>6, ControlWrites
  <2>3. pc' \in {"load", "ensure", "idle"}
    BY <2>2 DEF BeginPoll, ToIdle
  <2> QED BY <2>1, <2>3 DEF HoldInv, Held
<1>7. ASSUME Continue \/ Refresh \/ \E m \in {"manual", "automatic"} : SetMode(m)
      PROVE  HoldInv'
  <2>1. UNCHANGED <<active, coordLive, coord, consent, alarm, manifest, known>>
    BY <1>7 DEF Continue, Refresh, SetMode, SameRuntime, SameLease, ghosts
  <2>2. pc' \in {pc, "load", "ensure"}
    BY <1>7 DEF Continue, Refresh, SetMode, BeginPoll, worker
  <2> QED BY <1>0, <2>1, <2>2, HoldKept
<1> QED BY <1>1, <1>3, <1>4, <1>5, <1>6, <1>7, <1>8 DEF Command

LEMMA HoldPublish ==
  ASSUME TypeInv, LeaseInv, HoldInv, SourceFailure \/ Publish
  PROVE  HoldInv'
<1>0. /\ coordLive /\ active # NoBatch /\ coord \in Coordinator
      /\ UNCHANGED <<active, coordLive, consent>>
      /\ pc' \in {"dispatch", "start", "idle"}
  BY DEF TypeInv, WorkerTyped, CoordTyped, GoodCoordinator, LeaseInv, SourceFailure, Publish,
     PollOnly, AfterPoll
<1>1. coord'.paused = coord.paused
  BY <1>0 DEF SourceFailure, Publish, Coordinator
<1>2. (coord.source_paused => coord'.source_paused) /\ (coord.logic_paused => coord'.logic_paused)
  BY <1>0 DEF SourceFailure, Publish, Coordinator
<1>3. alarm' => alarm \/ coord'.source_paused \/ coord'.logic_paused
  <2>1. CASE SourceFailure
    BY <1>0, <2>1 DEF SourceFailure, Coordinator
  <2>2. CASE Publish
    <3> DEFINE clear == Assessed.kind \in {"paused", "start_remainder", "complete"}
               shown == IF Latched /\ clear THEN Plain("pause_error") ELSE Assessed
    <3>1. /\ alarm' = (alarm \/ shown.kind = "pause_error")
          /\ coord' = [coord EXCEPT !.last = shown,
                         !.logic_paused = @ \/ Assessed.kind = "pause_error"]
      BY <2>2 DEF Publish
    <3>2. coord'.logic_paused = (coord.logic_paused \/ Assessed.kind = "pause_error")
      BY <1>0, <3>1 DEF Coordinator
    <3>3. shown.kind = "pause_error" => Latched \/ Assessed.kind = "pause_error"
      OBVIOUS
    <3> HIDE DEF shown
    <3> QED BY <1>2, <3>1, <3>2, <3>3 DEF Latched
  <2> QED BY <2>1, <2>2
<1>4. pc' = "start" => ~coord'.paused /\ ~Latched'
  <2> SUFFICES ASSUME pc' = "start" PROVE ~coord'.paused /\ ~Latched'
    OBVIOUS
  <2>1. coord'.last.kind = "start_remainder"
    BY DEF SourceFailure, Publish, AfterPoll
  <2>2. ~SourceFailure
    <3> SUFFICES ASSUME SourceFailure PROVE coord'.last.kind # "start_remainder"
      BY <2>1
    <3>1. \E f : \E p : \E kind \in {"pause_error", "wait_controller"} :
            coord' = [coord EXCEPT !.failures = f, !.source_paused = p, !.last = Plain(kind)]
      BY DEF SourceFailure
    <3> QED BY <1>0, <3>1 DEF Coordinator, Plain, Decision
  <2> DEFINE clear == Assessed.kind \in {"paused", "start_remainder", "complete"}
             shown == IF Latched /\ clear THEN Plain("pause_error") ELSE Assessed
  <2>3. coord' = [coord EXCEPT !.last = shown,
                    !.logic_paused = @ \/ Assessed.kind = "pause_error"]
    BY <2>2 DEF Publish
  <2>4. /\ coord'.last = shown /\ coord'.paused = coord.paused
        /\ coord'.source_paused = coord.source_paused
        /\ coord'.logic_paused = (coord.logic_paused \/ Assessed.kind = "pause_error")
    BY <1>0, <2>3 DEF Coordinator
  <2>5. Assessed.kind = "start_remainder"
    BY <2>1, <2>4 DEF Plain, Decision
  <2>6. ~(coord.paused \/ Latched)
    BY <2>5, DecisionKinds DEF Assessed
  <2> QED BY <2>4, <2>5, <2>6 DEF Latched
<1> QED BY <1>0, <1>1, <1>2, <1>3, <1>4 DEF HoldInv, Held, Latched

LEMMA HoldPoll ==
  ASSUME TypeInv, LeaseInv, HoldInv, Poll, "lease" \notin Faults
  PROVE  HoldInv'
<1>0. /\ coord \in Coordinator /\ manifest \in Manifest
      /\ pc \notin {"down", "idle"} => active # NoBatch
      /\ pc \in {"load", "snapshot", "assess", "dispatch", "cancel", "finish", "start"} => coordLive
  BY DEF TypeInv, ManifestsTyped, CoordTyped, GoodCoordinator, WorkerTyped, LeaseInv
<1>1. ASSUME EnsureActiveRuntime PROVE HoldInv'
  <2>1. /\ active # NoBatch /\ pc \in {"idle", "ensure"} /\ ~coordLive
        /\ UNCHANGED <<known, active, manifest, consent, alarm>>
        /\ pc' \in {"load", "idle"}
        /\ \/ coordLive' = TRUE /\ coord' = NewCoordinator(manifest)
           \/ UNCHANGED <<coordLive, coord>>
    BY <1>1 DEF EnsureActiveRuntime, GoTo, ToIdle, ghosts
  <2>2. Held => manifest.paused
    BY <2>1 DEF HoldInv
  <2>3. CASE coordLive' = TRUE /\ coord' = NewCoordinator(manifest)
    BY <2>1, <2>2, <2>3 DEF HoldInv, Held, NewCoordinator
  <2>4. CASE UNCHANGED <<coordLive, coord>>
    BY <2>1, <2>4, HoldKept
  <2> QED BY <2>1, <2>3, <2>4
<1>2. ASSUME LoadAttempts \/ ReadController \/ RepairMetrics PROVE HoldInv'
  <2>1. /\ pc \in {"load", "snapshot", "assess"} /\ UNCHANGED <<active, coordLive, consent, alarm>>
        /\ pc' \in {"snapshot", "assess"}
    BY <1>2 DEF LoadAttempts, ReadController, RepairMetrics, PollOnly
  <2>2. /\ coord'.paused = coord.paused /\ coord'.source_paused = coord.source_paused
        /\ coord'.logic_paused = coord.logic_paused
    <3>1. CASE LoadAttempts
      BY <3>1 DEF LoadAttempts
    <3>2. CASE ReadController
      BY <1>0, <3>2 DEF ReadController, Coordinator
    <3>3. CASE RepairMetrics
      <4>1. \E n, m : coord' = [coord EXCEPT !.repairs = n, !.blocked = m]
        BY <1>0, <3>3 DEF RepairMetrics, Coordinator
      <4> QED BY <1>0, <4>1 DEF Coordinator
    <3> QED BY <1>2, <3>1, <3>2, <3>3
  <2> QED BY <1>0, <2>1, <2>2, HeldByCoordinator
<1>3. ASSUME Dispatch \/ CheckCancel PROVE HoldInv'
  <2>1. /\ pc \in {"dispatch", "cancel"}
        /\ UNCHANGED <<active, coordLive, coord, consent, alarm>>
    BY <1>3 DEF Dispatch, CheckCancel, StaysLive, ghosts
  <2>2. pc' \in {"load", "cancel", "finish", "idle"}
    BY <1>3, DispatchWrites DEF CheckCancel, ActOnDecision, GoTo, StartPoll, ToIdle
  <2> QED BY <1>0, <2>1, <2>2, HeldByCoordinator
<1>4. ASSUME FinishActive PROVE HoldInv'
  <2>1. pc = "finish" /\ UNCHANGED <<active, consent, alarm>>
    BY <1>4, FinishWrites DEF ghosts
  <2>2. CASE coordLive' = FALSE /\ pc' = "release"
    BY <2>1, <2>2 DEF HoldInv
  <2>3. CASE UNCHANGED <<coordLive, coord>> /\ pc' = "idle"
    BY <1>0, <2>1, <2>3, HeldByCoordinator
  <2> QED BY <1>4, <2>2, <2>3, FinishWrites DEF GoTo, ToIdle
<1>5. ASSUME ReleaseAutomation PROVE HoldInv'
  <2>1. active' = NoBatch /\ pc' = "idle"
    BY <1>5, "lease" \notin Faults DEF ReleaseAutomation, ToIdle
  <2> QED BY <2>1 DEF HoldInv
<1>6. ASSUME StartExposure \/ StartRefused PROVE HoldInv'
  <2>1. /\ UNCHANGED <<active, coordLive, coord, consent, alarm, manifest, known>>
        /\ pc = "start" /\ pc' = "idle"
    BY <1>6 DEF StartExposure, StartRefused, ToIdle, memory, durable, ghosts
  <2> QED BY <2>1, HoldKept
<1> QED BY <1>1, <1>2, <1>3, <1>4, <1>5, <1>6, HoldPublish DEF Poll

LEMMA HoldInvStep ==
  ASSUME "lease" \notin Faults
  PROVE  TypeInv /\ LeaseInv /\ HoldInv /\ [Next]_vars => HoldInv'
<1> SUFFICES ASSUME TypeInv, LeaseInv, HoldInv, [Next]_vars PROVE HoldInv'
  OBVIOUS
<1>1. ASSUME Boot PROVE HoldInv'
  <2>1. /\ ~coordLive /\ UNCHANGED <<coordLive, alarm>> /\ pc' = "idle"
        /\ active = NoBatch
    BY <1>1 DEF Boot, ToIdle, HoldInv
  <2>2. CASE UNCHANGED active
    BY <2>1, <2>2 DEF HoldInv
  <2>3. CASE \E b \in LiveManifests :
               /\ store' = [store EXCEPT ![b] = Restored(store[b])]
               /\ active' = b /\ manifest' = store'[b]
    <3>0. known' = store'
      BY <1>1 DEF Boot
    <3>1. manifest'.paused /\ known'[active'].paused
      BY <2>3, <3>0 DEF TypeInv, ManifestsTyped, LiveManifests, Restored, Manifest
    <3> QED BY <2>1, <3>1 DEF HoldInv
  <2> QED BY <1>1, <2>2, <2>3 DEF Boot
<1>2. ASSUME Crash \/ Shutdown PROVE HoldInv'
  BY <1>2 DEF Crash, Shutdown, Down, HoldInv
<1>3. ASSUME Timer PROVE HoldInv'
  <2>1. /\ UNCHANGED <<active, coordLive, coord, consent, alarm, manifest, known>>
        /\ pc = "idle" /\ pc' \in {"load", "ensure"}
    BY <1>3 DEF Timer, SameRuntime, SameLease, BeginPoll, ghosts
  <2> QED BY <2>1, HoldKept
<1>4. ASSUME Environment \/ UNCHANGED vars PROVE HoldInv'
  <2>1. UNCHANGED <<active, coordLive, coord, consent, alarm, manifest, known, pc>>
    BY <1>4 DEF Environment, RunEnds, MetricsRecorded, Settle, RunOrphaned,
       ForeignRunChanges, QueueLease, ReleaseCarriedOut, Outside, memory, worker, ghosts, vars, durable
  <2> QED BY <2>1, HoldKept
<1> QED BY <1>1, <1>2, <1>3, <1>4, HoldCommand, HoldPoll DEF Next

LEMMA HoldInvHolds ==
  ASSUME "lease" \notin Faults
  PROVE  Spec => [](TypeInv /\ LeaseInv /\ HoldInv)
<1>1. Init => LeaseInv /\ HoldInv
  BY DEF Init, LeaseInv, HoldInv
<1> QED BY <1>1, LeaseInvStep, HoldInvStep, TypeInvHolds, PTL DEF Spec

\* What holds when an exposure starts.
LEMMA StartIsNotHeld ==
  ASSUME TypeInv, LeaseInv, HoldInv, [Next]_vars, RunStarts
  PROVE  consent /\ ~alarm
<1>1. Next
  BY RunInLibrary DEF RunStarts, vars, durable, TypeInv
<1>2. pc = "start"
  BY <1>1, OnlyStartsStart DEF StartExposure
<1> QED BY <1>2 DEF TypeInv, WorkerTyped, LeaseInv, HoldInv

(* The theorem: as long as the lease calls do not fail, no exposure starts  *)
(* that the operator has not consented to, through crashes, failing saves   *)
(* and commands in any order.                                               *)
THEOREM StartsHaveConsent ==
  ASSUME "lease" \notin Faults
  PROVE  Spec => StartNeedsConsent
<1>1. TypeInv /\ LeaseInv /\ HoldInv /\ [Next]_vars => (RunStarts => consent)
  BY StartIsNotHeld
<1> QED BY <1>1, HoldInvHolds, PTL DEF Spec, StartNeedsConsent

(* The theorem: under the same condition, every exposure that starts has    *)
(* both the consent of the operator and the lease.                          *)
THEOREM StartsArePermitted ==
  ASSUME "lease" \notin Faults
  PROVE  Spec => StartIsPermitted
BY StartsHaveConsent, StartsHoldTheLease, PTL
   DEF StartIsPermitted, StartNeedsConsent, StartHoldsLease

(* The theorem: under the same condition, no exposure starts between an     *)
(* error and the operator's next word to run.                               *)
THEOREM ErrorsHoldStarts ==
  ASSUME "lease" \notin Faults
  PROVE  Spec => ErrorsStopStarts
<1>1. TypeInv /\ LeaseInv /\ HoldInv /\ [Next]_vars => (RunStarts => ~alarm)
  BY StartIsNotHeld
<1> QED BY <1>1, HoldInvHolds, PTL DEF Spec, ErrorsStopStarts

-----------------------------------------------------------------------------
(* Acknowledgements.  As long as no save fails, the manifests on disk are    *)
(* those in memory, the active one has the acknowledgements and the revision *)
(* of its copy, the coordinator has those acknowledgements and newer ones,   *)
(* and a start is only reached with none that is newer.                      *)

Acks(b) == store[b].acknowledged

SyncInv ==
  /\ \A b \in Batches : store[b].status = "absent" => Acks(b) = {}
  /\ known = store
  /\ active # NoBatch =>
       /\ manifest.status # "absent" /\ store[active].status # "absent"
       /\ manifest.acknowledged = Acks(active)
       /\ manifest.revision = store[active].revision
  /\ active # NoBatch /\ coordLive => manifest.acknowledged \subseteq coord.acknowledged
  /\ pc \in {"cancel", "finish", "start"} \/ starting =>
       manifest.acknowledged = coord.acknowledged
  /\ pc = "down" => ~coordLive /\ active = NoBatch
  /\ starting => pc \in {"load", "snapshot", "assess", "start"}

\* What was loaded is still what the library says of the runs of the batch, and
\* every run of the sample that is to be started was acknowledged.
LoadedInv ==
  /\ pc \in {"snapshot", "assess"} =>
       /\ DOMAIN loaded = RunsOfBatch(active)
       /\ \A r \in DOMAIN loaded : loaded[r].sample = attempts[r].sample
  /\ pc = "start" =>
       \A r \in RunsOfBatch(active) :
         attempts[r].sample = coord.last.sample => r \in coord.acknowledged

SavesWork == "save" \notin Faults

\* A save succeeds, but for one that the revision on disk forbids.
LEMMA SaveWorks ==
  ASSUME SavesWork, NEW b, NEW m, Saved(b, m) \/ Raised(b, m)
  PROVE  \/ Saved(b, m)
         \/ UNCHANGED <<store, known>> /\ store[b].revision # m.revision
BY DEF SavesWork, Raised

\* No step of these touches what is synchronized.
LEMMA SyncKept ==
  ASSUME SyncInv, UNCHANGED <<store, known, active, manifest, coordLive>>, pc # "down",
         pc' # "down", coord'.acknowledged = coord.acknowledged,
         starting' => pc' \in {"load", "snapshot", "assess", "start"},
         pc' \in {"cancel", "finish", "start"} \/ starting' =>
           \/ pc \in {"cancel", "finish", "start"} \/ starting
           \/ manifest.acknowledged = coord.acknowledged
  PROVE  SyncInv'
BY DEF SyncInv, Acks

\* Another manifest of a batch, with the same acknowledgements.
LEMMA StoreEdited ==
  ASSUME TypeInv, SyncInv, pc = "idle", NEW b \in Batches, NEW new,
         new.acknowledged = Acks(b), new.status # "absent",
         Saved(b, new), UNCHANGED <<active, coordLive, pc, starting>>,
         coord'.acknowledged = coord.acknowledged,
         \/ manifest' = manifest /\ (active # b \/ new.revision = store[b].revision)
         \/ active = b /\ manifest' = new
  PROVE  SyncInv'
<1>1. /\ store \in [Batches -> Manifest] /\ NoBatch \notin Batches /\ ~starting
      /\ store' = [store EXCEPT ![b] = new] /\ known' = store'
  BY ScopeAssumption DEF TypeInv, ManifestsTyped, SyncInv, Saved
<1>2. /\ \A c \in Batches : Acks(c)' = Acks(c) /\ (c # b => store'[c] = store[c])
      /\ store'[b] = new
  BY <1>1 DEF Acks
<1>3. \A c \in Batches : store'[c].status = "absent" => c # b
  BY <1>1
<1>4. \A c \in Batches : store'[c].status = "absent" => Acks(c)' = {}
  BY <1>2, <1>3 DEF SyncInv
<1>5. active # NoBatch => active \in Batches
  BY DEF TypeInv, ManifestsTyped
<1>6. active # NoBatch => /\ manifest'.status # "absent" /\ manifest'.acknowledged = Acks(active)
                         /\ store'[active].status # "absent"
                         /\ manifest'.revision = store'[active].revision
  BY <1>2, <1>5 DEF SyncInv
<1> QED BY <1>1, <1>2, <1>4, <1>5, <1>6 DEF SyncInv, Acks

\* The active manifest saved, as a command changes it.
LEMMA ActiveSaved ==
  ASSUME TypeInv, SyncInv, active # NoBatch, NEW m, m.status = manifest.status,
         manifest' = m, Saved(active, m), UNCHANGED <<active, coordLive>>,
         m.acknowledged \subseteq coord'.acknowledged, pc # "down", pc' # "down",
         starting' => pc' \in {"load", "snapshot", "assess", "start"},
         pc' \in {"cancel", "finish", "start"} \/ starting' =>
           m.acknowledged = coord'.acknowledged
  PROVE  SyncInv'
<1>1. /\ store \in [Batches -> Manifest] /\ active \in Batches
      /\ store' = [store EXCEPT ![active] = m] /\ known' = store'
  BY DEF TypeInv, ManifestsTyped, SyncInv, Saved
<1>2. /\ store'[active] = m /\ Acks(active)' = m.acknowledged /\ m.status # "absent"
      /\ \A c \in Batches : c # active => store'[c] = store[c] /\ Acks(c)' = Acks(c)
  BY <1>1 DEF Acks, SyncInv
<1>3. \A c \in Batches : store'[c].status = "absent" => Acks(c)' = {}
  BY <1>2 DEF SyncInv
<1> QED BY <1>1, <1>2, <1>3 DEF SyncInv

LEMMA SyncCommand ==
  ASSUME SavesWork, TypeInv, SyncInv, Command
  PROVE  SyncInv'
<1>0. /\ pc = "idle" /\ ~starting /\ ManifestsTyped
      /\ \A b \in Batches : known[b] \in Manifest /\ known[b] = store[b]
      /\ manifest \in Manifest /\ coord \in Coordinator /\ NoBatch \notin Batches
      /\ store \in [Batches -> Manifest]
  BY ScopeAssumption DEF TypeInv, ManifestsTyped, CoordTyped, GoodCoordinator, Command,
     Create, Update, Activate, Withdraw, Unwithdraw, Pause, Resume, Continue, Cancel,
     Refresh, SetMode, Commandable, Free, SyncInv
\* A command that changes nothing but the lease.
<1>k. ASSUME UNCHANGED <<store, known, active, manifest, coordLive, coord, pc, starting>>
      PROVE  SyncInv'
  BY <1>0, <1>k, SyncKept
<1>1. ASSUME NEW b \in Batches, Activate(b) PROVE SyncInv'
  <2> DEFINE new == Activated(b)
  <2>1. /\ new.status = "active" /\ new.acknowledged = Acks(b)
        /\ new.revision = store[b].revision
    BY <1>0 DEF Activated, Manifest, Acks
  <2>2. CASE /\ Saved(b, Activated(b)) /\ manifest' = Activated(b) /\ active' = b
             /\ coordLive' = TRUE /\ coord' = NewCoordinator(Activated(b))
             /\ BeginPoll("auto")
    <3>1. /\ manifest' = new /\ store' = [store EXCEPT ![b] = new] /\ active' = b
          /\ coordLive' /\ coord' = NewCoordinator(new) /\ known' = store'
      BY <2>2 DEF Saved, SyncInv
    <3>2. pc' = "load" /\ ~starting'
      BY <2>2 DEF BeginPoll
    <3> HIDE DEF new
    <3>3. coord'.acknowledged = new.acknowledged
      BY <3>1 DEF NewCoordinator
    <3>4. /\ store'[b] = new /\ Acks(b)' = Acks(b)
          /\ \A c \in Batches : c # b => store'[c] = store[c] /\ Acks(c)' = Acks(c)
      BY <1>0, <2>1, <3>1 DEF Acks
    <3>5. \A c \in Batches : store'[c].status = "absent" => Acks(c)' = {}
      BY <2>1, <3>4 DEF SyncInv
    <3> QED BY <2>1, <3>1, <3>2, <3>3, <3>4, <3>5 DEF SyncInv
  <2>3. CASE /\ Raised(b, Activated(b)) \/ UNCHANGED <<store, known>>
             /\ NotActivated
    <3>1. UNCHANGED <<store, known>>
      BY <2>1, <2>3 DEF SavesWork, Raised
    <3> QED BY <1>k, <2>3, <3>1 DEF NotActivated, worker
  <2> QED BY <1>1, <2>2, <2>3, ActivationWrites
<1>2. ASSUME NEW b \in Batches, NEW p \in Plans, Create(b, p) PROVE SyncInv'
  <2> DEFINE new == Created(p)
  <2>1. new.status = "draft" /\ new.acknowledged = {}
    BY DEF Created, NoManifest
  <2>2. /\ Saved(b, new) \/ UNCHANGED <<store, known>>
        /\ store[b].status = "absent"
        /\ UNCHANGED <<active, coordLive, pc, starting, coord, manifest>>
    BY <1>2, CreateWrites, SaveWorks DEF Onlookers, worker
  <2> HIDE DEF new
  <2>3. Acks(b) = {} /\ active # b
    BY <1>0, <2>2 DEF SyncInv
  <2> QED BY <1>k, <1>0, <2>1, <2>2, <2>3, StoreEdited
<1>3. ASSUME NEW b \in Batches, NEW p \in Plans, Update(b, p) PROVE SyncInv'
  <2> DEFINE new == Updated(b, p)
  <2>1. new.status = store[b].status /\ new.acknowledged = Acks(b)
    BY <1>0 DEF Updated, Manifest, Acks
  <2>2. /\ store[b].status # "absent" /\ UNCHANGED <<active, coordLive, pc, starting>>
        /\ \/ /\ Saved(b, new)
              /\ manifest' = IF active = b THEN new ELSE manifest
           \/ UNCHANGED <<store, known, manifest, coord>>
    BY <1>0, <1>3, UpdateWrites DEF worker, SavesWork, Raised
  <2>3. coord'.acknowledged = coord.acknowledged
    <3>1. coord' \in {coord, [coord EXCEPT !.plan = p, !.last = NoDecision]}
      BY <1>3, UpdateWrites
    <3> QED BY <1>0, <3>1 DEF Coordinator
  <2> HIDE DEF new
  <2>4. CASE Saved(b, new) /\ manifest' = IF active = b THEN new ELSE manifest
    <3>1. \/ manifest' = manifest /\ active # b
          \/ active = b /\ manifest' = new
      BY <2>4
    <3> QED BY <1>0, <2>1, <2>2, <2>3, <2>4, <3>1, StoreEdited
  <2> QED BY <1>k, <2>2, <2>4
<1>4. ASSUME NEW b \in Batches, Withdraw(b) \/ Unwithdraw(b) PROVE SyncInv'
  <2>1. /\ UNCHANGED <<active, coordLive, pc, starting, coord, manifest>>
        /\ \E m \in {Withdrawn(b), Unwithdrawn(b)} :
             Saved(b, m) \/ UNCHANGED <<store, known>>
    BY <1>4, WithdrawalWrites, SaveWorks DEF Onlookers, worker
  <2>2. \A m \in {Withdrawn(b), Unwithdrawn(b)} :
          /\ m.status # "absent" /\ m.acknowledged = Acks(b)
          /\ m.revision = store[b].revision
    <3> DEFINE k == known[b]
    <3>1. k \in Manifest /\ k.acknowledged = Acks(b) /\ k.revision = store[b].revision
      BY <1>0 DEF Acks
    <3>2. /\ Withdrawn(b) = [k EXCEPT !.status = "withdrawn", !.paused = TRUE]
          /\ Unwithdrawn(b) = [k EXCEPT !.status = "draft", !.paused = TRUE,
                                         !.cancel_pending = FALSE]
      BY DEF Withdrawn, Unwithdrawn
    <3> HIDE DEF k
    <3> QED BY ONLY <3>1, <3>2 DEF Manifest
  <2> QED BY <1>k, <1>0, <2>1, <2>2, StoreEdited
<1>5. ASSUME Pause \/ Cancel \/ Resume PROVE SyncInv'
  <2>1. active # NoBatch /\ active \in Batches /\ coordLive /\ UNCHANGED <<active, coordLive>>
    BY <1>0, <1>5, ControlWrites
  <2>2. coord.acknowledged \subseteq coord'.acknowledged
    <3>1. CASE Pause \/ Cancel
      BY <1>0, <3>1 DEF Pause, Cancel, Coordinator
    <3>2. CASE Resume
      <4>1. coord' = Resumed
        BY <3>2 DEF Resume
      <4>2. Resumed.acknowledged = coord.acknowledged \cup
              (IF coord.last.kind = "pause_failure" THEN {coord.last.run} ELSE {})
        BY <1>0 DEF Resumed, Coordinator
      <4> QED BY <4>1, <4>2
    <3> QED BY <1>5, <3>1, <3>2
  <2>3. PICK m : /\ Relabelled(m) /\ manifest' = m
                 /\ \/ Saved(active, m) /\ (BeginPoll("look") \/ BeginPoll("auto"))
                    \/ Raised(active, m)
    BY <1>0, <1>5, ControlWrites
  <2>4. m.revision = store[active].revision
    BY <2>1, <2>3 DEF Relabelled, SyncInv
  <2>5. Saved(active, m) /\ (BeginPoll("look") \/ BeginPoll("auto"))
    BY <2>3, <2>4 DEF SavesWork, Raised
  <2>6. ~starting' /\ pc' \in {"load", "ensure"}
    BY <2>5 DEF BeginPoll
  <2>7. m.acknowledged \subseteq coord'.acknowledged /\ m.status = manifest.status
    BY <2>1, <2>2, <2>3 DEF SyncInv, Relabelled
  <2> QED BY <1>0, <2>1, <2>3, <2>5, <2>6, <2>7, ActiveSaved
<1>6. ASSUME Continue \/ Refresh \/ (\E m \in {"manual", "automatic"} : SetMode(m))
      PROVE  SyncInv'
  <2>1. UNCHANGED <<store, known, active, manifest, coordLive, coord>>
    BY <1>6 DEF Continue, Refresh, SetMode, SameRuntime, SameLease
  <2>2. pc' \in {pc, "load", "ensure"} /\ ~starting'
    BY <1>0, <1>6 DEF Continue, Refresh, SetMode, BeginPoll, worker
  <2> QED BY <1>0, <2>1, <2>2, SyncKept
<1> QED BY <1>1, <1>2, <1>3, <1>4, <1>5, <1>6 DEF Command

\* The decision of a poll is dispatched only after what it needs is on disk.
LEMMA SyncDispatch ==
  ASSUME SavesWork, TypeInv, LeaseInv, SyncInv, Dispatch
  PROVE  SyncInv'
<1>1. /\ pc = "dispatch" /\ active # NoBatch /\ coordLive /\ ~starting
      /\ UNCHANGED <<active, coordLive, coord>> /\ manifest \in Manifest
  BY DEF Dispatch, StaysLive, TypeInv, WorkerTyped, ManifestsTyped, LeaseInv, SyncInv
<1>2. /\ Synced.acknowledged = coord.acknowledged /\ Synced.status = manifest.status
      /\ Synced.revision = store[active].revision
  BY <1>1, FinishedTyped DEF SyncInv
<1>3. ASSUME NEW m, ActOnDecision(m)
      PROVE  /\ pc' \in {"cancel", "finish", "load", "idle"}
             /\ starting' => pc' = "load"
  BY <1>1, <1>3 DEF ActOnDecision, GoTo, StartPoll, ToIdle
<1>4. CASE UNCHANGED <<store, known, manifest>> /\ ToIdle
  <2>1. pc' = "idle" /\ ~starting'
    BY <1>4 DEF ToIdle
  <2> QED BY <1>1, <1>4, <2>1, SyncKept
<1>5. CASE Synced = manifest /\ UNCHANGED <<store, known, manifest>> /\ ActOnDecision(manifest)
  <2>1. manifest.acknowledged = coord.acknowledged
    BY <1>2, <1>5
  <2>2. /\ pc' \in {"cancel", "finish", "load", "idle"}
        /\ starting' => pc' = "load"
    BY <1>3, <1>5
  <2> QED BY <1>1, <1>5, <2>1, <2>2, SyncKept
<1>6. CASE manifest' = Synced /\ Saved(active, Synced) /\ ActOnDecision(Synced)
  <2> DEFINE m == Synced
  <2>2. m.acknowledged = coord'.acknowledged /\ m.status = manifest.status
    BY <1>1, <1>2
  <2>3. manifest' = m /\ Saved(active, m)
    BY <1>6
  <2>4. /\ pc' \in {"cancel", "finish", "load", "idle"}
        /\ starting' => pc' = "load"
    BY <1>3, <1>6
  <2> HIDE DEF m
  <2> QED BY <1>1, <2>2, <2>3, <2>4, ActiveSaved
<1>7. ~Raised(active, Synced)
  BY <1>2 DEF Raised, SavesWork
<1> QED BY <1>4, <1>5, <1>6, <1>7, DispatchWrites

LEMMA SyncPoll ==
  ASSUME SavesWork, TypeInv, LeaseInv, SyncInv, Poll
  PROVE  SyncInv'
<1>0. /\ store \in [Batches -> Manifest] /\ manifest \in Manifest /\ coord \in Coordinator
      /\ pc \notin {"down", "idle"} => active \in Batches
  BY DEF TypeInv, ManifestsTyped, CoordTyped, GoodCoordinator, WorkerTyped
<1>1. ASSUME EnsureActiveRuntime PROVE SyncInv'
  <2>1. /\ pc \in {"idle", "ensure"} /\ ~starting /\ UNCHANGED <<store, known, active, manifest>>
        /\ pc' \in {"load", "idle"} /\ ~starting'
        /\ \/ coordLive' /\ coord' = NewCoordinator(manifest)
           \/ UNCHANGED <<coordLive, coord>>
    BY <1>1 DEF EnsureActiveRuntime, GoTo, ToIdle, SyncInv
  <2>2. NewCoordinator(manifest).acknowledged = manifest.acknowledged
    BY DEF NewCoordinator
  <2> QED BY <2>1, <2>2 DEF SyncInv, Acks
<1>2. ASSUME LoadAttempts \/ ReadController \/ RepairMetrics \/ SourceFailure \/ Publish
      PROVE  SyncInv'
  <2>1. /\ UNCHANGED <<store, known, active, manifest, coordLive>> /\ pc \in {"load", "snapshot", "assess"}
    BY <1>2 DEF LoadAttempts, ReadController, RepairMetrics, SourceFailure, Publish, PollOnly
  <2>2. coord'.acknowledged = coord.acknowledged
    BY <1>0, <1>2 DEF LoadAttempts, ReadController, RepairMetrics, SourceFailure, Publish,
       Coordinator
  <2>3. /\ pc' \in {"snapshot", "assess", "dispatch", "start", "idle"}
        /\ pc' = "start" => starting
        /\ starting' => starting /\ pc' \in {"snapshot", "assess", "start"}
    <3>1. CASE LoadAttempts \/ ReadController
      <4>1. pc' \in {"snapshot", "assess"} /\ UNCHANGED starting
        BY <3>1 DEF LoadAttempts, ReadController
      <4> QED BY <4>1
    <3>r. CASE RepairMetrics
      BY <3>r DEF RepairMetrics
    <3>2. CASE SourceFailure \/ Publish
      <4>1. AfterPoll
        BY <3>2 DEF SourceFailure, Publish
      <4>2. CASE ~starting
        BY <4>1, <4>2 DEF AfterPoll
      <4>3. CASE starting
        BY <4>1, <4>3 DEF AfterPoll
      <4> QED BY <4>2, <4>3
    <3> QED BY <1>2, <3>1, <3>2, <3>r
  <2> QED BY <2>1, <2>2, <2>3, SyncKept
<1>3. ASSUME CheckCancel PROVE SyncInv'
  <2>1. /\ UNCHANGED <<store, known, active, manifest, coordLive, coord>> /\ pc = "cancel" /\ ~starting
    BY <1>3 DEF CheckCancel, StaysLive, SyncInv
  <2>2. pc' \in {"finish", "load", "idle"} /\ (starting' => pc' = "load")
    BY <1>3, <2>1 DEF CheckCancel, GoTo, StartPoll, ToIdle
  <2> QED BY <2>1, <2>2, SyncKept
<1>4. ASSUME FinishActive PROVE SyncInv'
  <2> DEFINE new == Finished
  <2>1. new.status # "absent" /\ new.acknowledged = coord.acknowledged
        /\ new.revision = manifest.revision
    BY FinishedTyped
  <2>2. pc = "finish" /\ active \in Batches /\ active # NoBatch /\ UNCHANGED <<active, manifest>>
    BY <1>0, <1>4, FinishWrites, ScopeAssumption
  <2>3. ~starting /\ manifest.acknowledged = coord.acknowledged
        /\ manifest.revision = store[active].revision
    BY <2>2 DEF SyncInv
  <2>4. Saved(active, new) /\ coordLive' = FALSE /\ GoTo("release")
    BY <1>4, <2>1, <2>3, FinishWrites DEF Raised, SavesWork
  <2>5. /\ store' = [store EXCEPT ![active] = new] /\ known' = store'
        /\ ~coordLive' /\ pc' = "release" /\ ~starting'
    BY <2>3, <2>4 DEF Saved, GoTo, SyncInv
  <2> HIDE DEF new
  <2>6. /\ store'[active] = new /\ Acks(active)' = new.acknowledged
        /\ \A c \in Batches : c # active => store'[c] = store[c] /\ Acks(c)' = Acks(c)
    BY <1>0, <2>2, <2>5 DEF Acks
  <2>7. \A c \in Batches : store'[c].status = "absent" => Acks(c)' = {}
    BY <2>1, <2>6 DEF SyncInv
  <2> QED BY <2>1, <2>2, <2>3, <2>5, <2>6, <2>7 DEF SyncInv
<1>5. ASSUME ReleaseAutomation PROVE SyncInv'
  <2>1. /\ UNCHANGED <<store, known, coordLive, coord>> /\ pc' = "idle" /\ ~starting'
        /\ active' = NoBatch \/ UNCHANGED <<active, manifest>>
    BY <1>5 DEF ReleaseAutomation, ToIdle
  <2> QED BY <2>1 DEF SyncInv, Acks
<1>6. ASSUME StartExposure \/ StartRefused PROVE SyncInv'
  <2>1. /\ UNCHANGED <<store, known, active, manifest, coordLive, coord>> /\ pc = "start"
        /\ pc' = "idle" /\ ~starting'
    BY <1>6 DEF StartExposure, StartRefused, memory, durable, ToIdle
  <2> QED BY <2>1, SyncKept
<1> QED BY <1>1, <1>2, <1>3, <1>4, <1>5, <1>6, SyncDispatch DEF Poll

LEMMA SyncStep ==
  ASSUME SavesWork, TypeInv, LeaseInv, SyncInv, [Next]_vars
  PROVE  SyncInv'
<1>0. store \in [Batches -> Manifest] /\ \A b \in Batches : store[b] \in Manifest
  BY DEF TypeInv, ManifestsTyped
<1>1. ASSUME Boot PROVE SyncInv'
  <2>1. /\ pc = "down" /\ ~coordLive /\ active = NoBatch /\ ~coordLive' /\ pc' = "idle" /\ ~starting'
        /\ known' = store'
    BY <1>1 DEF Boot, ToIdle, SyncInv
  <2>2. CASE UNCHANGED <<store, active, manifest>>
    BY <2>1, <2>2 DEF SyncInv, Acks
  <2>3. CASE \E b \in LiveManifests :
               /\ store' = [store EXCEPT ![b] = Restored(store[b])]
               /\ active' = b /\ manifest' = store'[b]
    <3>1. PICK b \in LiveManifests :
            /\ store' = [store EXCEPT ![b] = Restored(store[b])]
            /\ active' = b /\ manifest' = store'[b]
      BY <2>3
    <3> DEFINE new == Restored(store[b])
    <3>2. /\ b \in Batches /\ new.status = "active" /\ new.acknowledged = Acks(b)
          /\ new.revision = store[b].revision
      BY <1>0, <3>1 DEF LiveManifests, Restored, Manifest, Acks
    <3>3. store' = [store EXCEPT ![b] = new]
      BY <3>1
    <3> HIDE DEF new
    <3>4. /\ store'[b] = new
          /\ \A c \in Batches : c # b => store'[c] = store[c]
      BY <1>0, <3>2, <3>3
    <3>5. \A c \in Batches : store'[c].status = "absent" => Acks(c)' = {}
      BY <3>2, <3>4 DEF SyncInv, Acks
    <3> QED BY <2>1, <3>1, <3>2, <3>4, <3>5 DEF SyncInv, Acks
  <2> QED BY <1>1, <2>2, <2>3 DEF Boot
<1>2. ASSUME Crash \/ Shutdown PROVE SyncInv'
  <2>1. Down
    BY <1>2 DEF Crash, Shutdown
  <2> QED BY <2>1 DEF Down, SyncInv, Acks
<1>3. ASSUME Timer PROVE SyncInv'
  <2>1. /\ UNCHANGED <<store, known, active, manifest, coordLive, coord>> /\ pc = "idle"
        /\ pc' \in {"load", "ensure"} /\ ~starting'
    BY <1>3 DEF Timer, SameRuntime, SameLease, BeginPoll
  <2> QED BY <2>1, SyncKept
<1>4. ASSUME Environment \/ UNCHANGED vars PROVE SyncInv'
  <2>1. UNCHANGED <<store, known, active, manifest, coordLive, coord, pc, starting>>
    BY <1>4 DEF Environment, RunEnds, MetricsRecorded, Settle, RunOrphaned,
       ForeignRunChanges, QueueLease, ReleaseCarriedOut, Outside, memory, worker, vars, durable
  <2> QED BY <2>1 DEF SyncInv, Acks
<1> QED BY <1>1, <1>2, <1>3, <1>4, SyncCommand, SyncPoll DEF Next

-----------------------------------------------------------------------------
(* What a poll loads, and what a start follows from. *)

\* Runs keep their batch and their sample, and only a start adds one.
LEMMA RunsKeepTags ==
  ASSUME TypeInv, Next, ~StartExposure
  PROVE  /\ DOMAIN attempts' = DOMAIN attempts
         /\ \A r \in DOMAIN attempts : /\ attempts'[r].batch = attempts[r].batch
                                       /\ attempts'[r].sample = attempts[r].sample
<1>0. RunsTyped /\ \A r \in DOMAIN attempts : attempts[r] \in Run
  BY RunInLibrary DEF TypeInv
<1>1. ASSUME NEW q \in DOMAIN attempts, NEW new, new.batch = attempts[q].batch,
             new.sample = attempts[q].sample, attempts' = [attempts EXCEPT ![q] = new]
      PROVE  /\ DOMAIN attempts' = DOMAIN attempts
             /\ \A r \in DOMAIN attempts : /\ attempts'[r].batch = attempts[r].batch
                                           /\ attempts'[r].sample = attempts[r].sample
  BY <1>0, <1>1 DEF RunsTyped
<1>2. \A q \in DOMAIN attempts : /\ Repaired(q).batch = attempts[q].batch
                                 /\ Repaired(q).sample = attempts[q].sample
  BY <1>0 DEF Repaired, Run
<1>3. CASE RepairMetrics
  <2> DEFINE q == Assessed.run
  <2>1. q \in DOMAIN attempts
    BY <1>3, AssessedTyped DEF RepairMetrics, MustRepair
  <2>2. attempts' \in {attempts, [attempts EXCEPT ![q] = Repaired(q)]}
    BY <1>0, <1>3, <2>1, RepairedTyped DEF RepairMetrics
  <2> HIDE DEF q
  <2> QED BY <1>1, <1>2, <2>1, <2>2
<1>4. CASE \E outcome \in Outcomes : RunEnds(outcome)
  <2>1. PICK outcome \in Outcomes : RunEnds(outcome)
    BY <1>4
  <2>2. PICK late \in BOOLEAN :
          attempts' = [attempts EXCEPT ![current] =
            [@ EXCEPT !.status = outcome.status, !.end_time = current,
               !.dose = IF late THEN Missing ELSE outcome.dose,
               !.runtime = IF late THEN Missing ELSE outcome.runtime,
               !.snapshots = TRUE,
               !.measured = [dose |-> outcome.dose, runtime |-> outcome.runtime]]]
    BY <2>1 DEF RunEnds
  <2> DEFINE new ==
            [attempts[current] EXCEPT !.status = outcome.status, !.end_time = current,
               !.dose = IF late THEN Missing ELSE outcome.dose,
               !.runtime = IF late THEN Missing ELSE outcome.runtime,
               !.snapshots = TRUE,
               !.measured = [dose |-> outcome.dose, runtime |-> outcome.runtime]]
  <2>3. current \in DOMAIN attempts
    BY <2>1 DEF RunEnds
  <2>4. new.batch = attempts[current].batch /\ new.sample = attempts[current].sample
    BY <1>0, <2>3 DEF Run
  <2>5. attempts' = [attempts EXCEPT ![current] = new]
    BY <1>0, <2>2, <2>3 DEF RunsTyped
  <2> HIDE DEF new
  <2> QED BY <1>1, <2>3, <2>4, <2>5
<1>5. CASE \E r \in DOMAIN attempts : MetricsRecorded(r)
  <2>1. PICK q \in DOMAIN attempts : attempts' = [attempts EXCEPT ![q] = Repaired(q)]
    BY <1>0, <1>5, RepairedTyped DEF MetricsRecorded
  <2> QED BY <1>1, <1>2, <2>1
<1>6. CASE ~WritesRuns
  BY <1>6, RunsUnchanged
<1> QED BY <1>3, <1>4, <1>5, <1>6 DEF WritesRuns

\* A start is only proposed for a sample whose last run is acknowledged: any run
\* of the sample is, or another one followed it.
LEMMA StartIsAcknowledged ==
  ASSUME NEW n \in Nat, NEW p, NEW h, NEW c, NEW f, NEW a, NEW k, NEW s,
         DOMAIN h \subseteq 1..n, \A r \in DOMAIN h : h[r].status \in RunStatus,
         Assess(p, h, c, f, a, k, s).kind = "start_remainder",
         NEW r \in RunsOf(Assess(p, h, c, f, a, k, s).sample, h)
  PROVE  \/ r \in a
         \/ \E q \in RunsOf(Assess(p, h, c, f, a, k, s).sample, h) : r < q
<1> DEFINE d == Assess(p, h, c, f, a, k, s)
           incomplete == Incomplete(p, h)
           entry == p[First(incomplete)]
           runs == RunsOf(entry.sample, h)
<1>1. /\ NothingPending(p, h, f) /\ d = AssessProgress(p, h, c, a, s)
  BY LastStage
<1>2. /\ AbortBlockers(h, a) = {} /\ ~Shortfall(entry, h, a) /\ d.sample = entry.sample
  BY <1>1 DEF AssessProgress, About, Plain, Decision
<1>3. r \in runs /\ runs \subseteq DOMAIN h /\ runs \in SUBSET (0..n)
  BY <1>2 DEF RunsOf
<1> DEFINE l == Last(runs)
<1>4. l \in runs /\ \A q \in runs : q <= l
  <2> HIDE DEF runs
  <2> QED BY <1>3, LastIsLargest
<1>5. r \in Nat /\ l \in Nat /\ r <= l
  BY <1>3, <1>4
<1>6. l \in a
  <2>1. h[l].status \in {"STOPPED", "ABORTED"}
    BY <1>1, <1>3, <1>4 DEF NothingPending, Active, RunStatus
  <2>2. CASE h[l].status = "STOPPED"
    BY <1>2, <1>4, <2>2 DEF Shortfall
  <2>3. CASE h[l].status = "ABORTED"
    <3>1. IsLatest(l, h)
      BY <1>4 DEF IsLatest, RunsOf
    <3> QED BY <1>2, <1>3, <1>4, <2>3, <3>1 DEF AbortBlockers
  <2> QED BY <2>1, <2>2, <2>3
<1>7. CASE r = l
  BY <1>6, <1>7
<1>8. CASE r # l
  BY <1>2, <1>4, <1>5, <1>8
<1> QED BY <1>7, <1>8

\* A poll that ends in a start found every run of the sample acknowledged: the
\* last one by itself, those before it when the next one started.
LEMMA StartFollows ==
  ASSUME TypeInv, LeaseInv, SyncInv, LoadedInv, RetryNeedsAcknowledgement, Publish, pc' = "start",
         NEW r \in RunsOfBatch(active), attempts[r].sample = coord'.last.sample
  PROVE  r \in coord.acknowledged
<1>1. /\ pc = "assess" /\ coord'.last.kind = "start_remainder" /\ active # NoBatch /\ coordLive
  BY DEF Publish, AfterPoll, TypeInv, WorkerTyped, LeaseInv
<1>2. coord \in Coordinator
  BY DEF TypeInv, CoordTyped, GoodCoordinator
<1>3. Assessed.kind = "start_remainder" /\ coord'.last = Assessed
  <2> DEFINE clear == Assessed.kind \in {"paused", "start_remainder", "complete"}
             shown == IF Latched /\ clear THEN Plain("pause_error") ELSE Assessed
  <2>1. coord'.last = shown
    BY <1>2 DEF Publish, Coordinator
  <2>2. Plain("pause_error").kind = "pause_error"
    BY DEF Plain, Decision
  <2> HIDE DEF clear
  <2> QED BY <1>1, <2>1, <2>2
<1>4. /\ DOMAIN loaded = RunsOfBatch(active) /\ DOMAIN loaded \subseteq 1..MaxRuns
      /\ \A q \in DOMAIN loaded : loaded[q].sample = attempts[q].sample
      /\ \A q \in DOMAIN loaded : loaded[q].status \in RunStatus
  BY <1>1, RunInLibrary DEF LoadedInv, TypeInv, WorkerTyped, Run
<1>5. r \in RunsOf(Assessed.sample, loaded)
  BY <1>3, <1>4 DEF RunsOf
<1>6. \/ r \in coord.acknowledged
      \/ \E q \in RunsOf(Assessed.sample, loaded) : r < q
  BY <1>3, <1>4, <1>5, StartIsAcknowledged, ScopeAssumption DEF Assessed
<1>7. ASSUME NEW q \in RunsOf(Assessed.sample, loaded), r < q
      PROVE  r \in coord.acknowledged
  <2>1. /\ q \in RunsOfBatch(active) /\ attempts[q].sample = attempts[r].sample
    BY <1>3, <1>4, <1>7 DEF RunsOf
  <2>2. r \in Acks(active)
    BY <1>7, <2>1 DEF RetryNeedsAcknowledgement, RunsOfBatch, Acks
  <2> QED BY <1>1, <2>2 DEF SyncInv
<1> QED BY <1>6, <1>7

LEMMA LoadedStep ==
  ASSUME TypeInv, LeaseInv, SyncInv, LoadedInv, RetryNeedsAcknowledgement, Next
  PROVE  LoadedInv'
<1>1. CASE StartExposure \/ StartRefused \/ Boot \/ Crash \/ Shutdown
  <2>1. pc' \in {"idle", "down"}
    BY <1>1 DEF StartExposure, StartRefused, Boot, Crash, Shutdown, Down, ToIdle
  <2> QED BY <2>1 DEF LoadedInv
<1>t. ASSUME ~StartExposure
      PROVE  /\ DOMAIN attempts' = DOMAIN attempts
             /\ \A r \in DOMAIN attempts : /\ attempts'[r].batch = attempts[r].batch
                                           /\ attempts'[r].sample = attempts[r].sample
             /\ active' = active => RunsOfBatch(active)' = RunsOfBatch(active)
  <2>1. /\ DOMAIN attempts' = DOMAIN attempts
        /\ \A r \in DOMAIN attempts : /\ attempts'[r].batch = attempts[r].batch
                                      /\ attempts'[r].sample = attempts[r].sample
    BY <1>t, RunsKeepTags
  <2> QED BY <2>1 DEF RunsOfBatch
<1>2. CASE Command \/ Timer \/ EnsureActiveRuntime
  <2>1. pc = "idle" \/ EnsureActiveRuntime
    BY <1>2 DEF Command, Create, Update, Activate, NotActivated, Withdraw, Unwithdraw, OnlyManifests, Pause, Resume,
       Continue, Cancel, Refresh, SetMode, Commandable, Free, Timer
  <2>2. pc' \in {"idle", "load", "ensure"}
    <3>1. ASSUME NEW b \in Batches, NEW p \in Plans,
                 Create(b, p) \/ Update(b, p)
          PROVE  pc' \in {"idle", "load", "ensure"}
      BY <3>1, CreateWrites, UpdateWrites DEF Onlookers, worker
    <3>2. ASSUME Pause \/ Cancel \/ Resume PROVE pc' \in {"idle", "load", "ensure"}
      BY <3>2, ControlWrites DEF TypeInv, BeginPoll, ToIdle
    <3>3. CASE EnsureActiveRuntime
      BY <3>3 DEF EnsureActiveRuntime, GoTo, ToIdle
    <3>4. CASE Timer \/ Continue \/ Refresh \/ \E m \in {"manual", "automatic"} : SetMode(m)
      BY <3>4 DEF Timer, Continue, Refresh, SetMode, Commandable, Free, BeginPoll, worker
    <3>5. \A b \in Batches : Activate(b) \/ Withdraw(b) \/ Unwithdraw(b) =>
            pc' \in {"idle", "load", "ensure"}
      BY ActivationWrites, WithdrawalWrites DEF Onlookers, NotActivated, BeginPoll, worker
    <3> QED BY <1>2, <3>1, <3>2, <3>3, <3>4, <3>5 DEF Command
  <2> QED BY <2>2 DEF LoadedInv
<1>3. CASE LoadAttempts
  <2>1. /\ UNCHANGED <<attempts, active>> /\ loaded' = HistoryOf(active) /\ pc' = "snapshot"
    BY <1>3 DEF LoadAttempts, PollOnly
  <2>2. /\ DOMAIN loaded' = RunsOfBatch(active)
        /\ \A r \in RunsOfBatch(active) : loaded'[r] = attempts[r]
    BY <2>1 DEF HistoryOf
  <2> QED BY <2>1, <2>2 DEF LoadedInv, RunsOfBatch
<1>4. CASE ReadController
  <2>1. /\ UNCHANGED <<attempts, active, loaded>> /\ pc = "snapshot" /\ pc' = "assess"
    BY <1>4 DEF ReadController, PollOnly
  <2> QED BY <2>1 DEF LoadedInv, RunsOfBatch
<1>5. CASE SourceFailure
  <2>1. coord \in Coordinator /\ coord'.last.kind # "start_remainder"
    BY <1>5 DEF TypeInv, CoordTyped, GoodCoordinator, SourceFailure, Plain, Decision, Coordinator
  <2>2. pc' \in {"dispatch", "idle"}
    BY <1>5, <2>1 DEF SourceFailure, AfterPoll
  <2> QED BY <2>2 DEF LoadedInv
<1>6. CASE RepairMetrics
  <2> DEFINE q == Assessed.run
             written == [attempts EXCEPT ![q].dose = attempts[q].measured.dose,
                                         ![q].runtime = attempts[q].measured.runtime]
  <2>1. pc = "assess" /\ pc' = "assess" /\ UNCHANGED active
    BY <1>6 DEF RepairMetrics, PollOnly
  <2>2. \/ attempts' = written /\ loaded' = [r \in RunsOfBatch(active) |-> written[r]]
        \/ UNCHANGED loaded
    BY <1>6 DEF RepairMetrics
  <2> HIDE DEF written
  <2>3. ~StartExposure
    BY <2>1 DEF StartExposure
  <2>4. CASE UNCHANGED loaded
    BY <1>t, <2>1, <2>3, <2>4 DEF LoadedInv, RunsOfBatch
  <2>5. CASE attempts' = written /\ loaded' = [r \in RunsOfBatch(active) |-> written[r]]
    <3>1. /\ DOMAIN loaded' = RunsOfBatch(active)
          /\ \A r \in RunsOfBatch(active) : loaded'[r] = attempts'[r]
      BY <2>5
    <3> QED BY <1>t, <2>1, <2>3, <3>1 DEF LoadedInv
  <2> QED BY <2>2, <2>4, <2>5
<1>7. CASE Publish
  <2>1. /\ UNCHANGED <<attempts, active>> /\ pc' \in {"dispatch", "start", "idle"}
        /\ coord'.acknowledged = coord.acknowledged
    BY <1>7 DEF Publish, PollOnly, AfterPoll, TypeInv, CoordTyped, GoodCoordinator, Coordinator
  <2>2. RunsOfBatch(active)' = RunsOfBatch(active)
    BY <2>1 DEF RunsOfBatch
  <2> QED BY <1>7, <2>1, <2>2, StartFollows DEF LoadedInv
<1>8. CASE Dispatch \/ CheckCancel \/ FinishActive \/ ReleaseAutomation
  <2>1. pc' \in {"idle", "load", "cancel", "finish", "release"}
    BY <1>8, DispatchWrites, FinishWrites
       DEF CheckCancel, ReleaseAutomation, ActOnDecision, GoTo, StartPoll, ToIdle
  <2> QED BY <2>1 DEF LoadedInv
<1>9. CASE Environment
  <2>1. UNCHANGED <<active, pc, loaded, coord>>
    BY <1>9 DEF Environment, RunEnds, MetricsRecorded, Settle, RunOrphaned,
       ForeignRunChanges, QueueLease, ReleaseCarriedOut, Outside, memory, worker
  <2>2. CASE StartExposure
    BY <1>1, <2>2
  <2>3. CASE ~StartExposure
    BY <1>t, <2>1, <2>3 DEF LoadedInv, RunsOfBatch
  <2> QED BY <2>2, <2>3
<1> QED BY <1>1, <1>2, <1>3, <1>4, <1>5, <1>6, <1>7, <1>8, <1>9 DEF Next, Poll

\* Acknowledgements on disk are never taken back.
LEMMA AcksGrow ==
  ASSUME SavesWork, TypeInv, LeaseInv, SyncInv, Next, NEW b \in Batches
  PROVE  Acks(b) \subseteq Acks(b)'
<1>0. /\ store \in [Batches -> Manifest] /\ \A c \in Batches : store[c] \in Manifest
      /\ known = store /\ ManifestsTyped
  BY DEF TypeInv, ManifestsTyped, SyncInv
<1>t. /\ manifest \in Manifest /\ coord \in Coordinator
      /\ pc \notin {"down", "idle"} => active \in Batches /\ active # NoBatch
      /\ active # NoBatch => active \in Batches
  BY DEF TypeInv, ManifestsTyped, CoordTyped, GoodCoordinator, WorkerTyped
<1>e. ASSUME NEW c \in Batches, NEW new, Acks(c) \subseteq new.acknowledged,
             Saved(c, new) \/ Raised(c, new)
      PROVE  Acks(b) \subseteq Acks(b)'
  <2>1. UNCHANGED store \/ store' = [store EXCEPT ![c] = new]
    BY <1>e DEF Saved, Raised
  <2> QED BY <1>0, <1>e, <2>1 DEF Acks
<1>1. ASSUME NEW c \in Batches, NEW p \in Plans, Create(c, p) \/ Update(c, p)
      PROVE  Acks(b) \subseteq Acks(b)'
  <2>1. CASE Create(c, p)
    <3>1. Acks(c) = {}
      BY <2>1, CreateWrites DEF SyncInv
    <3> QED BY <1>e, <2>1, <3>1, CreateWrites
  <2>2. CASE Update(c, p)
    <3>1. Updated(c, p).acknowledged = Acks(c)
      BY <1>0 DEF Updated, Manifest, Acks
    <3> QED BY <1>e, <2>2, <3>1, UpdateWrites
  <2> QED BY <1>1, <2>1, <2>2
<1>2. ASSUME NEW c \in Batches, Activate(c) \/ Withdraw(c) \/ Unwithdraw(c)
      PROVE  Acks(b) \subseteq Acks(b)'
  <2>1. /\ Activated(c).acknowledged = Acks(c) /\ Withdrawn(c).acknowledged = Acks(c)
        /\ Unwithdrawn(c).acknowledged = Acks(c)
    BY <1>0 DEF Activated, Withdrawn, Unwithdrawn, Manifest, Acks
  <2>2. CASE UNCHANGED store
    BY <2>2 DEF Acks
  <2>3. CASE \E m \in {Activated(c), Withdrawn(c), Unwithdrawn(c)} : Saved(c, m) \/ Raised(c, m)
    BY <1>e, <2>1, <2>3
  <2> QED BY <1>2, <2>2, <2>3, ActivationWrites, WithdrawalWrites
<1>3. ASSUME Pause \/ Cancel \/ Resume PROVE Acks(b) \subseteq Acks(b)'
  <2>1. PICK m : Relabelled(m) /\ (Saved(active, m) \/ Raised(active, m))
    BY <1>0, <1>3, ControlWrites
  <2>2. active # NoBatch /\ active \in Batches
    BY <1>0, <1>3, ControlWrites
  <2>3. m.acknowledged = Acks(active)
    BY <2>1, <2>2 DEF Relabelled, SyncInv
  <2> QED BY <1>e, <2>1, <2>2, <2>3
<1>4. ASSUME Dispatch PROVE Acks(b) \subseteq Acks(b)'
  <2>1. active # NoBatch /\ coordLive
    BY <1>4 DEF Dispatch, TypeInv, WorkerTyped, LeaseInv
  <2>2. Synced.acknowledged = coord.acknowledged /\ Acks(active) \subseteq coord.acknowledged
    BY <2>1, FinishedTyped DEF SyncInv
  <2>3. UNCHANGED store \/ Saved(active, Synced) \/ Raised(active, Synced)
    BY <1>4, DispatchWrites
  <2> QED BY <1>e, <1>t, <2>1, <2>2, <2>3 DEF Acks
<1>5. ASSUME FinishActive PROVE Acks(b) \subseteq Acks(b)'
  <2>1. pc = "finish" /\ (Saved(active, Finished) \/ Raised(active, Finished))
    BY <1>5, FinishWrites
  <2>2. Finished.acknowledged = Acks(active)
    BY <1>t, <2>1, FinishedTyped DEF SyncInv
  <2> QED BY <1>e, <1>t, <2>1, <2>2
<1>6. ASSUME Boot PROVE Acks(b) \subseteq Acks(b)'
  <2>1. CASE UNCHANGED store
    BY <2>1 DEF Acks
  <2>2. CASE \E c \in LiveManifests : store' = [store EXCEPT ![c] = Restored(store[c])]
    <3>1. PICK c \in Batches : store' = [store EXCEPT ![c] = Restored(store[c])]
      BY <2>2 DEF LiveManifests
    <3> DEFINE new == Restored(store[c])
    <3>2. new.acknowledged = Acks(c)
      BY <1>0 DEF Restored, Manifest, Acks
    <3>3. store' = [store EXCEPT ![c] = new]
      BY <3>1
    <3> HIDE DEF new
    <3> QED BY <1>0, <3>2, <3>3 DEF Acks
  <2> QED BY <1>6, <2>1, <2>2 DEF Boot
<1>7. ASSUME \/ Crash \/ Shutdown \/ Timer \/ Environment \/ Continue \/ Refresh
             \/ (\E m \in {"manual", "automatic"} : SetMode(m))
             \/ EnsureActiveRuntime \/ LoadAttempts \/ ReadController \/ SourceFailure
             \/ RepairMetrics \/ Publish \/ CheckCancel \/ ReleaseAutomation
             \/ StartExposure \/ StartRefused
      PROVE  Acks(b) \subseteq Acks(b)'
  <2>1. UNCHANGED store
    BY <1>7 DEF Crash, Shutdown, Down, Timer, Environment, RunEnds, MetricsRecorded, Settle,
       RunOrphaned, ForeignRunChanges, QueueLease, ReleaseCarriedOut, Outside, Continue, Refresh, SetMode,
       EnsureActiveRuntime, LoadAttempts, ReadController, SourceFailure, RepairMetrics,
       Publish, PollOnly, CheckCancel, ReleaseAutomation, StartExposure, StartRefused, durable
  <2> QED BY <2>1 DEF Acks
<1> QED BY <1>1, <1>2, <1>3, <1>4, <1>5, <1>6, <1>7 DEF Next, Command, Poll

LEMMA RetryStep ==
  ASSUME SavesWork, TypeInv, LeaseInv, SyncInv, LoadedInv, RetryNeedsAcknowledgement, Next
  PROVE  RetryNeedsAcknowledgement'
<1> SUFFICES ASSUME NEW q \in DOMAIN attempts', NEW r \in DOMAIN attempts', q < r,
                    attempts'[q].batch = attempts'[r].batch,
                    attempts'[q].sample = attempts'[r].sample
             PROVE  q \in store'[attempts'[q].batch].acknowledged
  BY DEF RetryNeedsAcknowledgement
<1>0. /\ RunsTyped /\ DOMAIN attempts = 1..Len(attempts) /\ Len(attempts) \in Nat
      /\ \A x \in DOMAIN attempts : attempts[x] \in Run
  BY RunInLibrary DEF TypeInv
<1>1. CASE ~StartExposure
  <2>1. /\ q \in DOMAIN attempts /\ r \in DOMAIN attempts
        /\ attempts'[q].batch = attempts[q].batch /\ attempts'[q].sample = attempts[q].sample
        /\ attempts'[r].batch = attempts[r].batch /\ attempts'[r].sample = attempts[r].sample
    BY <1>1, RunsKeepTags
  <2>2. q \in store[attempts[q].batch].acknowledged /\ attempts[q].batch \in Batches
    BY <1>0, <2>1 DEF RetryNeedsAcknowledgement, Run
  <2>3. \A b \in Batches : store[b].acknowledged \subseteq store'[b].acknowledged
    BY AcksGrow DEF Acks
  <2> QED BY <2>1, <2>2, <2>3
<1>2. CASE StartExposure
  <2> DEFINE new ==
        [sample |-> coord.last.sample, status |-> "active", end_time |-> 0,
         dose |-> Missing, runtime |-> Missing, snapshots |-> FALSE, valid |-> TRUE,
         batch |-> active, revision |-> manifest.revision,
         amount |-> coord.last.amount, measured |-> [dose |-> 0, runtime |-> 0]]
  <2>1. /\ attempts' = Append(attempts, new) /\ pc = "start" /\ UNCHANGED store
        /\ active # NoBatch
    BY <1>2 DEF StartExposure, TypeInv, WorkerTyped
  <2>2. new.batch = active /\ new.sample = coord.last.sample
    OBVIOUS
  <2> HIDE DEF new
  <2>3. /\ DOMAIN attempts' = 1..Len(attempts) + 1 /\ attempts'[Len(attempts) + 1] = new
        /\ \A x \in 1..Len(attempts) : attempts'[x] = attempts[x]
    BY <1>0, <2>1 DEF RunsTyped
  <2>4. q \in DOMAIN attempts /\ attempts'[q] = attempts[q]
    BY <1>0, <2>3
  <2>5. CASE r \in DOMAIN attempts
    <3>1. attempts'[r] = attempts[r]
      BY <1>0, <2>3, <2>5
    <3> QED BY <2>1, <2>4, <2>5, <3>1 DEF RetryNeedsAcknowledgement
  <2>6. CASE r \notin DOMAIN attempts
    <3>1. r = Len(attempts) + 1
      BY <1>0, <2>3, <2>6
    <3>2. attempts[q].batch = active /\ attempts[q].sample = coord.last.sample
      BY <2>2, <2>3, <2>4, <3>1
    <3>3. q \in coord.acknowledged
      BY <2>1, <2>4, <3>2 DEF LoadedInv, RunsOfBatch
    <3>4. coord.acknowledged = store[active].acknowledged
      BY <2>1 DEF SyncInv, Acks
    <3> QED BY <2>1, <2>4, <3>2, <3>3, <3>4
  <2> QED BY <2>5, <2>6
<1> QED BY <1>1, <1>2

(* The theorem: as long as no save of a manifest fails, a sample is exposed *)
(* a second time only over an acknowledged first time, and the              *)
(* acknowledgement is on disk before the exposure starts, through crashes,  *)
(* failing reads and lease calls and commands in any order (resume,         *)
(* _sync_active_control and start_next).                                    *)
THEOREM RetriesAreAcknowledged ==
  ASSUME "save" \notin Faults
  PROVE  Spec => []RetryNeedsAcknowledgement
<1> DEFINE Inv == TypeInv /\ LeaseInv /\ SyncInv /\ LoadedInv /\ RetryNeedsAcknowledgement
<1>0. SavesWork
  BY DEF SavesWork
<1>1. Init => Inv
  <2> SUFFICES ASSUME Init PROVE Inv
    OBVIOUS
  <2>1. LeaseInv
    BY DEF Init, LeaseInv
  <2>2. SyncInv
    BY DEF Init, SyncInv, Acks, NoManifest
  <2>3. LoadedInv /\ RetryNeedsAcknowledgement
    BY DEF Init, LoadedInv, RetryNeedsAcknowledgement
  <2> QED BY <2>1, <2>2, <2>3, TypeInvInit
<1>2. Inv /\ [Next]_vars => Inv'
  <2> SUFFICES ASSUME Inv, [Next]_vars PROVE Inv'
    OBVIOUS
  <2>1. TypeInv' /\ LeaseInv' /\ SyncInv'
    BY <1>0, TypeInvStep, LeaseInvStep, SyncStep
  <2>2. CASE Next
    BY <1>0, <2>1, <2>2, LoadedStep, RetryStep
  <2>3. CASE UNCHANGED vars
    BY <2>1, <2>3 DEF vars, durable, memory, worker, LoadedInv, RunsOfBatch,
       RetryNeedsAcknowledgement
  <2> QED BY <2>2, <2>3
<1>3. Inv => RetryNeedsAcknowledgement
  OBVIOUS
<1> HIDE DEF Inv
<1> QED BY <1>1, <1>2, <1>3, PTL DEF Spec

LEMMA SyncInvHolds ==
  ASSUME SavesWork
  PROVE  Spec => [](TypeInv /\ LeaseInv /\ SyncInv)
<1>1. Init => LeaseInv /\ SyncInv
  BY DEF Init, LeaseInv, SyncInv, Acks, NoManifest
<1> QED BY <1>1, TypeInvHolds, LeaseInvStep, SyncStep, PTL DEF Spec

(* The theorem: as long as no save fails there are never two active         *)
(* manifests on disk at all, so that every restart succeeds                 *)
(* (`_load_manifests` raises over two of them).                             *)
THEOREM RestartsSucceed ==
  ASSUME "save" \notin Faults
  PROVE  Spec => [](Cardinality(LiveManifests) <= 1)
<1>1. SavesWork
  BY DEF SavesWork
<1>2. SyncInv /\ AtMostOneActiveManifest => Cardinality(LiveManifests) <= 1
  <2> SUFFICES ASSUME SyncInv, AtMostOneActiveManifest PROVE Cardinality(LiveManifests) <= 1
    OBVIOUS
  <2>1. Astray = {}
    BY DEF SyncInv, Astray
  <2>2. LiveManifests \ Astray = LiveManifests
    BY <2>1
  <2> QED BY <2>2 DEF AtMostOneActiveManifest
<1> QED BY <1>1, <1>2, SyncInvHolds, OneActiveManifest, PTL

-----------------------------------------------------------------------------
(* Sums over a history are integers.  The fold that adds them up exists on  *)
(* the sets of at most n runs for every n: a smallest n without one could   *)
(* be made from the one before it.                                          *)

Pick(s) == CHOOSE x \in s : TRUE

\* g adds up f over every set in D, one element after the other.
Adds(g, f, D) ==
  g = [s \in D |-> IF s = {} THEN 0 ELSE f[Pick(s)] + g[s \ {Pick(s)}]]

UpTo(S, n) == {s \in SUBSET S : Cardinality(s) <= n}
LEMMA OneLess ==
  ASSUME NEW S, IsFiniteSet(S), NEW s \in SUBSET S, s # {}
  PROVE  /\ Pick(s) \in s /\ s \ {Pick(s)} \in SUBSET S
         /\ Cardinality(s) \in Nat /\ Cardinality(s \ {Pick(s)}) \in Nat
         /\ Cardinality(s \ {Pick(s)}) = Cardinality(s) - 1
<1>1. Pick(s) \in s
  BY DEF Pick
<1>2. IsFiniteSet(s)
  BY FS_Subset
<1>3. Cardinality(s) \in Nat /\ Cardinality(s \ {Pick(s)}) = Cardinality(s) - 1
  BY <1>1, <1>2, FS_RemoveElement, FS_CardinalityType
<1>4. Cardinality(s \ {Pick(s)}) \in Nat
  BY <1>2, FS_RemoveElement, FS_CardinalityType, FS_Subset
<1> QED BY <1>1, <1>3, <1>4

LEMMA AddingWorks ==
  ASSUME NEW S, IsFiniteSet(S), NEW f
  PROVE  \E g : Adds(g, f, SUBSET S)
<1> DEFINE Works(n) == \E g : Adds(g, f, UpTo(S, n))
           Bad == {n \in Nat : ~Works(n)}
<1>1. Bad = {}
  <2> SUFFICES ASSUME Bad # {} PROVE FALSE
    OBVIOUS
  <2>1. PICK n \in Bad : \A m \in Bad : n <= m
    <3>1. Bad \in SUBSET Nat
      OBVIOUS
    <3> HIDE DEF Bad
    <3> QED BY <3>1, NatMinimum
  <2>2. n \in Nat /\ ~Works(n)
    OBVIOUS
  <2>3. CASE n = 0
    <3> DEFINE g == [s \in UpTo(S, 0) |-> 0]
    <3>1. \A s \in UpTo(S, 0) : s = {}
      <4> TAKE s \in UpTo(S, 0)
      <4>1. s \in SUBSET S /\ Cardinality(s) <= 0
        BY DEF UpTo
      <4> SUFFICES ASSUME s # {} PROVE FALSE
        OBVIOUS
      <4>2. /\ Cardinality(s) \in Nat /\ Cardinality(s \ {Pick(s)}) \in Nat
            /\ Cardinality(s \ {Pick(s)}) = Cardinality(s) - 1
        BY <4>1, OneLess
      <4> QED BY <4>1, <4>2
    <3>2. Adds(g, f, UpTo(S, 0))
      BY <3>1 DEF Adds
    <3> QED BY <2>2, <2>3, <3>2
  <2>4. CASE n # 0
    <3> DEFINE m == n - 1
    <3>1. m \in Nat /\ m < n /\ n = m + 1
      BY <2>2, <2>4
    <3> HIDE DEF m
    <3>2. Works(m)
      BY <2>1, <2>2, <3>1
    <3>3. PICK h : Adds(h, f, UpTo(S, m))
      BY <3>2
    <3> DEFINE Total(s) == IF s = {} THEN 0 ELSE f[Pick(s)] + h[s \ {Pick(s)}]
               g == [s \in UpTo(S, n) |-> Total(s)]
    <3>4. \A s \in UpTo(S, m) : h[s] = Total(s) /\ s \in UpTo(S, n)
      <4> TAKE s \in UpTo(S, m)
      <4>1. h[s] = Total(s)
        BY <3>3 DEF Adds
      <4>2. s \in SUBSET S /\ Cardinality(s) <= m /\ Cardinality(s) \in Nat
        BY FS_Subset, FS_CardinalityType DEF UpTo
      <4>3. Cardinality(s) <= n
        BY <3>1, <4>2
      <4> QED BY <4>1, <4>2, <4>3 DEF UpTo
    <3>5. \A s \in UpTo(S, m) : g[s] = h[s]
      BY <3>4
    <3>6. \A s \in UpTo(S, n) : s # {} => s \ {Pick(s)} \in UpTo(S, m)
      <4> TAKE s \in UpTo(S, n)
      <4> HAVE s # {}
      <4>1. s \in SUBSET S /\ Cardinality(s) <= n
        BY DEF UpTo
      <4>2. /\ s \ {Pick(s)} \in SUBSET S /\ Cardinality(s) \in Nat
            /\ Cardinality(s \ {Pick(s)}) = Cardinality(s) - 1
        BY <4>1, OneLess
      <4>3. Cardinality(s \ {Pick(s)}) <= m
        BY <3>1, <4>1, <4>2
      <4> QED BY <4>2, <4>3 DEF UpTo
    <3>7. g = [s \in UpTo(S, n) |->
                 IF s = {} THEN 0 ELSE f[Pick(s)] + g[s \ {Pick(s)}]]
      <4>1. \A s \in UpTo(S, n) :
              Total(s) = IF s = {} THEN 0 ELSE f[Pick(s)] + g[s \ {Pick(s)}]
        <5> HIDE DEF g
        <5> QED BY <3>5, <3>6
      <4> DEFINE After(s) == IF s = {} THEN 0 ELSE f[Pick(s)] + g[s \ {Pick(s)}]
      <4>2. g = [s \in UpTo(S, n) |-> After(s)]
        <5>1. \A s \in UpTo(S, n) : Total(s) = After(s)
          BY <4>1
        <5> HIDE DEF Total, After
        <5> QED BY <5>1
      <4> QED BY <4>2
    <3>8. Adds(g, f, UpTo(S, n))
      <4> HIDE DEF g
      <4> QED BY <3>7 DEF Adds
    <3> QED BY <2>2, <3>8
  <2> QED BY <2>3, <2>4
<1>2. Cardinality(S) \in Nat
  BY FS_CardinalityType
<1>3. UpTo(S, Cardinality(S)) = SUBSET S
  BY FS_Subset DEF UpTo
<1>4. Works(Cardinality(S))
  <2> HIDE DEF Works
  <2> QED BY <1>1, <1>2
<1> QED BY <1>3, <1>4

LEMMA AddsIntegers ==
  ASSUME NEW S, IsFiniteSet(S), NEW f, \A x \in S : f[x] \in Int,
         NEW g, Adds(g, f, SUBSET S)
  PROVE  g[S] \in Int
<1> DEFINE Bad == {n \in Nat : \E s \in SUBSET S : Cardinality(s) = n /\ g[s] \notin Int}
<1>1. Bad = {}
  <2> SUFFICES ASSUME Bad # {} PROVE FALSE
    OBVIOUS
  <2>1. PICK n \in Bad : \A m \in Bad : n <= m
    <3>1. Bad \in SUBSET Nat
      OBVIOUS
    <3> HIDE DEF Bad
    <3> QED BY <3>1, NatMinimum
  <2>2. PICK s \in SUBSET S : Cardinality(s) = n /\ g[s] \notin Int
    OBVIOUS
  <2>3. g[s] = IF s = {} THEN 0 ELSE f[Pick(s)] + g[s \ {Pick(s)}]
    BY DEF Adds
  <2>4. s # {}
    BY <2>2, <2>3
  <2> DEFINE t == s \ {Pick(s)}
  <2>5. /\ Pick(s) \in S /\ t \in SUBSET S
        /\ Cardinality(t) \in Nat /\ Cardinality(t) = n - 1 /\ n \in Nat
    BY <2>2, <2>4, OneLess
  <2>6. g[s] = f[Pick(s)] + g[t]
    BY <2>3, <2>4
  <2> HIDE DEF t
  <2>7. Cardinality(t) \notin Bad
    <3>1. ~(n <= Cardinality(t))
      BY <2>5
    <3> QED BY <2>1, <3>1
  <2>8. g[t] \in Int
    BY <2>5, <2>7
  <2> QED BY <2>2, <2>5, <2>6, <2>8
<1>2. Cardinality(S) \in Nat
  BY FS_CardinalityType
<1> QED BY <1>1, <1>2

LEMMA SumIsInteger ==
  ASSUME NEW S, IsFiniteSet(S), NEW f, \A x \in S : f[x] \in Int
  PROVE  SumFunctionOnSet(f, S) \in Int
<1>1. \E g : Adds(g, f, SUBSET S)
  BY AddingWorks
<1> DEFINE h == CHOOSE g : Adds(g, f, SUBSET S)
<1>2. Adds(h, f, SUBSET S)
  BY <1>1
<1>3. SumFunctionOnSet(f, S) = h[S]
  BY DEF SumFunctionOnSet, FoldFunctionOnSet, MapThenFoldSet, Adds, Pick
<1> HIDE DEF h
<1> QED BY <1>2, <1>3, AddsIntegers

LEMMA ActualIsInteger ==
  ASSUME NEW entry, NEW h, IsFiniteSet(DOMAIN h)
  PROVE  Actual(entry, h) \in Int
<1> DEFINE counted == {r \in DOMAIN h : h[r].sample = entry.sample
                                        /\ Amount(entry, h[r]) \in Int}
           f == [r \in counted |-> Amount(entry, h[r])]
<1>1. IsFiniteSet(counted)
  BY FS_Subset
<1>2. \A r \in counted : f[r] \in Int
  OBVIOUS
<1>3. Actual(entry, h) = SumFunctionOnSet(f, counted)
  BY DEF Actual
<1> HIDE DEF f, counted
<1> QED BY <1>1, <1>2, <1>3, SumIsInteger

-----------------------------------------------------------------------------
(* What is over stays as it is.  A poll that completes the batch or starts  *)
(* a run found every run of the batch over, with its metrics; nothing       *)
(* changes such a run any more, so the decision still fits the library when *)
(* it is carried out, however late.                                         *)

Over(run) == run.status # "active" /\ ~NeedsRepair(run)

AllOver(b) == \A r \in RunsOfBatch(b) : Over(attempts[r])

\* Metrics that are recorded are those measured, and the current run is active.
RunInv ==
  /\ \A r \in DOMAIN attempts :
       attempts[r].status # "active" /\ attempts[r].dose # Missing =>
         /\ attempts[r].dose = attempts[r].measured.dose
         /\ attempts[r].runtime = attempts[r].measured.runtime
  /\ current \in DOMAIN attempts => attempts[current].status = "active"

\* A run that was over when it was loaded is what it was.
KeptInv ==
  pc \in {"snapshot", "assess"} =>
    /\ loaded = [r \in RunsOfBatch(active) |-> loaded[r]]
    /\ \A r \in DOMAIN loaded : Over(loaded[r]) => attempts[r] = loaded[r]

Conclusive == {"complete", "start_remainder"}

\* The decision d is the one to take on the history h.
Fits(d, p, h) ==
  LET open == Incomplete(p, h) IN
  /\ d.kind = "complete" => open = {}
  /\ d.kind = "start_remainder" =>
       /\ open # {}
       /\ d.sample = p[First(open)].sample
       /\ d.amount = Remainder(p[First(open)], h)

DecisionInv ==
  pc \in {"dispatch", "cancel", "finish", "start"} /\ Decided \in Conclusive =>
    AllOver(active) /\ Fits(coord.last, coord.plan, HistoryOf(active))

LEMMA ConclusiveDecision ==
  ASSUME NEW p, NEW h, NEW c, NEW f, NEW a, NEW k, NEW s,
         Assess(p, h, c, f, a, k, s).kind \in Conclusive
  PROVE  /\ \A r \in DOMAIN h : Over(h[r])
         /\ Fits(Assess(p, h, c, f, a, k, s), p, h)
<1>1. NothingPending(p, h, f) /\ Assess(p, h, c, f, a, k, s) = AssessProgress(p, h, c, a, s)
  BY LastStage DEF Conclusive
<1>2. \A r \in DOMAIN h : Over(h[r])
  BY <1>1 DEF NothingPending, Active, Over
<1>3. AssessProgress(p, h, c, a, s).kind \in Conclusive
  BY <1>1
<1>4. Fits(AssessProgress(p, h, c, a, s), p, h)
  BY <1>3 DEF Conclusive, Fits, AssessProgress, About, Plain, Decision
<1> QED BY <1>1, <1>2, <1>4

\* What the steps that write to the run library write.
RunEnded(new) ==
  /\ current \in DOMAIN attempts /\ current' = NoRun
  /\ new.batch = attempts[current].batch /\ new.status # "active"
  /\ new.dose # Missing =>
       new.dose = new.measured.dose /\ new.runtime = new.measured.runtime
  /\ attempts' = [attempts EXCEPT ![current] = new]

LEMMA RunEndsWrites ==
  ASSUME TypeInv, NEW outcome \in Outcomes, RunEnds(outcome)
  PROVE  \E new : RunEnded(new)
<1>1. PICK late \in BOOLEAN :
        attempts' = [attempts EXCEPT ![current] =
          [@ EXCEPT !.status = outcome.status, !.end_time = current,
             !.dose = IF late THEN Missing ELSE outcome.dose,
             !.runtime = IF late THEN Missing ELSE outcome.runtime,
             !.snapshots = TRUE,
             !.measured = [dose |-> outcome.dose, runtime |-> outcome.runtime]]]
  BY DEF RunEnds
<1> DEFINE new ==
          [attempts[current] EXCEPT !.status = outcome.status, !.end_time = current,
             !.dose = IF late THEN Missing ELSE outcome.dose,
             !.runtime = IF late THEN Missing ELSE outcome.runtime,
             !.snapshots = TRUE,
             !.measured = [dose |-> outcome.dose, runtime |-> outcome.runtime]]
<1>2. /\ current \in DOMAIN attempts /\ current' = NoRun /\ attempts[current] \in Run
      /\ attempts \in Seq(Run)
  BY RunInLibrary DEF RunEnds, TypeInv, RunsTyped
<1>3. outcome.status \in {"STOPPED", "ABORTED"}
  BY ScopeAssumption
<1>4. /\ new.batch = attempts[current].batch /\ new.status = outcome.status
      /\ new.dose = (IF late THEN Missing ELSE outcome.dose)
      /\ new.runtime = (IF late THEN Missing ELSE outcome.runtime)
      /\ new.measured = [dose |-> outcome.dose, runtime |-> outcome.runtime]
  BY <1>2 DEF Run
<1>5. new.dose # Missing =>
        new.dose = new.measured.dose /\ new.runtime = new.measured.runtime
  <2> HIDE DEF new
  <2> QED BY <1>4
<1>6. attempts' = [attempts EXCEPT ![current] = new]
  BY <1>1, <1>2
<1> HIDE DEF new
<1> QED BY <1>2, <1>3, <1>4, <1>5, <1>6 DEF RunEnded

\* Metrics are written to runs that are not active any more.
LEMMA RepairWrites ==
  ASSUME TypeInv,
         RepairMetrics \/ \E r \in DOMAIN attempts : MetricsRecorded(r)
  PROVE  /\ current' = current
         /\ \/ UNCHANGED attempts
            \/ \E r \in DOMAIN attempts : attempts' = [attempts EXCEPT ![r] = Repaired(r)]
<1>0. RunsTyped
  BY DEF TypeInv
<1>1. CASE RepairMetrics
  <2> DEFINE r == Assessed.run
  <2>1. r \in DOMAIN attempts
    BY <1>1, AssessedTyped DEF RepairMetrics, MustRepair
  <2>2. /\ attempts' \in {attempts, [attempts EXCEPT ![r] = Repaired(r)]}
        /\ UNCHANGED current
    BY <1>0, <1>1, <2>1, RepairedTyped DEF RepairMetrics, PollOnly
  <2> HIDE DEF r
  <2> QED BY <2>1, <2>2
<1>2. ASSUME NEW r \in DOMAIN attempts, MetricsRecorded(r)
      PROVE  current' = current /\ attempts' = [attempts EXCEPT ![r] = Repaired(r)]
  BY <1>0, <1>2, RepairedTyped DEF MetricsRecorded
<1> QED BY <1>1, <1>2

LEMMA RepairedFields ==
  ASSUME RunsTyped, NEW r \in DOMAIN attempts
  PROVE  /\ Repaired(r).status = attempts[r].status
         /\ Repaired(r).measured = attempts[r].measured
         /\ Repaired(r).dose = attempts[r].measured.dose
         /\ Repaired(r).runtime = attempts[r].measured.runtime
         /\ attempts[r].dose = attempts[r].measured.dose
              /\ attempts[r].runtime = attempts[r].measured.runtime =>
                   Repaired(r) = attempts[r]
<1>1. attempts[r] \in Run
  BY RunInLibrary
<1> QED BY <1>1 DEF Repaired, Run

\* A run that is over never changes.
LEMMA OverStays ==
  ASSUME TypeInv, RunInv, Next, NEW r \in DOMAIN attempts, Over(attempts[r])
  PROVE  attempts'[r] = attempts[r]
<1>0. RunsTyped /\ attempts \in Seq(Run)
  BY DEF TypeInv, RunsTyped
<1>m. attempts[r].status # "active" /\ attempts[r].dose # Missing
  BY DEF Over, NeedsRepair
<1>1. CASE StartExposure
  <2>1. \E new : attempts' = Append(attempts, new)
    BY <1>1 DEF StartExposure
  <2> QED BY <1>0, <2>1
<1>2. CASE RepairMetrics \/ \E q \in DOMAIN attempts : MetricsRecorded(q)
  <2>1. Repaired(r) = attempts[r]
    BY <1>0, <1>m, RepairedFields DEF RunInv
  <2>2. \/ UNCHANGED attempts
        \/ \E q \in DOMAIN attempts : attempts' = [attempts EXCEPT ![q] = Repaired(q)]
    BY <1>2, RepairWrites
  <2> QED BY <1>0, <2>1, <2>2
<1>3. CASE \E outcome \in Outcomes : RunEnds(outcome)
  <2>1. PICK new : RunEnded(new)
    BY <1>3, RunEndsWrites
  <2>2. current # r
    BY <1>m, <2>1 DEF RunInv, RunEnded
  <2> QED BY <1>0, <2>1, <2>2 DEF RunEnded
<1>4. CASE ~WritesRuns
  BY <1>4, RunsUnchanged
<1> QED BY <1>1, <1>2, <1>3, <1>4 DEF WritesRuns

\* Steps that write to no run start none either.
LEMMA CurrentMoves ==
  ASSUME Next, ~WritesRuns
  PROVE  current' \in {current, NoRun, ForeignRun}
<1>1. ASSUME Boot \/ Crash \/ Shutdown PROVE current' = current
  BY <1>1 DEF Boot, Crash, Shutdown, Down
<1>2. ASSUME Command \/ Timer PROVE current' = current
  BY <1>2 DEF Command, Create, Update, Activate, NotActivated, Withdraw, Unwithdraw, OnlyManifests, Pause, Resume,
     Continue, Cancel, Refresh, SetMode, Timer, Unaffected
<1>3. ASSUME Poll PROVE current' = current
  BY <1>3 DEF WritesRuns, Poll, EnsureActiveRuntime, LoadAttempts, ReadController,
     SourceFailure, Publish, Dispatch, StaysLive, CheckCancel, FinishActive,
     ReleaseAutomation, StartRefused, Unaffected, PollOnly, durable
<1>4. ASSUME Environment PROVE current' \in {current, NoRun, ForeignRun}
  BY <1>4 DEF WritesRuns, Environment, Settle, RunOrphaned, ForeignRunChanges, QueueLease, ReleaseCarriedOut
<1> QED BY <1>1, <1>2, <1>3, <1>4 DEF Next

LEMMA RunInvStep == TypeInv /\ RunInv /\ [Next]_vars => RunInv'
<1> SUFFICES ASSUME TypeInv, RunInv, [Next]_vars PROVE RunInv'
  OBVIOUS
<1>0. /\ RunsTyped /\ attempts \in Seq(Run) /\ NoRun \notin Nat
      /\ DOMAIN attempts = 1..Len(attempts) /\ Len(attempts) \in Nat
  BY RunInLibrary DEF TypeInv, RunsTyped
<1>1. CASE StartExposure
  <2>1. PICK new : /\ new.status = "active" /\ attempts' = Append(attempts, new)
                   /\ current' = Len(attempts) + 1
    BY <1>1 DEF StartExposure
  <2>2. /\ DOMAIN attempts' = 1..(Len(attempts) + 1)
        /\ \A r \in DOMAIN attempts : attempts'[r] = attempts[r]
        /\ attempts'[Len(attempts) + 1] = new
    BY <1>0, <2>1
  <2>3. \A r \in DOMAIN attempts' : r \in DOMAIN attempts \/ r = Len(attempts) + 1
    BY <1>0, <2>2
  <2> QED BY <2>1, <2>2, <2>3 DEF RunInv
<1>2. CASE RepairMetrics \/ \E q \in DOMAIN attempts : MetricsRecorded(q)
  <2>1. /\ current' = current
        /\ \/ UNCHANGED attempts
           \/ \E q \in DOMAIN attempts : attempts' = [attempts EXCEPT ![q] = Repaired(q)]
    BY <1>2, RepairWrites
  <2>2. CASE UNCHANGED attempts
    BY <2>1, <2>2 DEF RunInv
  <2>3. ASSUME NEW q \in DOMAIN attempts, attempts' = [attempts EXCEPT ![q] = Repaired(q)]
        PROVE  RunInv'
    <3>1. /\ DOMAIN attempts' = DOMAIN attempts /\ attempts'[q] = Repaired(q)
          /\ \A r \in DOMAIN attempts : r # q => attempts'[r] = attempts[r]
      BY <1>0, <2>3
    <3>2. /\ attempts'[q].status = attempts[q].status
          /\ attempts'[q].dose = attempts'[q].measured.dose
          /\ attempts'[q].runtime = attempts'[q].measured.runtime
      BY <1>0, <3>1, RepairedFields
    <3> QED BY <2>1, <3>1, <3>2 DEF RunInv
  <2> QED BY <2>1, <2>2, <2>3
<1>3. CASE \E outcome \in Outcomes : RunEnds(outcome)
  <2>1. PICK new : RunEnded(new)
    BY <1>3, RunEndsWrites
  <2>2. /\ DOMAIN attempts' = DOMAIN attempts /\ attempts'[current] = new
        /\ \A r \in DOMAIN attempts : r # current => attempts'[r] = attempts[r]
    BY <1>0, <2>1 DEF RunEnded
  <2>3. current' \notin DOMAIN attempts'
    BY <1>0, <2>1, <2>2 DEF RunEnded
  <2> QED BY <2>1, <2>2, <2>3 DEF RunInv, RunEnded
<1>4. CASE Next /\ ~WritesRuns
  <2>1. UNCHANGED attempts /\ current' \in {current, NoRun, ForeignRun}
    BY <1>4, RunsUnchanged, CurrentMoves
  <2>2. NoRun \notin DOMAIN attempts /\ ForeignRun \notin DOMAIN attempts
    BY <1>0 DEF ForeignRun
  <2> QED BY <2>1, <2>2 DEF RunInv
<1>5. CASE UNCHANGED vars
  BY <1>5 DEF vars, durable, RunInv
<1> QED BY <1>1, <1>2, <1>3, <1>4, <1>5 DEF WritesRuns

\* The runs of a batch stay its runs, and a history that is over stays as it is.
LEMMA HistoryStays ==
  ASSUME TypeInv, RunInv, Next, NEW b, ~StartExposure \/ b # active
  PROVE  /\ RunsOfBatch(b)' = RunsOfBatch(b)
         /\ AllOver(b) => AllOver(b)' /\ HistoryOf(b)' = HistoryOf(b)
<1>0. /\ attempts \in Seq(Run) /\ DOMAIN attempts = 1..Len(attempts) /\ Len(attempts) \in Nat
  BY RunInLibrary DEF TypeInv, RunsTyped
<1>1. RunsOfBatch(b)' = RunsOfBatch(b)
  <2>1. CASE ~StartExposure
    BY <2>1, RunsKeepTags DEF RunsOfBatch
  <2>2. CASE StartExposure
    <3>1. PICK new : new.batch = active /\ attempts' = Append(attempts, new)
      BY <2>2 DEF StartExposure
    <3>2. /\ DOMAIN attempts' = 1..(Len(attempts) + 1)
          /\ \A r \in DOMAIN attempts : attempts'[r] = attempts[r]
          /\ attempts'[Len(attempts) + 1] = new
      BY <1>0, <3>1
    <3>3. \A r \in DOMAIN attempts' : r \in DOMAIN attempts \/ r = Len(attempts) + 1
      BY <1>0, <3>2
    <3>4. DOMAIN attempts \subseteq DOMAIN attempts'
      BY <1>0, <3>2
    <3> QED BY <2>2, <3>1, <3>2, <3>3, <3>4 DEF RunsOfBatch
  <2> QED BY <2>1, <2>2
<1>2. ASSUME AllOver(b) PROVE AllOver(b)' /\ HistoryOf(b)' = HistoryOf(b)
  <2>1. \A r \in RunsOfBatch(b) : Over(attempts[r]) /\ attempts'[r] = attempts[r]
    BY <1>2, OverStays DEF AllOver, RunsOfBatch
  <2>2. AllOver(b)'
    BY <1>1, <2>1 DEF AllOver
  <2>3. HistoryOf(b)' = HistoryOf(b)
    BY <1>1, <2>1 DEF HistoryOf
  <2> QED BY <2>2, <2>3
<1> QED BY <1>1, <1>2

\* How the worker gets to each place of a poll.
LEMMA PlacesReached ==
  ASSUME Next
  PROVE  /\ pc' \in {"snapshot", "assess"} =>
              LoadAttempts \/ ReadController \/ RepairMetrics \/ Environment
         /\ pc' \in {"dispatch", "cancel", "finish", "start"} =>
              SourceFailure \/ Publish \/ Dispatch \/ CheckCancel \/ Environment
<1> DEFINE Late == {"snapshot", "assess", "dispatch", "cancel", "finish", "start"}
<1>1. ASSUME Boot \/ Crash \/ Shutdown PROVE pc' \notin Late
  BY <1>1 DEF Boot, Crash, Shutdown, Down, ToIdle
<1>2. ASSUME Command \/ Timer PROVE pc' \notin Late
  <2>1. ASSUME NEW b \in Batches, NEW p \in Plans, Create(b, p) \/ Update(b, p)
        PROVE  pc' \notin Late
    BY <2>1 DEF Create, Update, OnlyManifests, Free, worker
  <2>2. ASSUME NEW b \in Batches, Activate(b) PROVE pc' \notin Late
    <3>1. pc = "idle" /\ (BeginPoll("auto") \/ pc' = pc)
      BY <2>2 DEF Activate, NotActivated, SaveControlState, Free, worker
    <3> QED BY <3>1 DEF BeginPoll, ToIdle
  <2>3. ASSUME NEW b \in Batches, Withdraw(b) \/ Unwithdraw(b) PROVE pc' \notin Late
    BY <2>3 DEF Withdraw, Unwithdraw, OnlyManifests, Free, worker
  <2>4. CASE Pause \/ Resume \/ Cancel
    BY <2>4 DEF Pause, Resume, Cancel, Commandable, Free, BeginPoll, SaveActive,
       SaveControlState, ToIdle, worker
  <2>5. CASE Continue \/ Refresh \/ Timer \/ \E m \in {"manual", "automatic"} : SetMode(m)
    BY <2>5 DEF Continue, Refresh, SetMode, Commandable, Free, Timer, BeginPoll, ToIdle,
       worker
  <2> QED BY <1>2, <2>1, <2>2, <2>3, <2>4, <2>5 DEF Command
<1>3. ASSUME EnsureActiveRuntime \/ FinishActive \/ ReleaseAutomation \/ StartExposure
               \/ StartRefused
      PROVE  pc' \notin Late
  <2>1. CASE FinishActive
    BY <2>1, FinishWrites DEF GoTo, ToIdle
  <2>2. CASE EnsureActiveRuntime
    BY <2>2 DEF EnsureActiveRuntime, GoTo, ToIdle
  <2>3. CASE ReleaseAutomation \/ StartExposure \/ StartRefused
    BY <2>3 DEF ReleaseAutomation, StartExposure, StartRefused, ToIdle
  <2> QED BY <1>3, <2>1, <2>2, <2>3
<1>4. ASSUME SourceFailure \/ Publish PROVE pc' \notin {"snapshot", "assess"}
  BY <1>4 DEF SourceFailure, Publish, AfterPoll
<1>5. ASSUME Dispatch \/ CheckCancel PROVE pc' \notin {"snapshot", "assess"}
  BY <1>5 DEF Dispatch, CheckCancel, SaveActive, SaveControlState, ActOnDecision, GoTo, StartPoll, ToIdle
<1>6. ASSUME LoadAttempts \/ ReadController \/ RepairMetrics
      PROVE  pc' \notin {"dispatch", "cancel", "finish", "start"}
  BY <1>6 DEF LoadAttempts, ReadController, RepairMetrics
<1> QED BY <1>1, <1>2, <1>3, <1>4, <1>5, <1>6 DEF Next, Poll

LEMMA EnvironmentApart ==
  ASSUME Environment
  PROVE  UNCHANGED <<store, memory, worker, ghosts>>
BY DEF Environment, RunEnds, MetricsRecorded, Settle, RunOrphaned, ForeignRunChanges,
   QueueLease, ReleaseCarriedOut, Outside

LEMMA KeptInvStep ==
  ASSUME TypeInv, RunInv, KeptInv, [Next]_vars
  PROVE  KeptInv'
<1>1. CASE UNCHANGED vars
  BY <1>1 DEF vars, durable, memory, worker, KeptInv, RunsOfBatch
<1>2. CASE LoadAttempts
  <2>1. /\ UNCHANGED <<attempts, active>> /\ loaded' = HistoryOf(active)
    BY <1>2 DEF LoadAttempts, PollOnly
  <2>2. loaded' = [r \in RunsOfBatch(active)' |-> attempts'[r]]
    BY <2>1 DEF HistoryOf, RunsOfBatch
  <2> QED BY <2>1, <2>2 DEF KeptInv
<1>3. ASSUME Next, pc \in {"snapshot", "assess"}, UNCHANGED <<active, loaded>>
      PROVE  KeptInv'
  <2>1. ~StartExposure
    BY <1>3 DEF StartExposure
  <2>2. RunsOfBatch(active)' = RunsOfBatch(active)
    BY <1>3, <2>1, HistoryStays
  <2>3. DOMAIN loaded = RunsOfBatch(active) /\ RunsOfBatch(active) \subseteq DOMAIN attempts
    BY <1>3 DEF KeptInv, RunsOfBatch
  <2>4. ASSUME NEW r \in DOMAIN loaded, Over(loaded[r]) PROVE attempts'[r] = loaded[r]
    <3>1. attempts[r] = loaded[r]
      BY <1>3, <2>4 DEF KeptInv
    <3> QED BY <1>3, <2>3, <2>4, <3>1, OverStays
  <2>5. loaded = [r \in RunsOfBatch(active) |-> loaded[r]]
    BY <1>3 DEF KeptInv
  <2> QED BY <1>3, <2>2, <2>3, <2>4, <2>5 DEF KeptInv
<1>4. CASE Next /\ (ReadController \/ Environment)
  <2>1. pc' \in {"snapshot", "assess"} => pc \in {"snapshot", "assess"}
    BY <1>4, EnvironmentApart DEF ReadController, worker
  <2>2. UNCHANGED <<active, loaded>>
    BY <1>4, EnvironmentApart DEF ReadController, PollOnly, memory, worker
  <2>3. CASE pc \in {"snapshot", "assess"}
    BY <1>3, <1>4, <2>2, <2>3
  <2>4. CASE pc \notin {"snapshot", "assess"}
    BY <2>1, <2>4 DEF KeptInv
  <2> QED BY <2>3, <2>4
<1>5. CASE Next /\ RepairMetrics
  <2> DEFINE q == Assessed.run
             written == [attempts EXCEPT ![q].dose = attempts[q].measured.dose,
                                         ![q].runtime = attempts[q].measured.runtime]
  <2>1. pc = "assess" /\ UNCHANGED active
    BY <1>5 DEF RepairMetrics, PollOnly
  <2>2. \/ attempts' = written /\ loaded' = [r \in RunsOfBatch(active) |-> written[r]]
        \/ UNCHANGED loaded
    BY <1>5 DEF RepairMetrics
  <2> HIDE DEF written
  <2>3. CASE UNCHANGED loaded
    BY <1>3, <1>5, <2>1, <2>3
  <2>4. CASE attempts' = written /\ loaded' = [r \in RunsOfBatch(active) |-> written[r]]
    <3>1. /\ DOMAIN loaded' = RunsOfBatch(active)
          /\ loaded' = [r \in RunsOfBatch(active) |-> loaded'[r]]
          /\ \A r \in RunsOfBatch(active) : loaded'[r] = attempts'[r]
      BY <2>4
    <3>2. RunsOfBatch(active)' = RunsOfBatch(active)
      <4>1. ~StartExposure
        BY <2>1 DEF StartExposure
      <4> QED BY <1>5, <2>1, <4>1, HistoryStays
    <3> QED BY <2>1, <3>1, <3>2 DEF KeptInv
  <2> QED BY <2>2, <2>3, <2>4
<1>6. CASE Next /\ ~(LoadAttempts \/ ReadController \/ RepairMetrics \/ Environment)
  BY <1>6, PlacesReached DEF KeptInv
<1> QED BY <1>1, <1>2, <1>4, <1>5, <1>6

\* What a poll publishes fits what the library says.
LEMMA PublishedFits ==
  ASSUME TypeInv, KeptInv, Publish, coord'.last.kind \in Conclusive
  PROVE  AllOver(active)' /\ Fits(coord.last, coord.plan, HistoryOf(active))'
<1> DEFINE clear == Assessed.kind \in {"paused", "start_remainder", "complete"}
           shown == IF Latched /\ clear THEN Plain("pause_error") ELSE Assessed
<1>1. /\ UNCHANGED <<attempts, active>> /\ pc = "assess"
      /\ coord'.plan = coord.plan /\ coord'.last = shown
  BY DEF TypeInv, CoordTyped, GoodCoordinator, Coordinator, Publish, PollOnly
<1>2. Plain("pause_error").kind \notin Conclusive
  BY DEF Plain, Decision, Conclusive
<1>3. coord'.last = Assessed /\ Assessed.kind \in Conclusive
  <2> HIDE DEF clear
  <2> QED BY <1>1, <1>2
<1>4. /\ \A r \in DOMAIN loaded : Over(loaded[r])
      /\ Fits(Assessed, coord.plan, loaded)
  BY <1>3, ConclusiveDecision DEF Assessed
<1>5. /\ DOMAIN loaded = RunsOfBatch(active)
      /\ \A r \in RunsOfBatch(active) : attempts[r] = loaded[r]
  BY <1>1, <1>4 DEF KeptInv
<1>6. HistoryOf(active) = loaded
  <2>1. loaded = [r \in RunsOfBatch(active) |-> loaded[r]]
    BY <1>1 DEF KeptInv
  <2> QED BY <1>5, <2>1 DEF HistoryOf
<1>7. RunsOfBatch(active)' = RunsOfBatch(active) /\ HistoryOf(active)' = loaded
  BY <1>1, <1>6 DEF HistoryOf, RunsOfBatch
<1>8. AllOver(active)'
  BY <1>1, <1>4, <1>5, <1>7 DEF AllOver
<1>9. Fits(coord'.last, coord'.plan, HistoryOf(active)')
  BY <1>1, <1>3, <1>4, <1>7
<1> QED BY <1>8, <1>9

LEMMA DecisionInvStep ==
  ASSUME TypeInv, RunInv, KeptInv, DecisionInv, [Next]_vars
  PROVE  DecisionInv'
<1> DEFINE Late == {"dispatch", "cancel", "finish", "start"}
<1>0. coord \in Coordinator
  BY DEF TypeInv, CoordTyped, GoodCoordinator
<1>1. CASE UNCHANGED vars
  BY <1>1 DEF vars, durable, memory, worker, DecisionInv, Decided, AllOver, RunsOfBatch,
     HistoryOf
<1>2. ASSUME Next, pc \in Late, UNCHANGED <<active, coord>>, ~StartExposure
      PROVE  DecisionInv'
  <2> SUFFICES ASSUME Decided' \in Conclusive
               PROVE  AllOver(active)' /\ Fits(coord.last, coord.plan, HistoryOf(active))'
    BY DEF DecisionInv
  <2>1. AllOver(active) /\ Fits(coord.last, coord.plan, HistoryOf(active))
    BY <1>2 DEF DecisionInv, Decided
  <2>2. AllOver(active)' /\ HistoryOf(active)' = HistoryOf(active)
    <3>1. \A b : AllOver(b) => AllOver(b)' /\ HistoryOf(b)' = HistoryOf(b)
      BY <1>2, HistoryStays
    <3> QED BY <1>2, <2>1, <3>1 DEF AllOver, HistoryOf, RunsOfBatch
  <2> QED BY <1>2, <2>1, <2>2
<1>3. CASE Next /\ (Dispatch \/ CheckCancel)
  <2>1. pc \in Late /\ UNCHANGED <<active, coord>> /\ ~StartExposure
    BY <1>3 DEF Dispatch, CheckCancel, StaysLive, StartExposure
  <2> QED BY <1>2, <1>3, <2>1
<1>4. CASE Next /\ Environment
  <2>1. UNCHANGED <<active, coord, pc>>
    BY <1>4, EnvironmentApart DEF memory, worker
  <2>2. CASE pc \in Late
    <3>1. ~StartExposure \/ pc' = "idle"
      BY DEF StartExposure, ToIdle
    <3> QED BY <1>2, <1>4, <2>1, <2>2, <3>1
  <2>3. CASE pc \notin Late
    BY <2>1, <2>3 DEF DecisionInv
  <2> QED BY <2>2, <2>3
<1>5. CASE SourceFailure
  <2>1. \E k \in {"pause_error", "wait_controller"} : coord'.last = Plain(k)
    BY <1>0, <1>5 DEF SourceFailure, Coordinator
  <2> QED BY <2>1 DEF DecisionInv, Decided, Conclusive, Plain, Decision
<1>6. CASE Publish
  BY <1>6, PublishedFits DEF DecisionInv, Decided
<1>7. CASE Next /\ ~(SourceFailure \/ Publish \/ Dispatch \/ CheckCancel \/ Environment)
  BY <1>7, PlacesReached DEF DecisionInv
<1> QED BY <1>1, <1>3, <1>4, <1>5, <1>6, <1>7

RemainderInv == TypeInv /\ RunInv /\ KeptInv /\ DecisionInv

LEMMA RemainderInvHolds == Spec => []RemainderInv
<1>1. Init => RunInv /\ KeptInv /\ DecisionInv
  <2>1. 1..0 = {}
    OBVIOUS
  <2> QED BY <2>1, ValuesAssumption DEF Init, RunInv, KeptInv, DecisionInv
<1>2. TypeInv /\ RunInv /\ KeptInv /\ DecisionInv /\ [Next]_vars =>
        RunInv' /\ KeptInv' /\ DecisionInv'
  BY RunInvStep, KeptInvStep, DecisionInvStep
<1> QED BY <1>1, <1>2, TypeInvHolds, PTL DEF Spec, RemainderInv

\* What is left of an open target is positive.
LEMMA RemainderOfOpen ==
  ASSUME NEW p \in Seq(PlanEntry), NEW h, IsFiniteSet(DOMAIN h), Incomplete(p, h) # {}
  PROVE  LET i == First(Incomplete(p, h))
         IN i \in DOMAIN p /\ Remainder(p[i], h) = p[i].target - Actual(p[i], h)
<1> DEFINE open == Incomplete(p, h)
           i == First(open)
<1>1. open \in SUBSET Nat /\ open \subseteq DOMAIN p /\ open # {}
  BY DEF Incomplete
<1>2. i \in open
  <2> HIDE DEF open
  <2> QED BY <1>1, FirstIsSmallest
<1>3. i \in DOMAIN p /\ p[i] \in PlanEntry /\ UnderTarget(p[i], h)
  BY <1>2 DEF Incomplete
<1> HIDE DEF i
<1> DEFINE entry == p[i]
<1>4. entry.target \in Nat /\ Tolerance(entry) \in Nat
  BY <1>3, ConfigAssumption DEF PlanEntry, Tolerance
<1>5. Actual(entry, h) \in Int
  BY ActualIsInteger
<1>6. Actual(entry, h) < entry.target - Tolerance(entry)
  BY <1>3 DEF UnderTarget
<1> HIDE DEF entry
<1>7. entry.target - Actual(entry, h) \in Nat
  BY <1>4, <1>5, <1>6
<1>8. Remainder(entry, h) = entry.target - Actual(entry, h)
  BY <1>7 DEF Remainder
<1> QED BY <1>3, <1>8 DEF i, entry

(* The theorem: each run that the batch controller starts asks for exactly  *)
(* what the library says is left of the current target at that moment, with *)
(* any number of commands, failures and ends of runs since the plan was     *)
(* made, and whatever the metrics add up to.                                *)
THEOREM RemaindersAreExact == Spec => RemainderIsExact
<1> DEFINE Exact ==
      LET run == attempts'[Len(attempts')]
      IN \E i \in DOMAIN coord.plan :
           /\ coord.plan[i].sample = run.sample
           /\ run.amount = coord.plan[i].target - Actual(coord.plan[i], HistoryOf(active))
<1>1. RemainderInv /\ [Next]_vars => (RunStarts => Exact)
  <2> SUFFICES ASSUME RemainderInv, [Next]_vars, RunStarts PROVE Exact
    OBVIOUS
  <2>0. TypeInv /\ attempts \in Seq(Run) /\ Len(attempts) \in Nat
    BY DEF RemainderInv, TypeInv, RunsTyped
  <2>1. Next
    BY <2>0 DEF RunStarts, vars, durable
  <2>2. StartExposure
    BY <2>0, <2>1, OnlyStartsStart
  <2>3. PICK new : /\ attempts' = Append(attempts, new)
                   /\ new.sample = coord.last.sample /\ new.amount = coord.last.amount
    BY <2>2 DEF StartExposure
  <2>4. attempts'[Len(attempts')] = new
    BY <2>0, <2>3
  <2> DEFINE h == HistoryOf(active)
             p == coord.plan
             i == First(Incomplete(p, h))
  <2>5. pc = "start" /\ coord.last.kind = "start_remainder"
    BY <2>0, <2>2 DEF StartExposure, TypeInv, WorkerTyped
  <2>6. Incomplete(p, h) # {} /\ new.sample = p[i].sample /\ new.amount = Remainder(p[i], h)
    BY <2>3, <2>5 DEF RemainderInv, DecisionInv, Decided, Conclusive, Fits
  <2>7. p \in Seq(PlanEntry)
    <3>1. p \in Plans \/ p = << >>
      BY <2>0 DEF TypeInv, CoordTyped, GoodCoordinator, Coordinator
    <3>2. CASE p \in Plans
      BY <3>2, ScopeAssumption DEF IsPlan
    <3>3. CASE p = << >>
      BY <3>3
    <3> QED BY <3>1, <3>2, <3>3
  <2>8. IsFiniteSet(DOMAIN h)
    <3>1. DOMAIN h \subseteq 1..Len(attempts)
      BY <2>0 DEF HistoryOf, RunsOfBatch
    <3>2. IsFiniteSet(1..Len(attempts))
      BY <2>0, FS_Interval
    <3> HIDE DEF h
    <3> QED BY <3>1, <3>2, FS_Subset
  <2>9. i \in DOMAIN p /\ Remainder(p[i], h) = p[i].target - Actual(p[i], h)
    <3> HIDE DEF h, p
    <3> QED BY <2>6, <2>7, <2>8, RemainderOfOpen
  <2> QED BY <2>4, <2>6, <2>9
<1> QED BY <1>1, RemainderInvHolds, PTL DEF Spec, RemainderIsExact

-----------------------------------------------------------------------------
(* Finished batches.  Without plan updates the plan a batch is decided by   *)
(* is the one it is recorded with, so that an empty list of open targets is *)
(* still empty for the plan on disk; and a batch that is finished keeps its *)
(* history.                                                                 *)

KnownPlan(b) == store[b].status # "absent" /\ known[b].plan = store[b].plan

PlanInv ==
  /\ active # NoBatch =>
       /\ manifest.status = "active" /\ manifest.plan = store[active].plan
       /\ {store[active].status, known[active].status} \subseteq
            {"active", "completed", "cancelled"}
       /\ coordLive => coord.plan = manifest.plan
  /\ \A b \in Batches : known[b].status # "absent" => KnownPlan(b)
  /\ pc = "down" => ~coordLive /\ active = NoBatch

FinishInv ==
  /\ pc = "cancel" => manifest.cancel_pending
  /\ pc = "finish" => /\ manifest.cancel_pending \/ Decided = "complete"
                      /\ current \notin RunsOfBatch(active)

CompletedInv ==
  \A b \in Batches : store[b].status = "completed" =>
    AllOver(b) /\ Incomplete(store[b].plan, HistoryOf(b)) = {}

\* How the manifests move, if no plan is updated.  A save that raises leaves
\* `_manifests` behind the disk, or memory ahead of both.
Rest ==
  /\ UNCHANGED store
  /\ \/ UNCHANGED <<known, active, manifest>>
     \/ active' = NoBatch /\ (known' = known \/ known' = store)

\* Manifest m of batch b is on disk, and known if nothing was raised.
Lands(b, m) ==
  /\ store' = [store EXCEPT ![b] = m]
  /\ known' = known \/ known' = [known EXCEPT ![b] = m]

Saves(m) ==
  /\ m.status = manifest.status /\ m.plan = manifest.plan
  /\ active # NoBatch /\ active' = active /\ manifest' = m
  /\ UNCHANGED <<store, known>> \/ Lands(active, m)

Takes(b, m) ==
  /\ m.status = "active" /\ m.plan = store[b].plan
  /\ store' = [store EXCEPT ![b] = m] /\ active' = b /\ manifest' = m
  /\ known' = store' \/ known' = [known EXCEPT ![b] = m]
  /\ active = NoBatch /\ (coordLive' => coord'.plan = m.plan)

Edits(b, m) ==
  /\ m.status \in {"draft", "withdrawn", "active"} /\ b # active /\ Lands(b, m)
  /\ known[b].status # "absent" => m.plan = known[b].plan
  /\ UNCHANGED <<active, manifest, coordLive, coord>>

Finishes(m) ==
  /\ m.status = (IF manifest.cancel_pending THEN "cancelled" ELSE "completed")
  /\ m.plan = manifest.plan /\ active # NoBatch /\ Lands(active, m)
  /\ pc = "finish" /\ ("save" \notin Faults => pc' = "release")
  /\ UNCHANGED <<attempts, current, active, manifest>>
  /\ coordLive' => coordLive /\ UNCHANGED coord

Save == \E m : Saves(m)
Take == \E b \in Batches : \E m : Takes(b, m)
Edit == \E b \in Batches : \E m : Edits(b, m)
Finish == \E m : Finishes(m)

LEMMA Landed ==
  ASSUME NEW b, NEW m, Saved(b, m) \/ Raised(b, m)
  PROVE  UNCHANGED <<store, known>> \/ Lands(b, m)
BY DEF Saved, Raised, Lands

LEMMA CommandMoves ==
  ASSUME TypeInv, PlanInv, Command, "update" \notin Commands
  PROVE  Rest \/ Save \/ Take \/ Edit
<1>0. /\ \A b \in Batches : store[b] \in Manifest /\ known[b] \in Manifest
      /\ manifest \in Manifest
      /\ NoBatch \notin Batches
  BY ScopeAssumption DEF TypeInv, ManifestsTyped
<1>1. ASSUME NEW b \in Batches, NEW p \in Plans, Create(b, p) PROVE Rest \/ Edit
  <2> DEFINE new == Created(p)
  <2>1. /\ Saved(b, new) \/ Raised(b, new)
        /\ store[b].status = "absent"
        /\ UNCHANGED <<active, manifest, coordLive, coord>>
    BY <1>1, CreateWrites DEF Onlookers
  <2>2. new.status = "draft" /\ new.plan = p
    BY DEF NoManifest, Created
  <2>3. b # active
    BY <1>0, <2>1 DEF PlanInv
  <2>4. known[b].status = "absent"
    BY <2>1 DEF PlanInv, KnownPlan
  <2> HIDE DEF new
  <2>5. UNCHANGED <<store, known>> \/ Lands(b, new)
    BY <2>1, Landed
  <2>6. CASE UNCHANGED <<store, known>>
    BY <2>1, <2>6 DEF Rest
  <2>7. CASE Lands(b, new)
    <3>1. Edits(b, new)
      BY <2>1, <2>2, <2>3, <2>4, <2>7 DEF Edits
    <3> QED BY <3>1 DEF Edit
  <2> QED BY <2>5, <2>6, <2>7
<1>2. ASSUME NEW b \in Batches, NEW p \in Plans PROVE ~Update(b, p)
  BY DEF Update, Free
<1>3. ASSUME NEW b \in Batches, Withdraw(b) \/ Unwithdraw(b) PROVE Rest \/ Edit
  <2>1. PICK m \in {Withdrawn(b), Unwithdrawn(b)} : Saved(b, m) \/ Raised(b, m)
    BY <1>3, WithdrawalWrites
  <2>2. /\ known[b].status \in {"draft", "withdrawn"}
        /\ UNCHANGED <<active, manifest, coordLive, coord>>
    BY <1>3, WithdrawalWrites DEF Onlookers
  <2>3. m.status \in {"draft", "withdrawn"} /\ m.plan = known[b].plan
    BY <1>0, <2>1 DEF Manifest, Withdrawn, Unwithdrawn
  <2>4. b # active
    BY <1>0, <2>2 DEF PlanInv
  <2>5. UNCHANGED <<store, known>> \/ Lands(b, m)
    BY <2>1, Landed
  <2>6. CASE UNCHANGED <<store, known>>
    BY <2>2, <2>6 DEF Rest
  <2>7. CASE Lands(b, m)
    <3>1. Edits(b, m)
      BY <2>2, <2>3, <2>4, <2>7 DEF Edits
    <3> QED BY <3>1 DEF Edit
  <2> QED BY <2>5, <2>6, <2>7
<1>4. ASSUME NEW b \in Batches, Activate(b) PROVE Take \/ Edit \/ Rest
  <2> DEFINE new == Activated(b)
  <2>1. new.status = "active" /\ new.plan = known[b].plan
    BY <1>0 DEF Manifest, Activated
  <2>2. active = NoBatch /\ known[b].status \in {"draft", "cancelled"}
    BY <1>4, ActivationWrites
  <2>3. known[b].plan = store[b].plan /\ b # active
    BY <2>2, ScopeAssumption DEF PlanInv, KnownPlan
  <2>4. \/ /\ Saved(b, new) /\ manifest' = new /\ active' = b
           /\ coord' = NewCoordinator(new)
        \/ /\ Raised(b, new) \/ UNCHANGED <<store, known>>
           /\ UNCHANGED <<active, manifest, coordLive, coord>>
    BY <1>4, ActivationWrites DEF NotActivated
  <2>5. NewCoordinator(new).plan = new.plan
    BY DEF NewCoordinator
  <2> HIDE DEF new
  <2>6. CASE Saved(b, new) /\ manifest' = new /\ active' = b /\ coord' = NewCoordinator(new)
    <3>1. coord'.plan = new.plan
      BY <2>5, <2>6
    <3>2. store' = [store EXCEPT ![b] = new] /\ known' = [known EXCEPT ![b] = new]
      BY <2>6 DEF Saved
    <3>3. Takes(b, new)
      BY <2>1, <2>2, <2>3, <2>6, <3>1, <3>2 DEF Takes
    <3> QED BY <3>3 DEF Take
  <2>7. CASE UNCHANGED <<store, known>> /\ UNCHANGED <<active, manifest, coordLive, coord>>
    BY <2>7 DEF Rest
  <2>8. CASE Raised(b, new) /\ UNCHANGED <<active, manifest, coordLive, coord>>
    <3>1. UNCHANGED <<store, known>> \/ Lands(b, new)
      BY <2>8, Landed
    <3>2. CASE Lands(b, new)
      <4>1. Edits(b, new)
        BY <2>1, <2>3, <2>8, <3>2 DEF Edits
      <4> QED BY <4>1 DEF Edit
    <3> QED BY <2>7, <2>8, <3>1, <3>2
  <2> QED BY <2>4, <2>6, <2>7, <2>8
<1>5. ASSUME Pause \/ Cancel \/ Resume PROVE Save
  <2>1. PICK m : /\ Relabelled(m) /\ manifest' = m
                 /\ Saved(active, m) \/ Raised(active, m)
    BY <1>5, ControlWrites DEF TypeInv
  <2>2. active # NoBatch /\ UNCHANGED active
    BY <1>5, ControlWrites DEF TypeInv
  <2>3. UNCHANGED <<store, known>> \/ Lands(active, m)
    BY <2>1, Landed
  <2>4. Saves(m)
    BY <2>1, <2>2, <2>3 DEF Saves, Relabelled
  <2> QED BY <2>4 DEF Save
<1>6. ASSUME Continue \/ Refresh \/ \E m \in {"manual", "automatic"} : SetMode(m)
      PROVE  Rest
  BY <1>6 DEF Continue, Refresh, SetMode, SameRuntime, SameLease, Rest
<1> QED BY <1>1, <1>2, <1>3, <1>4, <1>5, <1>6 DEF Command

LEMMA ManifestMoves ==
  ASSUME TypeInv, PlanInv, [Next]_vars, "update" \notin Commands
  PROVE  Rest \/ Save \/ Take \/ Edit \/ Finish
<1>0. /\ \A b \in Batches : store[b] \in Manifest
      /\ manifest \in Manifest
      /\ pc \notin {"down", "idle"} => active # NoBatch
  BY DEF TypeInv, ManifestsTyped, WorkerTyped
<1>1. ASSUME Boot PROVE Rest \/ Take
  <2>1. ~coordLive' /\ active = NoBatch /\ known' = store'
    BY <1>1 DEF Boot, PlanInv
  <2>2. CASE UNCHANGED <<store, active, manifest>>
    BY <2>1, <2>2 DEF Rest
  <2>3. ASSUME NEW b \in LiveManifests, store' = [store EXCEPT ![b] = Restored(store[b])],
               active' = b, manifest' = store'[b]
        PROVE  Take
    <3> DEFINE new == Restored(store[b])
    <3>1. b \in Batches /\ store[b].status = "active"
      BY DEF LiveManifests
    <3>2. new.status = "active" /\ new.plan = store[b].plan
      BY <1>0, <3>1 DEF Restored, Manifest
    <3>3. store' = [store EXCEPT ![b] = new]
      BY <2>3
    <3> HIDE DEF new
    <3>4. manifest' = new
      BY <2>3, <3>1, <3>3 DEF TypeInv, ManifestsTyped
    <3>5. Takes(b, new)
      BY <2>1, <2>3, <3>1, <3>2, <3>3, <3>4 DEF Takes
    <3> QED BY <3>1, <3>5 DEF Take
  <2> QED BY <1>1, <2>2, <2>3 DEF Boot
<1>2. ASSUME Crash \/ Shutdown PROVE Rest
  BY <1>2 DEF Crash, Shutdown, Down, Rest
<1>3. ASSUME Timer \/ Environment \/ UNCHANGED vars PROVE Rest
  BY <1>3, EnvironmentApart DEF Timer, SameRuntime, SameLease, memory, vars, durable, Rest
<1>4. ASSUME \/ EnsureActiveRuntime \/ LoadAttempts \/ ReadController \/ SourceFailure
             \/ RepairMetrics \/ Publish \/ CheckCancel
      PROVE  Rest
  BY <1>4 DEF EnsureActiveRuntime, LoadAttempts, ReadController, SourceFailure, PollOnly,
     RepairMetrics, Publish, CheckCancel, StaysLive, Rest
<1>5. ASSUME ReleaseAutomation \/ StartExposure \/ StartRefused PROVE Rest
  BY <1>5 DEF ReleaseAutomation, StartExposure, StartRefused, memory, durable, Rest
<1>6. ASSUME Dispatch PROVE Rest \/ Save
  <2>1. active # NoBatch /\ UNCHANGED active
    BY <1>0, <1>6 DEF Dispatch, StaysLive
  <2>2. Synced.status = manifest.status /\ Synced.plan = manifest.plan
    BY <1>0 DEF Synced, Manifest
  <2>3. \/ UNCHANGED <<store, known, manifest>>
        \/ manifest' = Synced /\ (Saved(active, Synced) \/ Raised(active, Synced))
    BY <1>6, DispatchWrites
  <2>4. CASE UNCHANGED <<store, known, manifest>>
    BY <2>1, <2>4 DEF Rest
  <2>5. CASE manifest' = Synced /\ (Saved(active, Synced) \/ Raised(active, Synced))
    <3>1. UNCHANGED <<store, known>> \/ Lands(active, Synced)
      BY <2>5, Landed
    <3>2. Saves(Synced)
      BY <2>1, <2>2, <2>5, <3>1 DEF Saves
    <3> QED BY <3>2 DEF Save
  <2> QED BY <2>3, <2>4, <2>5
<1>7. ASSUME FinishActive PROVE Rest \/ Finish
  <2>1. /\ Finished.status = (IF manifest.cancel_pending THEN "cancelled" ELSE "completed")
        /\ Finished.plan = manifest.plan
    BY <1>0 DEF Manifest, Finished
  <2>2. /\ UNCHANGED <<attempts, current, active, manifest>> /\ pc = "finish"
        /\ \/ Saved(active, Finished) /\ coordLive' = FALSE /\ pc' = "release"
           \/ Raised(active, Finished) /\ UNCHANGED <<coordLive, coord>>
    BY <1>7, FinishWrites DEF GoTo
  <2>3. active # NoBatch
    BY <1>0, <2>2
  <2>4. UNCHANGED <<store, known>> \/ Lands(active, Finished)
    BY <2>2, Landed
  <2>5. CASE UNCHANGED <<store, known>>
    BY <2>2, <2>5 DEF Rest
  <2>6. CASE Lands(active, Finished) /\ store' # store
    <3>1. "save" \notin Faults => pc' = "release"
      BY <2>2, <2>6 DEF Raised
    <3>2. coordLive' => coordLive /\ UNCHANGED coord
      BY <2>2
    <3>3. Finishes(Finished)
      BY <2>1, <2>2, <2>3, <2>6, <3>1, <3>2 DEF Finishes
    <3> QED BY <3>3 DEF Finish
  <2>7. CASE store' = store /\ known' # known
    <3>1. pc' = "release" /\ ~coordLive' /\ Lands(active, Finished)
      BY <2>2, <2>4, <2>7 DEF Raised
    <3>2. Finishes(Finished)
      BY <2>1, <2>2, <2>3, <3>1 DEF Finishes
    <3> QED BY <3>2 DEF Finish
  <2> QED BY <2>4, <2>5, <2>6, <2>7
<1> QED BY <1>1, <1>2, <1>3, <1>4, <1>5, <1>6, <1>7, CommandMoves DEF Next, Poll

LEMMA DownReached ==
  ASSUME TypeInv, Next, pc' = "down"
  PROVE  Down \/ UNCHANGED <<pc, active, coordLive>>
<1>1. ASSUME Boot PROVE FALSE
  BY <1>1 DEF Boot, ToIdle
<1>2. ASSUME Crash \/ Shutdown PROVE Down
  BY <1>2 DEF Crash, Shutdown
<1>3. ASSUME Command \/ Timer PROVE FALSE
  BY <1>3 DEF Command, Create, Update, Activate, NotActivated, Withdraw, Unwithdraw, OnlyManifests, Pause, Resume,
     Continue, Cancel, Refresh, SetMode, Commandable, Free, Timer, BeginPoll, SaveActive, SaveControlState,
     ToIdle, worker
<1>4. ASSUME Poll PROVE FALSE
  BY <1>4 DEF Poll, EnsureActiveRuntime, LoadAttempts, ReadController, SourceFailure,
     RepairMetrics, Publish, AfterPoll, Dispatch, CheckCancel, FinishActive,
     ReleaseAutomation, StartExposure, StartRefused, SaveActive, SaveControlState, ActOnDecision, StartPoll,
     GoTo, ToIdle
<1>5. ASSUME Environment PROVE UNCHANGED <<pc, active, coordLive>>
  BY <1>5, EnvironmentApart DEF memory, worker
<1> QED BY <1>1, <1>2, <1>3, <1>4, <1>5 DEF Next

\* A coordinator keeps its plan, or is new and has that of the manifest.
LEMMA CoordinatorPlans ==
  ASSUME TypeInv, [Next]_vars, "update" \notin Commands, coordLive'
  PROVE  (coordLive /\ coord'.plan = coord.plan) \/ coord'.plan = manifest'.plan
<1>0. coord \in Coordinator
  BY DEF TypeInv, CoordTyped, GoodCoordinator
<1>n. \A m : NewCoordinator(m).plan = m.plan
  BY DEF NewCoordinator
<1>1. ASSUME Boot \/ Timer \/ Environment \/ UNCHANGED vars
      PROVE  UNCHANGED <<coordLive, coord>>
  BY <1>1, EnvironmentApart DEF Boot, Timer, SameRuntime, SameLease, memory, vars
<1>2. ASSUME Crash \/ Shutdown PROVE FALSE
  BY <1>2 DEF Crash, Shutdown, Down
<1>3. ASSUME Command
      PROVE  (coordLive /\ coord'.plan = coord.plan) \/ coord'.plan = manifest'.plan
  <2>1. ASSUME NEW b \in Batches, NEW p \in Plans, Create(b, p) PROVE UNCHANGED <<coordLive, coord>>
    BY <2>1, CreateWrites DEF Onlookers
  <2>2. ASSUME NEW b \in Batches, NEW p \in Plans PROVE ~Update(b, p)
    BY DEF Update, Free
  <2>3. ASSUME NEW b \in Batches, Withdraw(b) \/ Unwithdraw(b)
        PROVE  UNCHANGED <<coordLive, coord>>
    BY <2>3, WithdrawalWrites DEF Onlookers
  <2>4. ASSUME NEW b \in Batches, Activate(b)
        PROVE  UNCHANGED <<coordLive, coord>> \/ coord' = NewCoordinator(manifest')
    BY <2>4, ActivationWrites DEF NotActivated
  <2>5. ASSUME Pause \/ Cancel \/ Resume PROVE coordLive /\ coord'.plan = coord.plan
    BY <1>0, <2>5 DEF Pause, Cancel, Resume, Resumed, Coordinator
  <2>6. ASSUME Continue \/ Refresh \/ \E m \in {"manual", "automatic"} : SetMode(m)
        PROVE  UNCHANGED <<coordLive, coord>>
    BY <2>6 DEF Continue, Refresh, SetMode, SameRuntime, SameLease
  <2>7. coord' = NewCoordinator(manifest') => coord'.plan = manifest'.plan
    BY <1>n
  <2> QED BY <1>3, <2>1, <2>2, <2>3, <2>4, <2>5, <2>6, <2>7 DEF Command
<1>4. ASSUME EnsureActiveRuntime
      PROVE  UNCHANGED <<coordLive, coord>> \/ coord'.plan = manifest'.plan
  <2>1. \/ UNCHANGED <<coordLive, coord>>
        \/ coord' = NewCoordinator(manifest) /\ manifest' = manifest
    BY <1>4 DEF EnsureActiveRuntime
  <2> QED BY <1>n, <2>1
<1>5. ASSUME \/ LoadAttempts \/ ReadController \/ SourceFailure \/ RepairMetrics
             \/ Publish \/ Dispatch \/ CheckCancel \/ FinishActive \/ ReleaseAutomation
             \/ StartExposure \/ StartRefused
      PROVE  coordLive /\ coord'.plan = coord.plan
  <2>1. CASE FinishActive
    BY <2>1, FinishWrites
  <2>2. CASE Dispatch \/ CheckCancel \/ ReleaseAutomation \/ StartExposure \/ StartRefused
    BY <2>2 DEF Dispatch, CheckCancel, StaysLive, ReleaseAutomation, StartExposure,
       StartRefused, memory
  <2>3. CASE LoadAttempts \/ ReadController \/ SourceFailure \/ RepairMetrics \/ Publish
    BY <1>0, <2>3 DEF LoadAttempts, ReadController, SourceFailure, RepairMetrics, Publish,
       PollOnly, Coordinator
  <2> QED BY <1>5, <2>1, <2>2, <2>3
<1> QED BY <1>1, <1>2, <1>3, <1>4, <1>5 DEF Next, Poll

LEMMA PlanInvStep ==
  ASSUME TypeInv, PlanInv, [Next]_vars, "update" \notin Commands
  PROVE  PlanInv'
<1>0. /\ store \in [Batches -> Manifest] /\ NoBatch \notin Batches
      /\ active # NoBatch => active \in Batches
  BY ScopeAssumption DEF TypeInv, ManifestsTyped
<1>1. pc' = "down" => ~coordLive' /\ active' = NoBatch
  <2>1. CASE UNCHANGED vars
    BY <2>1 DEF vars, memory, worker, PlanInv
  <2>2. CASE Next
    BY <2>2, DownReached DEF Down, PlanInv
  <2> QED BY <2>1, <2>2
<1>c. coordLive' =>
        (coordLive /\ coord'.plan = coord.plan) \/ coord'.plan = manifest'.plan
  BY CoordinatorPlans
<1>k. known \in [Batches -> Manifest]
  BY DEF TypeInv, ManifestsTyped
<1> DEFINE Kept == \A c \in Batches : known'[c].status # "absent" => KnownPlan(c)'
           Agreed == active' # NoBatch =>
               /\ manifest'.status = "active" /\ manifest'.plan = store'[active'].plan
               /\ {store'[active'].status, known'[active'].status} \subseteq
                    {"active", "completed", "cancelled"}
               /\ coordLive' => coord'.plan = manifest'.plan
<1>l. ASSUME NEW b \in Batches, NEW m, Lands(b, m), m.status # "absent",
             known[b].status # "absent" => m.plan = known[b].plan
      PROVE  Kept
  <2>1. \A c \in Batches \ {b} : UNCHANGED <<store[c], known[c]>>
    BY <1>0, <1>k, <1>l DEF Lands
  <2>2. store'[b] = m /\ (known'[b] = m \/ known'[b] = known[b])
    BY <1>0, <1>k, <1>l DEF Lands
  <2>3. known'[b].status # "absent" => KnownPlan(b)'
    BY <1>l, <2>2 DEF KnownPlan
  <2>4. \A c \in Batches \ {b} : known'[c].status # "absent" => KnownPlan(c)'
    BY <2>1 DEF KnownPlan, PlanInv
  <2> QED BY <2>3, <2>4
<1>s. ASSUME known' = store' PROVE Kept
  BY <1>s DEF KnownPlan
<1>u. ASSUME UNCHANGED <<store, known>> PROVE Kept
  BY <1>u DEF KnownPlan, PlanInv
<1>2. CASE Rest
  <2>1. Kept
    BY <1>2, <1>s, <1>u DEF Rest
  <2>2. Agreed
    BY <1>2, <1>c DEF Rest, PlanInv
  <2> QED BY <1>1, <2>1, <2>2 DEF PlanInv
<1>3. ASSUME NEW m, Saves(m) PROVE PlanInv'
  <2>1. /\ active \in Batches /\ m.status = "active" /\ m.plan = store[active].plan
        /\ manifest' = m /\ active' = active /\ m.plan = manifest.plan
    BY <1>0, <1>3 DEF Saves, PlanInv
  <2>2. known[active].status # "absent" => m.plan = known[active].plan
    BY <2>1 DEF PlanInv, KnownPlan
  <2>3. Kept
    BY <1>3, <1>l, <1>u, <2>1, <2>2 DEF Saves
  <2>4. /\ store'[active].plan = m.plan
        /\ store'[active].status \in {"active", "completed", "cancelled"}
        /\ known'[active].status \in {"active", "completed", "cancelled"}
    BY <1>0, <1>k, <1>3, <2>1 DEF Saves, Lands, PlanInv
  <2>5. coordLive' => coord'.plan = m.plan
    BY <1>0, <1>c, <2>1 DEF PlanInv
  <2>6. Agreed
    BY <2>1, <2>4, <2>5
  <2> QED BY <1>1, <2>3, <2>6 DEF PlanInv
<1>4. ASSUME NEW b \in Batches, NEW m, Takes(b, m) PROVE PlanInv'
  <2>1. store'[b] = m /\ m.status = "active" /\ known'[b] = m
    BY <1>0, <1>k, <1>4 DEF Takes
  <2>2. Agreed
    BY <1>4, <2>1 DEF Takes
  <2>3. Kept
    <3>1. CASE known' = store'
      BY <1>s, <3>1
    <3>2. CASE known' = [known EXCEPT ![b] = m]
      <4>1. Lands(b, m)
        BY <1>4, <3>2 DEF Lands, Takes
      <4>2. known[b].status # "absent" => m.plan = known[b].plan
        BY <1>4 DEF Takes, PlanInv, KnownPlan
      <4> QED BY <1>l, <2>1, <4>1, <4>2
    <3> QED BY <1>4, <3>1, <3>2 DEF Takes
  <2> QED BY <1>1, <2>2, <2>3 DEF PlanInv
<1>5. ASSUME NEW b \in Batches, NEW m, Edits(b, m) PROVE PlanInv'
  <2>1. active # NoBatch => UNCHANGED <<store[active], known[active]>>
    BY <1>0, <1>k, <1>5 DEF Edits, Lands
  <2>2. Agreed
    BY <1>5, <2>1 DEF Edits, PlanInv
  <2>3. Kept
    BY <1>5, <1>l DEF Edits
  <2> QED BY <1>1, <2>2, <2>3 DEF PlanInv
<1>6. ASSUME NEW m, Finishes(m) PROVE PlanInv'
  <2>1. /\ active \in Batches /\ m.status \in {"completed", "cancelled"}
        /\ m.plan = store[active].plan /\ m.plan = manifest.plan
        /\ Lands(active, m) /\ UNCHANGED <<active, manifest>>
    BY <1>0, <1>6 DEF Finishes, PlanInv
  <2>2. known[active].status # "absent" => m.plan = known[active].plan
    BY <2>1 DEF PlanInv, KnownPlan
  <2>3. Kept
    BY <1>l, <2>1, <2>2
  <2>4. /\ store'[active].plan = m.plan
        /\ store'[active].status \in {"active", "completed", "cancelled"}
        /\ known'[active].status \in {"active", "completed", "cancelled"}
    BY <1>0, <1>k, <2>1 DEF Lands, PlanInv
  <2>5. coordLive' => coord'.plan = manifest.plan
    BY <1>6 DEF Finishes, PlanInv
  <2>6. Agreed
    BY <2>1, <2>4, <2>5 DEF PlanInv
  <2> QED BY <1>1, <2>3, <2>6 DEF PlanInv
<1> QED BY <1>2, <1>3, <1>4, <1>5, <1>6, ManifestMoves DEF Save, Take, Edit, Finish

\* A batch whose runs are over has no run under way.
LEMMA OverIsIdle ==
  ASSUME RunInv, NEW b, AllOver(b)
  PROVE  current \notin RunsOfBatch(b)
BY DEF RunInv, AllOver, Over, RunsOfBatch

LEMMA CurrentOutside ==
  ASSUME TypeInv, Environment, NEW b, current \notin RunsOfBatch(b)
  PROVE  current' \notin RunsOfBatch(b)
<1>1. NoRun \notin DOMAIN attempts /\ ForeignRun \notin DOMAIN attempts
  BY RunInLibrary DEF TypeInv, ForeignRun
<1>2. current' \in {current, NoRun, ForeignRun}
  BY DEF Environment, RunEnds, MetricsRecorded, Settle, RunOrphaned, ForeignRunChanges,
     QueueLease, ReleaseCarriedOut
<1> QED BY <1>1, <1>2 DEF RunsOfBatch

LEMMA FinishInvStep ==
  ASSUME TypeInv, RunInv, DecisionInv, FinishInv, [Next]_vars
  PROVE  FinishInv'
<1>1. CASE UNCHANGED vars
  BY <1>1 DEF vars, durable, memory, worker, FinishInv, Decided, RunsOfBatch
<1>2. CASE Next /\ Environment
  <2>1. UNCHANGED <<pc, manifest, coord, active>>
    BY <1>2, EnvironmentApart DEF memory, worker
  <2>2. CASE pc = "finish"
    <3>1. current \notin RunsOfBatch(active) /\ ~StartExposure
      BY <2>2 DEF FinishInv, StartExposure
    <3>2. \A b : RunsOfBatch(b)' = RunsOfBatch(b)
      BY <1>2, <3>1, HistoryStays
    <3>3. RunsOfBatch(active)' = RunsOfBatch(active)
      BY <2>1, <3>2 DEF RunsOfBatch
    <3>4. current' \notin RunsOfBatch(active)
      BY <1>2, <3>1, CurrentOutside
    <3> QED BY <2>1, <2>2, <3>3, <3>4 DEF FinishInv, Decided
  <2>3. CASE pc # "finish"
    BY <2>1, <2>3 DEF FinishInv
  <2> QED BY <2>2, <2>3
<1>3. CASE Dispatch
  <2>1. pc = "dispatch" /\ UNCHANGED <<attempts, current, active, coord>>
    BY <1>3 DEF Dispatch, StaysLive
  <2>2. ToIdle \/ ActOnDecision(manifest')
    BY <1>3 DEF Dispatch, SaveActive, SaveControlState
  <2>3. /\ pc' = "cancel" => manifest'.cancel_pending
        /\ pc' = "finish" => Decided = "complete"
    BY <2>2 DEF ActOnDecision, GoTo, StartPoll, ToIdle
  <2>4. Decided = "complete" => current \notin RunsOfBatch(active)
    <3>1. Decided = "complete" => AllOver(active)
      BY <2>1 DEF DecisionInv, Conclusive
    <3> QED BY <3>1, OverIsIdle
  <2>5. RunsOfBatch(active)' = RunsOfBatch(active) /\ Decided' = Decided
    BY <2>1 DEF RunsOfBatch, Decided
  <2> QED BY <2>1, <2>3, <2>4, <2>5 DEF FinishInv
<1>4. CASE CheckCancel
  <2>1. pc = "cancel" /\ UNCHANGED <<attempts, current, active, coord, manifest>>
    BY <1>4 DEF CheckCancel, StaysLive
  <2>2. pc' # "cancel" /\ (pc' = "finish" => current = NoRun)
    BY <1>4 DEF CheckCancel, MayFinishCancel, GoTo, StartPoll, ToIdle
  <2>3. NoRun \notin RunsOfBatch(active)' /\ manifest.cancel_pending
    BY <2>1, RunInLibrary DEF TypeInv, RunsOfBatch, FinishInv
  <2> QED BY <2>1, <2>2, <2>3 DEF FinishInv
<1>5. CASE SourceFailure \/ Publish
  <2>1. pc' \notin {"cancel", "finish"}
    BY <1>5 DEF SourceFailure, Publish, AfterPoll
  <2> QED BY <2>1 DEF FinishInv
<1>6. CASE Next /\ ~(SourceFailure \/ Publish \/ Dispatch \/ CheckCancel \/ Environment)
  BY <1>6, PlacesReached DEF FinishInv
<1> QED BY <1>1, <1>2, <1>3, <1>4, <1>5, <1>6

\* A batch becomes completed only where it is finished.
LEMMA CompletedBefore ==
  ASSUME TypeInv, PlanInv, [Next]_vars, "update" \notin Commands,
         NEW b \in Batches, store'[b].status = "completed"
  PROVE  \/ store[b].status = "completed" /\ store'[b].plan = store[b].plan
         \/ b = active /\ \E m : Finishes(m)
<1>0. store \in [Batches -> Manifest]
  BY DEF TypeInv, ManifestsTyped
<1>1. CASE Rest
  BY <1>1 DEF Rest
<1>2. ASSUME NEW m, Saves(m)
      PROVE  store[b].status = "completed" /\ store'[b].plan = store[b].plan
  BY <1>0, <1>2 DEF Saves, Lands, PlanInv
<1>3. ASSUME NEW c \in Batches, NEW m, Takes(c, m) \/ Edits(c, m)
      PROVE  store[b].status = "completed" /\ store'[b].plan = store[b].plan
  BY <1>0, <1>3 DEF Takes, Edits, Lands
<1>4. ASSUME NEW m, Finishes(m)
      PROVE  b = active \/ (store[b].status = "completed" /\ store'[b].plan = store[b].plan)
  BY <1>0, <1>4 DEF Finishes, Lands
<1> QED BY <1>1, <1>2, <1>3, <1>4, ManifestMoves DEF Save, Take, Edit, Finish

LEMMA CompletedInvStep ==
  ASSUME TypeInv, LeaseInv, RunInv, DecisionInv, PlanInv, FinishInv, CompletedInv,
         [Next]_vars, "update" \notin Commands
  PROVE  CompletedInv'
<1>0. /\ store \in [Batches -> Manifest]
      /\ NoBatch \notin Batches
      /\ pc \notin {"down", "idle"} => active # NoBatch
  BY ScopeAssumption DEF TypeInv, ManifestsTyped, WorkerTyped
<1> SUFFICES ASSUME NEW b \in Batches, store'[b].status = "completed"
             PROVE  AllOver(b)' /\ Incomplete(store'[b].plan, HistoryOf(b)') = {}
  BY DEF CompletedInv
<1>1. ASSUME store[b].status = "completed", store'[b].plan = store[b].plan
      PROVE  AllOver(b)' /\ Incomplete(store'[b].plan, HistoryOf(b)') = {}
  <2>1. AllOver(b) /\ Incomplete(store[b].plan, HistoryOf(b)) = {}
    BY <1>1 DEF CompletedInv
  <2>2. CASE UNCHANGED vars
    <3>1. AllOver(b)' /\ HistoryOf(b)' = HistoryOf(b)
      BY <2>1, <2>2 DEF vars, durable, AllOver, HistoryOf, RunsOfBatch
    <3> QED BY <1>1, <2>1, <3>1
  <2>3. ASSUME StartExposure, b = active PROVE FALSE
    <3>1. coordLive /\ active # NoBatch /\ Decided = "start_remainder"
      BY <1>0, <2>3 DEF StartExposure, TypeInv, WorkerTyped, LeaseInv, Decided
    <3>2. Incomplete(coord.plan, HistoryOf(active)) # {}
      BY <2>3, <3>1 DEF StartExposure, DecisionInv, Decided, Conclusive, Fits
    <3>3. coord.plan = store[active].plan
      BY <3>1 DEF PlanInv
    <3> QED BY <2>1, <2>3, <3>2, <3>3
  <2>4. CASE Next
    <3>1. AllOver(b)' /\ HistoryOf(b)' = HistoryOf(b)
      BY <2>1, <2>3, <2>4, HistoryStays
    <3> QED BY <1>1, <2>1, <3>1
  <2> QED BY <2>2, <2>4
<1>2. ASSUME NEW m, Finishes(m), b = active
      PROVE  AllOver(b)' /\ Incomplete(store'[b].plan, HistoryOf(b)') = {}
  <2>a. store' = [store EXCEPT ![b] = m] /\ m.plan = manifest.plan /\ pc = "finish"
    BY <1>2 DEF Finishes, Lands
  <2>b. store'[b] = m
    BY <1>0, <2>a
  <2>1. store'[b].plan = manifest.plan /\ store'[b] = m /\ pc = "finish"
    BY <2>a, <2>b
  <2>c. ~manifest.cancel_pending
    <3> SUFFICES ASSUME manifest.cancel_pending PROVE FALSE
      OBVIOUS
    <3>1. m.status = "cancelled"
      BY <1>2 DEF Finishes
    <3> QED BY <2>1, <3>1
  <2>2. Decided = "complete" /\ coordLive /\ active # NoBatch
    <3>1. manifest.cancel_pending \/ Decided = "complete"
      BY <2>1 DEF FinishInv
    <3>2. Decided = "complete"
      BY <2>c, <3>1
    <3>3. active # NoBatch
      BY <1>0, <2>1
    <3>4. coordLive
      BY <2>1, <3>3 DEF LeaseInv
    <3> QED BY <3>2, <3>3, <3>4
  <2>3. AllOver(b) /\ Incomplete(coord.plan, HistoryOf(b)) = {}
    BY <1>2, <2>1, <2>2 DEF DecisionInv, Decided, Conclusive, Fits
  <2>4. coord.plan = store'[b].plan
    BY <2>1, <2>2 DEF PlanInv
  <2>5. AllOver(b)' /\ HistoryOf(b)' = HistoryOf(b)
    BY <1>2, <2>3 DEF Finishes, AllOver, HistoryOf, RunsOfBatch
  <2> QED BY <2>3, <2>4, <2>5
<1> QED BY <1>1, <1>2, CompletedBefore

FinishedInv == /\ TypeInv /\ LeaseInv /\ RunInv /\ KeptInv /\ DecisionInv
               /\ PlanInv /\ FinishInv /\ CompletedInv

LEMMA FinishedInvHolds ==
  ASSUME "update" \notin Commands
  PROVE  Spec => []FinishedInv
<1>1. Init => LeaseInv /\ PlanInv /\ FinishInv /\ CompletedInv
  <2> SUFFICES ASSUME Init PROVE LeaseInv /\ PlanInv /\ FinishInv /\ CompletedInv
    OBVIOUS
  <2>1. \A b \in Batches : store[b].status = "absent" /\ known[b].status = "absent"
    BY DEF Init, NoManifest
  <2>2. CompletedInv
    BY <2>1 DEF CompletedInv
  <2>3. active = NoBatch /\ pc = "down" /\ ~coordLive
    BY DEF Init
  <2>4. PlanInv
    BY <2>1, <2>3 DEF PlanInv
  <2> QED BY <2>2, <2>3, <2>4 DEF Init, LeaseInv, FinishInv
<1>2. (TypeInv /\ LeaseInv /\ RunInv /\ KeptInv /\ DecisionInv
         /\ PlanInv /\ FinishInv /\ CompletedInv /\ [Next]_vars)
        => (LeaseInv' /\ PlanInv' /\ FinishInv' /\ CompletedInv')
  <2> SUFFICES ASSUME TypeInv, LeaseInv, RunInv, KeptInv, DecisionInv, PlanInv, FinishInv,
                      CompletedInv, [Next]_vars
               PROVE  LeaseInv' /\ PlanInv' /\ FinishInv' /\ CompletedInv'
    OBVIOUS
  <2>1. LeaseInv'
    BY LeaseInvStep
  <2>2. PlanInv'
    BY PlanInvStep
  <2>3. FinishInv'
    BY FinishInvStep
  <2>4. CompletedInv'
    BY CompletedInvStep
  <2> QED BY <2>1, <2>2, <2>3, <2>4
<1> QED BY <1>1, <1>2, RemainderInvHolds, PTL DEF Spec, FinishedInv, RemainderInv

(* The theorem: a batch that is recorded as completed was exposed up to     *)
(* every target of the plan it is recorded with, whatever else failed       *)
(* (saves that raise before or after they have written, too), as long as    *)
(* no plan is updated on the way.                                           *)
THEOREM CompletionsAreEarned ==
  ASSUME "update" \notin Commands
  PROVE  Spec => []CompletionIsEarned
<1>1. FinishedInv => CompletionIsEarned
  BY DEF FinishedInv, CompletedInv, CompletionIsEarned, Incomplete
<1> QED BY <1>1, FinishedInvHolds, PTL

-----------------------------------------------------------------------------
(* No run of a finished batch is under way, as long as the lease calls and  *)
(* the saves do not fail: a batch that is active in memory is then active   *)
(* on disk until it is finished.                                            *)

IdleInv ==
  /\ active # NoBatch /\ pc # "release" => store[active].status = "active"
  /\ \A b \in Batches : store[b].status = "cancelled" => current \notin RunsOfBatch(b)

LEMMA IdleInvStep ==
  ASSUME FinishedInv, IdleInv, [Next]_vars, "update" \notin Commands,
         "lease" \notin Faults, "save" \notin Faults
  PROVE  IdleInv'
<1>0. /\ TypeInv /\ LeaseInv /\ RunInv /\ PlanInv /\ FinishInv
      /\ store \in [Batches -> Manifest] /\ NoBatch \notin Batches
      /\ active # NoBatch => active \in Batches
      /\ pc \notin {"down", "idle"} => active # NoBatch
  BY ScopeAssumption DEF FinishedInv, TypeInv, ManifestsTyped, WorkerTyped
<1>r. active' # NoBatch /\ pc' # "release" /\ active' = active => pc # "release"
  <2> SUFFICES ASSUME pc = "release", active' = active, active # NoBatch, pc' # "release"
               PROVE  FALSE
    OBVIOUS
  <2>1. Next
    BY DEF vars, worker
  <2>2. ~Environment
    BY EnvironmentApart DEF worker
  <2>3. ~(Boot \/ Crash \/ Shutdown \/ Command \/ Timer)
    BY DEF Boot, Crash, Shutdown, Down, Command, Create, Update, Activate, NotActivated, Withdraw,
       Unwithdraw, OnlyManifests, Pause, Resume, Continue, Cancel, Refresh, SetMode, Commandable, Free, Timer
  <2>4. ReleaseAutomation
    BY <2>1, <2>2, <2>3 DEF Next, Poll, EnsureActiveRuntime, LoadAttempts, ReadController,
       SourceFailure, RepairMetrics, Publish, Dispatch, CheckCancel, FinishActive,
       StartExposure, StartRefused
  <2> QED BY <2>4 DEF ReleaseAutomation
<1>1. active' # NoBatch /\ pc' # "release" => store'[active'].status = "active"
  <2>1. CASE Rest
    BY <1>0, <1>r, <2>1 DEF Rest, IdleInv
  <2>2. ASSUME NEW m, Saves(m), active' # NoBatch, pc' # "release"
        PROVE  store'[active'].status = "active"
    BY <1>0, <1>r, <2>2 DEF Saves, Lands, PlanInv, IdleInv
  <2>3. ASSUME NEW b \in Batches, NEW m, Takes(b, m) PROVE store'[active'].status = "active"
    BY <1>0, <2>3 DEF Takes
  <2>4. ASSUME NEW b \in Batches, NEW m, Edits(b, m), active' # NoBatch, pc' # "release"
        PROVE  store'[active'].status = "active"
    BY <1>0, <1>r, <2>4 DEF Edits, Lands, IdleInv
  <2>5. ASSUME NEW m, Finishes(m) PROVE pc' = "release"
    BY <2>5 DEF Finishes
  <2> QED BY <1>0, <2>1, <2>2, <2>3, <2>4, <2>5, ManifestMoves DEF Save, Take, Edit, Finish
<1>2. ASSUME NEW b \in Batches, store'[b].status = "cancelled"
      PROVE  current' \notin RunsOfBatch(b)'
  <2>1. \/ store[b].status = "cancelled"
        \/ b = active /\ pc = "finish" /\ UNCHANGED <<attempts, current>>
    <3>1. CASE Rest
      BY <1>2, <3>1 DEF Rest
    <3>2. ASSUME NEW m, Saves(m) PROVE store[b].status = "cancelled"
      BY <1>0, <1>2, <3>2 DEF Saves, Lands, PlanInv
    <3>3. ASSUME NEW c \in Batches, NEW m, Takes(c, m) \/ Edits(c, m)
          PROVE  store[b].status = "cancelled"
      BY <1>0, <1>2, <3>3 DEF Takes, Edits, Lands
    <3>4. ASSUME NEW m, Finishes(m)
          PROVE  \/ store[b].status = "cancelled"
                 \/ b = active /\ pc = "finish" /\ UNCHANGED <<attempts, current>>
      BY <1>0, <1>2, <3>4 DEF Finishes, Lands
    <3> QED BY <1>0, <3>1, <3>2, <3>3, <3>4, ManifestMoves DEF Save, Take, Edit, Finish
  <2>2. CASE b = active /\ pc = "finish" /\ UNCHANGED <<attempts, current>>
    BY <1>0, <2>2 DEF FinishInv, RunsOfBatch
  <2>3. CASE store[b].status = "cancelled"
    <3>1. current \notin RunsOfBatch(b)
      BY <2>3 DEF IdleInv
    <3>2. CASE UNCHANGED vars
      BY <3>1, <3>2 DEF vars, durable, RunsOfBatch
    <3>3. CASE Next /\ StartExposure
      <4>1. active # b /\ pc = "start"
        BY <1>0, <2>3, <3>3 DEF StartExposure, IdleInv
      <4>2. RunsOfBatch(b)' = RunsOfBatch(b)
        BY <1>0, <3>3, <4>1, HistoryStays
      <4>3. current' = Len(attempts) + 1 /\ Len(attempts) + 1 \notin DOMAIN attempts
        BY <1>0, <3>3, RunInLibrary DEF StartExposure, TypeInv
      <4> QED BY <4>2, <4>3 DEF RunsOfBatch
    <3>4. CASE Next /\ ~StartExposure
      <4>1. RunsOfBatch(b)' = RunsOfBatch(b)
        BY <1>0, <3>4, HistoryStays
      <4>2. current' \in {current, NoRun, ForeignRun}
        <5>1. CASE ~WritesRuns
          BY <3>4, <5>1, CurrentMoves
        <5>2. CASE WritesRuns
          BY <3>4, <5>2 DEF WritesRuns, RepairMetrics, PollOnly, RunEnds, MetricsRecorded
        <5> QED BY <5>1, <5>2
      <4>3. NoRun \notin RunsOfBatch(b) /\ ForeignRun \notin RunsOfBatch(b)
        BY <1>0, RunInLibrary DEF TypeInv, ForeignRun, RunsOfBatch
      <4> QED BY <3>1, <4>1, <4>2, <4>3
    <3> QED BY <3>2, <3>3, <3>4
  <2> QED BY <2>1, <2>2, <2>3
<1> QED BY <1>1, <1>2 DEF IdleInv

(* The theorem: what is recorded as finished is finished, as long as no     *)
(* plan is updated and neither the lease calls nor the saves fail: every    *)
(* target of a completed batch is met, and no run of a completed or         *)
(* cancelled one is under way, through crashes, orphaned runs, late         *)
(* metrics, failing reads and starts, and commands in any order.            *)
THEOREM FinishedBatchesAreOver ==
  ASSUME "update" \notin Commands, "lease" \notin Faults, "save" \notin Faults
  PROVE  Spec => []FinishedBatchIsOver
<1>1. Init => IdleInv
  <2> SUFFICES ASSUME Init PROVE IdleInv
    OBVIOUS
  <2>1. \A b \in Batches : store[b].status = "absent"
    BY DEF Init, NoManifest
  <2> QED BY <2>1 DEF Init, IdleInv
<1>2. FinishedInv /\ IdleInv /\ [Next]_vars => IdleInv'
  BY IdleInvStep
<1>3. FinishedInv /\ IdleInv => FinishedBatchIsIdle
  <2> SUFFICES ASSUME FinishedInv, IdleInv, NEW b \in Batches,
                      store[b].status \in {"completed", "cancelled"}
               PROVE  current \notin RunsOfBatch(b)
    BY DEF FinishedBatchIsIdle
  <2>1. CASE store[b].status = "completed"
    BY <2>1, OverIsIdle DEF FinishedInv, CompletedInv
  <2>2. CASE store[b].status = "cancelled"
    BY <2>2 DEF IdleInv
  <2> QED BY <2>1, <2>2
<1> QED BY <1>1, <1>2, <1>3, FinishedInvHolds, CompletionsAreEarned, PTL
        DEF Spec, FinishedBatchIsOver

=============================================================================
