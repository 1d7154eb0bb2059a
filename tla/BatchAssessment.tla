-------------------------- MODULE BatchAssessment --------------------------
(***************************************************************************)
(* The pure planner of subsystems/batcher.py: from the current plan, the   *)
(* recorded exposure attempts of the batch and the state of the exposure   *)
(* controller, `assess_batch` derives the next batch action.  Nothing is   *)
(* remembered between two calls, so everything here is an operator.        *)
(*                                                                         *)
(* A history is a function from the runs of one batch to their attempts.   *)
(* Runs are natural numbers in the order (created_at, uuid) by which the   *)
(* code sorts them.  The clock appears only as the set `finalizing` of the *)
(* runs whose end_time + finalization_delay is still in the future.        *)
(***************************************************************************)
EXTENDS Integers, FiniteSets, Sequences, Functions

CONSTANTS
  Samples,          \* sample positions on the stage (0 through 11 in the code)
  Missing,          \* a dose or runtime tag that is absent or empty
  NonFinite,        \* a dose or runtime tag that is NaN or infinite
  NoRun,            \* "no run" where the code has None
  NoSample,         \* "no sample" where the code has None
  DoseTolerance,    \* AssessmentConfig.dose_tolerance
  TimeTolerance,    \* AssessmentConfig.time_tolerance
  MinimumDose,      \* AssessmentConfig.minimum_dose
  MinimumRuntime    \* AssessmentConfig.minimum_runtime

ASSUME ValuesAssumption ==
  /\ Missing \notin Int /\ NonFinite \notin Int /\ Missing # NonFinite
  /\ NoRun \notin Nat /\ NoSample \notin Samples

ASSUME ConfigAssumption ==
  /\ DoseTolerance \in Nat /\ TimeTolerance \in Nat
  /\ MinimumDose \in Int /\ MinimumRuntime \in Int

-----------------------------------------------------------------------------
(* Data of the planner. *)

Metric == Int \cup {Missing, NonFinite}

RunStatus == {"active", "STOPPED", "ABORTED", "unknown"}

Mode == {"dose", "time"}

PlanEntry == [sample : Samples, mode : Mode, target : Nat]

\* At most one entry per sample; only dose targets may be zero.
IsPlan(plan) ==
  /\ plan \in Seq(PlanEntry)
  /\ \A i, j \in DOMAIN plan : plan[i].sample = plan[j].sample => i = j
  /\ \A i \in DOMAIN plan : plan[i].mode = "time" => plan[i].target > 0

IsControl(entry) == entry.mode = "dose" /\ entry.target = 0

\* Malformed tags, times or counts of a record are folded into `valid`.
Attempt ==
  [sample : Samples, status : RunStatus, end_time : Nat, dose : Metric,
   runtime : Metric, snapshots : BOOLEAN, valid : BOOLEAN]

\* ControllerSnapshot: can the exposure controller be read, is it idle, what runs.
Snapshot(available, idle, run) ==
  [available |-> available, idle |-> idle, run |-> run]

Stopped == Snapshot(TRUE, TRUE, NoRun)

Unavailable == Snapshot(FALSE, FALSE, NoRun)

DecisionKind ==
  {"wait_controller", "wait_active", "wait_finalization", "repair_metrics",
   "pause_error", "pause_failure", "paused", "start_remainder", "complete"}

Decision(kind, run, sample, amount) ==
  [kind |-> kind, run |-> run, sample |-> sample, amount |-> amount]

\* The three ways `_decision` is called: about nothing, an attempt, a start.
Plain(kind) == Decision(kind, NoRun, NoSample, 0)

About(kind, history, r) == Decision(kind, r, history[r].sample, 0)

-----------------------------------------------------------------------------
(* Progress of a sample against its plan entry. *)

Tolerance(entry) == IF entry.mode = "dose" THEN DoseTolerance ELSE TimeTolerance

Amount(entry, attempt) ==
  IF entry.mode = "dose" THEN attempt.dose ELSE attempt.runtime

\* Absent metrics are skipped; non-finite ones are rejected before this counts.
Actual(entry, history) ==
  LET counted == {r \in DOMAIN history :
                    /\ history[r].sample = entry.sample
                    /\ Amount(entry, history[r]) \in Int}
  IN SumFunctionOnSet([r \in counted |-> Amount(entry, history[r])], counted)

UnderTarget(entry, history) ==
  Actual(entry, history) < entry.target - Tolerance(entry)

Overshot(entry, history) ==
  Actual(entry, history) > entry.target + Tolerance(entry)

\* Fault: the whole target is asked for again.
RemainderOfTarget(entry, history) == entry.target

Remainder(entry, history) ==
  LET left == entry.target - Actual(entry, history)
  IN IF left \in Nat THEN left ELSE 0

-----------------------------------------------------------------------------
(* What can be wrong with a history. *)

First(runs) == CHOOSE r \in runs : \A q \in runs : r <= q

Last(runs) == CHOOSE r \in runs : \A q \in runs : q <= r

LastEnded(runs, history) ==
  CHOOSE r \in runs : \A q \in runs :
    \/ history[q].end_time < history[r].end_time
    \/ history[q].end_time = history[r].end_time /\ q <= r

PlannedSamples(plan) == {plan[i].sample : i \in DOMAIN plan}

Invalid(plan, history) ==
  {r \in DOMAIN history :
     ~history[r].valid \/ history[r].sample \notin PlannedSamples(plan)}

Active(history) == {r \in DOMAIN history : history[r].status = "active"}

Terminal(history) == DOMAIN history \ Active(history)

NeedsRepair(attempt) ==
  \/ attempt.dose = Missing \/ attempt.runtime = Missing
  \/ attempt.snapshots /\ (attempt.dose = 0 \/ attempt.runtime = 0)

Unusable(attempt) ==
  \/ attempt.dose = NonFinite \/ attempt.runtime = NonFinite
  \/ attempt.dose < MinimumDose \/ attempt.runtime < MinimumRuntime

\* The runs of sample s; the latest of them decides whether it is blocked.
RunsOf(s, history) == {r \in DOMAIN history : history[r].sample = s}

IsLatest(r, history) == \A q \in RunsOf(history[r].sample, history) : q <= r

AbortBlockers(history, acknowledged) ==
  {r \in DOMAIN history :
     /\ history[r].status = "ABORTED" /\ IsLatest(r, history)
     /\ r \notin acknowledged}

\* Fault: a sample counts as done once it has a run.
IncompleteUnlessTried(plan, history) ==
  {i \in DOMAIN plan : RunsOf(plan[i].sample, history) = {}}

Incomplete(plan, history) == {i \in DOMAIN plan : UnderTarget(plan[i], history)}

\* The latest run of the sample ended normally short of the target and the
\* operator has not acknowledged that shortfall.
Shortfall(entry, history, acknowledged) ==
  LET runs == RunsOf(entry.sample, history)
  IN /\ runs # {}
     /\ history[Last(runs)].status = "STOPPED"
     /\ Last(runs) \notin acknowledged

-----------------------------------------------------------------------------
(* assess_batch.  Each operator below is one stage of it, and hands over to *)
(* the next stage when nothing in its own stage decides.                    *)

\* No attempt stands in the way: pause, complete, wait or start.
AssessProgress(plan, history, controller, acknowledged, paused) ==
  LET incomplete == Incomplete(plan, history)
      entry == plan[First(incomplete)]
  IN IF AbortBlockers(history, acknowledged) # {}
     THEN About("pause_failure", history,
                LastEnded(AbortBlockers(history, acknowledged), history))
     ELSE IF incomplete # {} /\ Shortfall(entry, history, acknowledged)
     THEN About("pause_failure", history, Last(RunsOf(entry.sample, history)))
     ELSE IF paused THEN Plain("paused")
     ELSE IF incomplete = {} THEN Plain("complete")
     ELSE IF ~controller.available \/ ~controller.idle \/ controller.run # NoRun
     THEN Plain("wait_controller")
     ELSE Decision("start_remainder", NoRun, entry.sample,
                   Remainder(entry, history))

\* Every attempt is terminal: are its data final, known and usable?
AssessTerminal(plan, history, controller, finalizing, acknowledged, blocked, paused) ==
  LET pending  == finalizing \cap DOMAIN history
      unknown  == {r \in DOMAIN history : history[r].status = "unknown"}
      repair   == {r \in DOMAIN history : NeedsRepair(history[r])}
      unusable == {r \in DOMAIN history : Unusable(history[r])}
  IN IF pending # {}
     THEN About("wait_finalization", history, LastEnded(pending, history))
     ELSE IF unknown # {} THEN About("pause_error", history, First(unknown))
     ELSE IF repair # {}
     THEN About(IF First(repair) \in blocked THEN "pause_error" ELSE "repair_metrics",
                history, First(repair))
     ELSE IF unusable # {} THEN About("pause_error", history, First(unusable))
     ELSE AssessProgress(plan, history, controller, acknowledged, paused)

AssessActive(history, controller) ==
  LET r == First(Active(history))
  IN IF Cardinality(Active(history)) > 1
     THEN About("pause_error", history, Last(Active(history)))
     ELSE IF ~controller.available THEN About("wait_controller", history, r)
     ELSE IF ~controller.idle /\ controller.run = r
     THEN About("wait_active", history, r)
     ELSE About("pause_error", history, r)

\* Fault: a pause is looked at before the data.
AssessPausedFirst(plan, history, controller, finalizing, acknowledged, blocked, paused) ==
  IF paused THEN Plain("paused")
  ELSE IF Invalid(plan, history) # {}
  THEN About("pause_error", history, First(Invalid(plan, history)))
  ELSE IF Active(history) # {} THEN AssessActive(history, controller)
  ELSE AssessTerminal(plan, history, controller, finalizing, acknowledged,
                      blocked, paused)

Assess(plan, history, controller, finalizing, acknowledged, blocked, paused) ==
  IF Invalid(plan, history) # {}
  THEN About("pause_error", history, First(Invalid(plan, history)))
  ELSE IF Active(history) # {} THEN AssessActive(history, controller)
  ELSE AssessTerminal(plan, history, controller, finalizing, acknowledged,
                      blocked, paused)

=============================================================================
