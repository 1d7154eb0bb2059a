---------------------------- MODULE BatchPlanner ----------------------------
(***************************************************************************)
(* Everything `assess_batch` can be called with, as a state that evolves   *)
(* the way a batch does: runs are recorded, end, become final, get their   *)
(* metrics repaired; the exposure controller changes; the operator pauses  *)
(* and acknowledges.  The properties are about the decision the planner    *)
(* would take in each of these states.                                     *)
(***************************************************************************)
EXTENDS BatchAssessment

CONSTANTS
  Plans,       \* the plans a batch may have
  Outcomes,    \* records [dose, runtime, snapshots] a run may end with
  MaxAttempts  \* bound on the runs of the explored histories

ASSUME PlansAssumption == \A p \in Plans : IsPlan(p)

ASSUME BoundAssumption == MaxAttempts \in Nat

ASSUME OutcomesAssumption ==
  Outcomes \subseteq [dose : Metric, runtime : Metric, snapshots : BOOLEAN]

VARIABLES
  plan,          \* the batch plan
  history,       \* the attempts, indexed by run: a sequence
  finalizing,    \* runs that ended less than finalization_delay ago
  controller,    \* ControllerSnapshot
  acknowledged,  \* acknowledged_runs
  blocked,       \* blocked_repair_runs
  paused         \* manually_paused

vars == <<plan, history, finalizing, controller, acknowledged, blocked, paused>>

TypeOK ==
  /\ plan \in Plans
  /\ history \in Seq(Attempt) /\ Len(history) <= MaxAttempts
  /\ finalizing \subseteq DOMAIN history
  /\ controller \in [available : BOOLEAN, idle : BOOLEAN, run : Nat \cup {NoRun}]
  /\ acknowledged \subseteq DOMAIN history
  /\ blocked \subseteq DOMAIN history
  /\ \A r \in DOMAIN history : history[r].end_time <= MaxAttempts
  /\ paused \in BOOLEAN

Init ==
  /\ plan \in Plans
  /\ history = << >>
  /\ finalizing = {} /\ acknowledged = {} /\ blocked = {}
  /\ controller = Stopped
  /\ paused \in BOOLEAN

-----------------------------------------------------------------------------
(* What the planner decides in the present state, and what it would decide  *)
(* had the operator acknowledged other runs or paused.                      *)

DecidedWith(acks, pause) ==
  Assess(plan, history, controller, finalizing, acks, blocked, pause)

Decided == DecidedWith(acknowledged, paused)

-----------------------------------------------------------------------------

\* A run of the batch is recorded and is the controller's current run.  Its
\* tags may be malformed and its sample may not be planned.
RunRecorded(s, valid) ==
  /\ Len(history) < MaxAttempts
  /\ history' = Append(history,
       [sample |-> s, status |-> "active", end_time |-> 0, dose |-> Missing,
        runtime |-> Missing, snapshots |-> FALSE, valid |-> valid])
  /\ controller' = Snapshot(TRUE, FALSE, Len(history) + 1)
  /\ UNCHANGED <<plan, finalizing, acknowledged, blocked, paused>>

\* Its end metadata and the metric tags appear in the record.
RunEnded(r, status, outcome) ==
  /\ r \in Active(history)
  /\ history' = [history EXCEPT ![r] =
       [@ EXCEPT !.status = status, !.end_time = Len(history),
                 !.dose = outcome.dose, !.runtime = outcome.runtime,
                 !.snapshots = outcome.snapshots]]
  /\ finalizing' = finalizing \cup {r}
  /\ UNCHANGED <<plan, controller, acknowledged, blocked, paused>>

\* finalization_delay has passed since the end of the run.
DelayPassed(r) ==
  /\ r \in finalizing
  /\ finalizing' = finalizing \ {r}
  /\ UNCHANGED <<plan, history, controller, acknowledged, blocked, paused>>

\* The run the planner names is reanalysed and its stored metrics replaced.
MetricsRepaired(r, outcome) ==
  /\ Decided.kind = "repair_metrics" /\ r = Decided.run
  /\ history' = [history EXCEPT ![r] =
       [@ EXCEPT !.dose = outcome.dose, !.runtime = outcome.runtime]]
  /\ UNCHANGED <<plan, finalizing, controller, acknowledged, blocked, paused>>

\* The repairs of that run have used up their attempts.
RepairBlocked ==
  /\ Decided.kind = "repair_metrics"
  /\ blocked' = blocked \cup {Decided.run}
  /\ UNCHANGED <<plan, history, finalizing, controller, acknowledged, paused>>

ControllerChanges ==
  /\ controller' \in {Stopped, Unavailable}
                       \cup {Snapshot(TRUE, FALSE, r) : r \in 1..MaxAttempts + 1}
  /\ UNCHANGED <<plan, history, finalizing, acknowledged, blocked, paused>>

\* The operator pauses or resumes, or resumes over the failure on display.
OperatorActs ==
  /\ \/ paused' = ~paused /\ UNCHANGED acknowledged
     \/ /\ Decided.kind = "pause_failure"
        /\ acknowledged' = acknowledged \cup {Decided.run}
        /\ paused' = FALSE
  /\ UNCHANGED <<plan, history, finalizing, controller, blocked>>

Next ==
  \/ \E s \in Samples, valid \in BOOLEAN : RunRecorded(s, valid)
  \/ \E r \in DOMAIN history, status \in RunStatus \ {"active"}, outcome \in Outcomes :
       RunEnded(r, status, outcome)
  \/ \E r \in DOMAIN history : DelayPassed(r)
  \/ \E r \in DOMAIN history, outcome \in Outcomes : MetricsRepaired(r, outcome)
  \/ RepairBlocked
  \/ ControllerChanges
  \/ OperatorActs

Spec == Init /\ [][Next]_vars

-----------------------------------------------------------------------------
(* The properties. *)

\* Every recorded attempt is well-formed, planned, over, final, of a known
\* status, and carries metrics the tally can use.
HistoryIsClean ==
  \A r \in DOMAIN history :
    /\ history[r].valid /\ history[r].sample \in PlannedSamples(plan)
    /\ history[r].status \in {"STOPPED", "ABORTED"}
    /\ r \notin finalizing
    /\ ~NeedsRepair(history[r]) /\ ~Unusable(history[r])

\* An aborted run blocks the whole batch while it is the latest of its sample.
AbortsAreAcknowledged ==
  \A r \in DOMAIN history :
    history[r].status = "ABORTED" /\ (\A q \in DOMAIN history :
                                        history[q].sample = history[r].sample => q <= r)
      => r \in acknowledged

(* A new exposure is proposed only from a clean history, with the batch not *)
(* paused and the controller idle, for the first sample in plan order that  *)
(* is under its target, after the operator acknowledged the latest run of   *)
(* that sample (assess_batch and the order of its checks).                  *)
StartIsJustified ==
  Decided.kind = "start_remainder" =>
    /\ ~paused /\ controller = Stopped
    /\ HistoryIsClean /\ AbortsAreAcknowledged
    /\ \E i \in DOMAIN plan :
         /\ plan[i].sample = Decided.sample
         /\ UnderTarget(plan[i], history)
         /\ \A j \in 1..i-1 : ~UnderTarget(plan[j], history)
         /\ \A r \in RunsOf(plan[i].sample, history) :
              \E q \in RunsOf(plan[i].sample, history) \cap acknowledged : q >= r

(* The batch is declared complete only when nothing is pending or in error, *)
(* no abort waits for the operator and no sample is under its target        *)
(* (assess_batch, the COMPLETE branch).                                     *)
CompleteIsJustified ==
  Decided.kind = "complete" =>
    /\ HistoryIsClean /\ AbortsAreAcknowledged /\ ~paused
    /\ \A i \in DOMAIN plan : ~UnderTarget(plan[i], history)

(* No acknowledgement and no pause or resume changes a decision that comes  *)
(* from the data: an active or unfinished run, a repair or an error         *)
(* (assess_batch, the checks before the tally).                             *)
OperatorCannotOverrideData ==
  Decided.kind \in {"wait_active", "wait_finalization", "repair_metrics", "pause_error"} =>
    \A acks \in SUBSET DOMAIN history, pause \in BOOLEAN :
      DecidedWith(acks, pause) = Decided

(* Pausing replaces only the decisions that would start, wait to start or   *)
(* complete: it hides no failure and no error                               *)
(* (assess_batch, the place of `manually_paused` in the order).             *)
PauseBlocksOnlyStartIntents ==
  LET running == DecidedWith(acknowledged, FALSE)
  IN DecidedWith(acknowledged, TRUE) # running =>
       /\ DecidedWith(acknowledged, TRUE) = Plain("paused")
       /\ running.kind \in {"start_remainder", "complete", "wait_controller"}

(* Acknowledging the run a failure is about removes that blocker for good:  *)
(* the planner never asks for the same acknowledgement twice, whatever else *)
(* is acknowledged (assess_batch, PAUSE_FAILURE, and resume).               *)
FailureNeedsOneAcknowledgement ==
  \A acks \in SUBSET DOMAIN history :
    DecidedWith(acks, paused).kind = "pause_failure" =>
      DecidedWith(acks, paused).run \notin acks

=============================================================================
