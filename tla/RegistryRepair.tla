---------------------------- MODULE RegistryRepair ----------------------------
(***************************************************************************)
(* The repair of exposure registries (registry_repair.py and the script    *)
(* repair_exposure_registries.py): worker threads inspect the records, the *)
(* main thread asks for a bounded number of inspections ahead, writes the  *)
(* repaired registries and reports.                                        *)
(*                                                                         *)
(* A record holds a snapshot file and another file; a registry declares a  *)
(* type for each file.  The replacement of a registry is external: it      *)
(* refuses when the contents are no longer those of the inspection.  A     *)
(* program that writes the data set may be running all the same.           *)
(***************************************************************************)
EXTENDS Naturals, Sequences, FiniteSets

CONSTANTS Workers,                \* threads
          Entries,                \* number of exposure records
          REPAIR_PREFETCH_FACTOR, \* not 0
          MaxWrites,              \* files written while the repair runs
          MaxFailures             \* inspections, starts and writes that raise

MaxPending == Cardinality(Workers) * REPAIR_PREFETCH_FACTOR
Records == 1..Entries

Snapshots == {"snap"}
Files == Snapshots \cup {"other"}
Types == {"undeclared", "proper", "wrong"}

VARIABLES
  apply,     \* the option --apply
  disk,      \* record -> files
  registry,  \* record -> [state, types]
  jobs,      \* queue of records to inspect
  outcomes,  \* queue of <<record, plan>>
  worker,    \* thread -> [pc, job]
  main,      \* [pc, next, pending, refused]
  report,    \* record -> action of its result
  written, failures

repairVars == <<apply, disk, registry, jobs, outcomes, worker, main, report,
                written, failures>>

Stop == 0  \* the sentinel that ends a worker

Undeclared == [f \in Files |-> "undeclared"]
Declaring(fs) == [f \in Files |-> IF f \in fs THEN "proper" ELSE "undeclared"]

-----------------------------------------------------------------------------
(* Inspection of a record (_inspect_entry): the action of its result, the   *)
(* registry to write, and the contents it has to replace.                   *)

NoPlan(action) == [action |-> action, types |-> Undeclared, expected |-> <<>>]

Registered(e) == registry[e].types

\* Snapshot files that are not declared, or not with their type.
ToWrite(e) == {f \in disk[e] \cap Snapshots : Registered(e)[f] # "proper"}

\* Declared snapshots without a file: they stay declared.
OnlyRegistered(e) == {f \in Snapshots \ disk[e] : Registered(e)[f] # "undeclared"}

Inspected(e) ==
  CASE registry[e].state \in {"missing", "empty"} ->
         [action |-> "would_rebuild", types |-> Declaring(disk[e]),
          expected |-> <<registry[e]>>]
    [] registry[e].state = "broken" -> NoPlan("error")
    [] registry[e].state = "valid" /\ ToWrite(e) # {} ->
         [action |-> "would_reconcile",
          types |-> [f \in Files |-> IF f \in ToWrite(e) THEN "proper"
                                     ELSE Registered(e)[f]],
          expected |-> <<registry[e]>>]
    [] registry[e].state = "valid" /\ ToWrite(e) = {} ->
         NoPlan(IF OnlyRegistered(e) # {} THEN "references_missing"
                ELSE "matches_disk")

-----------------------------------------------------------------------------
(* _inspection_worker.                                                      *)

\* A worker opens the library of its own, or says that it cannot.
WorkerStarts(w) ==
  /\ main.pc # "query" /\ worker[w].pc = "starting"
  /\ \/ /\ worker' = [worker EXCEPT ![w].pc = "waiting"]
        /\ UNCHANGED <<failures, main>>
     \/ /\ failures < MaxFailures /\ failures' = failures + 1
        /\ worker' = [worker EXCEPT ![w].pc = "gone"]
        /\ main' = [main EXCEPT !.refused = TRUE]
  /\ UNCHANGED <<apply, disk, registry, jobs, outcomes, report, written>>

WorkerTakes(w) ==
  /\ worker[w].pc = "waiting" /\ jobs # <<>>
  /\ worker' = [worker EXCEPT
       ![w].pc = IF Head(jobs) = Stop THEN "gone" ELSE "inspecting",
       ![w].job = Head(jobs)]
  /\ jobs' = Tail(jobs)
  /\ UNCHANGED <<apply, disk, registry, outcomes, main, report, written,
                 failures>>

FailedInspection(e) == Append(outcomes, <<e, NoPlan("error")>>)

WorkerInspects(w) ==
  /\ worker[w].pc = "inspecting"
  /\ worker' = [worker EXCEPT ![w] = [pc |-> "waiting", job |-> Stop]]
  /\ LET e == worker[w].job IN
     \/ /\ outcomes' = Append(outcomes, <<e, Inspected(e)>>)
        /\ UNCHANGED failures
     \/ /\ failures < MaxFailures /\ failures' = failures + 1
        /\ outcomes' = FailedInspection(e)
  /\ UNCHANGED <<apply, disk, registry, jobs, main, report, written>>

-----------------------------------------------------------------------------
(* repair_exposure_registries.                                              *)

\* Nothing to repair: no thread is started.
Query ==
  /\ main.pc = "query"
  /\ main' = [main EXCEPT !.pc = IF Entries = 0 THEN "done" ELSE "ready"]
  /\ UNCHANGED <<apply, disk, registry, jobs, outcomes, worker, report,
                 written, failures>>

\* Every worker has answered; one that could not start ends the repair.
Ready ==
  /\ main.pc = "ready" /\ \A w \in Workers : worker[w].pc # "starting"
  /\ main' = [main EXCEPT !.pc = IF main.refused THEN "stopping" ELSE "scan"]
  /\ UNCHANGED <<apply, disk, registry, jobs, outcomes, worker, report,
                 written, failures>>

Ask ==
  /\ main.pc = "scan" /\ main.next <= Entries /\ main.pending < MaxPending
  /\ jobs' = Append(jobs, main.next)
  /\ main' = [main EXCEPT !.next = @ + 1, !.pending = @ + 1]
  /\ UNCHANGED <<apply, disk, registry, outcomes, worker, report, written,
                 failures>>

\* replace_registry: compare and replace.
SwapAlways(e, plan) == TRUE
Swap(e, plan) == registry[e] = plan.expected[1]

Applied(action) ==
  IF action = "would_rebuild" THEN "rebuilt" ELSE "reconciled"

\* One outcome is applied and reported.  After a change the audit log may be
\* unreachable, which ends the script before the next record.
Apply ==
  /\ main.pc = "scan" /\ outcomes # <<>>
  /\ main.next > Entries \/ main.pending = MaxPending
  /\ outcomes' = Tail(outcomes)
  /\ LET e == Head(outcomes)[1]
         plan == Head(outcomes)[2]
         done == [main EXCEPT !.pending = @ - 1] IN
     \/ /\ ~apply \/ plan.expected = <<>>
        /\ report' = [report EXCEPT ![e] = plan.action]
        /\ main' = done
        /\ UNCHANGED <<registry, failures>>
     \/ /\ apply /\ plan.expected # <<>> /\ Swap(e, plan)
        /\ registry' = [registry EXCEPT ![e] =
                          [state |-> "valid", types |-> plan.types]]
        /\ report' = [report EXCEPT ![e] = Applied(plan.action)]
        /\ \/ main' = done /\ UNCHANGED failures
           \/ /\ failures < MaxFailures /\ failures' = failures + 1
              /\ main' = [done EXCEPT !.pc = "stopping"]
     \/ /\ apply /\ plan.expected # <<>> /\ ~Swap(e, plan)
        /\ report' = [report EXCEPT ![e] = "error"]
        /\ main' = done
        /\ UNCHANGED <<registry, failures>>
  /\ UNCHANGED <<apply, disk, jobs, worker, written>>

Exhausted ==
  /\ main.pc = "scan" /\ main.next > Entries /\ main.pending = 0
  /\ main' = [main EXCEPT !.pc = "stopping"]
  /\ UNCHANGED <<apply, disk, registry, jobs, outcomes, worker, report,
                 written, failures>>

\* _stop_inspection_workers: the queue is emptied, each worker is told once,
\* and joined.
StopWorkers ==
  /\ main.pc = "stopping"
  /\ jobs' = [k \in 1..Cardinality(Workers) |-> Stop]
  /\ main' = [main EXCEPT !.pc = "joining"]
  /\ UNCHANGED <<apply, disk, registry, outcomes, worker, report, written,
                 failures>>

Joined ==
  /\ main.pc = "joining" /\ \A w \in Workers : worker[w].pc = "gone"
  /\ main' = [main EXCEPT !.pc = "done"]
  /\ UNCHANGED <<apply, disk, registry, jobs, outcomes, worker, report,
                 written, failures>>

-----------------------------------------------------------------------------
\* A running experiment writes a file and declares it.
LiveWrite ==
  /\ main.pc = "scan" /\ written < MaxWrites
  /\ \E e \in Records, f \in Files :
        /\ registry[e].state # "broken" /\ f \notin disk[e]
        /\ disk' = [disk EXCEPT ![e] = @ \cup {f}]
        /\ registry' = [registry EXCEPT ![e] =
             [state |-> "valid", types |-> [@.types EXCEPT ![f] = "proper"]]]
  /\ written' = written + 1
  /\ UNCHANGED <<apply, jobs, outcomes, worker, main, report, failures>>

\* Any first record; the others have lost the declaration of their snapshot.
Registries ==
  [state : {"valid"}, types : [Files -> Types]]
    \cup [state : {"missing", "empty", "broken"}, types : {Undeclared}]

Init ==
  /\ apply \in BOOLEAN
  /\ \E fs \in SUBSET Files : disk = [e \in Records |-> IF e = 1 THEN fs ELSE Snapshots]
  /\ \E r \in Registries :
       registry = [e \in Records |->
         IF e = 1 THEN r ELSE [state |-> "valid", types |-> Undeclared]]
  /\ jobs = <<>> /\ outcomes = <<>>
  /\ worker = [w \in Workers |-> [pc |-> "starting", job |-> Stop]]
  /\ main = [pc |-> "query", next |-> 1, pending |-> 0, refused |-> FALSE]
  /\ report = [e \in Records |-> "none"]
  /\ written = 0 /\ failures = 0

WorkerGoesOn(w) == WorkerStarts(w) \/ WorkerTakes(w) \/ WorkerInspects(w)
Worker == \E w \in Workers : WorkerGoesOn(w)
Main == Query \/ Ready \/ Ask \/ Apply \/ Exhausted \/ StopWorkers \/ Joined
Next == Worker \/ Main \/ LiveWrite

\* The threads of the repair run while they have something to do.
Fairness == /\ WF_repairVars(Main)
            /\ \A w \in Workers : WF_repairVars(WorkerGoesOn(w))

Spec == Init /\ [][Next]_repairVars /\ Fairness

-----------------------------------------------------------------------------
TypeOK == /\ Len(jobs) <= MaxPending
          /\ main.pending = Len(SelectSeq(jobs, LAMBDA e : e # Stop))
               + Len(outcomes) + Cardinality({w \in Workers : worker[w].pc = "inspecting"})

\* A repair never takes a declaration away or changes a proper one, whatever
\* was written to the record between its inspection and its repair.
DeclarationsSurvive ==
  [][\A e \in Records, f \in Files :
       registry[e].types[f] # "undeclared" =>
         registry'[e].types[f] \in {registry[e].types[f], "proper"}]_repairVars

\* The repair ends and leaves no worker behind, whatever fails.
RepairEnds == <>[](main.pc = "done" /\ \A w \in Workers : worker[w].pc = "gone")
=============================================================================
