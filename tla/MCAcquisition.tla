---------------------------- MODULE MCAcquisition ----------------------------
(* The EUV acquisition controller and the repair of the registries its       *)
(* records are in, for TLC.  They share no state, so a behaviour exercises   *)
(* one of them, chosen at the start, and leaves the other as it is: their    *)
(* states add up instead of multiplying.                                     *)
EXTENDS EuvAcquisition

VARIABLES part, apply, disk, registry, jobs, outcomes, worker, main, report,
          written, failures

Repair == INSTANCE RegistryRepair WITH
  Workers <- {"w1", "w2"}, Entries <- 3, REPAIR_PREFETCH_FACTOR <- 1,
  MaxWrites <- 1, MaxFailures <- 1

-----------------------------------------------------------------------------
repairVars == <<apply, disk, registry, jobs, outcomes, worker, main, report,
  written, failures>>
acquisitionVars == <<part, vars, repairVars>>

\* The repair starts in one of its states while it is not the part exercised.
AcquisitionInit ==
  /\ part \in {"euv", "repair"}
  /\ Init /\ Repair!Init
  /\ part # "repair" => apply /\ disk[1] = {} /\ registry[1].state = "empty"

AcquisitionNext ==
  /\ UNCHANGED part
  /\ \/ part = "euv" /\ Next /\ UNCHANGED repairVars
     \/ part = "repair" /\ Repair!Next /\ UNCHANGED vars

\* The fairness of each module, for the part exercised.
AcquisitionSpec ==
  /\ AcquisitionInit /\ [][AcquisitionNext]_acquisitionVars
  /\ WF_vars(part = "euv" /\ Worker)
  /\ WF_vars(part = "euv" /\ DrainElapses)
  /\ WF_vars(part = "euv" /\ OneShotTimesOut)
  /\ WF_vars(part = "euv" /\ StopEventArrives)
  /\ WF_repairVars(part = "repair" /\ Repair!Main)
  /\ \A w \in {"w1", "w2"} :
       WF_repairVars(part = "repair" /\ Repair!WorkerGoesOn(w))

-----------------------------------------------------------------------------
\* A repair loses no declaration that a live writer made, and ends with every
\* worker gone (registry_repair.py; see RegistryRepair).
RepairIsSafe ==
  /\ Repair!DeclarationsSurvive
  /\ part = "repair" => Repair!RepairEnds
=============================================================================
