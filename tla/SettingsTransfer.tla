--------------------------- MODULE SettingsTransfer ---------------------------
(***************************************************************************)
(* How the settings of an exposure reach the exposure controller: the      *)
(* batch controller (DdsControllerStateSource.start_exposure of            *)
(* batcher.py), the queue (experiment_sequencer.py) and the operator       *)
(* (gui/exposure_controller.py) write them one key at a time, each key is  *)
(* accepted or refused by itself (ExposureSettings.set_attr of             *)
(* exposure_controller.py), and a run is prepared with whatever is there.  *)
(*                                                                         *)
(* A target is 0 when it is not set, Edge when it is the 0.1 of the code,  *)
(* and greater above it.  All other settings are one key, the name.  The   *)
(* exposure controller is the external ipi_ecs ExperimentController: it    *)
(* handles what one client sends in order, keeps its settings between      *)
(* runs, and starts from the defaults when it is restarted.                *)
(***************************************************************************)
EXTENDS Naturals, Sequences

\* What there is to expose: sets of [name, time, dose], of which a client may
\* put any into the queue; the other writers set one target at most.
CONSTANTS Items, MaxTransfers, MaxTroubles

Edge == 1

Automata == {"batch", "queue"}
Writers == Automata \cup {"operator"}
Defaults == [name |-> "", time |-> 0, dose |-> 0]

VARIABLES
  settings,   \* those of the exposure controller
  lease,      \* the automaton that holds it, or nobody
  holding,    \* the automata that believe they hold it
  run,        \* the settings the current run was prepared with, or none
  transfer,   \* what each writer writes: [item, keys]
  late,       \* a write of each writer that was given up and is on its way
  disturbed,  \* history: the writers during whose transfer somebody else
              \* wrote, or the exposure controller was restarted
  transfers, troubles  \* writes that timed out, and restarts

transferVars == <<settings, lease, holding, run, transfer, late, disturbed, transfers,
                  troubles>>

Nobody == "nobody"
NotRunning == [name |-> "none"]
NoWrite == [key |-> "none"]
NoTransfer == [item |-> Defaults, keys |-> <<>>]

Init ==
  /\ settings = Defaults /\ lease = Nobody /\ holding = {} /\ run = NotRunning
  /\ transfer = [w \in Writers |-> NoTransfer]
  /\ late = [w \in Writers |-> NoWrite] /\ disturbed = {}
  /\ transfers = 0 /\ troubles = 0

-----------------------------------------------------------------------------
(* The exposure controller.                                                 *)

\* One of the targets cannot be set above the edge while the other is set.
Refused(key, value) ==
  \/ key = "dose" /\ value > Edge /\ settings.time >= Edge
  \/ key = "time" /\ value > Edge /\ settings.dose >= Edge

Accept(w, key, value) ==
  /\ settings' = [settings EXCEPT ![key] = value]
  /\ disturbed' = disturbed \cup (Writers \ {w})

-----------------------------------------------------------------------------
(* The writers.                                                             *)

AcquireAutomation(w) ==
  /\ w \in Automata \ holding /\ lease = Nobody
  /\ lease' = w /\ holding' = holding \cup {w}
  /\ UNCHANGED <<settings, run, transfer, late, disturbed, transfers, troubles>>

Idle(w) == transfer[w] = NoTransfer

ReleaseAutomation(w) ==
  /\ w \in holding /\ Idle(w) /\ late[w] = NoWrite
  /\ lease' = (IF lease = w THEN Nobody ELSE lease) /\ holding' = holding \ {w}
  /\ UNCHANGED <<settings, run, transfer, late, disturbed, transfers, troubles>>

\* The automata write in the order of the settings, and end with the call that
\* prepares the run.  The form of the operator writes the target it shows
\* first, and zero for the other; it prepares nothing.
AutomaticOrder == <<"name", "time", "dose", "prepare">>
FormOrder(item) ==
  IF item.time > 0 THEN <<"name", "time", "dose">> ELSE <<"name", "dose", "time">>

BeginTransfer(w, item) ==
  /\ Idle(w) /\ transfers < MaxTransfers /\ transfers' = transfers + 1
  /\ IF w \in Automata THEN w \in holding ELSE lease = Nobody /\ run = NotRunning
  /\ w # "queue" => item.time = 0 \/ item.dose = 0
  /\ transfer' = [transfer EXCEPT ![w] =
       [item |-> item,
        keys |-> IF w \in Automata THEN AutomaticOrder ELSE FormOrder(item)]]
  /\ disturbed' = disturbed \ {w}
  /\ UNCHANGED <<settings, lease, holding, run, late, troubles>>

Writing(w) ==
  ~Idle(w) /\ Head(transfer[w].keys) # "prepare" /\ late[w] = NoWrite
NextKey(w) == Head(transfer[w].keys)
NextValue(w) == transfer[w].item[NextKey(w)]

Ends(w) == transfer' = [transfer EXCEPT ![w] = NoTransfer]
GoesOn(w) ==
  IF Len(transfer[w].keys) = 1 THEN Ends(w)
  ELSE transfer' = [transfer EXCEPT ![w].keys = Tail(@)]

WriteKey(w) ==
  /\ Writing(w) /\ ~Refused(NextKey(w), NextValue(w))
  /\ Accept(w, NextKey(w), NextValue(w)) /\ GoesOn(w)
  /\ UNCHANGED <<lease, holding, run, late, transfers, troubles>>

\* Mutant: a refused key is passed over.
AfterRefusalOnward(w) == GoesOn(w)
\* A refused key ends the start of an automaton, and what was written stays;
\* the client of the operator may go on.
AfterRefusal(w) == Ends(w) \/ (w = "operator" /\ GoesOn(w))

WriteRefused(w) ==
  /\ Writing(w) /\ Refused(NextKey(w), NextValue(w)) /\ AfterRefusal(w)
  /\ UNCHANGED <<settings, lease, holding, run, late, disturbed, transfers, troubles>>

\* The answer does not come in time; the write is handled afterwards.
WriteTimesOut(w) ==
  /\ Writing(w) /\ troubles < MaxTroubles /\ troubles' = troubles + 1
  /\ late' = [late EXCEPT ![w] = [key |-> NextKey(w), value |-> NextValue(w)]]
  /\ Ends(w)
  /\ UNCHANGED <<settings, lease, holding, run, disturbed, transfers>>

LateWrite(w) ==
  /\ late[w] # NoWrite /\ late' = [late EXCEPT ![w] = NoWrite]
  /\ IF Refused(late[w].key, late[w].value) THEN UNCHANGED <<settings, disturbed>>
     ELSE Accept(w, late[w].key, late[w].value)
  /\ UNCHANGED <<lease, holding, run, transfer, transfers, troubles>>

\* A run is prepared, unless there is one; either way the call ends.
Prepare(w) ==
  /\ ~Idle(w) /\ NextKey(w) = "prepare" /\ late[w] = NoWrite
  /\ Ends(w)
  /\ run' = IF run = NotRunning THEN settings ELSE run
  /\ UNCHANGED <<settings, lease, holding, late, disturbed, transfers, troubles>>

EndRun ==
  /\ run # NotRunning /\ run' = NotRunning
  /\ UNCHANGED <<settings, lease, holding, transfer, late, disturbed, transfers,
                 troubles>>

\* The exposure controller is restarted: nothing is left of lease and run, and
\* who held the lease does not know.
Restart ==
  /\ troubles < MaxTroubles /\ troubles' = troubles + 1
  /\ settings' = Defaults /\ lease' = Nobody /\ run' = NotRunning
  /\ disturbed' = Writers
  /\ UNCHANGED <<holding, transfer, late, transfers>>

Writer(w) ==
  \/ AcquireAutomation(w) \/ ReleaseAutomation(w)
  \/ \E item \in Items : BeginTransfer(w, item)
  \/ WriteKey(w) \/ WriteRefused(w) \/ WriteTimesOut(w) \/ LateWrite(w)
  \/ Prepare(w)

Next == (\E w \in Writers : Writer(w)) \/ EndRun \/ Restart

Spec == Init /\ [][Next]_transferVars

-----------------------------------------------------------------------------
(* What a run is started with.                                              *)

OneTarget(values) == ~(values.time > Edge /\ values.dose > Edge)

\* A run that is started has the settings of the item it was started for,
\* whatever was refused, given up or left by an earlier transfer: not one key of
\* another item.  If somebody else wrote in between, or the exposure controller
\* was restarted, it may have; but never both a time and a dose to reach.
RunHasItsSettings ==
  [][\A w \in Writers :
       run = NotRunning /\ run' # NotRunning /\ ~Idle(w) /\ transfer'[w] = NoTransfer =>
         /\ OneTarget(run')
         /\ w \in disturbed \/ run' = transfer[w].item]_transferVars

=============================================================================
