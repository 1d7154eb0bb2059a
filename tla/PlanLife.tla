------------------------------- MODULE PlanLife -------------------------------
(***************************************************************************)
(* The life of a plan: it is edited, stored, judged by the planner against *)
(* what was exposed, and handed to the exposure controller.  Here these    *)
(* parts share no state, so a behaviour exercises one of them, chosen at   *)
(* the start, and leaves the others as they are: their states add up       *)
(* instead of multiplying.  BatchController composes the planner and the   *)
(* manifests with the runs.                                                *)
(***************************************************************************)
EXTENDS BatchPlanner, ManifestStore

CONSTANTS
  Editors,      \* the windows in which the batch is edited
  Places,       \* the samples they may select
  Doses,        \* the doses they may give them
  MaxDeeds,     \* bound on what the operators of the windows do
  MaxUnread,    \* bound on the messages a window has not taken
  Items,        \* what there is to expose: sets of [name, time, dose]
  MaxTransfers, \* bound on the settings that are handed over
  MaxLost       \* bound on the writes that time out and the restarts

ASSUME LifeAssumption ==
  /\ MaxDeeds \in Nat /\ MaxUnread \in Nat /\ Doses \subseteq Nat
  /\ Items \subseteq [name : STRING, time : Nat, dose : Nat]
  /\ MaxTransfers \in Nat /\ MaxLost \in Nat

VARIABLE part

VARIABLES editor, commands, late, unread, stored, ghost, deeds

Editor == INSTANCE PlanEditor WITH
  Samples <- Places, queue <- commands, batch <- stored

VARIABLES settings, lease, holding, run, transfer, given, disturbed,
          transfers, lost

Transfer == INSTANCE SettingsTransfer WITH
  MaxTroubles <- MaxLost, late <- given, troubles <- lost

-----------------------------------------------------------------------------
editorVars == <<editor, commands, late, unread, stored, ghost, deeds>>
transferVars == <<settings, lease, holding, run, transfer, given, disturbed,
  transfers, lost>>
allVars == <<part, vars, editorVars, storeVars, transferVars>>

\* The planner starts in one of its states while it is not the part exercised.
PlansInit ==
  /\ part \in {"planner", "editor", "store", "transfer"}
  /\ Init /\ Editor!Init /\ StoreInit /\ Transfer!Init
  /\ part # "planner" => ~paused

PlansNext ==
  /\ UNCHANGED part
  /\ \/ /\ part = "planner" /\ Next
        /\ UNCHANGED <<editorVars, storeVars, transferVars>>
     \/ /\ part = "editor" /\ Editor!Next
        /\ UNCHANGED <<vars, storeVars, transferVars>>
     \/ /\ part = "store" /\ StoreNext
        /\ UNCHANGED <<vars, editorVars, transferVars>>
     \/ /\ part = "transfer" /\ Transfer!Next
        /\ UNCHANGED <<vars, editorVars, storeVars>>

PlansSpec == PlansInit /\ [][PlansNext]_allVars

-----------------------------------------------------------------------------
(* The properties of the parts.                                             *)

\* No revision is lost to an editor that had not loaded it (the editors of
\* gui/batch_controller.py; see PlanEditor).
SavesFollowWhatWasLoaded == Editor!SavesFollowWhatWasLoaded

\* A run has the settings of the item it was started for, or those of several
\* writers when they disturbed each other, and never two targets (the transfer
\* of settings to the exposure controller; see SettingsTransfer).
RunHasItsSettings == Transfer!RunHasItsSettings
=============================================================================
