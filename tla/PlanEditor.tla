------------------------------- MODULE PlanEditor -------------------------------
(***************************************************************************)
(* Several editors of one batch (gui/batch_controller.py) and the part of  *)
(* the batch controller that stores it.  An editor keeps a draft of the    *)
(* plan: it selects samples, in order, gives them targets with a generator *)
(* and overrides with a form that is committed when the selection changes  *)
(* or the plan is used; it sends a draft as the successor of the revision  *)
(* it holds, through a queue of commands that are answered one by one; and *)
(* it takes the answers and the published state of the controller between  *)
(* the operator's clicks.                                                  *)
(*                                                                         *)
(* One batch is created.  An override is one field, the defaults of the    *)
(* batch and the details of an exposure are left out, and a target is a    *)
(* dose in steps.                                                          *)
(***************************************************************************)
EXTENDS Naturals, Sequences, SequencesExt

\* Bounds: clicks that change a draft, commands and waits that run out, all
\* together, the creation apart; messages an editor has not taken yet.
CONSTANTS Editors, Samples, Doses, MaxDeeds, MaxUnread

VARIABLES
  editor,   \* [batch, revision, entries, order, typed, seen]
  queue,    \* commands of an editor, its worker waits for the first one
  late,     \* commands at the controller nobody waits for any more
  unread,   \* messages for an editor
  batch,    \* [plans, active, busy]: the stored plans, one a revision
  ghost,    \* history: of an editor whether it edited since it loaded, the
            \* revision it loaded, whether its number was raised since; of
            \* the stored plans the two of their editors
  deeds

editorVars == <<editor, queue, late, unread, batch, ghost, deeds>>

-----------------------------------------------------------------------------
(* Plans.                                                                   *)

Inherit == 0     \* no override
Control == 0     \* the dose of a control
Overrides == {Inherit, 1}

Entry(sample, dose) == [sample |-> sample, dose |-> dose, override |-> Inherit]

\* What BatchPlan and its entries accept.
WellFormed(entries) ==
  /\ \A k, m \in 1..Len(entries) : entries[k].sample = entries[m].sample => k = m
  /\ \A k \in 1..Len(entries) : entries[k].dose >= 0

Planned(entries) == {entries[k].sample : k \in 1..Len(entries)}
EntryOf(entries, sample) ==
  entries[CHOOSE k \in 1..Len(entries) : entries[k].sample = sample]

\* The generators: the same dose for all, controls, and doses that rise evenly
\* from the least to the largest in the order of the selection.
Assigned(order, dose) == [k \in 1..Len(order) |-> Entry(order[k], dose)]
Controls(order) == [k \in 1..Len(order) |-> Entry(order[k], Control)]
Contrast(order, least, most) ==
  [k \in 1..Len(order) |->
     Entry(order[k], IF Len(order) = 1 THEN least
                     ELSE least + ((most - least) * (k - 1)) \div (Len(order) - 1))]

Selectable(order) == order # <<>> /\ IsInjective(order)

Generated(order) ==
  {Assigned(order, dose) : dose \in Doses} \cup {Controls(order)}
    \cup {Contrast(order, range[1], range[2]) :
            range \in {r \in Doses \X Doses :
                         /\ r[1] > 0 /\ r[1] <= r[2]
                         /\ Len(order) = 1 => r[1] = r[2]}}

\* apply_plan_generator: what was planned for the samples is replaced, and
\* their overrides stay.
Applied(entries, generated) ==
  LET kept == SelectSeq(entries, LAMBDA e :
                \A k \in 1..Len(generated) : generated[k].sample # e.sample)
      Retained(e) == IF e.sample \in Planned(entries)
                     THEN [e EXCEPT !.override = EntryOf(entries, e.sample).override]
                     ELSE e IN
  kept \o [k \in 1..Len(generated) |-> Retained(generated[k])]

-----------------------------------------------------------------------------
(* The form of the overrides.                                               *)

Selection(d) == Range(d.order)
AllPlanned(d) == Selection(d) \subseteq Planned(d.entries)
Blank == [dirty |-> FALSE, value |-> Inherit]

Overridden(entries, samples, value) ==
  [k \in 1..Len(entries) |->
     IF entries[k].sample \in samples
     THEN [entries[k] EXCEPT !.override = value] ELSE entries[k]]

\* _commit_selected_overrides, with the draft it leaves; it may be refused: the
\* operator does not want differing overrides to be flattened, or what was
\* typed is no number.
Commits(d) ==
  IF d.order = <<>> \/ ~d.typed.dirty THEN {[draft |-> d, done |-> TRUE]}
  ELSE IF ~AllPlanned(d) THEN {[draft |-> [d EXCEPT !.typed = Blank], done |-> TRUE]}
  ELSE {[draft |-> [d EXCEPT !.entries = Overridden(@, Selection(d), d.typed.value),
                             !.typed = Blank], done |-> TRUE],
        [draft |-> d, done |-> FALSE]}

Clicks ==
  deeds < MaxDeeds /\ deeds' = deeds + 1
Elsewhere == UNCHANGED <<queue, late, unread, batch>>

\* The draft of e is d, by a click of the operator.
Draw(e, d) ==
  /\ editor' = [editor EXCEPT ![e] = d]
  /\ ghost' = [ghost EXCEPT !.edited[e] = @ \/ d.entries # editor[e].entries]

Type(e) ==
  /\ editor[e].order # <<>> /\ AllPlanned(editor[e])
  /\ Clicks
  /\ \E value \in Overrides :
       Draw(e, [editor[e] EXCEPT !.typed = [dirty |-> TRUE, value |-> value]])
  /\ Elsewhere

ApplyOverrides(e) ==
  /\ \E c \in Commits(editor[e]) : Draw(e, c.draft)
  /\ Elsewhere /\ UNCHANGED deeds

ClearOverrides(e) ==
  /\ AllPlanned(editor[e])
  /\ Clicks
  /\ Draw(e, [editor[e] EXCEPT !.entries = Overridden(@, Selection(editor[e]), Inherit),
                               !.typed = Blank])
  /\ Elsewhere

\* A click on a sample of the stage.
Toggle(e) ==
  /\ Clicks
  /\ \E sample \in Samples :
       LET d == editor[e]
           selected == sample \in Selection(d) IN
       \E c \in (IF selected /\ ~AllPlanned(d) THEN {[draft |-> d, done |-> TRUE]}
                 ELSE Commits(d)) :
         Draw(e, IF ~c.done THEN c.draft
                 ELSE [c.draft EXCEPT !.typed = Blank,
                         !.order = IF selected THEN Remove(@, sample)
                                   ELSE Append(@, sample)])
  /\ Elsewhere

Generate(e) ==
  /\ Clicks
  /\ \E c \in Commits(editor[e]) :
       \/ /\ c.done /\ Selectable(c.draft.order)
          /\ \E generated \in Generated(c.draft.order) :
               Draw(e, [c.draft EXCEPT !.entries = Applied(@, generated)])
       \/ ~(c.done /\ Selectable(c.draft.order)) /\ Draw(e, c.draft)
  /\ Elsewhere

RemoveEntry(e) ==
  /\ Clicks
  /\ \E k \in 1..Len(editor[e].entries) :
       Draw(e, [editor[e] EXCEPT
         !.entries = RemoveAt(@, k),
         !.typed = IF editor[e].order = <<>> THEN @ ELSE Blank])
  /\ Elsewhere

MoveEntry(e) ==
  /\ Clicks
  /\ \E k \in 1..(Len(editor[e].entries) - 1) :
       Draw(e, [editor[e] EXCEPT !.entries =
                  [@ EXCEPT ![k] = editor[e].entries[k + 1],
                            ![k + 1] = editor[e].entries[k]]])
  /\ Elsewhere

NewDraft(e) ==
  /\ Clicks
  /\ editor' = [editor EXCEPT ![e] = [@ EXCEPT
                  !.batch = FALSE, !.revision = 0, !.entries = <<>>,
                  !.order = <<>>, !.typed = Blank]]
  /\ ghost' = [ghost EXCEPT !.edited[e] = FALSE, !.raised[e] = FALSE, !.base[e] = 0]
  /\ Elsewhere

-----------------------------------------------------------------------------
(* Commands of an editor.                                                   *)

Request(e, command) ==
  /\ deeds < MaxDeeds
  /\ deeds' = IF command.name = "create" THEN deeds ELSE deeds + 1
  /\ queue' = [queue EXCEPT ![e] = Append(@, command)]
  /\ UNCHANGED <<late, unread, batch>>

Command(e, name, d) ==
  [name |-> name, expected |-> d.revision, entries |-> d.entries,
   base |-> ghost.base[e], raised |-> ghost.raised[e]]

\* A plan is saved as the form shows it.  The one batch is created once.
SaveNew(e) ==
  /\ batch.plans = <<>> /\ \A f \in Editors : queue[f] = <<>> /\ late[f] = <<>>
  /\ \E c \in Commits(editor[e]) :
       /\ Draw(e, c.draft)
       /\ IF c.done THEN Request(e, Command(e, "create", c.draft))
          ELSE Elsewhere /\ UNCHANGED deeds

MaySave(d) ==
  d.batch /\ d.seen.revision > 0 /\ (~d.seen.active \/ d.seen.editable)

SaveRevision(e) ==
  /\ MaySave(editor[e])
  /\ \E c \in Commits(editor[e]) :
       /\ Draw(e, c.draft)
       /\ IF c.done THEN Request(e, Command(e, "update", c.draft))
          ELSE Elsewhere /\ UNCHANGED deeds

LoadSelected(e) ==
  /\ editor[e].seen.revision > 0
  /\ Request(e, Command(e, "get_manifest", editor[e]))
  /\ UNCHANGED <<editor, ghost>>

Activate(e) ==
  /\ editor[e].seen.revision > 0 /\ ~editor[e].seen.active
  /\ Request(e, Command(e, "activate", editor[e]))
  /\ UNCHANGED <<editor, ghost>>

-----------------------------------------------------------------------------
(* The worker of an editor sends the first command and waits for its answer; *)
(* the wait may run out, and the command is carried out all the same.        *)

GiveUp(e) ==
  /\ queue[e] # <<>> /\ deeds < MaxDeeds
  /\ deeds' = deeds + 1
  /\ late' = [late EXCEPT ![e] = Append(@, Head(queue[e]))]
  /\ queue' = [queue EXCEPT ![e] = Tail(@)]
  /\ UNCHANGED <<editor, unread, batch, ghost>>

\* The commands of an editor arrive in order.
Arrived(e) == IF late[e] # <<>> THEN Head(late[e]) ELSE Head(queue[e])

Answer(e, message) ==
  IF late[e] # <<>>
  THEN late' = [late EXCEPT ![e] = Tail(@)] /\ UNCHANGED <<queue, unread>>
  ELSE /\ queue' = [queue EXCEPT ![e] = Tail(@)]
       /\ unread' = [unread EXCEPT ![e] = Append(@, message)]
       /\ UNCHANGED late

-----------------------------------------------------------------------------
(* The controller carries out one command at a time.                        *)

Manifest(plans) ==
  [kind |-> "manifest", revision |-> Len(plans), entries |-> Last(plans),
   active |-> FALSE, editable |-> FALSE]
Message(kind) ==
  [kind |-> kind, revision |-> 0, entries |-> <<>>, active |-> FALSE, editable |-> FALSE]

\* An active batch is not changed while its exposure runs, and a revision
\* follows the one that is stored.
MayUpdateAnyway(command) ==
  batch.plans # <<>> /\ ~(batch.active /\ batch.busy) /\ WellFormed(command.entries)
MayUpdate(command) ==
  /\ batch.plans # <<>> /\ ~(batch.active /\ batch.busy)
  /\ WellFormed(command.entries)
  /\ command.expected = Len(batch.plans)

MayCreate(command) == batch.plans = <<>> /\ WellFormed(command.entries)
MayBegin == batch.plans # <<>> /\ ~batch.active /\ Last(batch.plans) # <<>>

Stores(command) ==
  \/ command.name = "create" /\ MayCreate(command)
  \/ command.name = "update" /\ MayUpdate(command)

Execute(e) ==
  /\ late[e] # <<>> \/ queue[e] # <<>>
  /\ LET command == Arrived(e) IN
     \/ /\ Stores(command)
        /\ batch' = [batch EXCEPT !.plans = Append(@, command.entries)]
        /\ Answer(e, Manifest(batch'.plans))
        /\ ghost' = [ghost EXCEPT !.lineage =
             Append(@, [base |-> command.base, raised |-> command.raised])]
     \/ /\ command.name = "get_manifest" /\ batch.plans # <<>>
        /\ Answer(e, Manifest(batch.plans))
        /\ UNCHANGED <<batch, ghost>>
     \/ /\ command.name = "activate" /\ MayBegin
        /\ batch' = [batch EXCEPT !.active = TRUE]
        /\ Answer(e, Message("done"))
        /\ UNCHANGED ghost
     \/ /\ ~Stores(command)
        /\ command.name = "activate" => ~MayBegin
        /\ command.name # "get_manifest"
        /\ Answer(e, Message("error"))
        /\ UNCHANGED <<batch, ghost>>
  /\ UNCHANGED <<editor, deeds>>

\* An exposure of the active batch begins or ends.
Expose ==
  /\ batch.active
  /\ batch' = [batch EXCEPT !.busy = ~@]
  /\ UNCHANGED <<editor, queue, late, unread, ghost, deeds>>

\* The state is published after every command and every two seconds.
State ==
  [kind |-> "state", revision |-> Len(batch.plans), entries |-> <<>>,
   active |-> batch.active, editable |-> ~batch.busy]

PublishState ==
  /\ \A e \in Editors : Len(unread[e]) < MaxUnread
  /\ unread' = [e \in Editors |-> Append(unread[e], State)]
  /\ UNCHANGED <<editor, queue, late, batch, ghost, deeds>>

-----------------------------------------------------------------------------
(* The editor takes a message.                                              *)

Loaded(d, message) ==
  [d EXCEPT !.batch = TRUE, !.revision = message.revision,
            !.entries = message.entries, !.order = <<>>, !.typed = Blank]

\* Of an active batch that is loaded the published revision is taken over.
Rendered(d, message) ==
  [d EXCEPT !.seen = [revision |-> message.revision, active |-> message.active,
                      editable |-> message.editable],
            !.revision = IF message.active /\ d.batch THEN message.revision ELSE @]

TakeMessage(e) ==
  /\ unread[e] # <<>>
  /\ unread' = [unread EXCEPT ![e] = Tail(@)]
  /\ LET message == Head(unread[e])
         d == editor[e] IN
     CASE message.kind = "manifest" ->
            /\ editor' = [editor EXCEPT ![e] = Loaded(d, message)]
            /\ ghost' = [ghost EXCEPT !.edited[e] = FALSE, !.raised[e] = FALSE,
                                      !.base[e] = message.revision]
       [] message.kind = "state" ->
            /\ editor' = [editor EXCEPT ![e] = Rendered(d, message)]
            /\ ghost' = [ghost EXCEPT !.raised[e] =
                           @ \/ Rendered(d, message).revision # d.revision]
       [] OTHER -> UNCHANGED <<editor, ghost>>
  /\ UNCHANGED <<queue, late, batch, deeds>>

-----------------------------------------------------------------------------
Init ==
  /\ editor = [e \in Editors |->
       [batch |-> FALSE, revision |-> 0, entries |-> <<>>, order |-> <<>>,
        typed |-> Blank,
        seen |-> [revision |-> 0, active |-> FALSE, editable |-> FALSE]]]
  /\ queue = [e \in Editors |-> <<>>] /\ late = queue /\ unread = queue
  /\ batch = [plans |-> <<>>, active |-> FALSE, busy |-> FALSE]
  /\ ghost = [edited |-> [e \in Editors |-> FALSE],
              raised |-> [e \in Editors |-> FALSE],
              base |-> [e \in Editors |-> 0], lineage |-> <<>>]
  /\ deeds = 0

Next ==
  \/ Expose \/ PublishState
  \/ \E e \in Editors :
       \/ Type(e) \/ ApplyOverrides(e) \/ ClearOverrides(e) \/ Toggle(e)
       \/ Generate(e) \/ RemoveEntry(e) \/ MoveEntry(e) \/ NewDraft(e)
       \/ SaveNew(e) \/ SaveRevision(e) \/ LoadSelected(e) \/ Activate(e)
       \/ Execute(e) \/ GiveUp(e) \/ TakeMessage(e)

Spec == Init /\ [][Next]_editorVars

-----------------------------------------------------------------------------
\* No revision is lost to an editor that had not loaded it: a draft nobody
\* changed since it was loaded is the plan of the revision the editor holds, a
\* stored plan was sent by an editor that held the one before it, and a stored
\* plan has one entry a sample.  Not so where the editor took over the number
\* of a revision of the active batch without its plan (_render_state): it may
\* then replace what somebody else saved, unseen.
SavesFollowWhatWasLoaded ==
  /\ \A e \in Editors :
       editor[e].batch /\ ~ghost.edited[e] /\ ~ghost.raised[e] =>
         editor[e].entries = batch.plans[editor[e].revision]
  /\ \A k \in 1..Len(batch.plans) :
       /\ WellFormed(batch.plans[k])
       /\ ghost.lineage[k].raised \/ ghost.lineage[k].base = k - 1
=============================================================================
