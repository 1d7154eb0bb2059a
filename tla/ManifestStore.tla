---------------------------- MODULE ManifestStore ----------------------------
(***************************************************************************)
(* How the Exposure Batch Controller keeps its batches on disk             *)
(* (BatchManifestRepository of batch_storage.py, and the commands and the  *)
(* start of batch_controller.py that use it): a batch is an entry of a     *)
(* library with a manifest that is rewritten in place, one file for each   *)
(* revision of its plan, and tags by which it is found and which say its   *)
(* status when the manifest cannot be read.                                *)
(*                                                                         *)
(* Every file and every tag is written in a step of its own: it may raise, *)
(* which ends the command, and the process may be killed before it.  A     *)
(* file is empty between its opening and its writing.  One thread does all *)
(* of this, so a command begins when the one before it has ended.          *)
(* BatchController takes the repository as one that saves or fails; here   *)
(* it is looked into.  The tags for mode, revision and time, and the name  *)
(* and description of the entry, are left out: nothing is decided by them. *)
(***************************************************************************)
EXTENDS Naturals, FiniteSets, Sequences

CONSTANTS Batches,        \* the batches of the library
          PlanTexts,      \* what a revision may hold
          LastRevision,   \* plans are revised up to this revision
          MaxTroubles     \* failed writes and kills

\* Batches are not mistaken for the absence of one; the library is finite.
ASSUME StoreAssumption ==
  /\ IsFiniteSet(Batches) /\ "nobody" \notin Batches
  /\ LastRevision \in Nat \ {0} /\ MaxTroubles \in Nat

Statuses == {"draft", "active", "completed", "cancelled", "withdrawn"}
Revisions == 1..LastRevision

None == [status |-> "none"]     \* no file, no manifest, no tag
Torn == [status |-> "torn"]     \* a file that cannot be decoded
Readable(file) == file \notin {None, Torn}

VARIABLES
  manifests,   \* the manifest file of each batch
  revisions,   \* the plan in each revision file of each batch
  tags,        \* [listed, named, status] of each batch
  job,         \* the command being carried out: [batch, value, steps, then]
  known,       \* _manifests, what the controller holds of each batch
  active,      \* _active, or nothing
  unreadable,  \* _manifest_load_errors: the batches, with the tagged status
  running,     \* the worker has started and not ended
  owned,       \* history: the batches that were made active, or restored as
               \* such, and not seen as finished since
  troubles

storeVars == <<manifests, revisions, tags, job, known, active, unreadable,
               running, owned, troubles>>

Nobody == "nobody"
NoJob == [batch |-> Nobody]
Manifest(status, revision, plan) ==
  [status |-> status, revision |-> revision, plan |-> plan]

StoreInit ==
  /\ manifests = [b \in Batches |-> None]
  /\ revisions = [b \in Batches |-> [r \in Revisions |-> None]]
  /\ tags = [b \in Batches |-> [listed |-> FALSE, named |-> FALSE, status |-> "none"]]
  /\ job = NoJob /\ known = [b \in Batches |-> None] /\ active = Nobody
  /\ unreadable = {} /\ running = TRUE
  /\ owned = {} /\ troubles = 0

Free == running /\ job = NoJob
Archived == {"completed", "cancelled", "withdrawn"}

\* The entry is found by its tags (_find_entry).
Found(b) == tags[b].listed /\ tags[b].named

-----------------------------------------------------------------------------
(* The repository: what is refused, and the steps of what is not.           *)

Begin(b, value, steps, then) ==
  /\ job' = [batch |-> b, value |-> value, steps |-> steps, then |-> then]
  /\ UNCHANGED <<manifests, revisions, tags, known, active, unreadable,
                 running, owned, troubles>>

MayCreate(b) == ~Found(b)
CreateSteps ==
  <<"list", "name", "status", "open manifest", "manifest",
    "open revision", "revision">>

\* Mutant: a file that is there is written again.
MaySaveRevisionAgain(b, value, expected) ==
  /\ Found(b) /\ Readable(manifests[b]) /\ manifests[b].revision = expected
  /\ value.revision = expected + 1
\* A revision follows the one on disk, and its file is not there yet.
MaySaveRevision(b, value, expected) ==
  /\ Found(b) /\ Readable(manifests[b]) /\ manifests[b].revision = expected
  /\ value.revision = expected + 1
  /\ revisions[b][value.revision] = None
RevisionSteps ==
  <<"open revision", "revision", "open manifest", "manifest", "status">>

MaySaveControlState(b, value) ==
  /\ Found(b) /\ Readable(manifests[b])
  /\ manifests[b].revision = value.revision
\* Mutant: the tags are written first.
ControlStepsTagsFirst == <<"status", "open manifest", "manifest">>
ControlSteps == <<"open manifest", "manifest", "status">>

SaveControlState(b, value, then) ==
  MaySaveControlState(b, value) /\ Begin(b, value, ControlSteps, then)

-----------------------------------------------------------------------------
(* The commands of the controller that save.  One that is refused changes   *)
(* nothing.                                                                 *)

\* The uuid is new, so this is a batch never created before; of an attempt
\* that failed nothing is used again.
Create(b, plan) ==
  /\ Free /\ known[b] = None /\ tags[b].listed = FALSE /\ MayCreate(b)
  /\ Begin(b, Manifest("draft", 1, plan), CreateSteps, "keep")

\* An active batch is revised only between exposures.
Update(b, plan) ==
  /\ Free /\ known[b] # None /\ known[b].status \notin Archived
  /\ known[b].revision < LastRevision
  /\ LET value == Manifest(known[b].status, known[b].revision + 1, plan) IN
     /\ MaySaveRevision(b, value, known[b].revision)
     /\ Begin(b, value, RevisionSteps, "keep")

MayActivate(b) ==
  /\ known[b] # None /\ active = Nobody
  /\ \A error \in unreadable : error.status # "active"
Activate(b) ==
  /\ Free /\ MayActivate(b) /\ known[b].status \in {"draft", "cancelled"}
  /\ SaveControlState(b, [known[b] EXCEPT !.status = "active"], "activate")

\* pause, resume, cancel and newly acknowledged runs: the status stays.
Control ==
  /\ Free /\ active # Nobody
  /\ SaveControlState(active, known[active], "keep")

Finish(status) ==
  /\ Free /\ active # Nobody
  /\ SaveControlState(active, [known[active] EXCEPT !.status = status], "finish")

Withdraw(b) ==
  /\ Free /\ known[b] # None /\ known[b].status = "draft"
  /\ SaveControlState(b, [known[b] EXCEPT !.status = "withdrawn"], "keep")

Unwithdraw(b) ==
  /\ Free /\ known[b] # None /\ known[b].status = "withdrawn"
  /\ SaveControlState(b, [known[b] EXCEPT !.status = "draft"], "keep")

Command ==
  \/ \E b \in Batches, plan \in PlanTexts : Create(b, plan) \/ Update(b, plan)
  \/ \E b \in Batches : Activate(b) \/ Withdraw(b) \/ Unwithdraw(b)
  \/ Control \/ Finish("completed") \/ Finish("cancelled")

-----------------------------------------------------------------------------
(* One write.                                                               *)

Written(step, b, value) ==
  /\ manifests' = CASE step = "open manifest" -> [manifests EXCEPT ![b] = Torn]
                    [] step = "manifest" -> [manifests EXCEPT ![b] = value]
                    [] OTHER -> manifests
  /\ revisions' =
       CASE step = "open revision" -> [revisions EXCEPT ![b][value.revision] = Torn]
         [] step = "revision" -> [revisions EXCEPT ![b][value.revision] = value]
         [] OTHER -> revisions
  /\ tags' = CASE step = "list" -> [tags EXCEPT ![b].listed = TRUE]
               [] step = "name" -> [tags EXCEPT ![b].named = TRUE]
               [] step = "status" -> [tags EXCEPT ![b].status = value.status]
               [] OTHER -> tags

\* The repository returns: the controller takes over what was saved.
Answer ==
  /\ known' = [known EXCEPT ![job.batch] = job.value]
  /\ CASE job.then \in {"activate", "restore"} ->
            active' = job.batch /\ owned' = owned \cup {job.batch}
       [] job.then = "finish" -> active' = Nobody /\ owned' = owned \ {job.batch}
       [] OTHER -> UNCHANGED <<active, owned>>
  /\ job' = NoJob

Write ==
  /\ running /\ job # NoJob
  /\ Written(Head(job.steps), job.batch, job.value)
  /\ IF Len(job.steps) = 1 THEN Answer
     ELSE /\ job' = [job EXCEPT !.steps = Tail(@)]
          /\ UNCHANGED <<known, active, owned>>
  /\ UNCHANGED <<unreadable, running, troubles>>

\* It raises: the command is answered with the error.  At the start of the
\* controller the error ends the worker.
WriteFails ==
  /\ running /\ job # NoJob /\ troubles < MaxTroubles
  /\ troubles' = troubles + 1 /\ job' = NoJob
  /\ running' = (job.then # "restore")
  /\ UNCHANGED <<manifests, revisions, tags, known, active, unreadable, owned>>

Crash ==
  /\ running /\ troubles < MaxTroubles
  /\ troubles' = troubles + 1 /\ job' = NoJob /\ running' = FALSE
  /\ UNCHANGED <<manifests, revisions, tags, known, active, unreadable, owned>>

-----------------------------------------------------------------------------
(* The start of the controller (_load_manifests).                           *)

Listed == {b \in Batches : tags[b].listed}
Loaded == {b \in Listed : Readable(manifests[b])}
LoadErrors == {[batch |-> b, status |-> tags[b].status] : b \in Listed \ Loaded}
Live == {b \in Loaded : manifests[b].status = "active"}

\* An active batch that cannot be read leaves the controller in error, with
\* nothing active.  Otherwise the active one is saved again, paused, before it
\* is taken; with more than one the start fails.
Start ==
  /\ ~running
  /\ known' = [b \in Batches |-> IF b \in Loaded THEN manifests[b] ELSE None]
  /\ unreadable' = LoadErrors
  /\ owned' = owned \ (Loaded \ Live)
  /\ IF \E error \in LoadErrors : error.status = "active"
     THEN job' = NoJob /\ active' = Nobody /\ running' = TRUE
     ELSE /\ Cardinality(Live) <= 1 /\ running' = TRUE /\ active' = Nobody
          /\ \/ Live = {} /\ job' = NoJob
             \/ \E b \in Live :
                  /\ MaySaveControlState(b, manifests[b])
                  /\ job' = [batch |-> b, value |-> manifests[b],
                             steps |-> ControlSteps, then |-> "restore"]
  /\ UNCHANGED <<manifests, revisions, tags, troubles>>

StoreNext == Command \/ Write \/ WriteFails \/ Crash \/ Start

StoreSpec == StoreInit /\ [][StoreNext]_storeVars

-----------------------------------------------------------------------------
(* What the repository promises.                                            *)

Manifests == [status : Statuses, revision : Revisions, plan : PlanTexts]
Files == Manifests \cup {None, Torn}
Tags == [listed : BOOLEAN, named : BOOLEAN, status : Statuses \cup {"none"}]

Names == {"list", "name", "status", "open manifest", "manifest",
          "open revision", "revision"}

Jobs == [batch : Batches, value : Manifests, steps : Seq(Names) \ {<<>>},
         then : {"keep", "activate", "restore", "finish"}]

StoreTypeOK ==
  /\ manifests \in [Batches -> Files]
  /\ revisions \in [Batches -> [Revisions -> Files]]
  /\ tags \in [Batches -> Tags]
  /\ job \in Jobs \cup {NoJob}
  /\ known \in [Batches -> Manifests \cup {None}]
  /\ active \in Batches \cup {Nobody}
  /\ active \in Batches => known[active] # None
  /\ unreadable \subseteq [batch : Batches, status : Statuses \cup {"none"}]
  /\ running \in BOOLEAN /\ owned \subseteq Batches /\ troubles \in 0..MaxTroubles

\* A revision of a plan once on file is never changed, whatever is retried
\* after a write that failed or a process that was killed half way.
RevisionsAreKept ==
  [][\A b \in Batches, r \in Revisions :
       Readable(revisions[b][r]) => revisions'[b][r] = revisions[b][r]]_storeVars

\* At most one batch has the chamber: one that was made active, and was not
\* seen as finished, keeps every other from being activated, even when its
\* manifest was lost in a crash and only its tags are left.
OneBatchIsActive == Cardinality(owned) <= 1

=============================================================================
