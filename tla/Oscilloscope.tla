----------------------------- MODULE Oscilloscope -----------------------------
(***************************************************************************)
(* The oscilloscope controller (oscilloscope.py): a capture thread and a   *)
(* decoding thread of the scope, the main thread that counts the dose, a   *)
(* writer thread, the thread that makes step exposures, and the callbacks  *)
(* of the exposure controller.                                             *)
(*                                                                         *)
(* A segment is a number, given when its first pulse is seen; every        *)
(* segment counts one unit of dose.  The waveforms, their times and the    *)
(* analysis of a segment are left out, so a segment "with the laser off"   *)
(* is one the main thread may skip.  A process that dies is not modelled.  *)
(***************************************************************************)
EXTENDS Naturals, Sequences, FiniteSets

CONSTANTS MaxRuns,      \* exposures
          MaxSegments,  \* segments that see light
          TargetDose,   \* segments an exposure with a target asks for, not 0
          MaxFaults     \* writes and dose calculations that fail

None == 0
Runs == 1..MaxRuns
Segments == 1..MaxSegments

VARIABLES
  run,     \* [id, phase, asked] of the exposure controller; asked: the calls
           \* of this controller that are not answered
  scope,   \* [pc, active, once, capturing, processing, halted, lit]: the
           \* capture thread, its flags, and the burst of the instrument
  reads,   \* the queue from the capture thread to the decoding thread
  out,     \* the queue to the main thread
  main,    \* [pc, item] of the main thread
  sub,     \* [exp, target, dose, doRun, finalizing]
  step,    \* pc of the thread that makes step exposures
  writer,  \* [exp, record, queue]
  files,   \* run -> segments in its record
  tags,    \* run -> <<segments the recorded dose counts, segments it skips>>
  shots,   \* run -> segments that saw its light and were not skipped
  used,    \* number of segments
  failed,  \* number of failures
  past     \* history: [spoilt, missed], sets of runs: their record is not
           \* known to be whole; they were stopped while a burst was started

scopeVars == <<run, scope, reads, out, main, sub, step, writer, files,
               tags, shots, used, failed, past>>

-----------------------------------------------------------------------------
(* ScopeReader: the capture thread.                                         *)

\* A capture is wanted; the request for a single one is taken, and the
\* instrument is started before the flag says so.
Begin ==
  /\ scope.pc = "top" /\ (scope.active \/ scope.once)
  /\ scope' = [scope EXCEPT !.pc = "armed", !.once = FALSE,
                            !.halted = FALSE, !.lit = None]
  /\ UNCHANGED <<run, reads, out, main, sub, step, writer, files, tags,
                 shots, used, failed, past>>

Flag ==
  /\ scope.pc = "armed"
  /\ scope' = [scope EXCEPT !.pc = "capturing", !.capturing = TRUE]
  /\ UNCHANGED <<run, reads, out, main, sub, step, writer, files, tags,
                 shots, used, failed, past>>

\* The burst sees its first pulse, in whatever exposure is under way.
Light ==
  /\ scope.pc \in {"armed", "capturing"} /\ ~scope.halted /\ scope.lit = None
  /\ run.phase # "idle" /\ used < MaxSegments
  /\ used' = used + 1
  /\ scope' = [scope EXCEPT !.lit = used + 1]
  /\ shots' = [shots EXCEPT ![run.id] = @ \cup {used + 1}]
  /\ UNCHANGED <<run, reads, out, main, sub, step, writer, files, tags,
                 failed, past>>

\* All of its pulses: the instrument stops by itself.
Fill ==
  /\ scope.lit # None /\ ~scope.halted
  /\ scope' = [scope EXCEPT !.halted = TRUE]
  /\ UNCHANGED <<run, reads, out, main, sub, step, writer, files, tags,
                 shots, used, failed, past>>

\* The status says STOP: for a moment the scope is neither capturing nor
\* processing.
Stopped ==
  /\ scope.pc = "capturing" /\ scope.halted
  /\ scope' = [scope EXCEPT !.pc = "gap", !.capturing = FALSE]
  /\ UNCHANGED <<run, reads, out, main, sub, step, writer, files, tags,
                 shots, used, failed, past>>

ReadOut ==
  /\ scope.pc = "gap"
  /\ scope' = [scope EXCEPT !.pc = "reading", !.processing = TRUE]
  /\ UNCHANGED <<run, reads, out, main, sub, step, writer, files, tags,
                 shots, used, failed, past>>

\* The queue holds one burst.
HandOver ==
  /\ scope.pc = "reading" /\ reads = <<>>
  /\ reads' = <<scope.lit>>
  /\ scope' = [scope EXCEPT !.pc = "top", !.lit = None]
  /\ UNCHANGED <<run, out, main, sub, step, writer, files, tags, shots,
                 used, failed, past>>

-----------------------------------------------------------------------------
(* ScopeReader: the decoding thread.                                        *)

\* A burst without frames is dropped; the flag that is cleared may by now stand
\* for the next burst.
Decode ==
  /\ reads # <<>>
  /\ reads' = <<>>
  /\ out' = IF Head(reads) = None THEN out ELSE out \o reads
  /\ scope' = [scope EXCEPT !.processing = FALSE]
  /\ UNCHANGED <<run, main, sub, step, writer, files, tags, shots, used,
                 failed, past>>

-----------------------------------------------------------------------------
(* What other threads ask of the scope.                                     *)

IsIdle == ~scope.capturing /\ ~scope.processing

\* set_active(False): the instrument is stopped if a capture is flagged.
SilencedUnheard == [scope EXCEPT !.active = FALSE]
Silenced == [scope EXCEPT !.active = FALSE,
                          !.halted = @ \/ scope.capturing]

-----------------------------------------------------------------------------
(* Callbacks of the exposure controller.                                    *)

\* _can_start of a new run; a run before it may still be finalized.
RunAccepted ==
  /\ run.phase = "idle" /\ run.id < MaxRuns
  /\ LET r == run.id + 1 IN
     /\ run' = [id |-> r, phase |-> "accepted", asked |-> {}]
     /\ \E target \in {None, TargetDose} :
          sub' = [sub EXCEPT !.exp = r, !.dose = 0, !.target = target]
     /\ writer' = [writer EXCEPT !.exp = r, !.record = None]
     /\ past' = [past EXCEPT !.spoilt = @ \cup
                   IF sub.finalizing # None \/ main.pc = "forget"
                     THEN {run.id, r} ELSE {}]
  /\ UNCHANGED <<scope, reads, out, main, step, files, tags, shots,
                 used, failed>>

\* _on_preinit: captures begin.
PreinitCalled ==
  /\ run.phase = "accepted"
  /\ run' = [run EXCEPT !.phase = "preinit", !.asked = {"preinit"}]
  /\ scope' = [scope EXCEPT !.active = TRUE]
  /\ UNCHANGED <<reads, out, main, sub, step, writer, files, tags,
                 shots, used, failed, past>>

\* _can_start of the same run, and _on_start; a run whose dose is reached
\* before it opened is refused.
Reached == sub.target # None /\ sub.dose >= sub.target

StartCalled ==
  /\ run.phase = "preinit" /\ run.asked = {}
  /\ ~Reached
  /\ run' = [run EXCEPT !.phase = "running", !.asked = {"start"}]
  /\ sub' = [sub EXCEPT !.doRun = TRUE]
  /\ UNCHANGED <<scope, reads, out, main, step, writer, files, tags,
                 shots, used, failed, past>>

\* _on_stop.  A burst that is being started, or a single one that is still to
\* come, does not hear of it.  When the stop falls into the flush of the run
\* before, that flush closes this run too, whatever is still on its way.
Deaf == \/ scope.pc = "armed"
        \/ scope.once
        \/ step \in {"drain", "arm"}

StopCalled ==
  /\ run.phase \in {"accepted", "preinit", "running"}
  /\ run' = [run EXCEPT !.phase = "stopping", !.asked = @ \cup {"stop"}]
  /\ scope' = Silenced
  /\ sub' = [sub EXCEPT !.finalizing = sub.exp, !.doRun = FALSE]
  /\ past' = [spoilt |-> past.spoilt \cup IF main.pc = "flush" THEN {sub.exp + 1} ELSE {},
              missed |-> past.missed \cup IF Deaf THEN {sub.exp} ELSE {}]
  /\ UNCHANGED <<reads, out, main, step, writer, files, tags, shots,
                 used, failed>>

-----------------------------------------------------------------------------
(* The main thread.  A turn of its loop answers the calls, takes a segment, *)
(* and closes a run; what finds nothing to do is left out.                  *)

Answer ==
  /\ main.pc = "top" /\ run.asked # {}
  /\ run' = [run EXCEPT !.asked = {},
                        !.phase = IF "stop" \in run.asked THEN "idle" ELSE @]
  /\ UNCHANGED <<scope, reads, out, main, sub, step, writer, files, tags,
                 shots, used, failed, past>>

MayTake == main.pc = "top" /\ out # <<>> /\ sub.exp # None

\* A segment in which the laser was off is skipped.
SkipSegment ==
  /\ MayTake
  /\ out' = Tail(out)
  /\ shots' = [r \in Runs |-> shots[r] \ {Head(out)}]
  /\ UNCHANGED <<run, scope, reads, main, sub, step, writer, files, tags,
                 used, failed, past>>

\* The dose is counted whether or not there is a record to write to.
TakeSegment ==
  /\ MayTake
  /\ out' = Tail(out)
  /\ sub' = [sub EXCEPT !.dose = @ + 1]
  /\ IF writer.record = None
       THEN /\ past' = [past EXCEPT !.spoilt = @ \cup {sub.exp}]
            /\ UNCHANGED writer
       ELSE /\ writer' = [writer EXCEPT !.queue = Append(@, Head(out))]
            /\ UNCHANGED past
  /\ UNCHANGED <<run, scope, reads, main, step, files, tags, shots, used,
                 failed>>

\* A run is closed when the scope is idle and its segments have been taken.
DrainedBySight == out = <<>>
Drained == IsIdle /\ out = <<>>

\* A burst on its way while the scope seems idle is closed out of its run.
OnItsWay == \/ scope.pc \notin {"top", "capturing"}
            \/ reads # <<>>
            \/ scope.once \/ step \in {"drain", "arm"}

StartsToFinalize ==
  /\ main.pc = "top" /\ sub.finalizing # None /\ Drained
  /\ main' = [main EXCEPT !.pc = "flush"]
  /\ past' = [past EXCEPT !.spoilt = @ \cup
                IF IsIdle /\ OnItsWay
                  THEN {sub.finalizing, sub.finalizing + 1} ELSE {}]
  /\ UNCHANGED <<run, scope, reads, out, sub, step, writer, files, tags,
                 shots, used, failed>>

\* flush waits for the writes, five seconds at most.
FlushExpires ==
  /\ main.pc = "flush" /\ writer.queue # <<>>
  /\ main' = [main EXCEPT !.pc = "top"]
  /\ UNCHANGED <<run, scope, reads, out, sub, step, writer, files, tags,
                 shots, used, failed, past>>

Flushed ==
  /\ main.pc = "flush" /\ writer.queue = <<>>
  /\ main' = [pc |-> "forget", item |-> sub.finalizing]
  /\ sub' = [sub EXCEPT !.finalizing = None]
  /\ UNCHANGED <<run, scope, reads, out, step, writer, files, tags,
                 shots, used, failed, past>>

\* The writer forgets its run, whichever run it has by now.
Forget ==
  /\ main.pc = "forget"
  /\ writer' = [writer EXCEPT !.exp = None, !.record = None]
  /\ sub' = [sub EXCEPT !.exp = IF @ = main.item THEN None ELSE @]
  /\ main' = [main EXCEPT !.pc = "dose"]
  /\ UNCHANGED <<run, scope, reads, out, step, files, tags, shots, used,
                 failed, past>>

\* calculate_dose_of_experiment passes over a segment that is not to be read or
\* analysed, and over one of more than ten seconds, which begins when its burst is
\* armed and so may have waited for its light; the tags do not tell.
DosesOf(segments) == {<<segments \ skipped, skipped>> : skipped \in SUBSET segments}

\* The dose of the files in the record; a record that is not found, or a
\* calculation that raises, leaves the run without one.
Dose ==
  /\ main.pc = "dose"
  /\ \/ /\ \E dose \in DosesOf(files[main.item]) : tags' = [tags EXCEPT ![main.item] = dose]
        /\ UNCHANGED failed
     \/ /\ failed < MaxFaults /\ failed' = failed + 1
        /\ UNCHANGED tags
  /\ main' = [pc |-> "top", item |-> None]
  /\ UNCHANGED <<run, scope, reads, out, sub, step, writer, files,
                 shots, used, past>>

-----------------------------------------------------------------------------
(* The writer thread.                                                       *)

FindRecord ==
  /\ writer.record = None /\ writer.exp # None
  /\ writer' = [writer EXCEPT !.record = writer.exp]
  /\ UNCHANGED <<run, scope, reads, out, main, sub, step, files, tags,
                 shots, used, failed, past>>

\* The write goes to the record of the moment, to none, or fails.
WriteSegment ==
  /\ writer.queue # <<>>
  /\ writer' = [writer EXCEPT !.queue = Tail(@)]
  /\ \/ /\ files' = [r \in Runs |-> files[r] \cup
                       IF r = writer.record THEN {Head(writer.queue)} ELSE {}]
        /\ UNCHANGED <<failed, past>>
     \/ /\ failed < MaxFaults /\ failed' = failed + 1
        /\ past' = [past EXCEPT !.spoilt = @ \cup {writer.record}]
        /\ UNCHANGED files
  /\ UNCHANGED <<run, scope, reads, out, main, sub, step, tags, shots,
                 used>>

-----------------------------------------------------------------------------
(* Step exposures: near the target the scope captures once for each timed   *)
(* exposure of the laser.                                                   *)

NearTarget == /\ sub.doRun /\ sub.target # None
              /\ sub.dose >= sub.target - 1 /\ sub.dose < sub.target

StepBegins ==
  /\ step = "watch" /\ NearTarget
  /\ step' = "drain"
  /\ scope' = Silenced
  /\ UNCHANGED <<run, reads, out, main, sub, writer, files, tags, shots,
                 used, failed, past>>

StepDrained ==
  /\ step = "drain" /\ ~scope.capturing
  /\ step' = "arm"
  /\ UNCHANGED <<run, scope, reads, out, main, sub, writer, files, tags,
                 shots, used, failed, past>>

\* capture_once repeats its request until it sees a capture.
StepAsks ==
  /\ step = "arm" /\ ~scope.capturing
  /\ scope' = [scope EXCEPT !.once = TRUE]
  /\ UNCHANGED <<run, reads, out, main, sub, step, writer, files, tags,
                 shots, used, failed, past>>

StepCaptures ==
  /\ step = "arm" /\ scope.capturing
  /\ step' = "shot"
  /\ UNCHANGED <<run, scope, reads, out, main, sub, writer, files, tags,
                 shots, used, failed, past>>

\* The capture is over; the timed exposure and the segment are waited for, ten
\* seconds at most.
StepEnds ==
  /\ step = "shot" /\ ~scope.capturing
  /\ step' = "watch"
  /\ UNCHANGED <<run, scope, reads, out, main, sub, writer, files, tags,
                 shots, used, failed, past>>

-----------------------------------------------------------------------------
Init ==
  /\ run = [id |-> None, phase |-> "idle", asked |-> {}]
  /\ scope = [pc |-> "top", active |-> FALSE, once |-> FALSE,
              capturing |-> FALSE, processing |-> FALSE, halted |-> TRUE,
              lit |-> None]
  /\ reads = <<>> /\ out = <<>>
  /\ main = [pc |-> "top", item |-> None]
  /\ sub = [exp |-> None, target |-> None, dose |-> 0, doRun |-> FALSE,
            finalizing |-> None]
  /\ step = "watch"
  /\ writer = [exp |-> None, record |-> None, queue |-> <<>>]
  /\ files = [r \in Runs |-> {}] /\ shots = [r \in Runs |-> {}]
  /\ tags = [r \in Runs |-> <<>>]
  /\ used = 0 /\ failed = 0
  /\ past = [spoilt |-> {}, missed |-> {}]

Exposure == RunAccepted \/ PreinitCalled \/ StartCalled \/ StopCalled
Capture == Begin \/ Flag \/ Stopped \/ ReadOut \/ HandOver
Instrument == Light \/ Fill
Taking == SkipSegment \/ TakeSegment
Closing == StartsToFinalize \/ FlushExpires \/ Flushed \/ Forget \/ Dose
Writing == FindRecord \/ WriteSegment
Stepping == StepBegins \/ StepDrained \/ StepAsks \/ StepCaptures \/ StepEnds

Next == \/ Exposure \/ Capture \/ Instrument \/ Decode \/ Answer \/ Taking
        \/ Closing \/ Writing \/ Stepping

\* Each thread of the program goes on while it can; the exposure controller,
\* the light and the instrument owe nothing.
Fairness == /\ WF_scopeVars(Capture) /\ WF_scopeVars(Decode)
            /\ WF_scopeVars(Answer) /\ WF_scopeVars(Taking)
            /\ WF_scopeVars(Closing) /\ WF_scopeVars(Writing)
            /\ WF_scopeVars(Stepping)

Spec == Init /\ [][Next]_scopeVars /\ Fairness

-----------------------------------------------------------------------------
TypeOK ==
  /\ sub.exp \in 0..MaxRuns /\ sub.finalizing \in 0..MaxRuns
  /\ out \in Seq(Segments) /\ Len(reads) <= 1
  /\ step \in {"watch", "drain", "arm", "shot"}

\* The dose recorded for a run was calculated from every segment that saw its light
\* with the laser on, and from no other; it counts all of them but those that the
\* calculation passes over.  It may be of less, or of more, for a run, and the one
\* after it, that was closed with a burst on its way; for two runs of which the
\* second was accepted before the first was closed, and for a third if the second
\* was also stopped before that; and for a run with a write that failed or found no
\* record.
RecordIsWhole ==
  \A r \in Runs \ past.spoilt : tags[r] \in {<<>>} \cup DosesOf(shots[r])

\* A stopped run is closed, unless the next one is accepted first, or the stop
\* came while a burst was being started: the scope then waits for light.
StoppedRunIsClosed ==
  sub.finalizing # None ~> \/ sub.finalizing = None
                           \/ sub.exp # sub.finalizing
                           \/ sub.finalizing \in past.missed
=============================================================================
