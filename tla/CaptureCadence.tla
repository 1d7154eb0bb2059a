---------------------------- MODULE CaptureCadence ----------------------------
(***************************************************************************)
(* The live cadence of pulse captures (capture_cadence.py): a tracker is   *)
(* fed with the times of captured pulses, infers from the expected rate    *)
(* how many were lost, prunes what is old, and shows rolling counts of the *)
(* last seconds; its telemetry is encoded, and decoded by its readers.     *)
(*                                                                         *)
(* Time is counted in ticks of the clock of the board.  A pulse is         *)
(* received MaxDelay ticks late at most; its time is projected onto the    *)
(* local clock with the delay of the first pulse of its segment.  Trigger  *)
(* counters and the identity of the session are left out; a quotient of a  *)
(* count and a duration is kept as the two of them.                        *)
(***************************************************************************)
EXTENDS Integers, Sequences, FiniteSets, Functions

\* Durations are positive; the bounds are natural numbers.
CONSTANTS Period,           \* ticks between expected pulses
          Windows,          \* the rolling windows, increasing
          DisplayHorizon, SampleInterval,
          MaxMarkers,       \* gap markers in a payload
          MaxDelay, MaxTime, MaxPulses, MaxChanges

Off == 0
Retention == DisplayHorizon + Windows[Len(Windows)]

VARIABLES
  clock,
  tracker,  \* [rate, pending, offset, observations, gaps, points,
            \*  segment, segmentGaps, lastSample, dirty]
  marks,    \* the boundaries of snapshots the tracker was told of
  whole,    \* history: the observations of this segment, none pruned
  pulses, changes

cadenceVars == <<clock, tracker, marks, whole, pulses, changes>>

-----------------------------------------------------------------------------
(* Gaps (infer_gap).  The confidence is high if what is left over is at     *)
(* most a quarter of the period.                                            *)

AtLeast(a, b) == IF a > b THEN a ELSE b
Absolute(x) == IF x < 0 THEN -x ELSE x

Periods(delta) == AtLeast(1, (2 * delta + Period) \div (2 * Period))

InferredGap(before, after) ==
  LET n == Periods(after.captured - before.captured)
      residual == after.captured - before.captured - n * Period IN
  [before |-> before.sequence, after |-> after.sequence, lost |-> n - 1,
   interval |-> after.captured - before.captured,
   sure |-> 4 * Absolute(residual) <= Period, crosses |-> FALSE,
   at |-> after.at]

\* The gaps of a whole segment (infer_gaps).
InferredGaps(observations) ==
  [k \in 1..(Len(observations) - 1) |->
     InferredGap(observations[k], observations[k + 1])]

Crosses(gap, boundary) == gap.before <= boundary /\ boundary < gap.after
Annotated(gap, boundaries) ==
  [gap EXCEPT !.crosses = @ \/ \E b \in boundaries : Crosses(gap, b)]

-----------------------------------------------------------------------------
(* Rolling counts (_provisional_lost_count, _rolling_cadence).              *)

Provisional(rate, segment, at) ==
  IF rate = Off \/ segment = <<>> THEN 0
  ELSE LET elapsed == AtLeast(0, at - segment[Len(segment)].at) IN
       AtLeast(0, (4 * elapsed - Period) \div (4 * Period))

\* The positions of what happened after start, until at.
Within(s, start, at) == {k \in DOMAIN s : start < s[k].at /\ s[k].at <= at}

LostIn(gaps, positions) ==
  SumFunctionOnSet([k \in DOMAIN gaps |-> gaps[k].lost], positions)

Rolling(rate, segment, gaps, at, window) ==
  IF segment = <<>> THEN [window |-> window, duration |-> 0, captured |-> 0, lost |-> 0]
  ELSE LET start == AtLeast(segment[1].at, at - window) IN
       [window |-> window, duration |-> AtLeast(0, at - start),
        captured |-> Cardinality(Within(segment, start, at)),
        lost |-> Provisional(rate, segment, at)
                   + LostIn(gaps, Within(gaps, start, at))]

RollingAll(rate, segment, gaps, at) ==
  [k \in 1..Len(Windows) |-> Rolling(rate, segment, gaps, at, Windows[k])]

-----------------------------------------------------------------------------
(* Pruning (_prune).  Of the observations of the segment the last one before *)
(* the cut stays: the segment did not start after it.                       *)

From(s, fresh) ==
  IF fresh = {} THEN <<>>
  ELSE SubSeq(s, CHOOSE k \in fresh : \A j \in fresh : k <= j, Len(s))

Recent(s, cut) == From(s, {k \in DOMAIN s : s[k].at >= cut})

PrunedSegment(segment, cut) ==
  From(segment, {k \in DOMAIN segment :
                   k = Len(segment) \/ segment[k + 1].at >= cut})

Pruned(t, now) ==
  LET cut == now - Retention IN
  [t EXCEPT
     !.observations = Recent(@, cut), !.gaps = Recent(@, cut),
     !.points = Recent(@, cut), !.segment = PrunedSegment(@, cut),
     !.segmentGaps = Recent(@, cut)]

-----------------------------------------------------------------------------
(* CaptureCadenceTracker.                                                   *)

\* set_expected_rate: a change starts a new segment.
SetExpectedRate ==
  /\ changes < MaxChanges /\ changes' = changes + 1
  /\ tracker' = [tracker EXCEPT
       !.rate = IF @ = Off THEN Period ELSE Off,
       !.pending = TRUE, !.segment = <<>>, !.segmentGaps = <<>>]
  /\ whole' = <<>>
  /\ UNCHANGED <<clock, marks, pulses>>

\* ingest of a pulse that was captured a while ago, after those before it.
InOrder(captured) ==
  \A o \in Range(tracker.observations) \cup Range(whole) : o.captured < captured

Observation(captured, offset) ==
  [sequence |-> pulses + 1, captured |-> captured,
   at |-> captured + offset]

Ingest ==
  /\ pulses < MaxPulses /\ pulses' = pulses + 1
  /\ \E captured \in 1..clock :
       /\ InOrder(captured) /\ clock - captured <= MaxDelay
       /\ LET t == tracker
              offset == IF t.pending THEN clock - captured ELSE t.offset
              o == Observation(captured, offset)
              found == IF t.segment = <<>> \/ t.rate = Off THEN <<>>
                       ELSE <<Annotated(InferredGap(
                                t.segment[Len(t.segment)], o), marks)>> IN
          /\ tracker' = Pruned([t EXCEPT
               !.pending = FALSE, !.offset = offset,
               !.observations = Append(@, o), !.segment = Append(@, o),
               !.gaps = @ \o found, !.segmentGaps = @ \o found,
               !.dirty = t.points # <<>>], clock)
          /\ whole' = Append(whole, o)
  /\ UNCHANGED <<clock, marks, changes>>

Marked(gaps, boundary) ==
  [k \in 1..Len(gaps) |-> Annotated(gaps[k], {boundary})]

MarkSnapshotBoundary ==
  /\ changes < MaxChanges /\ changes' = changes + 1
  /\ \E boundary \in 1..pulses :
       /\ marks' = marks \cup {boundary}
       /\ tracker' = [tracker EXCEPT !.gaps = Marked(@, boundary),
                                     !.segmentGaps = Marked(@, boundary)]
  /\ UNCHANGED <<clock, whole, pulses>>

\* What was shown is counted again when a pulse came late.
Reconciled(t) ==
  IF ~t.dirty \/ t.segment = <<>> THEN t
  ELSE [t EXCEPT !.dirty = FALSE, !.points =
         [k \in 1..Len(@) |->
            IF @[k].at < t.segment[1].at THEN @[k]
            ELSE [at |-> @[k].at, windows |->
                    RollingAll(t.rate, t.segment, t.segmentGaps, @[k].at)]]]

\* sample: a point is added once in a sample interval, else the last one is
\* replaced.
Sampled(t0, now) ==
  LET t == Reconciled(t0)
      point == [at |-> now,
                windows |-> RollingAll(t.rate, t.segment, t.segmentGaps, now)]
      due == t.lastSample = Off \/ now - t.lastSample >= SampleInterval IN
  Pruned([t EXCEPT
    !.points = IF due THEN Append(@, point)
               ELSE IF @ = <<>> THEN @ ELSE [@ EXCEPT ![Len(@)] = point],
    !.lastSample = IF due THEN now ELSE @], now)

Sample ==
  /\ clock > 0
  /\ tracker' = Sampled(tracker, clock)
  /\ UNCHANGED <<clock, marks, whole, pulses, changes>>

Tick ==
  /\ clock < MaxTime
  /\ clock' = clock + 1
  /\ UNCHANGED <<tracker, marks, whole, pulses, changes>>

-----------------------------------------------------------------------------
(* snapshot, encode and decode_live_cadence.                                *)

\* What a deque is filtered to is given by the positions in it.
Displayed(t, now) == {k \in DOMAIN t.points : t.points[k].at >= now - DisplayHorizon}

Losses(t, now) == {k \in DOMAIN t.gaps :
                     t.gaps[k].at >= now - DisplayHorizon /\ t.gaps[k].lost > 0}

\* Times are sent relative to the last point; of the gaps that lost a pulse
\* the last ones fit.
Latest(positions) == CHOOSE k \in positions : \A j \in positions : j <= k
Newest(positions) ==
  {k \in positions : Cardinality({j \in positions : j > k}) < MaxMarkers}

Payload(t, now) ==
  LET points == Displayed(t, now)
      gaps == Losses(t, now) IN
  [points |-> [k \in points |->
                 [relative |-> t.points[k].at - t.points[Latest(points)].at,
                  windows |-> t.points[k].windows]],
   gaps |-> [k \in Newest(gaps) |-> t.gaps[k]],
   omitted |-> Cardinality(gaps \ Newest(gaps))]

\* The reader refuses a negative count, a window that was not announced, a
\* gap that closes before it opens, times out of order or out of sight, and
\* more gaps than it expects.  Its limits of a hundred points and of sixty
\* kilobytes are left out: in sight are some fifty points, a tenth of a second
\* apart for five seconds.
WindowDecodable(w) ==
  w.window > 0 /\ w.duration >= 0 /\ w.captured >= 0 /\ w.lost >= 0

PointDecodable(p) ==
  /\ [k \in 1..Len(p.windows) |-> p.windows[k].window] = Windows
  /\ \A k \in 1..Len(p.windows) : WindowDecodable(p.windows[k])

GapDecodable(g) == g.before < g.after /\ g.interval > 0 /\ g.lost >= 0

Decodable(payload) ==
  LET points == payload.points
      gaps == payload.gaps IN
  /\ \A k \in DOMAIN points :
       PointDecodable(points[k]) /\ points[k].relative \in (-DisplayHorizon)..0
  /\ \A j, k \in DOMAIN points : j < k => points[j].relative < points[k].relative
  /\ Cardinality(DOMAIN gaps) <= MaxMarkers
  /\ \A k \in DOMAIN gaps : GapDecodable(gaps[k])

-----------------------------------------------------------------------------
Init ==
  /\ clock = 0
  /\ tracker = [rate |-> Period, pending |-> TRUE, offset |-> 0,
                observations |-> <<>>, gaps |-> <<>>, points |-> <<>>,
                segment |-> <<>>, segmentGaps |-> <<>>, lastSample |-> Off,
                dirty |-> FALSE]
  /\ marks = {} /\ whole = <<>>
  /\ pulses = 0 /\ changes = 0

Next == Tick \/ SetExpectedRate \/ Ingest \/ MarkSnapshotBoundary \/ Sample

Spec == Init /\ [][Next]_cadenceVars

-----------------------------------------------------------------------------
\* What a snapshot would show now of the present segment is what counting all
\* of its pulses shows: nothing that was pruned is missing, and what was shown
\* before a late pulse came is corrected.
WindowsAreExact ==
  LET t == Sampled(tracker, clock) IN
  \A k \in Displayed(t, clock) :
    whole # <<>> /\ t.points[k].at >= whole[1].at =>
      t.points[k].windows =
        RollingAll(tracker.rate, whole,
                   IF tracker.rate = Off THEN <<>> ELSE InferredGaps(whole),
                   t.points[k].at)

\* A gap is marked as one over a snapshot boundary if it is, whether the
\* boundary or the gap came first.
BoundariesAreMarked ==
  \A k \in 1..Len(tracker.gaps) :
    tracker.gaps[k].crosses <=> \E b \in marks : Crosses(tracker.gaps[k], b)

\* A reader decodes whatever is sent.
TelemetryIsDecodable ==
  clock > 0 => Decodable(Payload(Sampled(tracker, clock), clock))
=============================================================================
