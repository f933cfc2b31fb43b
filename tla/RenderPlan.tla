----------------------------- MODULE RenderPlan -----------------------------
(* The Rust planner: calculate_composition_positions (compose/timeline.rs)   *)
(* puts clips one after another with the overlaps of their transitions, and  *)
(* build_render_plan (render/plan.rs) cuts the result at every start and end *)
(* into segments, and build_xfade_graph (compose/graph.rs) chains the same   *)
(* clips with offsets of its own.  A step is an iteration of one of these    *)
(* loops.  Seconds are whole ticks: boundaries closer than 1e-9 are one.     *)
EXTENDS Integers, Sequences, FiniteSets

CONSTANTS
  MaxClips,     \* bound: clips of a composition
  MaxTicks,     \* bound: the length of a clip and of a transition
  FrameTicks    \* the ticks of a frame: 1 / fps

ASSUME PlanAssumption == MaxClips \in Nat \ {0} /\ MaxTicks \in Nat \ {0} /\ FrameTicks \in Nat \ {0}

VARIABLES
  clips,        \* durations of the clips
  transitions,  \* requested durations, the one of clips k and k + 1 at k
  placed,       \* the positioned clips so far
  segments,     \* the segments so far
  totalFrames,  \* the frames of these
  fades,        \* the xfades so far: how long, and where in what came before
  chained       \* build_xfade_graph: accumulated_duration

planVars == <<clips, transitions, placed, segments, totalFrames, fades, chained>>

Tick == Nat
Lesser(p, q) == IF p <= q THEN p ELSE q
Clamped(wanted, a, b) ==
  LET most == Lesser(Lesser(wanted, a), b) IN IF most < 0 THEN 0 ELSE most

PlanInit ==
  /\ \E n \in 1..MaxClips, m \in 0..MaxClips :
       clips \in [1..n -> 1..MaxTicks] /\ transitions \in [1..m -> 0..MaxTicks]
  /\ \E origin \in 0..1 : placed = <<[start |-> origin, end |-> origin + clips[1]]>>
  /\ segments = <<>> /\ totalFrames = 0 /\ fades = <<>> /\ chained = clips[1]

PlaceClip ==
  /\ Len(placed) < Len(clips)
  /\ LET n == Len(placed)
         before == placed[n]
         overlap == IF n <= Len(transitions)
                    THEN Clamped(transitions[n], before.end - before.start, clips[n + 1])
                    ELSE 0
         start == before.end - overlap
     IN placed' = Append(placed, [start |-> start, end |-> start + clips[n + 1]])
  /\ UNCHANGED <<clips, transitions, segments, totalFrames, fades, chained>>

Positioned == Len(placed) = Len(clips)
(* Mutated: the starts are forgotten.                                        *)
BoundariesOfEnds == {placed[1].start} \cup {placed[k].end : k \in DOMAIN placed}
Boundaries == {placed[k].start : k \in DOMAIN placed} \cup {placed[k].end : k \in DOMAIN placed}

(* A clip is active in a segment when both have time in common.              *)
Active(start, end) == {k \in DOMAIN placed : placed[k].start < end /\ placed[k].end > start}

(* (duration * fps).round(): halves go up.                                   *)
Rounded(ticks) == (2 * ticks + FrameTicks) \div (2 * FrameTicks)

Segment(start, end) ==
  LET playing == Cardinality(Active(start, end))
      frames == Rounded(end - start)
  IN [start |-> start, end |-> end, frames |-> frames,
      cost |-> frames * (IF playing = 0 THEN 1 ELSE playing)]

(* Where the next segment begins: at the first boundary, then at the end of  *)
(* the segment before.                                                       *)
Edge == IF segments = <<>> THEN CHOOSE b \in Boundaries : \A c \in Boundaries : b <= c
                           ELSE segments[Len(segments)].end
Ahead == {b \in Boundaries : b > Edge}

CutSegment ==
  /\ Positioned
  /\ \E b \in Ahead :
       /\ \A c \in Ahead : b <= c
       /\ segments' = Append(segments, Segment(Edge, b))
       /\ totalFrames' = totalFrames + Rounded(b - Edge)
  /\ UNCHANGED <<clips, transitions, placed, fades, chained>>

(* The graph of two clips and more that have transitions.  It stops at the   *)
(* first pair without one, and clamps by all that is chained so far, not by  *)
(* the clip before.                                                          *)
Fadable == Lesser(Len(clips) - 1, Len(transitions))
Fade ==
  /\ Positioned /\ Len(fades) < Fadable
  /\ LET k == Len(fades) + 1
         lasts == Clamped(transitions[k], chained, clips[k + 1])
     IN /\ fades' = Append(fades, [lasts |-> lasts, offset |-> chained - lasts])
        /\ chained' = chained + clips[k + 1] - lasts
  /\ UNCHANGED <<clips, transitions, placed, segments, totalFrames>>

PlanNext == PlaceClip \/ CutSegment \/ Fade
PlanSpec == PlanInit /\ [][PlanNext]_planVars

-----------------------------------------------------------------------------

Interval == [start : Tick, end : Tick]
PlanTypeOK ==
  /\ clips \in Seq(Nat) /\ transitions \in Seq(Int)
  /\ placed \in Seq(Interval) /\ placed # <<>>
  /\ segments \in Seq([start : Tick, end : Tick, frames : Nat, cost : Nat])
  /\ totalFrames \in Nat
  /\ fades \in Seq([lasts : Nat, offset : Nat]) /\ chained \in Nat

Planned == Positioned /\ Ahead = {}
TotalDuration == placed[Len(placed)].end - placed[1].start

(* However long the transitions, a clip begins while the one before it runs  *)
(* or just as it ends, and ends no earlier: clips neither swap places nor    *)
(* leave a hole, so that the last end is where the timeline ends.            *)
ClipsStayInOrder ==
  \A k \in 1..(Len(placed) - 1) :
    /\ placed[k].start <= placed[k + 1].start /\ placed[k + 1].start <= placed[k].end
    /\ placed[k].end <= placed[k + 1].end

(* The segments are a partition of the timeline that calculate_timeline_     *)
(* duration measures: none is empty, each begins where the one before ends,  *)
(* the first begins with the first clip and the last ends with the last.     *)
SegmentsPartition ==
  /\ \A k \in 1..Len(segments) : segments[k].start < segments[k].end
  /\ \A k \in 1..(Len(segments) - 1) : segments[k].end = segments[k + 1].start
  /\ segments # <<>> => segments[1].start = placed[1].start
  /\ Planned => segments # <<>> /\ segments[Len(segments)].end = placed[Len(placed)].end

(* Within a segment nothing begins or ends: a clip that it shows at all is   *)
(* shown from its first tick to its last, and there is always one.           *)
SegmentsAreUniform ==
  \A k \in 1..Len(segments) :
    LET s == segments[k] IN
      /\ Active(s.start, s.end) # {}
      /\ \A c \in Active(s.start, s.end) :
           placed[c].start <= s.start /\ s.end <= placed[c].end

(* Each segment is rounded to frames on its own; the sum is within half a    *)
(* frame for every segment of what the timeline lasts.                       *)
FramesAddUp ==
  LET error == 2 * (totalFrames * FrameTicks - TotalDuration)
      most == FrameTicks * Len(segments)
  IN Planned => -most <= error /\ error <= most

(* Where no request after the first exceeds the clip it leaves, the chained  *)
(* xfades and the positions are one timeline: each fade begins where its     *)
(* clip was placed and lasts as long as the two overlap, though the loops    *)
(* clamp by different lengths.  (The route that adds a transition chains two *)
(* clips, and shows both results in one answer.)                             *)
Fitting == \A k \in 2..Len(fades) : transitions[k] <= clips[k]
FadesFollowPositions ==
  Fitting =>
    /\ \A k \in 1..Len(fades) :
         /\ fades[k].offset = placed[k + 1].start - placed[1].start
         /\ fades[k].lasts = placed[k].end - placed[k + 1].start
    /\ chained = placed[Len(fades) + 1].end - placed[1].start

(* The positions, the plan and the chain of crossfades describe one          *)
(* timeline, for whatever lengths are asked: each of the formulas above.     *)
PlanIsTimeline ==
  /\ PlanTypeOK /\ ClipsStayInOrder /\ SegmentsPartition /\ SegmentsAreUniform
  /\ FramesAddUp /\ FadesFollowPositions
=============================================================================
