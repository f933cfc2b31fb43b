----------------------------- MODULE TimeRanges -----------------------------
(* Time ranges of the Rust core (timeline/range.rs): half-open intervals of  *)
(* frames, the operations on two of them, and the loops of merge_ranges,     *)
(* total_coverage and find_gaps over one sorted list, a step per iteration.  *)
EXTENDS Integers, Sequences, FiniteSets

CONSTANTS
  MaxFrame,  \* bound: the last position
  MaxRanges  \* bound: the length of a list

ASSUME RangeAssumption == MaxFrame \in Nat /\ MaxRanges \in Nat

VARIABLES
  ranges,   \* the argument, sorted by start
  merged,   \* merge_ranges: the result so far
  mergeAt,  \* and the range it looks at next
  gaps,     \* find_gaps: the result so far
  gapAt,    \* the range it looks at next
  reached,  \* and its current_end
  total,    \* total_coverage: the sum so far
  sumAt     \* and the merged range it adds next

rangeVars == <<ranges, merged, mergeAt, gaps, gapAt, reached, total, sumAt>>

Position == 0..MaxFrame
TimeRange == {r \in [start : Position, end : Position] : r.start < r.end}
Span(a, b) == [start |-> a, end |-> b]

Earlier(p, q) == IF p <= q THEN p ELSE q
Later(p, q) == IF p <= q THEN q ELSE p

Overlaps(a, b) == a.start < b.end /\ b.start < a.end
Adjacent(a, b) == a.end = b.start \/ b.end = a.start
Contiguous(a, b) == Overlaps(a, b) \/ Adjacent(a, b)

(* An Option or a Vec of ranges is the set of them.                          *)
Overlap(a, b) ==
  IF Overlaps(a, b) THEN {Span(Later(a.start, b.start), Earlier(a.end, b.end))} ELSE {}
Hull(a, b) == Span(Earlier(a.start, b.start), Later(a.end, b.end))
Joined(a, b) == IF Contiguous(a, b) THEN {Hull(a, b)} ELSE {}
GapOf(a, b) ==
  IF Contiguous(a, b) THEN {}
  ELSE IF a.end <= b.start THEN {Span(a.end, b.start)} ELSE {Span(b.end, a.start)}
Difference(a, b) ==
  IF ~Overlaps(a, b) THEN {a}
  ELSE {r \in {Span(a.start, b.start), Span(b.end, a.end)} : r.start < r.end}

-----------------------------------------------------------------------------

RangeInit ==
  /\ \E n \in 0..MaxRanges : ranges \in [1..n -> TimeRange]
  /\ \A j, k \in 1..Len(ranges) : j <= k => ranges[j].start <= ranges[k].start
  /\ IF Len(ranges) = 0 THEN merged = <<>> /\ reached = 0
                        ELSE merged = <<ranges[1]>> /\ reached = ranges[1].end
  /\ mergeAt = 2
  /\ gaps = <<>> /\ gapAt = 2
  /\ total = 0 /\ sumAt = 1

MergeStep ==
  /\ mergeAt <= Len(ranges)
  /\ LET n == Len(merged)
         next == ranges[mergeAt]
     IN merged' = IF Contiguous(merged[n], next)
                  THEN [merged EXCEPT ![n] = Hull(merged[n], next)]
                  ELSE Append(merged, next)
  /\ mergeAt' = mergeAt + 1
  /\ UNCHANGED <<ranges, gaps, gapAt, reached, total, sumAt>>

(* Mutated: the end of the last range, however short, is where it is.        *)
GapStepForgets ==
  /\ gapAt <= Len(ranges)
  /\ gaps' = IF ranges[gapAt].start > reached
             THEN Append(gaps, Span(reached, ranges[gapAt].start))
             ELSE gaps
  /\ reached' = ranges[gapAt].end
  /\ gapAt' = gapAt + 1
  /\ UNCHANGED <<ranges, merged, mergeAt, total, sumAt>>

GapStep ==
  /\ gapAt <= Len(ranges)
  /\ gaps' = IF ranges[gapAt].start > reached
             THEN Append(gaps, Span(reached, ranges[gapAt].start))
             ELSE gaps
  /\ reached' = Later(reached, ranges[gapAt].end)
  /\ gapAt' = gapAt + 1
  /\ UNCHANGED <<ranges, merged, mergeAt, total, sumAt>>

SumStep ==
  /\ mergeAt > Len(ranges) /\ sumAt <= Len(merged)
  /\ total' = total + (merged[sumAt].end - merged[sumAt].start)
  /\ sumAt' = sumAt + 1
  /\ UNCHANGED <<ranges, merged, mergeAt, gaps, gapAt, reached>>

RangeNext == MergeStep \/ GapStep \/ SumStep
RangeSpec == RangeInit /\ [][RangeNext]_rangeVars

-----------------------------------------------------------------------------

RangeTypeOK ==
  /\ ranges \in Seq(TimeRange) /\ merged \in Seq(TimeRange) /\ gaps \in Seq(TimeRange)
  /\ mergeAt \in Nat /\ gapAt \in Nat /\ reached \in Position
  /\ total \in Nat /\ sumAt \in Nat

FramesOf(r) == r.start..(r.end - 1)
CoveredTo(s, n) == UNION {FramesOf(s[k]) : k \in 1..n}
Covered(s) == CoveredTo(s, Len(s))
FramesIn(rs) == UNION {FramesOf(r) : r \in rs}

Merged == mergeAt > Len(ranges)
GapsFound == gapAt > Len(ranges)

(* merge_ranges gives the least list with the same frames: nothing is lost   *)
(* or invented, and between two of its ranges there is at least one frame    *)
(* that no argument holds, whichever of them contain, touch or repeat others.*)
MergeIsExact ==
  Merged => /\ Covered(merged) = Covered(ranges)
            /\ \A k \in 1..(Len(merged) - 1) : merged[k].end < merged[k + 1].start

(* find_gaps, which never looks at merged ranges, finds what lies between    *)
(* those of merge_ranges: the two loops agree on every list.                 *)
GapsFitMerged ==
  Merged /\ GapsFound =>
    /\ Len(gaps) = IF Len(ranges) = 0 THEN 0 ELSE Len(merged) - 1
    /\ \A k \in 1..Len(gaps) : gaps[k] = Span(merged[k].end, merged[k + 1].start)

(* total_coverage counts every covered frame once.                           *)
CountsFramesOnce ==
  Merged /\ sumAt > Len(merged) => total = Cardinality(Covered(ranges))

(* On frames, the operations on two ranges are those of sets: overlap is the *)
(* intersection, union is the union wherever it is one range, difference is  *)
(* the difference in ranges that share nothing, and gap is what a union of   *)
(* the two would have to add.                                                *)
SetAlgebra(a, b) ==
  /\ FramesIn(Overlap(a, b)) = FramesOf(a) \cap FramesOf(b)
  /\ \A u \in Joined(a, b) : FramesOf(u) = FramesOf(a) \cup FramesOf(b)
  /\ FramesIn(Difference(a, b)) = FramesOf(a) \ FramesOf(b)
  /\ FramesIn(GapOf(a, b)) = FramesOf(Hull(a, b)) \ (FramesOf(a) \cup FramesOf(b))
PairsAreSets == \A j, k \in 1..Len(ranges) : SetAlgebra(ranges[j], ranges[k])

(* The loops of the core and its operations on two ranges compute with sets  *)
(* of frames, on every list of ranges a caller may hand them: each of the    *)
(* formulas above.                                                           *)
RangesAreSets ==
  RangeTypeOK /\ MergeIsExact /\ GapsFitMerged /\ CountsFramesOnce /\ PairsAreSets
=============================================================================
