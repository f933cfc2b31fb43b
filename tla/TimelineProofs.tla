--------------------------- MODULE TimelineProofs ---------------------------
(* Theorems on the timeline: the arithmetic of TimeRanges and RenderPlan, and *)
(* the saved transitions of Transitions.                                     *)
EXTENDS TimeRanges, RenderPlan, Transitions, FiniteSetTheorems, SequenceTheorems,
        WellFoundedInduction, TLAPS

(* What a range is, and what the constructor makes of two positions.         *)
LEMMA RangeFields ==
  \A r \in TimeRange : r.start \in Nat /\ r.end \in Nat /\ r.start < r.end /\ r.end <= MaxFrame
<1> QED BY RangeAssumption DEF TimeRange, Position

LEMMA SpanIsRange ==
  ASSUME NEW p \in Position, NEW q \in Position, p < q
  PROVE  Span(p, q) \in TimeRange
<1> QED BY RangeAssumption DEF TimeRange, Position, Span

LEMMA RangeIsSpan == \A r \in TimeRange : r = Span(r.start, r.end)
<1> QED BY DEF TimeRange, Span

(* The hull of two ranges that touch or overlap has just their frames.       *)
LEMMA HullJoins ==
  ASSUME NEW a \in TimeRange, NEW b \in TimeRange
  PROVE  /\ Hull(a, b) \in TimeRange
         /\ Hull(a, b).start = Earlier(a.start, b.start)
         /\ Hull(a, b).end = Later(a.end, b.end)
         /\ Contiguous(a, b) => FramesOf(Hull(a, b)) = FramesOf(a) \cup FramesOf(b)
<1>1. /\ a.start \in Position /\ a.end \in Position /\ a.start < a.end
      /\ b.start \in Position /\ b.end \in Position /\ b.start < b.end
  BY DEF TimeRange
<1>2. /\ Earlier(a.start, b.start) \in Position /\ Later(a.end, b.end) \in Position
      /\ Earlier(a.start, b.start) < Later(a.end, b.end)
  BY <1>1, RangeAssumption DEF Earlier, Later, Position
<1>3. Hull(a, b).start = Earlier(a.start, b.start) /\ Hull(a, b).end = Later(a.end, b.end)
  BY DEF Hull, Span
<1>4. ASSUME Contiguous(a, b)
      PROVE  FramesOf(Hull(a, b)) = FramesOf(a) \cup FramesOf(b)
  <2>1. \A f \in Int : f \in FramesOf(Hull(a, b)) <=> f \in FramesOf(a) \/ f \in FramesOf(b)
    BY <1>1, <1>3, <1>4, RangeAssumption
       DEF FramesOf, Contiguous, Overlaps, Adjacent, Earlier, Later, Position
  <2>2. /\ FramesOf(Hull(a, b)) \subseteq Int /\ FramesOf(a) \subseteq Int
        /\ FramesOf(b) \subseteq Int
    BY DEF FramesOf
  <2> QED BY <2>1, <2>2
<1> QED BY <1>2, <1>3, <1>4, SpanIsRange DEF Hull

(* The operations on two ranges are those on their frames.                   *)
LEMMA PairsAlgebra ==
  ASSUME NEW a \in TimeRange, NEW b \in TimeRange
  PROVE  SetAlgebra(a, b)
<1>1. /\ a.start \in Nat /\ a.end \in Nat /\ a.start < a.end
      /\ b.start \in Nat /\ b.end \in Nat /\ b.start < b.end
  BY RangeFields
<1>2. \A p, q : Span(p, q).start = p /\ Span(p, q).end = q
  BY DEF Span
<1>3. \A rs, f : f \in FramesIn(rs) <=> \E r \in rs : f \in FramesOf(r)
  BY DEF FramesIn
<1>4. FramesIn(Overlap(a, b)) = FramesOf(a) \cap FramesOf(b)
  <2>1. \A f : f \in FramesIn(Overlap(a, b))
               <=> Overlaps(a, b) /\ f \in FramesOf(Span(Later(a.start, b.start), Earlier(a.end, b.end)))
    BY <1>3 DEF Overlap
  <2>2. \A f : Overlaps(a, b) /\ f \in FramesOf(Span(Later(a.start, b.start), Earlier(a.end, b.end)))
               <=> f \in FramesOf(a) /\ f \in FramesOf(b)
    BY <1>1, <1>2 DEF FramesOf, Overlaps, Later, Earlier
  <2> QED BY <2>1, <2>2
<1>5. \A u \in Joined(a, b) : FramesOf(u) = FramesOf(a) \cup FramesOf(b)
  BY HullJoins DEF Joined
<1>6. FramesIn(Difference(a, b)) = FramesOf(a) \ FramesOf(b)
  <2>1. CASE ~Overlaps(a, b)
    <3>1. \A f : f \in FramesIn(Difference(a, b)) <=> f \in FramesOf(a)
      BY <1>3, <2>1 DEF Difference
    <3>2. \A f : ~(f \in FramesOf(a) /\ f \in FramesOf(b))
      BY <1>1, <2>1 DEF FramesOf, Overlaps
    <3> QED BY <3>1, <3>2
  <2>2. CASE Overlaps(a, b)
    <3> DEFINE L == Span(a.start, b.start)
               R == Span(b.end, a.end)
    <3>1. \A f : f \in FramesIn(Difference(a, b)) <=>
                 \/ L.start < L.end /\ f \in FramesOf(L)
                 \/ R.start < R.end /\ f \in FramesOf(R)
      BY <1>3, <2>2 DEF Difference
    <3>2. \A f : (\/ L.start < L.end /\ f \in FramesOf(L)
                  \/ R.start < R.end /\ f \in FramesOf(R))
                 <=> f \in FramesOf(a) /\ f \notin FramesOf(b)
      BY <1>1, <1>2, <2>2 DEF FramesOf, Overlaps
    <3> QED BY <3>1, <3>2
  <2> QED BY <2>1, <2>2
<1>7. FramesIn(GapOf(a, b)) = FramesOf(Hull(a, b)) \ (FramesOf(a) \cup FramesOf(b))
  <2>1. CASE Contiguous(a, b)
    <3>1. GapOf(a, b) = {} BY <2>1 DEF GapOf
    <3>2. FramesIn(GapOf(a, b)) = {} BY <3>1 DEF FramesIn
    <3> QED BY <2>1, <3>2, HullJoins
  <2>2. CASE ~Contiguous(a, b)
    <3>1. /\ Hull(a, b).start = Earlier(a.start, b.start)
          /\ Hull(a, b).end = Later(a.end, b.end)
      BY HullJoins
    <3>2. CASE a.end <= b.start
      <4>1. \A f : f \in FramesIn(GapOf(a, b)) <=> f \in FramesOf(Span(a.end, b.start))
        BY <1>3, <2>2, <3>2 DEF GapOf
      <4>2. \A f : f \in FramesOf(Span(a.end, b.start))
                   <=> f \in FramesOf(Hull(a, b)) /\ ~(f \in FramesOf(a) \/ f \in FramesOf(b))
        BY <1>1, <1>2, <3>1, <3>2 DEF FramesOf, Earlier, Later
      <4> QED BY <4>1, <4>2
    <3>3. CASE ~(a.end <= b.start)
      <4>1. \A f : f \in FramesIn(GapOf(a, b)) <=> f \in FramesOf(Span(b.end, a.start))
        BY <1>3, <2>2, <3>3 DEF GapOf
      <4>2. \A f : f \in FramesOf(Span(b.end, a.start))
                   <=> f \in FramesOf(Hull(a, b)) /\ ~(f \in FramesOf(a) \/ f \in FramesOf(b))
        BY <1>1, <1>2, <2>2, <3>1, <3>3 DEF FramesOf, Earlier, Later, Contiguous, Overlaps, Adjacent
      <4> QED BY <4>1, <4>2
    <3> QED BY <3>2, <3>3
  <2> QED BY <2>1, <2>2
<1> QED BY <1>4, <1>5, <1>6, <1>7 DEF SetAlgebra

-----------------------------------------------------------------------------

(* In a sorted list rs, a range begins a new merged one if all before it end *)
(* before it; Breaks are where those begin that a loop at "at" has met.      *)
IsSorted(rs) == \A j, k \in 1..Len(rs) : j <= k => rs[j].start <= rs[k].start
IsBreak(rs, k) == \A j \in 1..(k - 1) : rs[j].end < rs[k].start
Breaks(rs, at) == {rs[k].start : k \in {i \in 2..Len(rs) : i < at /\ IsBreak(rs, i)}}
(* The last end of the ranges that begin before p.                           *)
IsTop(rs, e, p) ==
  /\ \E j \in 1..Len(rs) : rs[j].start < p /\ rs[j].end = e
  /\ \A j \in 1..Len(rs) : rs[j].start < p => rs[j].end <= e
(* The last end of the ranges that a loop at "at" has met.                   *)
IsReached(rs, e, at) ==
  /\ \E j \in 1..Len(rs) : j < at /\ rs[j].end = e
  /\ \A j \in 1..Len(rs) : j < at => rs[j].end <= e

(* What merge_ranges has after the ranges before "at".                       *)
MergedTo(rs, m, at) ==
  /\ at \in Nat /\ at >= 2
  /\ rs = <<>> => m = <<>> /\ at = 2
  /\ rs # <<>> =>
       /\ m # <<>> /\ at - 1 <= Len(rs)
       /\ m[Len(m)].start <= rs[at - 1].start
       /\ IsReached(rs, m[Len(m)].end, at)
  /\ \A j, k \in 1..Len(m) : j < k => m[j].end < m[k].start
  /\ \A f \in Position : (\E k \in 1..Len(m) : f \in FramesOf(m[k]))
                     <=> (\E k \in 1..Len(rs) : k < at /\ f \in FramesOf(rs[k]))
  /\ \A k \in 1..Len(m) : k > 1 => m[k].start \in Breaks(rs, at) /\ IsTop(rs, m[k - 1].end, m[k].start)
  /\ \A p \in Breaks(rs, at) : \E k \in 1..Len(m) : k > 1 /\ m[k].start = p

(* What find_gaps has after the ranges before "at".                          *)
GapsTo(rs, g, at, e) ==
  /\ at \in Nat /\ at >= 2
  /\ rs = <<>> => at = 2
  /\ rs # <<>> => at - 1 <= Len(rs) /\ IsReached(rs, e, at)
  /\ \A k \in 1..Len(g) : g[k].end \in Breaks(rs, at) /\ IsTop(rs, g[k].start, g[k].end)
  /\ \A p \in Breaks(rs, at) : \E k \in 1..Len(g) : g[k].end = p
  /\ \A j, k \in 1..Len(g) : j < k => g[j].end < g[k].end

(* As far as both loops have come, they have met the same breaks.            *)
Together(m, g) == \A k \in 1..Len(g) : k + 1 <= Len(m) => g[k].end = m[k + 1].start

(* What total_coverage has counted before the merged range "at".             *)
CountedTo(m, at, n) ==
  /\ at \in 1..(Len(m) + 1)
  /\ IsFiniteSet(CoveredTo(m, at - 1))
  /\ n = Cardinality(CoveredTo(m, at - 1))

RangeInv ==
  /\ RangeTypeOK /\ IsSorted(ranges)
  /\ MergedTo(ranges, merged, mergeAt)
  /\ GapsTo(ranges, gaps, gapAt, reached)
  /\ Together(merged, gaps)
  /\ CountedTo(merged, sumAt, total)
  /\ ~Merged => sumAt = 1

LEMMA BreaksGrow ==
  ASSUME NEW rs \in Seq(TimeRange), NEW at \in 2..Len(rs)
  PROVE  Breaks(rs, at + 1) = IF IsBreak(rs, at) THEN Breaks(rs, at) \cup {rs[at].start}
                                                 ELSE Breaks(rs, at)
<1>1. Len(rs) \in Nat
  OBVIOUS
<1>2. {i \in 2..Len(rs) : i < at + 1 /\ IsBreak(rs, i)} =
        {i \in 2..Len(rs) : i < at /\ IsBreak(rs, i)} \cup (IF IsBreak(rs, at) THEN {at} ELSE {})
  BY <1>1
<1> QED BY <1>2 DEF Breaks

LEMMA BreakIff ==
  ASSUME NEW rs \in Seq(TimeRange), NEW at \in 2..Len(rs), NEW e \in Nat, IsReached(rs, e, at)
  PROVE  IsBreak(rs, at) <=> e < rs[at].start
<1>1. Len(rs) \in Nat /\ \A j \in 1..Len(rs) : rs[j].start \in Nat /\ rs[j].end \in Nat
  BY RangeFields, ElementOfSeq
<1>2. \A j \in 1..(at - 1) : j \in 1..Len(rs) /\ j < at
  BY <1>1
<1>3. \A j \in 1..Len(rs) : j < at => j \in 1..(at - 1)
  BY <1>1
<1> QED BY <1>1, <1>2, <1>3 DEF IsBreak, IsReached

LEMMA ReachedGrows ==
  ASSUME NEW rs \in Seq(TimeRange), NEW at \in 2..Len(rs), NEW e \in Nat, IsReached(rs, e, at)
  PROVE  IsReached(rs, Later(e, rs[at].end), at + 1)
<1>1. Len(rs) \in Nat /\ \A j \in 1..Len(rs) : rs[j].start \in Nat /\ rs[j].end \in Nat
  BY RangeFields, ElementOfSeq
<1>2. at \in 1..Len(rs)
  BY <1>1
<1> QED BY <1>1, <1>2 DEF IsReached, Later

LEMMA TopAtBreak ==
  ASSUME NEW rs \in Seq(TimeRange), IsSorted(rs), NEW at \in 2..Len(rs), NEW e \in Nat,
         IsReached(rs, e, at), IsBreak(rs, at)
  PROVE  IsTop(rs, e, rs[at].start)
<1>1. Len(rs) \in Nat
      /\ \A j \in 1..Len(rs) : rs[j].start \in Nat /\ rs[j].end \in Nat /\ rs[j].start < rs[j].end
  BY RangeFields, ElementOfSeq
<1>2. \A j \in 1..Len(rs) : rs[j].start < rs[at].start => j < at
  BY <1>1, SMTT(40) DEF IsSorted
<1>3. \A j \in 1..Len(rs) : j < at => rs[j].start < rs[at].start
  BY <1>1 DEF IsBreak
<1> QED BY <1>1, <1>2, <1>3 DEF IsReached, IsTop

LEMMA TopUnique ==
  ASSUME NEW rs, NEW p, NEW e \in Nat, NEW d \in Nat, IsTop(rs, e, p), IsTop(rs, d, p)
  PROVE  e = d
<1>1. e <= d /\ d <= e
  BY DEF IsTop
<1> QED BY <1>1

LEMMA BreakAbove ==
  ASSUME NEW rs \in Seq(TimeRange), NEW at \in 2..Len(rs), IsBreak(rs, at), NEW q \in Breaks(rs, at)
  PROVE  q < rs[at].start
<1>1. PICK i \in 2..Len(rs) : i < at /\ q = rs[i].start
  BY DEF Breaks
<1>2. i \in 1..(at - 1) /\ i \in 1..Len(rs) /\ at \in 1..Len(rs)
  BY <1>1, LenProperties
<1>3. rs[i] \in TimeRange /\ rs[at] \in TimeRange
  BY <1>2, ElementOfSeq
<1> QED BY <1>1, <1>2, <1>3, RangeFields DEF IsBreak

LEMMA BreaksBelow ==
  ASSUME NEW rs \in Seq(TimeRange), IsSorted(rs), NEW m \in Nat, NEW n \in Nat,
         NEW q \in Breaks(rs, m), NEW p \in Breaks(rs, n), q < p
  PROVE  q \in Breaks(rs, n)
<1>1. PICK i \in 2..Len(rs) : i < m /\ IsBreak(rs, i) /\ q = rs[i].start
  BY DEF Breaks
<1>2. PICK k \in 2..Len(rs) : k < n /\ IsBreak(rs, k) /\ p = rs[k].start
  BY DEF Breaks
<1>3. i \in 1..Len(rs) /\ k \in 1..Len(rs)
  BY LenProperties
<1>4. rs[i].start \in Nat /\ rs[k].start \in Nat
  BY <1>3, ElementOfSeq, RangeFields
<1>5. i < k
  BY <1>1, <1>2, <1>3, <1>4 DEF IsSorted
<1> QED BY <1>1, <1>2, <1>5 DEF Breaks

(* Where the gap loop meets a break that the merge loop has met, it is the   *)
(* same break; and the other way round.                                      *)
LEMMA GapMeetsMerge ==
  ASSUME NEW rs \in Seq(TimeRange), IsSorted(rs),
         NEW m \in Seq(TimeRange), NEW at \in Nat, MergedTo(rs, m, at),
         NEW g \in Seq(TimeRange), NEW gat \in 2..Len(rs), NEW e, GapsTo(rs, g, gat, e),
         Together(m, g), IsBreak(rs, gat), Len(g) + 2 <= Len(m)
  PROVE  m[Len(g) + 2].start = rs[gat].start
<1> DEFINE n == Len(g)
           p == rs[gat].start
           q == m[n + 2].start
<1>0. /\ n \in Nat /\ Len(m) \in Nat /\ Len(rs) \in Nat /\ gat \in 1..Len(rs)
      /\ \A k \in 1..Len(m) : m[k].start \in Nat /\ m[k].end \in Nat /\ m[k].start < m[k].end
      /\ \A k \in 1..Len(rs) : rs[k].start \in Nat
  BY LenProperties, ElementOfSeq, RangeFields
<1>1. n + 2 \in 1..Len(m) /\ p \in Nat /\ q \in Nat
  BY <1>0
<1>2. q \in Breaks(rs, at)
  BY <1>0, <1>1 DEF MergedTo
<1>3. Breaks(rs, gat + 1) = Breaks(rs, gat) \cup {p}
  BY BreaksGrow
<1>4. ASSUME q < p PROVE FALSE
  <2>1. q \in Breaks(rs, gat + 1)
    BY <1>0, <1>2, <1>3, <1>4, BreaksBelow
  <2>2. q \in Breaks(rs, gat)
    BY <1>1, <1>3, <1>4, <2>1
  <2>3. PICK i \in 1..n : g[i].end = q
    BY <2>2 DEF GapsTo
  <2>4. i + 1 \in 1..Len(m) /\ i + 1 < n + 2
    BY <1>0
  <2>5. m[i + 1].start = q
    BY <2>3, <2>4 DEF Together
  <2>6. m[i + 1].end < q
    BY <1>1, <2>4 DEF MergedTo
  <2> QED BY <1>0, <1>1, <2>4, <2>5, <2>6
<1>5. ASSUME p < q PROVE FALSE
  <2>0. gat + 1 \in Nat /\ p \in Breaks(rs, gat + 1)
    BY <1>0, <1>3
  <2>1. p \in Breaks(rs, at)
    BY <1>2, <1>5, <2>0, BreaksBelow
  <2>2. PICK i \in 1..Len(m) : i > 1 /\ m[i].start = p
    BY <2>1 DEF MergedTo
  <2>3. i < n + 2
    <3>1. n + 2 < i => m[n + 2].end < m[i].start
      BY <1>1 DEF MergedTo
    <3> QED BY <1>0, <1>1, <1>5, <2>2, <3>1, SMTT(40)
  <2>4. i - 1 \in 1..n /\ (i - 1) + 1 = i /\ (i - 1) + 1 <= Len(m)
    BY <1>0, <2>2, <2>3
  <2>5. g[i - 1].end = m[i].start
    BY <2>4 DEF Together
  <2>6. p \in Breaks(rs, gat)
    BY <2>2, <2>4, <2>5 DEF GapsTo
  <2> QED BY <1>1, <2>6, BreakAbove
<1> QED BY <1>1, <1>4, <1>5

LEMMA MergeMeetsGap ==
  ASSUME NEW rs \in Seq(TimeRange), IsSorted(rs),
         NEW m \in Seq(TimeRange), NEW at \in 2..Len(rs), MergedTo(rs, m, at),
         NEW g \in Seq(TimeRange), NEW gat \in Nat, NEW e, GapsTo(rs, g, gat, e),
         Together(m, g), IsBreak(rs, at), Len(m) >= 1, Len(m) <= Len(g)
  PROVE  g[Len(m)].end = rs[at].start
<1> DEFINE n == Len(m)
           p == rs[at].start
           q == g[n].end
<1>0. /\ n \in Nat /\ Len(g) \in Nat /\ Len(rs) \in Nat /\ at \in 1..Len(rs)
      /\ \A k \in 1..Len(g) : g[k].end \in Nat
      /\ \A k \in 1..Len(rs) : rs[k].start \in Nat
  BY LenProperties, ElementOfSeq, RangeFields
<1>1. n \in 1..Len(g) /\ p \in Nat /\ q \in Nat
  BY <1>0
<1>2. q \in Breaks(rs, gat)
  BY <1>1 DEF GapsTo
<1>3. Breaks(rs, at + 1) = Breaks(rs, at) \cup {p}
  BY BreaksGrow
<1>4. ASSUME q < p PROVE FALSE
  <2>1. q \in Breaks(rs, at + 1)
    BY <1>0, <1>2, <1>3, <1>4, BreaksBelow
  <2>2. q \in Breaks(rs, at)
    BY <1>1, <1>3, <1>4, <2>1
  <2>3. PICK i \in 1..n : i > 1 /\ m[i].start = q
    BY <2>2 DEF MergedTo
  <2>4. i - 1 \in 1..Len(g) /\ i - 1 < n /\ (i - 1) + 1 = i /\ (i - 1) + 1 <= n
    BY <1>0, <1>1, <2>3
  <2>5. g[i - 1].end = q
    BY <2>3, <2>4 DEF Together
  <2>6. g[i - 1].end < q
    BY <1>1, <2>4 DEF GapsTo
  <2> QED BY <1>1, <2>5, <2>6
<1>5. ASSUME p < q PROVE FALSE
  <2>1. p \in Breaks(rs, gat)
    BY <1>0, <1>2, <1>3, <1>5, BreaksBelow
  <2>2. PICK i \in 1..Len(g) : g[i].end = p
    BY <2>1 DEF GapsTo
  <2>3. i < n
    <3>1. n < i => q < g[i].end
      BY <1>1 DEF GapsTo
    <3> QED BY <1>0, <1>1, <1>5, <2>2, <3>1
  <2>4. i + 1 \in 1..n /\ i + 1 <= Len(m) /\ (i + 1) - 1 = i /\ i + 1 > 1
    BY <1>0, <2>3
  <2>5. m[i + 1].start = p
    BY <2>2, <2>4 DEF Together
  <2>6. p \in Breaks(rs, at)
    BY <2>4, <2>5 DEF MergedTo
  <2> QED BY <1>1, <2>6, BreakAbove
<1> QED BY <1>1, <1>4, <1>5

(* A step of the merge loop.                                                 *)
LEMMA LastMerged ==
  ASSUME NEW rs \in Seq(TimeRange), IsSorted(rs),
         NEW m \in Seq(TimeRange), NEW at \in 2..Len(rs), MergedTo(rs, m, at)
  PROVE  /\ Len(m) \in 1..Len(m) /\ Len(m) \in Nat
         /\ m[Len(m)].start <= rs[at].start
         /\ IsReached(rs, m[Len(m)].end, at)
         /\ Contiguous(m[Len(m)], rs[at]) <=> ~IsBreak(rs, at)
<1>1. /\ Len(m) \in Nat /\ Len(rs) \in Nat /\ rs # <<>>
      /\ at \in 1..Len(rs) /\ at - 1 \in 1..Len(rs)
  BY LenProperties, EmptySeq
<1>2. m # <<>> /\ m[Len(m)].start <= rs[at - 1].start /\ IsReached(rs, m[Len(m)].end, at)
  BY <1>1 DEF MergedTo
<1>3. Len(m) \in 1..Len(m)
  BY <1>1, <1>2, EmptySeq
<1>4. m[Len(m)] \in TimeRange /\ rs[at] \in TimeRange /\ rs[at - 1] \in TimeRange
  BY <1>1, <1>3, ElementOfSeq
<1>5. rs[at - 1].start <= rs[at].start
  BY <1>1 DEF IsSorted
<1>6. m[Len(m)].start <= rs[at].start
  BY <1>2, <1>4, <1>5, RangeFields
<1>7. Contiguous(m[Len(m)], rs[at]) <=> ~(m[Len(m)].end < rs[at].start)
  BY <1>4, <1>6, RangeFields, SMTT(40) DEF Contiguous, Overlaps, Adjacent
<1>8. m[Len(m)].end \in Nat
  BY <1>4, RangeFields
<1> QED BY <1>1, <1>2, <1>3, <1>6, <1>7, <1>8, BreakIff

LEMMA MergeExtends ==
  ASSUME NEW rs \in Seq(TimeRange), IsSorted(rs),
         NEW m \in Seq(TimeRange), NEW at \in 2..Len(rs), MergedTo(rs, m, at), ~IsBreak(rs, at),
         NEW m2, m2 = [m EXCEPT ![Len(m)] = Hull(m[Len(m)], rs[at])]
  PROVE  /\ m2 \in Seq(TimeRange) /\ Len(m2) = Len(m)
         /\ \A k \in 1..Len(m) : m2[k].start = m[k].start
         /\ MergedTo(rs, m2, at + 1)
<1> DEFINE n == Len(m)
           h == Hull(m[n], rs[at])
<1>1. /\ n \in 1..n /\ n \in Nat /\ m[n].start <= rs[at].start
      /\ IsReached(rs, m[n].end, at) /\ Contiguous(m[n], rs[at])
  BY LastMerged
<1>2. /\ Len(rs) \in Nat /\ rs # <<>> /\ at \in 1..Len(rs)
      /\ \A k \in 1..n : m[k] \in TimeRange
      /\ rs[at] \in TimeRange
  BY LenProperties, EmptySeq, ElementOfSeq
<1>3. /\ h \in TimeRange
      /\ h.start = m[n].start /\ h.end = Later(m[n].end, rs[at].end)
      /\ FramesOf(h) = FramesOf(m[n]) \cup FramesOf(rs[at])
  BY <1>1, <1>2, HullJoins, RangeFields DEF Earlier
<1>4. /\ m2 \in Seq(TimeRange) /\ Len(m2) = n
      /\ \A k \in 1..n : m2[k] = IF k = n THEN h ELSE m[k]
  BY <1>1, <1>3, ExceptSeq
<1>5. \A k \in 1..n : m2[k].start = m[k].start
  BY <1>3, <1>4
<1>6. at + 1 \in Nat /\ at + 1 >= 2 /\ (rs = <<>> => m2 = <<>> /\ at + 1 = 2)
  BY <1>2
<1>7. /\ m2 # <<>> /\ (at + 1) - 1 <= Len(rs)
      /\ m2[Len(m2)].start <= rs[(at + 1) - 1].start
      /\ IsReached(rs, m2[Len(m2)].end, at + 1)
  <2>1. m2 # <<>> /\ (at + 1) - 1 = at /\ at <= Len(rs) /\ m2[Len(m2)] = h
    BY <1>1, <1>2, <1>4, EmptySeq
  <2>2. m[n].end \in Nat
    BY <1>1, <1>2, RangeFields
  <2> QED BY <1>1, <1>3, <2>1, <2>2, ReachedGrows
<1>8. \A j, k \in 1..Len(m2) : j < k => m2[j].end < m2[k].start
  <2>1. \A j, k \in 1..n : j < k => m[j].end < m[k].start
    BY DEF MergedTo
  <2>2. \A j, k \in 1..n : j < k => j # n
    BY <1>1
  <2> QED BY <1>4, <1>5, <2>1, <2>2
<1>9. \A f \in Position : (\E k \in 1..Len(m2) : f \in FramesOf(m2[k]))
                      <=> (\E k \in 1..Len(rs) : k < at + 1 /\ f \in FramesOf(rs[k]))
  <2> SUFFICES ASSUME NEW f \in Position
               PROVE  (\E k \in 1..n : f \in FramesOf(m2[k]))
                      <=> (\E k \in 1..Len(rs) : k < at + 1 /\ f \in FramesOf(rs[k]))
    BY <1>4, SMTT(40)
  <2>1. (\E k \in 1..n : f \in FramesOf(m2[k]))
        <=> (\E k \in 1..n : f \in FramesOf(m[k])) \/ f \in FramesOf(rs[at])
    BY <1>1, <1>3, <1>4
  <2>2. (\E k \in 1..n : f \in FramesOf(m[k]))
        <=> (\E k \in 1..Len(rs) : k < at /\ f \in FramesOf(rs[k]))
    BY DEF MergedTo
  <2>3. \A k \in 1..Len(rs) : k < at + 1 <=> k < at \/ k = at
    BY <1>2
  <2> QED BY <1>2, <2>1, <2>2, <2>3, SMTT(40)
<1>10. Breaks(rs, at + 1) = Breaks(rs, at)
  BY BreaksGrow
<1>11. \A k \in 1..Len(m2) : k > 1 => m2[k].start \in Breaks(rs, at + 1) /\ IsTop(rs, m2[k - 1].end, m2[k].start)
  <2> SUFFICES ASSUME NEW k \in 1..n, k > 1
               PROVE  m2[k].start \in Breaks(rs, at) /\ IsTop(rs, m2[k - 1].end, m2[k].start)
    BY <1>4, <1>10
  <2>1. k - 1 \in 1..n /\ k - 1 # n
    BY <1>1
  <2>2. m2[k - 1] = m[k - 1] /\ m2[k].start = m[k].start
    BY <1>4, <1>5, <2>1
  <2> QED BY <2>2 DEF MergedTo
<1>12. \A p \in Breaks(rs, at + 1) : \E k \in 1..Len(m2) : k > 1 /\ m2[k].start = p
  <2> SUFFICES ASSUME NEW p \in Breaks(rs, at) PROVE \E k \in 1..n : k > 1 /\ m2[k].start = p
    BY <1>4, <1>10
  <2>1. PICK k \in 1..n : k > 1 /\ m[k].start = p
    BY DEF MergedTo
  <2> QED BY <1>5, <2>1
<1> QED BY <1>4, <1>5, <1>6, <1>7, <1>8, <1>9, <1>11, <1>12 DEF MergedTo

LEMMA MergeAppends ==
  ASSUME NEW rs \in Seq(TimeRange), IsSorted(rs),
         NEW m \in Seq(TimeRange), NEW at \in 2..Len(rs), MergedTo(rs, m, at), IsBreak(rs, at),
         NEW m2, m2 = Append(m, rs[at])
  PROVE  /\ m2 \in Seq(TimeRange) /\ Len(m2) = Len(m) + 1
         /\ \A k \in 1..Len(m) : m2[k] = m[k]
         /\ m2[Len(m) + 1] = rs[at]
         /\ MergedTo(rs, m2, at + 1)
<1> DEFINE n == Len(m)
<1>1. /\ n \in 1..n /\ n \in Nat /\ m[n].start <= rs[at].start
      /\ IsReached(rs, m[n].end, at)
  BY LastMerged
<1>2. /\ Len(rs) \in Nat /\ rs # <<>> /\ at \in 1..Len(rs)
      /\ \A k \in 1..n : m[k] \in TimeRange
      /\ rs[at] \in TimeRange
  BY LenProperties, EmptySeq, ElementOfSeq
<1>3. /\ m2 \in Seq(TimeRange) /\ Len(m2) = n + 1
      /\ \A k \in 1..n : m2[k] = m[k]
      /\ m2[n + 1] = rs[at]
  BY <1>1, <1>2
<1>4. /\ m[n].start \in Nat /\ m[n].end \in Nat /\ m[n].start < m[n].end
      /\ rs[at].start \in Nat /\ rs[at].end \in Nat
  BY <1>1, <1>2, RangeFields
<1>5. m[n].end < rs[at].start
  BY <1>1, <1>4, BreakIff
<1>6. at + 1 \in Nat /\ at + 1 >= 2 /\ (rs = <<>> => m2 = <<>> /\ at + 1 = 2)
  BY <1>2
<1>7. /\ m2 # <<>> /\ (at + 1) - 1 <= Len(rs)
      /\ m2[Len(m2)].start <= rs[(at + 1) - 1].start
      /\ IsReached(rs, m2[Len(m2)].end, at + 1)
  <2>1. m2 # <<>> /\ (at + 1) - 1 = at /\ at <= Len(rs) /\ m2[Len(m2)] = rs[at]
    BY <1>1, <1>2, <1>3, EmptySeq
  <2>2. Later(m[n].end, rs[at].end) = rs[at].end
    BY <1>2, <1>4, <1>5, RangeFields DEF Later
  <2>3. IsReached(rs, rs[at].end, at + 1)
    BY <1>1, <1>4, <2>2, ReachedGrows
  <2> QED BY <1>4, <2>1, <2>3
<1>8. \A j, k \in 1..Len(m2) : j < k => m2[j].end < m2[k].start
  <2> SUFFICES ASSUME NEW j \in 1..(n + 1), NEW k \in 1..(n + 1), j < k
               PROVE  m2[j].end < m2[k].start
    BY <1>3
  <2>1. \A i, l \in 1..n : i < l => m[i].end < m[l].start
    BY DEF MergedTo
  <2>2. j \in 1..n /\ m2[j] = m[j] /\ m[j] \in TimeRange
    BY <1>1, <1>2, <1>3
  <2>3. CASE k \in 1..n
    BY <1>3, <2>1, <2>2, <2>3
  <2>4. CASE k = n + 1
    <3>1. m2[k] = rs[at]
      BY <1>3, <2>4
    <3>2. j = n \/ m[j].end < m[n].start
      BY <1>1, <2>1, <2>2
    <3> QED BY <1>4, <1>5, <2>2, <3>1, <3>2, RangeFields, SMTT(40)
  <2> QED BY <1>1, <2>3, <2>4
<1>9. \A f \in Position : (\E k \in 1..Len(m2) : f \in FramesOf(m2[k]))
                      <=> (\E k \in 1..Len(rs) : k < at + 1 /\ f \in FramesOf(rs[k]))
  <2> SUFFICES ASSUME NEW f \in Position
               PROVE  (\E k \in 1..(n + 1) : f \in FramesOf(m2[k]))
                      <=> (\E k \in 1..Len(rs) : k < at + 1 /\ f \in FramesOf(rs[k]))
    BY <1>3
  <2>1. (\E k \in 1..(n + 1) : f \in FramesOf(m2[k]))
        <=> (\E k \in 1..n : f \in FramesOf(m[k])) \/ f \in FramesOf(rs[at])
    <3>1. \A k \in 1..(n + 1) : k \in 1..n \/ k = n + 1
      BY <1>1
    <3>2. \A k \in 1..n : k \in 1..(n + 1)
      BY <1>1
    <3>3. n + 1 \in 1..(n + 1)
      BY <1>1
    <3> QED BY <1>3, <3>1, <3>2, <3>3
  <2>2. (\E k \in 1..n : f \in FramesOf(m[k]))
        <=> (\E k \in 1..Len(rs) : k < at /\ f \in FramesOf(rs[k]))
    BY DEF MergedTo
  <2>3. \A k \in 1..Len(rs) : k < at + 1 <=> k < at \/ k = at
    BY <1>2
  <2> QED BY <1>2, <2>1, <2>2, <2>3
<1>10. Breaks(rs, at + 1) = Breaks(rs, at) \cup {rs[at].start}
  BY BreaksGrow
<1>11. \A k \in 1..Len(m2) : k > 1 => m2[k].start \in Breaks(rs, at + 1) /\ IsTop(rs, m2[k - 1].end, m2[k].start)
  <2> SUFFICES ASSUME NEW k \in 1..(n + 1), k > 1
               PROVE  m2[k].start \in Breaks(rs, at + 1) /\ IsTop(rs, m2[k - 1].end, m2[k].start)
    BY <1>3
  <2>1. k - 1 \in 1..n /\ m2[k - 1] = m[k - 1]
    BY <1>1, <1>3
  <2>2. CASE k \in 1..n
    BY <1>3, <1>10, <2>1, <2>2 DEF MergedTo
  <2>3. CASE k = n + 1
    <3>1. m2[k] = rs[at] /\ m2[k - 1] = m[n]
      BY <1>1, <1>3, <2>1, <2>3
    <3>2. IsTop(rs, m[n].end, rs[at].start)
      BY <1>1, <1>4, TopAtBreak
    <3> QED BY <1>10, <3>1, <3>2
  <2> QED BY <1>1, <2>2, <2>3
<1>12. \A p \in Breaks(rs, at + 1) : \E k \in 1..Len(m2) : k > 1 /\ m2[k].start = p
  <2> SUFFICES ASSUME NEW p \in Breaks(rs, at + 1)
               PROVE  \E k \in 1..(n + 1) : k > 1 /\ m2[k].start = p
    BY <1>3
  <2>1. CASE p = rs[at].start
    <3>1. n + 1 \in 1..(n + 1) /\ n + 1 > 1
      BY <1>1
    <3> QED BY <1>3, <2>1, <3>1
  <2>2. CASE p \in Breaks(rs, at)
    <3>1. PICK k \in 1..n : k > 1 /\ m[k].start = p
      BY <2>2 DEF MergedTo
    <3>2. k \in 1..(n + 1) /\ m2[k] = m[k]
      BY <1>1, <1>3
    <3> QED BY <3>1, <3>2
  <2> QED BY <1>10, <2>1, <2>2
<1> QED BY <1>3, <1>6, <1>7, <1>8, <1>9, <1>11, <1>12 DEF MergedTo

(* A step of the gap loop.                                                   *)
LEMMA GapExtends ==
  ASSUME NEW rs \in Seq(TimeRange), IsSorted(rs), NEW e \in Position,
         NEW g \in Seq(TimeRange), NEW at \in 2..Len(rs), GapsTo(rs, g, at, e),
         NEW g2, g2 = IF rs[at].start > e THEN Append(g, Span(e, rs[at].start)) ELSE g
  PROVE  /\ rs[at].start > e <=> IsBreak(rs, at)
         /\ g2 \in Seq(TimeRange)
         /\ Later(e, rs[at].end) \in Position
         /\ GapsTo(rs, g2, at + 1, Later(e, rs[at].end))
<1> DEFINE n == Len(g)
           e2 == Later(e, rs[at].end)
<1>1. /\ Len(rs) \in Nat /\ rs # <<>> /\ at \in 1..Len(rs) /\ n \in Nat
      /\ rs[at] \in TimeRange
      /\ \A k \in 1..n : g[k] \in TimeRange
  BY LenProperties, EmptySeq, ElementOfSeq
<1>2. /\ rs[at].start \in Position /\ rs[at].end \in Position
      /\ rs[at].start \in Nat /\ rs[at].end \in Nat /\ e \in Nat
  BY <1>1, RangeAssumption DEF TimeRange, Position
<1>3. IsReached(rs, e, at)
  BY <1>1 DEF GapsTo
<1>4. rs[at].start > e <=> IsBreak(rs, at)
  BY <1>2, <1>3, BreakIff
<1>5. e2 \in Position /\ IsReached(rs, e2, at + 1)
  BY <1>2, <1>3, ReachedGrows DEF Later
<1>6. at + 1 \in Nat /\ at + 1 >= 2 /\ (at + 1) - 1 <= Len(rs)
  BY <1>1
<1>7. CASE ~IsBreak(rs, at)
  <2>1. g2 = g /\ Breaks(rs, at + 1) = Breaks(rs, at)
    BY <1>4, <1>7, BreaksGrow
  <2>2. GapsTo(rs, g, at + 1, e2)
    BY <1>1, <1>5, <1>6, <2>1 DEF GapsTo
  <2> QED BY <1>4, <1>5, <2>1, <2>2
<1>8. CASE IsBreak(rs, at)
  <2> DEFINE p == rs[at].start
  <2>1. Breaks(rs, at + 1) = Breaks(rs, at) \cup {p}
    BY <1>8, BreaksGrow
  <2>2. Span(e, p) \in TimeRange /\ Span(e, p).start = e /\ Span(e, p).end = p
    BY <1>2, <1>4, <1>8, SpanIsRange DEF Span
  <2>3. /\ g2 \in Seq(TimeRange) /\ Len(g2) = n + 1
        /\ \A k \in 1..n : g2[k] = g[k]
        /\ g2[n + 1] = Span(e, p)
    BY <1>1, <1>4, <1>8, <2>2
  <2>4. \A k \in 1..(n + 1) : k \in 1..n \/ k = n + 1
    BY <1>1
  <2>5. \A k \in 1..n : k \in 1..(n + 1)
    BY <1>1
  <2>6. \A k \in 1..Len(g2) : g2[k].end \in Breaks(rs, at + 1) /\ IsTop(rs, g2[k].start, g2[k].end)
    <3>1. IsTop(rs, e, p)
      BY <1>2, <1>3, <1>8, TopAtBreak
    <3>2. \A k \in 1..n : g[k].end \in Breaks(rs, at) /\ IsTop(rs, g[k].start, g[k].end)
      BY DEF GapsTo
    <3> QED BY <2>1, <2>2, <2>3, <2>4, <3>1, <3>2
  <2>7. \A q \in Breaks(rs, at + 1) : \E k \in 1..Len(g2) : g2[k].end = q
    <3>1. \A q \in Breaks(rs, at) : \E k \in 1..n : g[k].end = q
      BY DEF GapsTo
    <3>2. n + 1 \in 1..(n + 1)
      BY <1>1
    <3> QED BY <2>1, <2>2, <2>3, <2>5, <3>1, <3>2
  <2>8. \A j, k \in 1..Len(g2) : j < k => g2[j].end < g2[k].end
    <3>1. \A j, k \in 1..n : j < k => g[j].end < g[k].end
      BY DEF GapsTo
    <3>2. \A j \in 1..n : g[j].end < p
      BY <1>8, BreakAbove DEF GapsTo
    <3>3. \A j, k \in 1..(n + 1) : j < k => j \in 1..n
      BY <1>1
    <3> QED BY <2>2, <2>3, <2>4, <3>1, <3>2, <3>3
  <2>9. GapsTo(rs, g2, at + 1, e2)
    BY <1>1, <1>5, <1>6, <2>6, <2>7, <2>8 DEF GapsTo
  <2> QED BY <1>4, <1>5, <1>8, <2>3, <2>9
<1> QED BY <1>7, <1>8

LEMMA IntervalSize ==
  ASSUME NEW a \in Nat, NEW b \in Nat, a < b
  PROVE  IsFiniteSet(a..(b - 1)) /\ Cardinality(a..(b - 1)) = b - a
<1>1. a \in Int /\ b - 1 \in Int /\ ~(a > b - 1) /\ (b - 1) - a + 1 = b - a
  OBVIOUS
<1> QED BY <1>1, FS_Interval

(* A step of total_coverage: separate ranges share no frame.                 *)
LEMMA CountExtends ==
  ASSUME NEW m \in Seq(TimeRange), NEW at \in 1..Len(m), NEW n \in Nat, CountedTo(m, at, n),
         \A j, k \in 1..Len(m) : j < k => m[j].end < m[k].start
  PROVE  /\ m[at].end - m[at].start \in Nat
         /\ CountedTo(m, at + 1, n + (m[at].end - m[at].start))
<1> DEFINE S == CoveredTo(m, at - 1)
           T == FramesOf(m[at])
<1>1. /\ Len(m) \in Nat /\ at + 1 \in 1..(Len(m) + 1)
      /\ \A k \in 1..Len(m) : m[k].start \in Nat /\ m[k].end \in Nat /\ m[k].start < m[k].end
  BY LenProperties, ElementOfSeq, RangeFields
<1>2. CoveredTo(m, (at + 1) - 1) = S \cup T
  <2>1. \A k : k \in 1..((at + 1) - 1) <=> k \in 1..(at - 1) \/ k = at
    BY <1>1
  <2> QED BY <2>1 DEF CoveredTo
<1>3. S \cap T = {}
  <2>1. \A k \in 1..(at - 1) : k \in 1..Len(m) /\ m[k].end < m[at].start
    BY <1>1
  <2>2. \A k \in 1..(at - 1) : FramesOf(m[k]) \cap T = {}
    BY <1>1, <2>1 DEF FramesOf
  <2> QED BY <2>2 DEF CoveredTo
<1>4. IsFiniteSet(T) /\ Cardinality(T) = m[at].end - m[at].start
  <2>1. m[at].start \in Nat /\ m[at].end \in Nat /\ m[at].start < m[at].end
    BY <1>1
  <2>2. T = m[at].start..(m[at].end - 1)
    BY Zenon DEF FramesOf
  <2>3. /\ IsFiniteSet(m[at].start..(m[at].end - 1))
        /\ Cardinality(m[at].start..(m[at].end - 1)) = m[at].end - m[at].start
    BY <2>1, IntervalSize, Zenon
  <2> QED BY <2>2, <2>3, Zenon
<1>5. IsFiniteSet(S) /\ n = Cardinality(S)
  BY DEF CountedTo
<1>6. /\ IsFiniteSet(S \cup T)
      /\ Cardinality(S \cup T) = Cardinality(S) + Cardinality(T) - Cardinality(S \cap T)
  BY <1>4, <1>5, FS_Union
<1>7. Cardinality(S \cap T) = 0
  BY <1>3, FS_EmptySet
<1>8. Cardinality(S \cup T) = n + (m[at].end - m[at].start)
  BY <1>1, <1>4, <1>5, <1>6, <1>7
<1>9. m[at].end - m[at].start \in Nat
  BY <1>1
<1>10. CountedTo(m, at + 1, n + (m[at].end - m[at].start))
  BY <1>1, <1>2, <1>6, <1>8, Zenon DEF CountedTo
<1> QED BY <1>9, <1>10

LEMMA RangeStarts == RangeInit => RangeInv
<1> SUFFICES ASSUME RangeInit PROVE RangeInv
  OBVIOUS
<1>1. PICK n \in 0..MaxRanges : ranges \in [1..n -> TimeRange]
  BY DEF RangeInit
<1>2. n \in Nat /\ ranges \in Seq(TimeRange) /\ Len(ranges) = n
  BY <1>1, RangeAssumption
<1>3. /\ IsSorted(ranges) /\ mergeAt = 2 /\ gaps = <<>> /\ gapAt = 2 /\ total = 0 /\ sumAt = 1
  BY DEF RangeInit, IsSorted
<1>4. /\ gaps \in Seq(TimeRange) /\ Len(gaps) = 0 /\ 0 \in Position
  BY <1>3, RangeAssumption DEF Position
<1>5. Breaks(ranges, 2) = {}
  BY <1>2 DEF Breaks
<1>6. CASE n = 0
  <2>1. ranges = <<>> /\ merged = <<>> /\ reached = 0
    BY <1>2, <1>6, EmptySeq DEF RangeInit
  <2>2. merged \in Seq(TimeRange) /\ Len(merged) = 0 /\ Len(ranges) = 0
    BY <2>1
  <2>3. RangeTypeOK
    BY <1>2, <1>3, <1>4, <2>1, <2>2 DEF RangeTypeOK
  <2>4. MergedTo(ranges, merged, mergeAt)
    BY <1>3, <1>5, <2>1, <2>2 DEF MergedTo
  <2>5. GapsTo(ranges, gaps, gapAt, reached)
    BY <1>3, <1>4, <1>5, <2>1 DEF GapsTo
  <2>6. CoveredTo(merged, 1 - 1) = {}
    BY DEF CoveredTo
  <2>7. CountedTo(merged, sumAt, total)
    BY <1>3, <2>2, <2>6, FS_EmptySet DEF CountedTo
  <2> QED BY <1>3, <1>4, <2>3, <2>4, <2>5, <2>7 DEF RangeInv, Together
<1>7. CASE n # 0
  <2>1. merged = <<ranges[1]>> /\ reached = ranges[1].end /\ ranges # <<>>
    BY <1>2, <1>7 DEF RangeInit
  <2>2. ranges[1] \in TimeRange /\ 1 \in 1..Len(ranges) /\ ranges[1].end \in Position
    BY <1>2, <1>7, ElementOfSeq DEF TimeRange
  <2>3. merged \in Seq(TimeRange) /\ Len(merged) = 1 /\ merged[1] = ranges[1] /\ merged # <<>>
    BY <2>1, <2>2
  <2>4. RangeTypeOK
    BY <1>2, <1>3, <1>4, <2>1, <2>2, <2>3 DEF RangeTypeOK
  <2>5. ranges[1].start \in Nat /\ ranges[1].end \in Nat
    BY <2>2, RangeFields
  <2>6. \A k \in 1..Len(ranges) : k < 2 <=> k = 1
    BY <1>2
  <2>7. IsReached(ranges, ranges[1].end, 2)
    BY <2>2, <2>5, <2>6 DEF IsReached
  <2>8. MergedTo(ranges, merged, mergeAt)
    <3>1. /\ mergeAt \in Nat /\ mergeAt >= 2 /\ mergeAt - 1 <= Len(ranges) /\ mergeAt - 1 = 1
      BY <1>2, <1>3, <1>7
    <3>2. merged[Len(merged)].start <= ranges[mergeAt - 1].start
      BY <2>3, <2>5, <3>1
    <3>3. IsReached(ranges, merged[Len(merged)].end, mergeAt)
      BY <1>3, <2>3, <2>7
    <3>4. \A j, k \in 1..Len(merged) : ~(j < k) /\ ~(k > 1)
      BY <2>3
    <3>5. \A f : (\E k \in 1..Len(merged) : f \in FramesOf(merged[k]))
                 <=> (\E k \in 1..Len(ranges) : k < mergeAt /\ f \in FramesOf(ranges[k]))
      BY <1>3, <2>2, <2>3, <2>6
    <3> QED BY <1>3, <1>5, <2>1, <2>3, <3>1, <3>2, <3>3, <3>4, <3>5 DEF MergedTo
  <2>9. GapsTo(ranges, gaps, gapAt, reached)
    BY <1>2, <1>3, <1>4, <1>5, <1>7, <2>1, <2>7 DEF GapsTo
  <2>10. CoveredTo(merged, 1 - 1) = {}
    BY DEF CoveredTo
  <2>11. CountedTo(merged, sumAt, total)
    <3>1. sumAt \in 1..(Len(merged) + 1) /\ sumAt - 1 = 1 - 1
      BY <1>3, <2>3
    <3> QED BY <1>3, <2>10, <3>1, FS_EmptySet, Zenon DEF CountedTo
  <2> QED BY <1>3, <1>4, <2>4, <2>8, <2>9, <2>11 DEF RangeInv, Together
<1> QED BY <1>6, <1>7

LEMMA RangeSteps == RangeInv /\ [RangeNext]_rangeVars => RangeInv'
<1> SUFFICES ASSUME RangeInv, [RangeNext]_rangeVars PROVE RangeInv'
  OBVIOUS
<1> USE DEF RangeInv
<1>0. /\ ranges \in Seq(TimeRange) /\ merged \in Seq(TimeRange) /\ gaps \in Seq(TimeRange)
      /\ mergeAt \in Nat /\ gapAt \in Nat /\ reached \in Position /\ total \in Nat /\ sumAt \in Nat
      /\ Len(ranges) \in Nat /\ Len(merged) \in Nat /\ Len(gaps) \in Nat
      /\ mergeAt >= 2 /\ gapAt >= 2
  BY LenProperties DEF RangeTypeOK, MergedTo, GapsTo
<1>1. CASE MergeStep
  <2>1. /\ mergeAt \in 2..Len(ranges) /\ mergeAt' = mergeAt + 1 /\ ~Merged /\ sumAt = 1
        /\ UNCHANGED <<ranges, gaps, gapAt, reached, total, sumAt>>
    BY <1>0, <1>1 DEF MergeStep, Merged
  <2>2. /\ Len(merged) \in 1..Len(merged)
        /\ Contiguous(merged[Len(merged)], ranges[mergeAt]) <=> ~IsBreak(ranges, mergeAt)
    BY <1>0, <2>1, LastMerged
  <2>3. /\ merged' \in Seq(TimeRange) /\ MergedTo(ranges, merged', mergeAt + 1)
        /\ Len(merged') >= 1 /\ Len(merged') \in Nat
        /\ Together(merged', gaps)
    <3>1. CASE ~IsBreak(ranges, mergeAt)
      <4>1. merged' = [merged EXCEPT ![Len(merged)] = Hull(merged[Len(merged)], ranges[mergeAt])]
        BY <1>1, <2>2, <3>1 DEF MergeStep
      <4>2. /\ merged' \in Seq(TimeRange) /\ Len(merged') = Len(merged)
            /\ \A k \in 1..Len(merged) : merged'[k].start = merged[k].start
            /\ MergedTo(ranges, merged', mergeAt + 1)
        <5>1. \A x : x = [merged EXCEPT ![Len(merged)] = Hull(merged[Len(merged)], ranges[mergeAt])] =>
                /\ x \in Seq(TimeRange) /\ Len(x) = Len(merged)
                /\ \A k \in 1..Len(merged) : x[k].start = merged[k].start
                /\ MergedTo(ranges, x, mergeAt + 1)
          BY <1>0, <2>1, <3>1, MergeExtends
        <5> QED BY <4>1, <5>1
      <4>3. \A k \in 1..Len(gaps) : k + 1 <= Len(merged) => k + 1 \in 1..Len(merged)
        BY <1>0
      <4> QED BY <1>0, <2>2, <4>2, <4>3 DEF Together
    <3>2. CASE IsBreak(ranges, mergeAt)
      <4>1. merged' = Append(merged, ranges[mergeAt])
        BY <1>1, <2>2, <3>2 DEF MergeStep
      <4>2. /\ merged' \in Seq(TimeRange) /\ Len(merged') = Len(merged) + 1
            /\ \A k \in 1..Len(merged) : merged'[k] = merged[k]
            /\ merged'[Len(merged) + 1] = ranges[mergeAt]
            /\ MergedTo(ranges, merged', mergeAt + 1)
        <5>1. \A x : x = Append(merged, ranges[mergeAt]) =>
                /\ x \in Seq(TimeRange) /\ Len(x) = Len(merged) + 1
                /\ \A k \in 1..Len(merged) : x[k] = merged[k]
                /\ x[Len(merged) + 1] = ranges[mergeAt]
                /\ MergedTo(ranges, x, mergeAt + 1)
          BY <1>0, <2>1, <3>2, MergeAppends
        <5> QED BY <4>1, <5>1
      <4>3. Len(merged) <= Len(gaps) => gaps[Len(merged)].end = ranges[mergeAt].start
        BY <1>0, <2>1, <2>2, <3>2, MergeMeetsGap
      <4>4. ASSUME NEW k \in 1..Len(gaps), k + 1 <= Len(merged')
            PROVE  gaps[k].end = merged'[k + 1].start
        <5>1. CASE k = Len(merged)
          BY <4>2, <4>3, <5>1
        <5>2. CASE k # Len(merged)
          <6>1. k + 1 \in 1..Len(merged) /\ k + 1 <= Len(merged)
            BY <1>0, <4>2, <4>4, <5>2
          <6> QED BY <4>2, <6>1 DEF Together
        <5> QED BY <5>1, <5>2
      <4> QED BY <1>0, <4>2, <4>4 DEF Together
    <3> QED BY <3>1, <3>2
  <2>4. CountedTo(merged', 1, total)
    <3>1. CoveredTo(merged', 1 - 1) = {} /\ CoveredTo(merged, 1 - 1) = {}
      BY DEF CoveredTo
    <3>2. CountedTo(merged, 1, total)
      BY <2>1
    <3>3. IsFiniteSet({}) /\ total = Cardinality({})
      BY <3>1, <3>2 DEF CountedTo
    <3>4. 1 \in 1..(Len(merged') + 1)
      BY <2>3
    <3> QED BY <3>1, <3>3, <3>4, Zenon DEF CountedTo
  <2> QED BY <1>0, <2>1, <2>3, <2>4 DEF RangeTypeOK
<1>2. CASE GapStep
  <2>1. /\ gapAt \in 2..Len(ranges) /\ gapAt' = gapAt + 1
        /\ UNCHANGED <<ranges, merged, mergeAt, total, sumAt>>
        /\ reached' = Later(reached, ranges[gapAt].end)
        /\ gaps' = IF ranges[gapAt].start > reached
                   THEN Append(gaps, Span(reached, ranges[gapAt].start)) ELSE gaps
    BY <1>0, <1>2 DEF GapStep
  <2>2. /\ ranges[gapAt].start > reached <=> IsBreak(ranges, gapAt)
        /\ gaps' \in Seq(TimeRange)
        /\ reached' \in Position
        /\ GapsTo(ranges, gaps', gapAt + 1, reached')
    BY <1>0, <2>1, GapExtends
  <2>3. Together(merged, gaps')
    <3>1. CASE ~IsBreak(ranges, gapAt)
      BY <2>1, <2>2, <3>1
    <3>2. CASE IsBreak(ranges, gapAt)
      <4>1. gaps' = Append(gaps, Span(reached, ranges[gapAt].start))
        BY <2>1, <2>2, <3>2
      <4>2. /\ reached \in Position /\ ranges[gapAt].start \in Position
            /\ reached < ranges[gapAt].start
        <5>1. ranges[gapAt] \in TimeRange
          BY <1>0, <2>1, ElementOfSeq
        <5> QED BY <1>0, <2>2, <3>2, <5>1, RangeAssumption DEF TimeRange, Position
      <4>3. Span(reached, ranges[gapAt].start) \in TimeRange
        BY <4>2, SpanIsRange
      <4>4. /\ Len(gaps') = Len(gaps) + 1
            /\ \A k \in 1..Len(gaps) : gaps'[k] = gaps[k]
            /\ gaps'[Len(gaps) + 1].end = ranges[gapAt].start
        BY <1>0, <4>1, <4>3 DEF Span
      <4>5. Len(gaps) + 2 <= Len(merged) => merged[Len(gaps) + 2].start = ranges[gapAt].start
        BY <1>0, <2>1, <3>2, GapMeetsMerge
      <4>6. ASSUME NEW k \in 1..Len(gaps'), k + 1 <= Len(merged)
            PROVE  gaps'[k].end = merged[k + 1].start
        <5>1. CASE k \in 1..Len(gaps)
          BY <4>4, <4>6, <5>1 DEF Together
        <5>2. CASE k = Len(gaps) + 1
          BY <1>0, <4>4, <4>5, <4>6, <5>2
        <5> QED BY <1>0, <4>4, <5>1, <5>2
      <4> QED BY <4>6 DEF Together
    <3> QED BY <3>1, <3>2
  <2> QED BY <1>0, <2>1, <2>2, <2>3 DEF RangeTypeOK, Merged
<1>3. CASE SumStep
  <2>1. /\ Merged /\ sumAt \in 1..Len(merged) /\ sumAt' = sumAt + 1
        /\ total' = total + (merged[sumAt].end - merged[sumAt].start)
        /\ UNCHANGED <<ranges, merged, mergeAt, gaps, gapAt, reached>>
    BY <1>0, <1>3 DEF SumStep, Merged, CountedTo
  <2>2. /\ merged[sumAt].end - merged[sumAt].start \in Nat
        /\ CountedTo(merged, sumAt + 1, total + (merged[sumAt].end - merged[sumAt].start))
    BY <1>0, <2>1, CountExtends DEF MergedTo
  <2> QED BY <1>0, <2>1, <2>2 DEF RangeTypeOK, Merged
<1>4. CASE UNCHANGED rangeVars
  BY <1>0, <1>4 DEF rangeVars, RangeTypeOK, Merged
<1> QED BY <1>1, <1>2, <1>3, <1>4 DEF RangeNext

LEMMA MergedIsExact == RangeInv => MergeIsExact
<1> SUFFICES ASSUME RangeInv, Merged PROVE MergeIsExact
  BY DEF MergeIsExact
<1>1. /\ ranges \in Seq(TimeRange) /\ merged \in Seq(TimeRange) /\ MergedTo(ranges, merged, mergeAt)
      /\ mergeAt \in Nat /\ Len(ranges) \in Nat /\ Len(merged) \in Nat
  BY LenProperties DEF RangeInv, RangeTypeOK
<1>2. \A k \in 1..Len(ranges) : k < mergeAt
  BY <1>1 DEF Merged
<1>3. \A r \in TimeRange : FramesOf(r) \subseteq Position
  BY RangeFields, RangeAssumption DEF FramesOf, Position
<1>4. Covered(merged) \subseteq Position /\ Covered(ranges) \subseteq Position
  BY <1>1, <1>3, ElementOfSeq DEF Covered, CoveredTo
<1>5. \A f \in Position : f \in Covered(merged) <=> f \in Covered(ranges)
  BY <1>1, <1>2 DEF MergedTo, Covered, CoveredTo
<1>6. ASSUME NEW k \in 1..(Len(merged) - 1)
      PROVE  merged[k].end < merged[k + 1].start
  <2>1. k \in 1..Len(merged) /\ k + 1 \in 1..Len(merged) /\ k < k + 1
    BY <1>1
  <2> QED BY <1>1, <2>1 DEF MergedTo
<1> QED BY <1>4, <1>5, <1>6 DEF MergeIsExact

LEMMA GapsFit == RangeInv => GapsFitMerged
<1> SUFFICES ASSUME RangeInv, Merged, GapsFound PROVE GapsFitMerged
  BY DEF GapsFitMerged
<1> USE DEF RangeInv
<1>1. /\ ranges \in Seq(TimeRange) /\ merged \in Seq(TimeRange) /\ gaps \in Seq(TimeRange)
      /\ MergedTo(ranges, merged, mergeAt) /\ GapsTo(ranges, gaps, gapAt, reached)
      /\ mergeAt \in Nat /\ gapAt \in Nat
      /\ Len(ranges) \in Nat /\ Len(merged) \in Nat /\ Len(gaps) \in Nat
      /\ \A k \in 1..Len(merged) : /\ merged[k].start \in Nat /\ merged[k].end \in Nat
                                   /\ merged[k].start < merged[k].end
      /\ \A k \in 1..Len(gaps) : gaps[k].start \in Nat /\ gaps[k].end \in Nat
  BY LenProperties, ElementOfSeq, RangeFields DEF RangeTypeOK
<1>2. Breaks(ranges, mergeAt) = Breaks(ranges, gapAt)
  BY <1>1 DEF Breaks, Merged, GapsFound
<1>3. CASE Len(ranges) = 0
  <2>1. ranges = <<>> /\ mergeAt = 2 /\ gapAt = 2 /\ merged = <<>>
    BY <1>1, <1>3, EmptySeq DEF MergedTo, GapsTo
  <2>2. Breaks(ranges, gapAt) = {}
    BY <1>1, <2>1 DEF Breaks
  <2>3. Len(gaps) = 0
    BY <1>1, <2>2 DEF GapsTo
  <2> QED BY <1>3, <2>3 DEF GapsFitMerged
<1>4. CASE Len(ranges) # 0
  <2>1. Len(merged) >= 1
    BY <1>1, <1>4, EmptySeq DEF MergedTo
  <2>2. ~(Len(gaps) + 2 <= Len(merged))
    <3> SUFFICES ASSUME Len(gaps) + 2 <= Len(merged) PROVE FALSE
      OBVIOUS
    <3>1. Len(gaps) + 2 \in 1..Len(merged) /\ Len(gaps) + 2 > 1
      BY <1>1
    <3>2. merged[Len(gaps) + 2].start \in Breaks(ranges, gapAt)
      BY <1>1, <1>2, <3>1 DEF MergedTo
    <3>3. PICK i \in 1..Len(gaps) : gaps[i].end = merged[Len(gaps) + 2].start
      BY <1>1, <3>2 DEF GapsTo
    <3>4. i + 1 \in 1..Len(merged) /\ i + 1 < Len(gaps) + 2 /\ i + 1 <= Len(merged)
      BY <1>1
    <3>5. gaps[i].end = merged[i + 1].start
      BY <3>4 DEF Together
    <3>6. merged[i + 1].end < merged[Len(gaps) + 2].start
      BY <1>1, <3>1, <3>4 DEF MergedTo
    <3> QED BY <1>1, <3>1, <3>3, <3>4, <3>5, <3>6
  <2>3. ~(Len(merged) <= Len(gaps))
    <3> SUFFICES ASSUME Len(merged) <= Len(gaps) PROVE FALSE
      OBVIOUS
    <3> DEFINE n == Len(merged)
    <3>1. n \in 1..Len(gaps)
      BY <1>1, <2>1
    <3>2. gaps[n].end \in Breaks(ranges, mergeAt)
      BY <1>1, <1>2, <3>1 DEF GapsTo
    <3>3. PICK i \in 1..n : i > 1 /\ merged[i].start = gaps[n].end
      BY <1>1, <3>2 DEF MergedTo
    <3>4. i - 1 \in 1..Len(gaps) /\ i - 1 < n /\ (i - 1) + 1 = i /\ (i - 1) + 1 <= n
      BY <1>1, <3>1, <3>3
    <3>5. gaps[i - 1].end = merged[i].start
      BY <3>4 DEF Together
    <3>6. gaps[i - 1].end < gaps[n].end
      BY <1>1, <3>1, <3>4 DEF GapsTo
    <3> QED BY <1>1, <3>1, <3>3, <3>5, <3>6
  <2>4. Len(gaps) = Len(merged) - 1
    BY <1>1, <2>2, <2>3
  <2>5. ASSUME NEW k \in 1..Len(gaps)
        PROVE  gaps[k] = Span(merged[k].end, merged[k + 1].start)
    <3>1. k \in 1..Len(merged) /\ k + 1 \in 1..Len(merged) /\ k + 1 <= Len(merged) /\ k + 1 > 1
          /\ (k + 1) - 1 = k
      BY <1>1, <2>4
    <3>2. gaps[k].end = merged[k + 1].start
      BY <3>1 DEF Together
    <3>3. IsTop(ranges, gaps[k].start, gaps[k].end) /\ IsTop(ranges, merged[k].end, gaps[k].end)
      BY <1>1, <3>1, <3>2 DEF MergedTo, GapsTo
    <3>4. gaps[k].start = merged[k].end
      BY <1>1, <3>1, <3>3, TopUnique
    <3>5. gaps[k] = Span(gaps[k].start, gaps[k].end)
      BY <1>1, RangeIsSpan, ElementOfSeq
    <3> QED BY <3>2, <3>4, <3>5
  <2> QED BY <1>4, <2>4, <2>5 DEF GapsFitMerged
<1> QED BY <1>3, <1>4

(* However many ranges there are and wherever they lie, merge_ranges loses   *)
(* and invents no frame and is minimal, find_gaps agrees with it,            *)
(* total_coverage counts each frame once, and the operations on two ranges   *)
(* are those on sets of frames.                                              *)
THEOREM Ranges == RangeSpec => []RangesAreSets
<1>1. RangeInv => RangesAreSets
  <2> SUFFICES ASSUME RangeInv PROVE RangesAreSets
    OBVIOUS
  <2>1. RangeTypeOK
    BY DEF RangeInv
  <2>2. MergeIsExact /\ GapsFitMerged
    BY MergedIsExact, GapsFit
  <2>3. CountsFramesOnce
    <3> SUFFICES ASSUME Merged, sumAt > Len(merged) PROVE total = Cardinality(Covered(ranges))
      BY DEF CountsFramesOnce
    <3>1. sumAt - 1 = Len(merged)
      BY <2>1, LenProperties DEF RangeInv, RangeTypeOK, CountedTo
    <3>2. total = Cardinality(Covered(merged))
      BY <3>1 DEF RangeInv, CountedTo, Covered
    <3> QED BY <2>2, <3>2 DEF MergeIsExact
  <2>4. PairsAreSets
    BY <2>1, PairsAlgebra, ElementOfSeq DEF PairsAreSets, RangeTypeOK
  <2> QED BY <2>1, <2>2, <2>3, <2>4 DEF RangesAreSets
<1> QED BY <1>1, RangeStarts, RangeSteps, PTL DEF RangeSpec

-----------------------------------------------------------------------------

(* How long clips k and k + 1 overlap.                                       *)
OverlapOf(k) == IF k <= Len(transitions) THEN Clamped(transitions[k], clips[k], clips[k + 1]) ELSE 0

(* What the first loop has placed: each clip as long as it was, overlapping  *)
(* its predecessor as was asked, and without a hole between them.            *)
Placed ==
  /\ placed \in Seq(Interval) /\ Len(placed) \in 1..Len(clips)
  /\ \A k \in 1..Len(placed) : placed[k].end - placed[k].start = clips[k]
  /\ \A k \in 1..(Len(placed) - 1) : placed[k + 1].start = placed[k].end - OverlapOf(k)
  /\ \A j, k \in 1..Len(placed) : j <= k => /\ placed[j].start <= placed[k].start
                                            /\ placed[j].end <= placed[k].end
  /\ \A t \in Nat : placed[1].start <= t /\ t < placed[Len(placed)].end
                      => \E k \in 1..Len(placed) : placed[k].start <= t /\ t < placed[k].end

(* What the second has cut: from boundary to boundary, with none in between. *)
EdgeAt == IF segments = <<>> THEN placed[1].start ELSE segments[Len(segments)].end
Cut ==
  /\ segments \in Seq([start : Tick, end : Tick, frames : Nat, cost : Nat])
  /\ ~Positioned => segments = <<>> /\ fades = <<>>
  /\ EdgeAt \in Boundaries
  /\ \A k \in 1..Len(segments) :
       LET s == segments[k] IN
         /\ s.start \in Boundaries /\ s.end \in Boundaries /\ s.start < s.end
         /\ \A b \in Boundaries : b <= s.start \/ s.end <= b
  /\ \A k \in 1..(Len(segments) - 1) : segments[k].end = segments[k + 1].start
  /\ segments # <<>> => segments[1].start = placed[1].start
  /\ totalFrames \in Nat
  /\ 2 * (totalFrames * FrameTicks - (EdgeAt - placed[1].start)) <= FrameTicks * Len(segments)
  /\ -(FrameTicks * Len(segments)) <= 2 * (totalFrames * FrameTicks - (EdgeAt - placed[1].start))

(* What the third has chained.                                               *)
Chained ==
  /\ fades \in Seq([lasts : Nat, offset : Nat]) /\ chained \in Nat
  /\ Len(fades) = 0 \/ Len(fades) <= Fadable
  /\ fades = <<>> => chained = clips[1]
  /\ FadesFollowPositions

PlanInv ==
  /\ clips \in Seq(Nat \ {0}) /\ transitions \in Seq(Nat)
  /\ Placed /\ Cut /\ Chained

LEMMA ClampedBounds ==
  ASSUME NEW w \in Nat, NEW a \in Nat, NEW b \in Nat
  PROVE  /\ Clamped(w, a, b) \in Nat /\ Clamped(w, a, b) <= w
         /\ Clamped(w, a, b) <= a /\ Clamped(w, a, b) <= b
         /\ Clamped(w, a, b) = w \/ Clamped(w, a, b) = a \/ Clamped(w, a, b) = b
<1> QED BY DEF Clamped, Lesser

(* Each segment is within half a frame of what it lasts.                     *)
LEMMA RoundedBounds ==
  ASSUME NEW t \in Nat
  PROVE  /\ Rounded(t) \in Nat
         /\ 2 * (Rounded(t) * FrameTicks - t) <= FrameTicks
         /\ -FrameTicks <= 2 * (Rounded(t) * FrameTicks - t)
<1> DEFINE F == FrameTicks
           x == 2 * t + F
           q == x \div (2 * F)
<1>1. F \in Nat /\ F > 0 /\ x \in Nat /\ 2 * F \in Nat /\ 2 * F > 0
  BY PlanAssumption
<1>2. q \in Int /\ x = (2 * F) * q + (x % (2 * F)) /\ 0 <= x % (2 * F) /\ x % (2 * F) < 2 * F
  BY <1>1
<1> QED BY <1>1, <1>2 DEF Rounded

LEMMA Products == \A a, b \in Nat : a * b \in Nat
<1> QED OBVIOUS

LEMMA Appending ==
  ASSUME NEW S, NEW seq \in Seq(S), NEW e \in S
  PROVE  /\ Append(seq, e) \in Seq(S) /\ Len(Append(seq, e)) = Len(seq) + 1
         /\ Append(seq, e) # <<>>
         /\ \A k \in 1..Len(seq) : Append(seq, e)[k] = seq[k]
         /\ Append(seq, e)[Len(seq) + 1] = e
<1>1. Append(seq, e) \in Seq(S) /\ Len(Append(seq, e)) = Len(seq) + 1 /\ Len(seq) \in Nat
  BY AppendProperties, LenProperties
<1>2. Append(seq, e) # <<>>
  BY <1>1, EmptySeq
<1> QED BY <1>1, <1>2, AppendProperties

(* What the error of one more segment adds to that of the segments before.   *)
LEMMA ErrorsAdd ==
  ASSUME NEW sum \in Nat, NEW more \in Nat, NEW bound \in Nat, NEW F \in Nat,
         NEW p \in Nat, NEW e \in Nat, NEW b \in Nat,
         2 * (sum - (e - p)) <= bound, -bound <= 2 * (sum - (e - p)),
         2 * (more - (b - e)) <= F, -F <= 2 * (more - (b - e))
  PROVE  /\ 2 * (sum + more - (b - p)) <= bound + F
         /\ -(bound + F) <= 2 * (sum + more - (b - p))
<1> QED OBVIOUS

(* A clip that overlaps its predecessor by o.                                *)
LEMMA OverlapAlgebra ==
  ASSUME NEW s \in Nat, NEW e \in Nat, NEW c \in Nat, NEW d \in Nat, NEW o \in Nat,
         e - s = c, o <= c, o <= d
  PROVE  /\ e - o \in Nat /\ e - o + d \in Nat /\ s <= e - o /\ e - o <= e /\ e <= e - o + d
         /\ e - o + d - (e - o) = d
<1> QED OBVIOUS

(* The facts about the positions that the other two loops build on.          *)
LEMMA PlacedFacts ==
  ASSUME PlanInv
  PROVE  /\ Len(placed) \in Nat /\ Len(clips) \in Nat /\ Len(placed) >= 1
         /\ \A k \in 1..Len(placed) : /\ placed[k].start \in Nat /\ placed[k].end \in Nat
                                      /\ placed[k].start < placed[k].end
         /\ \A k \in 1..Len(clips) : clips[k] \in Nat /\ clips[k] > 0
         /\ DOMAIN placed = 1..Len(placed)
         /\ \A b \in Boundaries : b \in Nat /\ placed[1].start <= b /\ b <= placed[Len(placed)].end
         /\ placed[1].start \in Boundaries /\ placed[Len(placed)].end \in Boundaries
<1>1. /\ Len(placed) \in Nat /\ Len(clips) \in Nat /\ Len(placed) >= 1
      /\ DOMAIN placed = 1..Len(placed) /\ 1 \in 1..Len(placed) /\ Len(placed) \in 1..Len(placed)
  BY LenProperties DEF PlanInv, Placed
<1>2. \A k \in 1..Len(clips) : clips[k] \in Nat /\ clips[k] > 0
  BY ElementOfSeq DEF PlanInv
<1>3. \A k \in 1..Len(placed) : /\ placed[k].start \in Nat /\ placed[k].end \in Nat
                                /\ placed[k].start < placed[k].end
  <2> SUFFICES ASSUME NEW k \in 1..Len(placed)
               PROVE  placed[k].start \in Nat /\ placed[k].end \in Nat /\ placed[k].start < placed[k].end
    OBVIOUS
  <2>1. placed[k] \in Interval
    BY ElementOfSeq DEF PlanInv, Placed
  <2>2. k \in 1..Len(clips)
    BY <1>1 DEF PlanInv, Placed
  <2>3. placed[k].end - placed[k].start = clips[k]
    BY DEF PlanInv, Placed
  <2> QED BY <1>2, <2>1, <2>2, <2>3 DEF Interval, Tick
<1>4. ASSUME NEW b \in Boundaries
      PROVE  b \in Nat /\ placed[1].start <= b /\ b <= placed[Len(placed)].end
  <2>1. PICK k \in 1..Len(placed) : b = placed[k].start \/ b = placed[k].end
    BY <1>1 DEF Boundaries
  <2>2. 1 <= k /\ k <= Len(placed)
    BY <1>1
  <2>3. placed[1].start <= placed[k].start /\ placed[k].end <= placed[Len(placed)].end
    BY <1>1, <2>2 DEF PlanInv, Placed
  <2> QED BY <1>1, <1>3, <2>1, <2>3
<1>5. placed[1].start \in Boundaries /\ placed[Len(placed)].end \in Boundaries
  BY <1>1 DEF Boundaries
<1> QED BY <1>1, <1>2, <1>3, <1>4, <1>5

LEMMA EdgeIsAt ==
  ASSUME PlanInv
  PROVE  Edge = EdgeAt
<1>1. CASE segments = <<>>
  <2>1. \A b \in Boundaries : (\A c \in Boundaries : b <= c) <=> b = placed[1].start
    BY PlacedFacts
  <2>2. placed[1].start \in Boundaries
    BY PlacedFacts
  <2>3. (CHOOSE b \in Boundaries : \A c \in Boundaries : b <= c) = placed[1].start
    BY <2>1, <2>2
  <2> QED BY <1>1, <2>3 DEF Edge, EdgeAt
<1>2. CASE segments # <<>>
  BY <1>2 DEF Edge, EdgeAt
<1> QED BY <1>1, <1>2

LEMMA PlanStarts == PlanInit => PlanInv
<1> SUFFICES ASSUME PlanInit PROVE PlanInv
  OBVIOUS
<1>1. PICK n \in 1..MaxClips, m \in 0..MaxClips :
        clips \in [1..n -> 1..MaxTicks] /\ transitions \in [1..m -> 0..MaxTicks]
  BY DEF PlanInit
<1>2. PICK origin \in 0..1 : placed = <<[start |-> origin, end |-> origin + clips[1]]>>
  BY DEF PlanInit
<1>3. segments = <<>> /\ totalFrames = 0 /\ fades = <<>> /\ chained = clips[1]
  BY DEF PlanInit
<1>4. /\ n \in Nat /\ m \in Nat /\ n >= 1
      /\ clips \in Seq(Nat \ {0}) /\ transitions \in Seq(Nat)
      /\ Len(clips) = n /\ Len(transitions) = m
  <2>1. n \in Nat /\ m \in Nat /\ n >= 1 /\ 1..MaxTicks \subseteq Nat \ {0} /\ 0..MaxTicks \subseteq Nat
    BY PlanAssumption
  <2>2. clips \in [1..n -> Nat \ {0}] /\ transitions \in [1..m -> Nat]
    BY <1>1, <2>1
  <2> QED BY <2>1, <2>2
<1>5. clips[1] \in Nat /\ clips[1] > 0
  BY <1>4, ElementOfSeq
<1>6. /\ [start |-> origin, end |-> origin + clips[1]] \in Interval
      /\ placed \in Seq(Interval) /\ Len(placed) = 1
      /\ placed[1].start = origin /\ placed[1].end = origin + clips[1] /\ origin \in Nat
  BY <1>2, <1>5 DEF Interval, Tick
<1>7. Placed
  BY <1>4, <1>5, <1>6 DEF Placed
<1>8. Cut
  <2>1. segments \in Seq([start : Tick, end : Tick, frames : Nat, cost : Nat]) /\ Len(segments) = 0
    BY <1>3
  <2>2. EdgeAt = placed[1].start
    BY <1>3 DEF EdgeAt
  <2>3. DOMAIN placed = 1..1
    BY <1>6, LenProperties
  <2>4. EdgeAt \in Boundaries
    BY <2>2, <2>3 DEF Boundaries
  <2>5. /\ 2 * (totalFrames * FrameTicks - (EdgeAt - placed[1].start)) = 0
        /\ FrameTicks * Len(segments) = 0
    BY <1>3, <1>6, <2>1, <2>2, PlanAssumption
  <2> QED BY <1>3, <2>1, <2>4, <2>5 DEF Cut
<1>9. Chained
  <2>1. fades \in Seq([lasts : Nat, offset : Nat]) /\ Len(fades) = 0
    BY <1>3
  <2>2. FadesFollowPositions
    BY <1>3, <1>5, <1>6, <2>1 DEF FadesFollowPositions
  <2> QED BY <1>3, <1>5, <2>1, <2>2 DEF Chained
<1> QED BY <1>4, <1>7, <1>8, <1>9 DEF PlanInv

LEMMA OverlapBounds ==
  ASSUME PlanInv, NEW k \in 1..(Len(clips) - 1)
  PROVE  OverlapOf(k) \in Nat /\ OverlapOf(k) <= clips[k] /\ OverlapOf(k) <= clips[k + 1]
<1>1. /\ Len(clips) \in Nat /\ k \in 1..Len(clips) /\ k + 1 \in 1..Len(clips)
      /\ Len(transitions) \in Nat
  BY LenProperties DEF PlanInv
<1>2. clips[k] \in Nat /\ clips[k + 1] \in Nat
  BY <1>1, PlacedFacts
<1>3. CASE k <= Len(transitions)
  <2>1. transitions[k] \in Nat
    BY <1>1, <1>3, ElementOfSeq DEF PlanInv
  <2> QED BY <1>2, <1>3, <2>1, ClampedBounds DEF OverlapOf
<1>4. CASE ~(k <= Len(transitions))
  BY <1>2, <1>4 DEF OverlapOf
<1> QED BY <1>3, <1>4

LEMMA PlaceKeeps == PlanInv /\ PlaceClip => PlanInv'
<1> SUFFICES ASSUME PlanInv, PlaceClip PROVE PlanInv'
  OBVIOUS
<1> DEFINE n == Len(placed)
           start == placed[n].end - OverlapOf(n)
           clip == [start |-> start, end |-> start + clips[n + 1]]
<1>1. /\ n \in Nat /\ n >= 1 /\ Len(clips) \in Nat /\ n < Len(clips)
      /\ n \in 1..n /\ n \in 1..Len(clips) /\ n + 1 \in 1..Len(clips) /\ n \in 1..(Len(clips) - 1)
      /\ UNCHANGED <<clips, transitions, segments, totalFrames, fades, chained>>
  BY PlacedFacts DEF PlaceClip
<1>2. /\ placed[n].start \in Nat /\ placed[n].end \in Nat /\ placed[n].end - placed[n].start = clips[n]
      /\ clips[n] \in Nat /\ clips[n + 1] \in Nat
  BY <1>1, PlacedFacts DEF PlanInv, Placed
<1>3. OverlapOf(n) \in Nat /\ OverlapOf(n) <= clips[n] /\ OverlapOf(n) <= clips[n + 1]
  BY <1>1, OverlapBounds
<1>4. /\ clip \in Interval /\ clip.start = start /\ clip.end = start + clips[n + 1]
      /\ placed[n].start <= start /\ start <= placed[n].end /\ placed[n].end <= clip.end
      /\ clip.end - clip.start = clips[n + 1]
  <2>1. /\ start \in Nat /\ start + clips[n + 1] \in Nat
        /\ placed[n].start <= start /\ start <= placed[n].end
        /\ placed[n].end <= start + clips[n + 1]
        /\ start + clips[n + 1] - start = clips[n + 1]
    <3>1. /\ placed[n].start \in Nat /\ placed[n].end \in Nat /\ clips[n] \in Nat /\ clips[n + 1] \in Nat
          /\ OverlapOf(n) \in Nat /\ placed[n].end - placed[n].start = clips[n]
          /\ OverlapOf(n) <= clips[n] /\ OverlapOf(n) <= clips[n + 1]
      BY <1>2, <1>3
    <3>2. start = placed[n].end - OverlapOf(n)
      OBVIOUS
    <3> HIDE DEF n, start
    <3>3. start \in Nat /\ start + clips[n + 1] \in Nat
      BY <3>1, <3>2
    <3>4. placed[n].start <= start /\ start <= placed[n].end
      BY <3>1, <3>2
    <3>5. placed[n].end <= start + clips[n + 1]
      BY <3>1, <3>2
    <3>6. start + clips[n + 1] - start = clips[n + 1]
      BY <3>1, <3>3
    <3> QED BY <3>3, <3>4, <3>5, <3>6
  <2>2. clip.start = start /\ clip.end = start + clips[n + 1]
    OBVIOUS
  <2> HIDE DEF start
  <2>3. clip \in Interval
    BY <2>1 DEF Interval, Tick
  <2> HIDE DEF clip
  <2>4. placed[n].end <= clip.end
    BY <2>1, <2>2, Zenon
  <2>5. \A x, y \in Nat : x = start + clips[n + 1] /\ y = start => x - y = clips[n + 1]
    BY <1>2, <2>1
  <2>6. clip.end - clip.start = clips[n + 1]
    <3>1. clip.end \in Nat /\ clip.start \in Nat
      BY <2>1, <2>2, Zenon
    <3> QED BY <2>2, <2>5, <3>1, Zenon
  <2> QED BY <2>1, <2>2, <2>3, <2>4, <2>6
<1>5. placed' = Append(placed, clip)
  BY <1>2 DEF PlaceClip, OverlapOf
<1>6. /\ placed' \in Seq(Interval) /\ Len(placed') = n + 1
      /\ \A k \in 1..n : placed'[k] = placed[k]
      /\ placed'[n + 1] = clip
  BY <1>1, <1>4, <1>5 DEF PlanInv, Placed
<1>7. \A k \in 1..(n + 1) : k \in 1..n \/ k = n + 1
  BY <1>1
<1>8. Placed'
  <2>1. Len(placed') \in 1..Len(clips')
    BY <1>1, <1>6
  <2>2. \A k \in 1..Len(placed') : placed'[k].end - placed'[k].start = clips'[k]
    BY <1>1, <1>4, <1>6, <1>7 DEF PlanInv, Placed
  <2>3. ASSUME NEW k \in 1..(Len(placed') - 1)
        PROVE  placed'[k + 1].start = placed'[k].end - OverlapOf(k)'
    <3>1. OverlapOf(k)' = OverlapOf(k)
      BY <1>1 DEF OverlapOf
    <3>2. k \in 1..n
      BY <1>1, <1>6
    <3>3. CASE k = n
      BY <1>1, <1>4, <1>6, <3>1, <3>3
    <3>4. CASE k # n
      <4>1. k \in 1..(n - 1) /\ k + 1 \in 1..n
        BY <1>1, <3>2, <3>4
      <4>2. placed[k + 1].start = placed[k].end - OverlapOf(k)
        BY <4>1 DEF PlanInv, Placed
      <4> QED BY <1>6, <3>1, <3>2, <4>1, <4>2
    <3> QED BY <3>3, <3>4
  <2>4. ASSUME NEW j \in 1..Len(placed'), NEW k \in 1..Len(placed'), j <= k
        PROVE  placed'[j].start <= placed'[k].start /\ placed'[j].end <= placed'[k].end
    <3>1. CASE k \in 1..n
      <4>1. j \in 1..n
        BY <1>1, <2>4, <3>1
      <4> QED BY <1>6, <2>4, <3>1, <4>1 DEF PlanInv, Placed
    <3>2. CASE k = n + 1
      <4>1. CASE j = n + 1
        <5>1. clip.start <= clip.start /\ clip.end <= clip.end
          BY <1>4 DEF Interval, Tick
        <5> QED BY <1>6, <3>2, <4>1, <5>1
      <4>2. CASE j \in 1..n
        <5>1. j <= n /\ placed[j].start \in Nat /\ placed[j].end \in Nat
          BY <1>1, <4>2, PlacedFacts
        <5>2. placed[j].start <= placed[n].start /\ placed[j].end <= placed[n].end
          BY <1>1, <4>2, <5>1 DEF PlanInv, Placed
        <5>3. clip.start \in Nat /\ clip.end \in Nat
          BY <1>4 DEF Interval, Tick
        <5> QED BY <1>2, <1>4, <1>6, <3>2, <4>2, <5>1, <5>2, <5>3, SMTT(40)
      <4> QED BY <1>6, <1>7, <4>1, <4>2
    <3> QED BY <1>6, <1>7, <3>1, <3>2
  <2>5. ASSUME NEW t \in Nat, placed'[1].start <= t, t < placed'[Len(placed')].end
        PROVE  \E k \in 1..Len(placed') : placed'[k].start <= t /\ t < placed'[k].end
    <3>1. 1 \in 1..n /\ placed'[1] = placed[1]
      BY <1>1, <1>6
    <3>2. CASE t < placed[n].end
      <4>1. PICK k \in 1..n : placed[k].start <= t /\ t < placed[k].end
        BY <2>5, <3>1, <3>2 DEF PlanInv, Placed
      <4>2. k \in 1..(n + 1)
        BY <1>1
      <4> QED BY <1>6, <4>1, <4>2
    <3>3. CASE ~(t < placed[n].end)
      <4>1. clip.start <= t /\ t < clip.end
        BY <1>2, <1>3, <1>4, <1>6, <2>5, <3>3
      <4>2. n + 1 \in 1..Len(placed')
        BY <1>1, <1>6
      <4> QED BY <1>6, <4>1, <4>2
    <3> QED BY <3>2, <3>3
  <2> QED BY <1>6, <2>1, <2>2, <2>3, <2>4, <2>5 DEF Placed
<1>9. segments = <<>> /\ fades = <<>> /\ placed'[1] = placed[1]
  BY <1>1, <1>6 DEF PlanInv, Cut, Positioned
<1>10. Cut'
  <2>1. EdgeAt = placed[1].start /\ EdgeAt' = placed[1].start
    BY <1>1, <1>9 DEF EdgeAt
  <2>2. EdgeAt' \in Boundaries'
    <3>1. 1 \in DOMAIN placed'
      BY <1>1, <1>6
    <3> QED BY <1>9, <2>1, <3>1 DEF Boundaries
  <2>3. Len(segments) = 0
    BY <1>9
  <2> QED BY <1>1, <1>9, <2>1, <2>2, <2>3 DEF PlanInv, Cut
<1>11. Chained'
  <2>1. Len(fades) = 0
    BY <1>9
  <2>2. FadesFollowPositions'
    <3>1. chained = clips[1] /\ placed[1].end - placed[1].start = clips[1]
      BY <1>1, <1>9 DEF PlanInv, Chained, Placed
    <3> QED BY <1>1, <1>9, <2>1, <3>1 DEF FadesFollowPositions
  <2> QED BY <1>1, <1>9, <2>1, <2>2 DEF PlanInv, Chained
<1> QED BY <1>1, <1>8, <1>10, <1>11 DEF PlanInv

LEMMA CutKeeps == PlanInv /\ CutSegment => PlanInv'
<1> SUFFICES ASSUME PlanInv, CutSegment PROVE PlanInv'
  OBVIOUS
<1> DEFINE L == Len(segments)
           E == EdgeAt
           F == FrameTicks
           p == placed[1].start
<1>1. Edge = E /\ Positioned /\ UNCHANGED <<clips, transitions, placed, fades, chained>>
  BY EdgeIsAt DEF CutSegment
<1>2. PICK b \in Ahead :
        /\ \A c \in Ahead : b <= c
        /\ segments' = Append(segments, Segment(E, b))
        /\ totalFrames' = totalFrames + Rounded(b - E)
  BY <1>1 DEF CutSegment
<1> DEFINE r == Rounded(b - E)
           s == Segment(E, b)
<1>3. /\ b \in Boundaries /\ E \in Boundaries /\ E < b
      /\ \A c \in Boundaries : c <= E \/ b <= c
      /\ E \in Nat /\ b \in Nat /\ p \in Nat /\ p <= E
  <2>1. b \in Boundaries /\ E \in Boundaries /\ b > E /\ E \in Nat /\ b \in Nat /\ p <= E
    BY <1>1, <1>2, PlacedFacts DEF Ahead, PlanInv, Cut
  <2>2. \A c \in Boundaries : c \in Nat
    BY PlacedFacts
  <2>3. \A c \in Boundaries : c > E => b <= c
    BY <1>1, <1>2 DEF Ahead
  <2>4. p \in Nat
    BY PlacedFacts
  <2>5. \A c \in Boundaries : c <= E \/ b <= c
    <3> HIDE DEF E
    <3> QED BY <2>1, <2>2, <2>3, SMTT(40)
  <2> QED BY <2>1, <2>4, <2>5
<1>4. /\ r \in Nat
      /\ 2 * (r * F - (b - E)) <= F
      /\ -F <= 2 * (r * F - (b - E))
  BY <1>3, RoundedBounds
<1>5. s \in [start : Tick, end : Tick, frames : Nat, cost : Nat] /\ s.start = E /\ s.end = b
  <2>1. Cardinality(Active(E, b)) \in Nat
    <3>1. Active(E, b) \subseteq 1..Len(placed) /\ IsFiniteSet(1..Len(placed))
      BY PlacedFacts, FS_Interval DEF Active
    <3> QED BY <3>1, FS_Subset, FS_CardinalityType
  <2>2. (IF Cardinality(Active(E, b)) = 0 THEN 1 ELSE Cardinality(Active(E, b))) \in Nat
    BY <2>1
  <2>3. r * (IF Cardinality(Active(E, b)) = 0 THEN 1 ELSE Cardinality(Active(E, b))) \in Nat
    BY <1>4, <2>2, Products
  <2> QED BY <1>3, <1>4, <2>3 DEF Segment, Tick
<1>6. L \in Nat /\ F \in Nat /\ totalFrames \in Nat
  BY LenProperties, PlanAssumption DEF PlanInv, Cut
<1>7. /\ segments' \in Seq([start : Tick, end : Tick, frames : Nat, cost : Nat])
      /\ Len(segments') = L + 1 /\ segments' # <<>>
      /\ \A k \in 1..L : segments'[k] = segments[k]
      /\ segments'[L + 1] = s
  <2>1. segments \in Seq([start : Tick, end : Tick, frames : Nat, cost : Nat])
    BY DEF PlanInv, Cut
  <2>2. segments' = Append(segments, s)
    BY <1>2
  <2> HIDE DEF s
  <2> QED BY <1>5, <2>1, <2>2, Appending, SMTT(40)
<1>8. EdgeAt' = b /\ Boundaries' = Boundaries /\ Positioned' /\ Fadable' = Fadable
  BY <1>1, <1>5, <1>6, <1>7 DEF EdgeAt, Boundaries, Positioned, Fadable
<1>9. \A k \in 1..(L + 1) : k \in 1..L \/ k = L + 1
  BY <1>6
<1>10. ASSUME NEW k \in 1..Len(segments')
       PROVE  /\ segments'[k].start \in Boundaries /\ segments'[k].end \in Boundaries
              /\ segments'[k].start < segments'[k].end
              /\ \A c \in Boundaries : c <= segments'[k].start \/ segments'[k].end <= c
  <2>1. CASE k \in 1..L
    BY <1>7, <2>1 DEF PlanInv, Cut
  <2>2. CASE k = L + 1
    BY <1>3, <1>5, <1>7, <2>2
  <2> QED BY <1>7, <1>9, <2>1, <2>2
<1>11. ASSUME NEW k \in 1..(Len(segments') - 1)
       PROVE  segments'[k].end = segments'[k + 1].start
  <2>1. k \in 1..L
    BY <1>6, <1>7
  <2>2. CASE k = L
    <3>1. segments # <<>>
      BY <1>6, <2>1
    <3>2. E = segments[L].end
      BY <3>1 DEF EdgeAt
    <3> QED BY <1>5, <1>7, <2>1, <2>2, <3>2
  <2>3. CASE k # L
    <3>1. k \in 1..(L - 1) /\ k + 1 \in 1..L
      BY <1>6, <2>1, <2>3
    <3>2. segments[k].end = segments[k + 1].start
      BY <3>1 DEF PlanInv, Cut
    <3> QED BY <1>7, <2>1, <3>1, <3>2
  <2> QED BY <2>2, <2>3
<1>12. segments'[1].start = placed'[1].start
  <2>1. CASE segments = <<>>
    <3>1. L = 0 /\ E = p
      BY <2>1 DEF EdgeAt
    <3> QED BY <1>1, <1>5, <1>7, <3>1
  <2>2. CASE segments # <<>>
    <3>1. 1 \in 1..L
      BY <1>6, <2>2, EmptySeq DEF PlanInv, Cut
    <3> QED BY <1>1, <1>7, <2>2, <3>1 DEF PlanInv, Cut
  <2> QED BY <2>1, <2>2
<1>13. /\ totalFrames' \in Nat
       /\ 2 * (totalFrames' * F - (b - p)) <= F * (L + 1)
       /\ -(F * (L + 1)) <= 2 * (totalFrames' * F - (b - p))
  <2>1. /\ 2 * (totalFrames * F - (E - p)) <= F * L
        /\ -(F * L) <= 2 * (totalFrames * F - (E - p))
    BY DEF PlanInv, Cut
  <2>2. totalFrames' = totalFrames + r /\ totalFrames' \in Nat
    BY <1>2, <1>4, <1>6
  <2>3. totalFrames' * F = totalFrames * F + r * F /\ F * (L + 1) = F * L + F
    BY <1>4, <1>6, <2>2
  <2>4. totalFrames * F \in Nat /\ r * F \in Nat /\ F * L \in Nat
    BY <1>4, <1>6, Products
  <2>5. /\ 2 * (totalFrames * F + r * F - (b - p)) <= F * L + F
        /\ -(F * L + F) <= 2 * (totalFrames * F + r * F - (b - p))
    BY <1>3, <1>4, <1>6, <2>1, <2>4, ErrorsAdd
  <2>6. \A x, y \in Nat : x = totalFrames * F + r * F /\ y = F * L + F
                          => 2 * (x - (b - p)) <= y /\ -y <= 2 * (x - (b - p))
    <3> SUFFICES ASSUME NEW x \in Nat, NEW y \in Nat,
                        x = totalFrames * F + r * F, y = F * L + F
                 PROVE  2 * (x - (b - p)) <= y /\ -y <= 2 * (x - (b - p))
      BY Zenon
    <3>1. ASSUME NEW u \in Nat, NEW v \in Nat, NEW w \in Nat, NEW z \in Nat,
                 2 * (u + v - (b - p)) <= w + z, -(w + z) <= 2 * (u + v - (b - p)),
                 x = u + v, y = w + z
          PROVE  2 * (x - (b - p)) <= y /\ -y <= 2 * (x - (b - p))
      <4> HIDE DEF p
      <4> QED BY <1>3, <3>1
    <3> QED BY <1>6, <2>4, <2>5, <3>1
  <2>7. /\ 2 * (totalFrames' * F - (b - p)) <= F * (L + 1)
        /\ -(F * (L + 1)) <= 2 * (totalFrames' * F - (b - p))
    <3>1. totalFrames' * F \in Nat /\ F * (L + 1) \in Nat
      BY <1>6, <2>2, Products
    <3> QED BY <2>3, <2>6, <3>1, Zenon
  <2> QED BY <2>2, <2>7
<1>14. Cut'
  BY <1>1, <1>3, <1>7, <1>8, <1>10, <1>11, <1>12, <1>13 DEF Cut
<1>15. Placed' /\ Chained'
  <2>1. \A k : OverlapOf(k)' = OverlapOf(k)
    BY <1>1 DEF OverlapOf
  <2>2. Placed'
    BY <1>1, <2>1 DEF PlanInv, Placed
  <2>3. FadesFollowPositions'
    BY <1>1 DEF PlanInv, Chained, FadesFollowPositions, Fitting
  <2> QED BY <1>1, <1>8, <2>2, <2>3 DEF PlanInv, Chained
<1> QED BY <1>1, <1>14, <1>15 DEF PlanInv

LEMMA FadeKeeps == PlanInv /\ Fade => PlanInv'
<1> SUFFICES ASSUME PlanInv, Fade PROVE PlanInv'
  OBVIOUS
<1> DEFINE k == Len(fades) + 1
           lasts == Clamped(transitions[k], chained, clips[k + 1])
           fade == [lasts |-> lasts, offset |-> chained - lasts]
<1>1. /\ Positioned /\ Len(fades) < Fadable
      /\ fades' = Append(fades, fade)
      /\ chained' = chained + clips[k + 1] - lasts
      /\ UNCHANGED <<clips, transitions, placed, segments, totalFrames>>
  BY DEF Fade
<1>2. /\ Len(fades) \in Nat /\ Len(clips) \in Nat /\ Len(transitions) \in Nat
      /\ Len(placed) = Len(clips)
  BY <1>1, LenProperties DEF PlanInv, Chained, Positioned
<1>3. /\ k \in 1..(Len(clips) - 1) /\ k \in 1..Len(transitions) /\ k <= Fadable
      /\ k \in 1..Len(placed) /\ k + 1 \in 1..Len(placed) /\ k + 1 \in 1..Len(clips)
      /\ k \in 1..(Len(placed) - 1)
  BY <1>1, <1>2 DEF Fadable, Lesser
<1>4. /\ transitions[k] \in Nat /\ clips[k] \in Nat /\ clips[k + 1] \in Nat /\ chained \in Nat
      /\ placed[1].start \in Nat /\ placed[k].start \in Nat /\ placed[k].end \in Nat
      /\ placed[k + 1].start \in Nat /\ placed[k + 1].end \in Nat
  <2>1. transitions[k] \in Nat
    BY <1>3, ElementOfSeq DEF PlanInv
  <2>2. 1 \in 1..Len(placed) /\ k \in 1..Len(clips)
    BY <1>2, <1>3
  <2>3. chained \in Nat
    BY DEF PlanInv, Chained
  <2> QED BY <1>3, <2>1, <2>2, <2>3, PlacedFacts
<1>5. lasts \in Nat /\ lasts <= chained /\ lasts <= clips[k + 1] /\ fade.lasts = lasts
      /\ fade.offset = chained - lasts
  BY <1>4, ClampedBounds
<1>6. fade \in [lasts : Nat, offset : Nat] /\ chained' \in Nat
  BY <1>1, <1>4, <1>5, SMTT(40)
<1>7. /\ fades' \in Seq([lasts : Nat, offset : Nat]) /\ Len(fades') = k /\ fades' # <<>>
      /\ \A j \in 1..Len(fades) : fades'[j] = fades[j]
      /\ fades'[k] = fade
  <2>1. fades \in Seq([lasts : Nat, offset : Nat])
    BY DEF PlanInv, Chained
  <2>2. fades' = Append(fades, fade)
    BY <1>1
  <2> HIDE DEF fade
  <2> QED BY <1>6, <2>1, <2>2, Appending
<1>8. FadesFollowPositions'
  <2> SUFFICES ASSUME Fitting'
               PROVE  /\ \A j \in 1..Len(fades') :
                           /\ fades'[j].offset = placed[j + 1].start - placed[1].start
                           /\ fades'[j].lasts = placed[j].end - placed[j + 1].start
                      /\ chained' = placed[Len(fades') + 1].end - placed[1].start
    BY <1>1 DEF FadesFollowPositions
  <2>1. Fitting /\ (k >= 2 => transitions[k] <= clips[k])
    BY <1>1, <1>2, <1>7, SMTT(40) DEF Fitting
  <2>2. /\ \A j \in 1..Len(fades) :
             /\ fades[j].offset = placed[j + 1].start - placed[1].start
             /\ fades[j].lasts = placed[j].end - placed[j + 1].start
        /\ chained = placed[k].end - placed[1].start
    BY <2>1 DEF PlanInv, Chained, FadesFollowPositions
  <2>3. /\ placed[k].end - placed[k].start = clips[k]
        /\ placed[k + 1].end - placed[k + 1].start = clips[k + 1]
        /\ placed[k + 1].start = placed[k].end - OverlapOf(k)
        /\ placed[1].start <= placed[k].start
    <3>1. 1 \in 1..Len(placed) /\ 1 <= k
      BY <1>2, <1>3
    <3> QED BY <1>3, <3>1 DEF PlanInv, Placed
  <2>4. lasts = OverlapOf(k)
    <3>1. OverlapOf(k) = Clamped(transitions[k], clips[k], clips[k + 1])
      BY <1>2, <1>3 DEF OverlapOf
    <3>2. CASE k = 1
      <4>1. chained = clips[k]
        BY <1>4, <2>2, <2>3, <3>2
      <4> QED BY <3>1, <4>1
    <3>3. CASE k # 1
      <4>1. transitions[k] <= clips[k] /\ clips[k] <= chained
        <5>1. k \in Nat /\ k >= 1 /\ k # 1
          BY <1>2, <3>3
        <5>2. transitions[k] <= clips[k]
          <6>1. k >= 2
            BY <5>1
          <6> QED BY <2>1, <6>1
        <5> HIDE DEF k
        <5>3. clips[k] <= chained
          BY <1>4, <2>2, <2>3
        <5> QED BY <5>2, <5>3
      <4> QED BY <1>4, <3>1, <4>1 DEF Clamped, Lesser
    <3> QED BY <3>2, <3>3
  <2>5. /\ fade.offset = placed[k + 1].start - placed[1].start
        /\ fade.lasts = placed[k].end - placed[k + 1].start
    BY <1>4, <1>5, <2>2, <2>3, <2>4, SMTT(40)
  <2>6. chained' = placed[k + 1].end - placed[1].start
    <3>1. chained' = chained + clips[k + 1] - lasts
      BY <1>1
    <3>2. chained = placed[k].end - placed[1].start
      BY <2>2
    <3>3. lasts \in Nat /\ lasts = placed[k].end - placed[k + 1].start
      BY <1>5, <2>5
    <3> HIDE DEF lasts, k
    <3> QED BY <1>4, <2>3, <3>1, <3>2, <3>3
  <2>7. \A j \in 1..k : j \in 1..Len(fades) \/ j = k
    BY <1>2
  <2> QED BY <1>7, <2>2, <2>5, <2>6, <2>7, ZenonT(40)
<1>9. Chained'
  <2>1. Fadable' = Fadable
    BY <1>1 DEF Fadable
  <2> QED BY <1>3, <1>6, <1>7, <1>8, <2>1 DEF Chained
<1>10. Placed' /\ Cut'
  <2>1. \A j : OverlapOf(j)' = OverlapOf(j)
    BY <1>1 DEF OverlapOf
  <2>2. Placed'
    BY <1>1, <2>1 DEF PlanInv, Placed
  <2>3. EdgeAt' = EdgeAt /\ Boundaries' = Boundaries /\ Positioned'
    BY <1>1 DEF EdgeAt, Boundaries, Positioned
  <2>4. Cut'
    BY <1>1, <2>3 DEF PlanInv, Cut
  <2> QED BY <2>2, <2>4
<1> QED BY <1>1, <1>9, <1>10 DEF PlanInv

LEMMA PlanRests == PlanInv /\ UNCHANGED planVars => PlanInv'
<1> SUFFICES ASSUME PlanInv, UNCHANGED planVars PROVE PlanInv'
  OBVIOUS
<1>1. UNCHANGED <<clips, transitions, placed, segments, totalFrames, fades, chained>>
  BY DEF planVars
<1>2. \A j : OverlapOf(j)' = OverlapOf(j)
  BY <1>1 DEF OverlapOf
<1>3. EdgeAt' = EdgeAt /\ Boundaries' = Boundaries /\ (Positioned' <=> Positioned) /\ Fadable' = Fadable
  BY <1>1 DEF EdgeAt, Boundaries, Positioned, Fadable
<1>4. Placed'
  BY <1>1, <1>2 DEF PlanInv, Placed
<1>5. Cut'
  BY <1>1, <1>3 DEF PlanInv, Cut
<1>6. FadesFollowPositions'
  BY <1>1 DEF PlanInv, Chained, FadesFollowPositions, Fitting
<1>7. Chained'
  BY <1>1, <1>3, <1>6 DEF PlanInv, Chained
<1> QED BY <1>1, <1>4, <1>5, <1>7 DEF PlanInv

LEMMA PlanHolds == PlanInv => PlanIsTimeline
<1> SUFFICES ASSUME PlanInv PROVE PlanIsTimeline
  OBVIOUS
<1> DEFINE n == Len(placed)
<1>1. /\ n \in Nat /\ n >= 1 /\ Len(clips) \in Nat /\ n <= Len(clips)
      /\ 1 \in 1..n /\ n \in 1..n
      /\ \A k \in 1..n : placed[k].start \in Nat /\ placed[k].end \in Nat /\ placed[k].start < placed[k].end
      /\ DOMAIN placed = 1..n
  BY PlacedFacts DEF PlanInv, Placed
<1>2. PlanTypeOK
  <2>1. clips \in Seq(Nat) /\ transitions \in Seq(Int)
    <3>1. Nat \ {0} \subseteq Nat /\ Nat \subseteq Int
      OBVIOUS
    <3> QED BY <3>1, SeqMonotonic DEF PlanInv
  <2>2. placed # <<>>
    BY <1>1
  <2> QED BY <2>1, <2>2 DEF PlanTypeOK, PlanInv, Placed, Cut, Chained
<1>3. ClipsStayInOrder
  <2> SUFFICES ASSUME NEW k \in 1..(n - 1)
               PROVE  /\ placed[k].start <= placed[k + 1].start /\ placed[k + 1].start <= placed[k].end
                      /\ placed[k].end <= placed[k + 1].end
    BY DEF ClipsStayInOrder
  <2>1. k \in 1..n /\ k + 1 \in 1..n /\ k <= k + 1 /\ k \in 1..(Len(clips) - 1)
    BY <1>1
  <2>2. placed[k].start <= placed[k + 1].start /\ placed[k].end <= placed[k + 1].end
    BY <2>1 DEF PlanInv, Placed
  <2>3. placed[k + 1].start = placed[k].end - OverlapOf(k) /\ OverlapOf(k) \in Nat
    BY <2>1, OverlapBounds DEF PlanInv, Placed
  <2> QED BY <1>1, <2>1, <2>2, <2>3
<1>4. Planned => segments # <<>> /\ EdgeAt = placed[n].end
  <2> SUFFICES ASSUME Planned PROVE segments # <<>> /\ EdgeAt = placed[n].end
    OBVIOUS
  <2>1. EdgeAt \in Boundaries /\ placed[n].end \in Boundaries
    BY PlacedFacts DEF PlanInv, Cut
  <2>2. ~(placed[n].end > EdgeAt)
    BY <2>1, EdgeIsAt DEF Planned, Ahead
  <2>3. EdgeAt \in Nat /\ EdgeAt <= placed[n].end
    BY <2>1, PlacedFacts
  <2>4. EdgeAt = placed[n].end
    BY <1>1, <2>2, <2>3
  <2>5. placed[1].start < placed[n].end
    <3>1. placed[1].end <= placed[n].end
      BY <1>1 DEF PlanInv, Placed
    <3> QED BY <1>1, <3>1
  <2>6. segments # <<>>
    BY <1>1, <2>4, <2>5 DEF EdgeAt
  <2> QED BY <2>4, <2>6
<1>5. SegmentsPartition
  <2>1. Planned => segments # <<>> /\ segments[Len(segments)].end = placed[Len(placed)].end
    BY <1>4 DEF EdgeAt
  <2> QED BY <2>1 DEF SegmentsPartition, PlanInv, Cut
<1>6. SegmentsAreUniform
  <2> SUFFICES ASSUME NEW k \in 1..Len(segments)
               PROVE  LET s == segments[k] IN
                        /\ Active(s.start, s.end) # {}
                        /\ \A c \in Active(s.start, s.end) :
                             placed[c].start <= s.start /\ s.end <= placed[c].end
    BY DEF SegmentsAreUniform
  <2> DEFINE a == segments[k].start
             b == segments[k].end
  <2>1. /\ a \in Boundaries /\ b \in Boundaries /\ a < b
        /\ \A c \in Boundaries : c <= a \/ b <= c
    BY DEF PlanInv, Cut
  <2>2. /\ a \in Nat /\ b \in Nat /\ placed[1].start <= a /\ b <= placed[n].end
    BY <2>1, PlacedFacts
  <2>3. a < placed[n].end
    BY <1>1, <2>1, <2>2
  <2>4. PICK c \in 1..n : placed[c].start <= a /\ a < placed[c].end
    BY <2>2, <2>3 DEF PlanInv, Placed
  <2>5. c \in Active(a, b)
    BY <1>1, <2>1, <2>2, <2>4 DEF Active
  <2>6. ASSUME NEW d \in Active(a, b)
        PROVE  placed[d].start <= a /\ b <= placed[d].end
    <3>1. d \in 1..n /\ placed[d].start < b /\ placed[d].end > a
      BY <1>1 DEF Active
    <3>2. placed[d].start \in Boundaries /\ placed[d].end \in Boundaries
      BY <1>1, <3>1 DEF Boundaries
    <3> QED BY <1>1, <2>1, <2>2, <3>1, <3>2, SMTT(40)
  <2> QED BY <2>5, <2>6
<1>7. FramesAddUp
  <2> SUFFICES ASSUME Planned
               PROVE  /\ -(FrameTicks * Len(segments)) <= 2 * (totalFrames * FrameTicks - TotalDuration)
                      /\ 2 * (totalFrames * FrameTicks - TotalDuration) <= FrameTicks * Len(segments)
    BY DEF FramesAddUp
  <2>1. TotalDuration = EdgeAt - placed[1].start
    BY <1>4 DEF TotalDuration
  <2> QED BY <2>1 DEF PlanInv, Cut
<1>8. FadesFollowPositions
  BY DEF PlanInv, Chained
<1> QED BY <1>2, <1>3, <1>5, <1>6, <1>7, <1>8 DEF PlanIsTimeline

(* Whatever clips and transitions are asked for, positions, segments and     *)
(* crossfades describe one timeline.                                         *)
THEOREM Plans == PlanSpec => []PlanIsTimeline
<1>1. PlanInv /\ [PlanNext]_planVars => PlanInv'
  BY PlaceKeeps, CutKeeps, FadeKeeps, PlanRests DEF PlanNext
<1> QED BY <1>1, PlanStarts, PlanHolds, PTL DEF PlanSpec

-----------------------------------------------------------------------------
(* Saved transitions.  The two orders of the project are total orders of its  *)
(* clips, so that each sorts them into one sequence; sound, picture and the   *)
(* duration of a delete are chains along such a sequence; and what a job      *)
(* shows follows from its own copy of the transitions and the clips it read.  *)

(* Induction along an interval, stated with the set of numbers that are done. *)
LEMMA UpTo ==
  ASSUME NEW N \in Nat, NEW Reached, 0 \in Reached,
         \A n \in 1..N : n - 1 \in Reached => n \in Reached
  PROVE  \A n \in 0..N : n \in Reached
<1> DEFINE R == OpToRel(<, Nat)
           T == {n \in 0..N : n \notin Reached}
<1> SUFFICES ASSUME T # {} PROVE FALSE
  OBVIOUS
<1>1. IsWellFoundedOn(R, Nat)
  BY NatLessThanWellFounded, Zenon
<1>2. \A x, y \in Nat : x < y => <<x, y>> \in R
  BY DEF OpToRel
<1>3. T \subseteq Nat
  OBVIOUS
<1> HIDE DEF R
<1>4. PICK k \in T : \A y \in T : ~(<<y, k>> \in R)
  <2> HIDE DEF T
  <2> QED BY <1>1, <1>3, WFMin, Zenon
<1>5. k \in 1..N /\ k - 1 \in 0..N /\ k \notin Reached
  BY <1>4
<1>6. k - 1 \notin T
  <2>1. <<k - 1, k>> \in R
    BY <1>2, <1>5
  <2> HIDE DEF T
  <2> QED BY <1>4, <2>1
<1> QED BY <1>5, <1>6

(* Running totals exist: first, and after it what each number adds.           *)
LEMMA Totals ==
  ASSUME NEW N \in Nat, NEW first \in Int, NEW adds \in [1..N -> Int]
  PROVE  \E f \in [0..N -> Int] : f[0] = first /\ \A n \in 1..N : f[n] = f[n - 1] + adds[n]
<1> DEFINE Solves(f, m) == f[0] = first /\ \A n \in 1..m : f[n] = f[n - 1] + adds[n]
           Reached == {m \in 0..N : \E f \in [0..m -> Int] : Solves(f, m)}
<1>1. 0 \in Reached
  <2> DEFINE f == [n \in 0..0 |-> first]
  <2>1. f \in [0..0 -> Int] /\ Solves(f, 0)
    OBVIOUS
  <2> HIDE DEF f, Solves
  <2> QED BY <2>1
<1>2. ASSUME NEW m \in 1..N, m - 1 \in Reached
      PROVE  m \in Reached
  <2>1. PICK f \in [0..(m - 1) -> Int] : Solves(f, m - 1)
    BY <1>2
  <2> DEFINE g == [n \in 0..m |-> IF n = m THEN f[m - 1] + adds[m] ELSE f[n]]
  <2>2. f[m - 1] \in Int /\ f[m - 1] + adds[m] \in Int
    OBVIOUS
  <2>3. \A n \in 0..m : n = m \/ n \in 0..(m - 1)
    OBVIOUS
  <2>4. g \in [0..m -> Int]
    BY <2>2, <2>3
  <2>5. ASSUME NEW n \in 1..m
        PROVE  g[n] = g[n - 1] + adds[n]
    <3>1. n - 1 \in 0..(m - 1) /\ n - 1 # m /\ n - 1 \in 0..m /\ n \in 0..m
      OBVIOUS
    <3>2. g[n - 1] = f[n - 1]
      BY <3>1
    <3>3. CASE n = m
      BY <3>1, <3>2, <3>3
    <3>4. CASE n # m
      <4>1. n \in 1..(m - 1)
        BY <3>4
      <4>2. f[n] = f[n - 1] + adds[n] /\ g[n] = f[n]
        BY <2>1, <3>1, <3>4, <4>1
      <4> QED BY <3>2, <4>2
    <3> QED BY <3>3, <3>4
  <2>6. g[0] = first
    BY <2>1
  <2>7. Solves(g, m)
    BY <2>5, <2>6
  <2> HIDE DEF g, Solves
  <2> QED BY <2>4, <2>7
<1> HIDE DEF Reached
<1>3. N \in Reached
  <2>1. \A n \in 0..N : n \in Reached
    BY <1>1, <1>2, UpTo, Zenon
  <2> QED BY <2>1
<1> QED BY <1>3 DEF Reached

(* A set of numbers up to a bound has a greatest one.                         *)
LEMMA Greatest ==
  ASSUME NEW N \in Nat, NEW S \in SUBSET (1..N), S # {}
  PROVE  \E m \in S : \A x \in S : x <= m
<1> DEFINE Reached == {n \in 0..N : \A T \in SUBSET (1..n) :
                        T # {} => \E m \in T : \A x \in T : x <= m}
<1>1. 0 \in Reached
  <2>1. \A T \in SUBSET (1..0) : T = {}
    OBVIOUS
  <2>2. \A T \in SUBSET (1..0) : T # {} => \E m \in T : \A x \in T : x <= m
    BY <2>1
  <2>3. 0 \in 0..N
    OBVIOUS
  <2> QED BY <2>2, <2>3, Zenon
<1>2. ASSUME NEW n \in 1..N, n - 1 \in Reached
      PROVE  n \in Reached
  <2> SUFFICES ASSUME NEW T \in SUBSET (1..n), T # {}
               PROVE  \E m \in T : \A x \in T : x <= m
    OBVIOUS
  <2>1. CASE n \in T
    BY <2>1
  <2>2. CASE n \notin T
    <3>1. T \in SUBSET (1..(n - 1))
      BY <2>2
    <3> QED BY <1>2, <3>1
  <2> QED BY <2>1, <2>2
<1> HIDE DEF Reached
<1>3. N \in Reached
  <2>1. \A n \in 0..N : n \in Reached
    BY <1>1, <1>2, UpTo, Zenon
  <2> QED BY <2>1
<1> QED BY <1>3 DEF Reached

LEMMA AsSequence ==
  ASSUME NEW n \in Nat, NEW T, NEW f \in [1..n -> T]
  PROVE  f \in Seq(T) /\ Len(f) = n /\ DOMAIN f = 1..n
OBVIOUS

(* Both orders of the project are total orders of the clips.                  *)
IsOrder(R) ==
  /\ \A c \in Clips : c \notin R[c] /\ R[c] \subseteq Clips
  /\ \A c, d, e \in Clips : c \in R[d] /\ d \in R[e] => c \in R[e]
  /\ \A c, d \in Clips : c = d \/ c \in R[d] \/ d \in R[c]

RowsTyped == rows \in [Clips -> Row]

LEMMA RowFields ==
  ASSUME RowsTyped, NEW c \in Clips
  PROVE  /\ c \in Nat /\ rows[c] \in Row
         /\ rows[c].kind \in Kinds \cup {"none"} /\ rows[c].position \in Nat
         /\ rows[c].in \in Nat /\ rows[c].out \in Nat /\ rows[c].track \in 0..TrackCount
         /\ rows[c].track \in Int /\ rows[c].start \in Int /\ rows[c].end \in Int
<1>1. rows[c] \in Row
  BY DEF RowsTyped
<1> QED BY <1>1, TransitionAssumption DEF Row, None, Clips

LEMMA PositionsOrder == RowsTyped => IsOrder(ByPosition)
<1> SUFFICES ASSUME RowsTyped PROVE IsOrder(ByPosition)
  OBVIOUS
<1> DEFINE p(c) == rows[c].position
           B == ByPosition
<1>1. \A c \in Clips : p(c) \in Int /\ c \in Int
  BY RowFields
<1>2. ASSUME NEW c \in Clips
      PROVE  B[c] = {d \in Clips : p(d) < p(c) \/ (p(d) = p(c) /\ d < c)}
  BY Zenon DEF ByPosition
<1>3. \A c, d \in Clips : c \in B[d] <=> p(c) < p(d) \/ (p(c) = p(d) /\ c < d)
  <2> HIDE DEF p, B
  <2> QED BY <1>2
<1>4. \A c \in Clips : B[c] \subseteq Clips
  <2> HIDE DEF p, B
  <2> QED BY <1>2
<1> HIDE DEF p
<1>5. \A c \in Clips : c \notin B[c]
  <2> HIDE DEF B
  <2> QED BY <1>1, <1>3
<1>6. \A c, d, e \in Clips : c \in B[d] /\ d \in B[e] => c \in B[e]
  <2> HIDE DEF B
  <2> QED BY <1>1, <1>3
<1>7. \A c, d \in Clips : c = d \/ c \in B[d] \/ d \in B[c]
  <2> HIDE DEF B
  <2> QED BY <1>1, <1>3
<1> QED BY <1>4, <1>5, <1>6, <1>7 DEF IsOrder, B

LEMMA TracksOrder == RowsTyped => IsOrder(ByTrack)
<1> SUFFICES ASSUME RowsTyped PROVE IsOrder(ByTrack)
  OBVIOUS
<1> DEFINE t(c) == rows[c].track
           s(c) == rows[c].start
           P == ByPosition
           B == ByTrack
<1>1. \A c \in Clips : t(c) \in Int /\ s(c) \in Int
  BY RowFields
<1>2. IsOrder(P)
  BY PositionsOrder
<1>3. ASSUME NEW c \in Clips
      PROVE  B[c] = {d \in Clips : \/ t(d) < t(c)
                                   \/ t(d) = t(c) /\ (s(d) < s(c) \/ (s(d) = s(c) /\ d \in P[c]))}
  BY Zenon DEF ByTrack
<1> HIDE DEF t, s, P, B
<1>4. \A c, d \in Clips : c \in B[d] <=>
        t(c) < t(d) \/ (t(c) = t(d) /\ (s(c) < s(d) \/ (s(c) = s(d) /\ c \in P[d])))
  BY <1>3
<1>5. \A c \in Clips : c \notin B[c] /\ B[c] \subseteq Clips
  BY <1>1, <1>2, <1>3 DEF IsOrder
<1>6. \A c, d, e \in Clips : c \in B[d] /\ d \in B[e] => c \in B[e]
  BY <1>1, <1>2, <1>4 DEF IsOrder
<1>7. \A c, d \in Clips : c = d \/ c \in B[d] \/ d \in B[c]
  BY <1>1, <1>2, <1>4 DEF IsOrder
<1> QED BY <1>5, <1>6, <1>7 DEF IsOrder, B

(* Of some clips, one comes last in an order.                                 *)
LEMMA LastInOrder ==
  ASSUME NEW R, IsOrder(R), NEW S \in SUBSET Clips, S # {}
  PROVE  \E m \in S : \A c \in S : c = m \/ c \in R[m]
<1> DEFINE Reached == {n \in 0..ClipCount : \A T \in SUBSET (1..n) :
             T # {} => \E m \in T : \A c \in T : c = m \/ c \in R[m]}
<1>0. ClipCount \in Nat
  BY TransitionAssumption
<1>1. 0 \in Reached
  <2>1. \A T \in SUBSET (1..0) : T = {}
    OBVIOUS
  <2>2. 0 \in 0..ClipCount
    BY <1>0
  <2> QED BY <2>1, <2>2, Zenon
<1>2. ASSUME NEW n \in 1..ClipCount, n - 1 \in Reached
      PROVE  n \in Reached
  <2> SUFFICES ASSUME NEW T \in SUBSET (1..n), T # {}
               PROVE  \E m \in T : \A c \in T : c = m \/ c \in R[m]
    OBVIOUS
  <2> DEFINE U == T \ {n}
  <2>1. U \in SUBSET (1..(n - 1)) /\ T \subseteq Clips /\ n \in Clips
    BY <1>0 DEF Clips
  <2>2. CASE n \notin T
    <3>1. U = T
      BY <2>2
    <3> QED BY <1>2, <2>1, <3>1
  <2>3. CASE n \in T /\ U = {}
    BY <2>3
  <2>4. CASE n \in T /\ U # {}
    <3>1. PICK m \in U : \A c \in U : c = m \/ c \in R[m]
      BY <1>2, <2>1, <2>4
    <3>2. \A c \in T : c = n \/ c \in U
      OBVIOUS
    <3>3. m \in T /\ m # n /\ m \in Clips
      BY <2>1
    <3> HIDE DEF U
    <3>4. CASE n \in R[m]
      BY <3>1, <3>2, <3>3, <3>4
    <3>5. CASE m \in R[n]
      <4>1. \A c \in U : c \in R[n]
        <5>1. \A c \in U : c \in Clips
          BY <2>1 DEF U
        <5> QED BY <2>1, <3>1, <3>3, <3>5, <5>1 DEF IsOrder
      <4> QED BY <2>4, <3>2, <4>1
    <3> QED BY <2>1, <3>3, <3>4, <3>5 DEF IsOrder
  <2> QED BY <2>2, <2>3, <2>4
<1> HIDE DEF Reached
<1>3. ClipCount \in Reached
  <2>1. \A n \in 0..ClipCount : n \in Reached
    BY <1>0, <1>1, <1>2, UpTo, Zenon
  <2> QED BY <1>0, <2>1
<1> QED BY <1>3 DEF Reached, Clips

(* Each number of clips that come before is that of one of them.              *)
Ranked(S, R) ==
  \A k \in 1..Cardinality(S) : \E c \in S : Cardinality(R[c] \cap S) = k - 1

LEMMA CountClips ==
  ASSUME NEW S \in SUBSET Clips
  PROVE  IsFiniteSet(S) /\ Cardinality(S) \in 0..ClipCount /\ Cardinality(S) \in Nat
<1>1. IsFiniteSet(Clips) /\ Cardinality(Clips) = ClipCount
  <2>1. ClipCount \in Nat /\ ClipCount \in Int /\ 1 \in Int
    BY TransitionAssumption
  <2>2. /\ IsFiniteSet(1..ClipCount)
        /\ Cardinality(1..ClipCount) = IF 1 > ClipCount THEN 0 ELSE ClipCount - 1 + 1
    BY <2>1, FS_Interval, Zenon
  <2> QED BY <2>1, <2>2 DEF Clips
<1>2. IsFiniteSet(S) /\ Cardinality(S) <= Cardinality(Clips)
  BY <1>1, FS_Subset
<1>3. Cardinality(S) \in Nat
  BY <1>2, FS_CardinalityType
<1> QED BY <1>1, <1>2, <1>3, TransitionAssumption

LEMMA RanksExist ==
  ASSUME NEW R, IsOrder(R), NEW S \in SUBSET Clips
  PROVE  Ranked(S, R)
<1> DEFINE Reached == {n \in 0..ClipCount : \A T \in SUBSET Clips :
                        Cardinality(T) = n => Ranked(T, R)}
<1>0. ClipCount \in Nat
  BY TransitionAssumption
<1>1. 0 \in Reached
  <2>1. \A T : Cardinality(T) = 0 => Ranked(T, R)
    BY DEF Ranked
  <2> QED BY <1>0, <2>1
<1>2. ASSUME NEW n \in 1..ClipCount, n - 1 \in Reached
      PROVE  n \in Reached
  <2> SUFFICES ASSUME NEW T \in SUBSET Clips, Cardinality(T) = n
               PROVE  Ranked(T, R)
    OBVIOUS
  <2>1. T # {}
    BY <1>0, FS_EmptySet
  <2>2. PICK m \in T : \A c \in T : c = m \/ c \in R[m]
    BY <2>1, LastInOrder
  <2> DEFINE U == T \ {m}
  <2>3. U \in SUBSET Clips /\ Cardinality(U) = n - 1
    <3>1. IsFiniteSet(T)
      BY CountClips
    <3> QED BY <3>1, FS_RemoveElement
  <2>4. Ranked(U, R)
    BY <1>2, <2>3
  <2>5. R[m] \cap T = U
    BY <2>2 DEF IsOrder
  <2>6. ASSUME NEW c \in U
        PROVE  R[c] \cap T = R[c] \cap U
    <3>1. c \in Clips /\ m \in Clips /\ c \in R[m]
      BY <2>2
    <3>2. m \notin R[c]
      BY <3>1 DEF IsOrder
    <3> QED BY <3>2
  <2>7. ASSUME NEW k \in 1..n
        PROVE  \E c \in T : Cardinality(R[c] \cap T) = k - 1
    <3>1. CASE k = n
      BY <2>3, <2>5, <3>1
    <3>2. CASE k # n
      <4>1. k \in 1..Cardinality(U)
        BY <1>0, <2>3, <3>2
      <4>2. PICK c \in U : Cardinality(R[c] \cap U) = k - 1
        BY <2>4, <4>1 DEF Ranked
      <4>3. c \in T /\ R[c] \cap T = R[c] \cap U
        BY <2>6
      <4> QED BY <4>2, <4>3
    <3> QED BY <3>1, <3>2
  <2> QED BY <2>7 DEF Ranked
<1> HIDE DEF Reached
<1>3. Cardinality(S) \in Reached
  <2>1. \A n \in 0..ClipCount : n \in Reached
    BY <1>0, <1>1, <1>2, UpTo, Zenon
  <2> QED BY <2>1, CountClips
<1> QED BY <1>3 DEF Reached

(* A sorted set of clips is a sequence of as many clips, each of them once.   *)
LEMMA SortedFacts ==
  ASSUME NEW R, IsOrder(R), NEW S \in SUBSET Clips
  PROVE  /\ Sorted(S, R) \in Seq(S) /\ Sorted(S, R) \in Seq(Clips)
         /\ Len(Sorted(S, R)) = Cardinality(S) /\ Len(Sorted(S, R)) \in Nat
         /\ DOMAIN Sorted(S, R) = 1..Len(Sorted(S, R))
         /\ \A j, k \in 1..Len(Sorted(S, R)) : Sorted(S, R)[j] = Sorted(S, R)[k] => j = k
<1> DEFINE size == Cardinality(S)
           s == Sorted(S, R)
<1>1. size \in Nat
  BY CountClips
<1>2. \A k \in 1..size : \E c \in S : Cardinality(R[c] \cap S) = k - 1
  BY RanksExist DEF Ranked
<1>3. s = [k \in 1..size |-> CHOOSE c \in S : Cardinality(R[c] \cap S) = k - 1]
  BY DEF Sorted
<1>4. \A k \in 1..size : s[k] \in S /\ Cardinality(R[s[k]] \cap S) = k - 1
  BY <1>2, <1>3
<1> HIDE DEF s, size
<1>5. s \in [1..size -> S] /\ s \in [1..size -> Clips]
  BY <1>3, <1>4
<1>6. s \in Seq(S) /\ s \in Seq(Clips) /\ Len(s) = size /\ DOMAIN s = 1..size
  BY <1>1, <1>5, AsSequence
<1>7. \A j, k \in 1..size : s[j] = s[k] => j = k
  <2> SUFFICES ASSUME NEW j \in 1..size, NEW k \in 1..size, s[j] = s[k]
               PROVE  j = k
    OBVIOUS
  <2>1. j - 1 = k - 1
    BY <1>4
  <2> QED BY <1>1, <2>1
<1> QED BY <1>1, <1>6, <1>7 DEF s, size

LEMMA ListedFacts ==
  ASSUME RowsTyped
  PROVE  /\ Listed \in Seq(Present) /\ Listed \in Seq(Clips) /\ Len(Listed) \in Nat
         /\ DOMAIN Listed = 1..Len(Listed)
         /\ \A j, k \in 1..Len(Listed) : Listed[j] = Listed[k] => j = k
         /\ Present # {} => Listed # <<>>
<1>1. Present \in SUBSET Clips /\ IsOrder(ByPosition)
  BY PositionsOrder DEF Present
<1>2. Listed = Sorted(Present, ByPosition)
  BY DEF Listed
<1>3. Present # {} => Len(Listed) # 0
  <2>1. Len(Listed) = Cardinality(Present) /\ IsFiniteSet(Present)
    BY <1>1, <1>2, SortedFacts, CountClips
  <2> QED BY <2>1, FS_EmptySet
<1>4. Len(<<>>) = 0
  OBVIOUS
<1> QED BY <1>1, <1>2, <1>3, <1>4, SortedFacts

LEMMA AlongFacts ==
  ASSUME RowsTyped
  PROVE  AlongTracks \in Seq(Clips)
<1>1. OnTracks \in SUBSET Clips /\ IsOrder(ByTrack)
  BY TracksOrder DEF OnTracks
<1> QED BY <1>1, SortedFacts DEF AlongTracks

(* What a job keeps of the clips it was built from.                           *)
InputRecord == [clip : Clips, kind : Kinds, lasts : Int, feeds : Int]

LEMMA InputFields ==
  ASSUME NEW inputs \in Seq(InputRecord)
  PROVE  /\ Len(inputs) \in Nat /\ DOMAIN inputs = 1..Len(inputs)
         /\ \A k \in 1..Len(inputs) :
              /\ inputs[k] \in InputRecord /\ inputs[k].clip \in Clips /\ inputs[k].kind \in Kinds
              /\ inputs[k].lasts \in Int /\ inputs[k].feeds \in Int
<1>1. Len(inputs) \in Nat /\ DOMAIN inputs = 1..Len(inputs)
  BY LenProperties
<1>2. \A k \in 1..Len(inputs) : inputs[k] \in InputRecord
  BY ElementOfSeq
<1> QED BY <1>1, <1>2 DEF InputRecord

LEMMA ShownTypes ==
  ASSUME RowsTyped, NEW c \in Clips
  PROVE  /\ Shown(rows[c]) \in Int /\ Feeds(rows[c]) \in Int /\ Long(c) \in Int
         /\ rows[c].kind # "none" => Input(c) \in InputRecord
<1> DEFINE r == rows[c]
<1>1. /\ r.in \in Int /\ r.out \in Int /\ r.start \in Int /\ r.end \in Int
      /\ r.kind \in Kinds \cup {"none"}
  BY RowFields
<1>2. FileTicks \in Int /\ OutputTicks \in Int /\ SourceFrames \in Int
  BY TransitionAssumption
<1> HIDE DEF r
<1>3. (r.out - r.in) * OutputTicks \in Int /\ (r.out - r.in) * FileTicks \in Int
      /\ SourceFrames * FileTicks \in Int
  BY <1>1, <1>2
<1>4. OrElse(r.end, 0) - OrElse(r.start, 0) \in Int
  BY <1>1 DEF OrElse
<1>5. Shown(r) \in Int
  BY <1>3, <1>4 DEF Shown
<1>6. Feeds(r) \in Int
  BY <1>3, <1>5 DEF Feeds
<1>7. Long(c) \in Int
  BY <1>1 DEF Long, r
<1>8. r.kind # "none" => Input(c) \in InputRecord
  BY <1>1, <1>5, <1>6 DEF Input, InputRecord, r
<1> QED BY <1>5, <1>6, <1>7, <1>8 DEF r

LEMMA InputsFacts ==
  ASSUME RowsTyped
  PROVE  /\ Inputs \in Seq(InputRecord) /\ Len(Inputs) = Len(Listed) /\ Len(Listed) \in Nat
         /\ \A k \in 1..Len(Listed) : Inputs[k] = Input(Listed[k]) /\ Listed[k] \in Clips
         /\ \A j, k \in 1..Len(Inputs) : Inputs[j].clip = Inputs[k].clip => j = k
<1> DEFINE n == Len(Listed)
<1>1. /\ Listed \in Seq(Present) /\ n \in Nat /\ DOMAIN Listed = 1..n
      /\ \A j, k \in 1..n : Listed[j] = Listed[k] => j = k
  BY ListedFacts
<1>2. \A k \in 1..n : Listed[k] \in Clips /\ rows[Listed[k]].kind # "none"
  <2>1. \A k \in 1..n : Listed[k] \in Present
    BY <1>1, ElementOfSeq
  <2> QED BY <2>1 DEF Present
<1>3. Inputs = [k \in 1..n |-> Input(Listed[k])]
  BY <1>1 DEF Inputs
<1>4. \A k \in 1..n : Input(Listed[k]) \in InputRecord
  BY <1>2, ShownTypes
<1> HIDE DEF n
<1>5. Inputs \in [1..n -> InputRecord]
  BY <1>3, <1>4
<1>6. Inputs \in Seq(InputRecord) /\ Len(Inputs) = n
  BY <1>1, <1>5, AsSequence
<1>7. \A k \in 1..n : Inputs[k] = Input(Listed[k]) /\ Inputs[k].clip = Listed[k]
  BY <1>3 DEF Input
<1> QED BY <1>1, <1>2, <1>6, <1>7 DEF n

LEMMA SavedFields ==
  ASSUME NEW list \in Seq(Saved), NEW i \in DOMAIN list
  PROVE  /\ list[i].from \in Clips /\ list[i].to \in Clips /\ list[i].type \in Types
         /\ list[i].lasts \in 0..LongestFade /\ list[i].lasts \in Nat
         /\ list[i].route \in {"timeline", "effects"}
<1>1. list[i] \in Saved
  BY ElementOfSeq, LenProperties
<1> QED BY <1>1, TransitionAssumption DEF Saved

LEMMA OutgoingIsLast ==
  ASSUME NEW plan \in Seq(Saved), NEW c, Own(plan, c) # {}
  PROVE  \E i \in Own(plan, c) : /\ Outgoing(plan, c) = plan[i]
                                 /\ \A j \in Own(plan, c) : j <= i
<1>1. Len(plan) \in Nat /\ Own(plan, c) \in SUBSET (1..Len(plan))
  BY LenProperties DEF Own
<1>2. \E i \in Own(plan, c) : \A j \in Own(plan, c) : j <= i
  BY <1>1, Greatest
<1> QED BY <1>2 DEF Outgoing

LEMMA CrossfadeTypes ==
  ASSUME NEW plan \in Seq(Saved), NEW c
  PROVE  CrossfadeAfter(plan, c).lasts \in Nat
<1>1. CASE Own(plan, c) # {}
  <2>1. PICK i \in Own(plan, c) : Outgoing(plan, c) = plan[i]
    BY <1>1, OutgoingIsLast
  <2>2. i \in DOMAIN plan
    BY DEF Own
  <2> QED BY <1>1, <2>1, <2>2, SavedFields DEF CrossfadeAfter
<1>2. CASE Own(plan, c) = {}
  BY <1>2, TransitionAssumption DEF CrossfadeAfter, PictureDefault
<1> QED BY <1>1, <1>2

(* A chain: it begins with a number, and every further one takes one away and *)
(* adds another.  So do the picture, the sound and the delete's duration.     *)
ChainStep(g, first, less, more, k) == IF k = 0 THEN first ELSE g[k - 1] - less[k] + more[k]

IsChain(g, last, first, less, more) == g = [k \in 0..last |-> ChainStep(g, first, less, more, k)]

ChainTotals(g, last, first, less, more) ==
  /\ g[0] = first /\ \A k \in 0..last : g[k] \in Int
  /\ \A k \in 1..last : g[k] = g[k - 1] - less[k] + more[k]

LEMMA ChainExists ==
  ASSUME NEW last \in Nat, NEW first \in Int, NEW less \in [1..last -> Int],
         NEW more \in [1..last -> Int]
  PROVE  \E g : IsChain(g, last, first, less, more)
<1> DEFINE adds == [k \in 1..last |-> more[k] - less[k]]
<1>1. adds \in [1..last -> Int]
  OBVIOUS
<1>2. PICK f \in [0..last -> Int] : f[0] = first /\ \A n \in 1..last : f[n] = f[n - 1] + adds[n]
  <2> HIDE DEF adds
  <2> QED BY <1>1, Totals
<1>3. ASSUME NEW k \in 1..last
      PROVE  f[k] = f[k - 1] - less[k] + more[k]
  <2>1. k - 1 \in 0..last
    OBVIOUS
  <2>2. f[k] = f[k - 1] + (more[k] - less[k]) /\ f[k - 1] \in Int
    BY <1>2, <2>1
  <2> QED BY <2>2
<1>4. \A k \in 0..last : k = 0 \/ k \in 1..last
  OBVIOUS
<1>5. \A k \in 0..last : f[k] = ChainStep(f, first, less, more, k)
  BY <1>2, <1>3, <1>4 DEF ChainStep
<1>6. f = [k \in 0..last |-> ChainStep(f, first, less, more, k)]
  BY <1>5
<1> QED BY <1>6 DEF IsChain

LEMMA ChainFacts ==
  ASSUME NEW last \in Nat, NEW first \in Int, NEW less \in [1..last -> Int],
         NEW more \in [1..last -> Int], NEW chain,
         IsChain(chain, last, first, less, more)
  PROVE  ChainTotals(chain, last, first, less, more)
<1>1. ASSUME NEW k \in 1..last
      PROVE  k \in 0..last /\ k # 0 /\ k - 1 \in 0..last
  OBVIOUS
<1>2. \A k \in 0..last : chain[k] = ChainStep(chain, first, less, more, k)
  BY DEF IsChain
<1>3. chain[0] = first
  <2>1. 0 \in 0..last
    OBVIOUS
  <2> QED BY <1>2, <2>1 DEF ChainStep
<1>4. \A k \in 1..last : chain[k] = chain[k - 1] - less[k] + more[k]
  BY <1>1, <1>2 DEF ChainStep
<1> DEFINE Reached == {k \in 0..last : chain[k] \in Int}
<1>5. 0 \in Reached
  BY <1>3
<1>6. ASSUME NEW k \in 1..last, k - 1 \in Reached PROVE k \in Reached
  <2>1. less[k] \in Int /\ more[k] \in Int /\ chain[k - 1] \in Int /\ k \in 0..last
    BY <1>1, <1>6
  <2>2. chain[k] = chain[k - 1] - less[k] + more[k]
    BY <1>4
  <2>3. chain[k] \in Int
    BY <2>1, <2>2
  <2> QED BY <2>1, <2>3
<1> HIDE DEF Reached
<1>7. \A k \in 0..last : k \in Reached
  BY <1>5, <1>6, UpTo
<1> QED BY <1>3, <1>4, <1>7 DEF Reached, ChainTotals

LEMMA AccumulatedFacts ==
  ASSUME NEW plan \in Seq(Saved), NEW inputs \in Seq(InputRecord), inputs # <<>>
  PROVE  /\ \A k \in 0..(Len(inputs) - 1) : Accumulated(plan, inputs)[k] \in Int
         /\ Accumulated(plan, inputs)[0] = inputs[1].lasts
         /\ \A k \in 1..(Len(inputs) - 1) :
              Accumulated(plan, inputs)[k] =
                Accumulated(plan, inputs)[k - 1] - CrossfadeAfter(plan, inputs[k].clip).lasts
                  + inputs[k + 1].lasts
<1> DEFINE last == Len(inputs) - 1
           less == [k \in 1..last |-> CrossfadeAfter(plan, inputs[k].clip).lasts]
           more == [k \in 1..last |-> inputs[k + 1].lasts]
           acc == Accumulated(plan, inputs)
           first == inputs[1].lasts
<1>1. last \in Nat /\ 1 \in 1..Len(inputs) /\ \A k \in 1..last : k + 1 \in 1..Len(inputs)
  BY LenProperties, EmptySeq
<1>2. first \in Int /\ \A k \in 1..last : inputs[k + 1].lasts \in Int
  BY <1>1, InputFields
<1>3. less \in [1..last -> Int] /\ more \in [1..last -> Int]
  BY <1>2, CrossfadeTypes
<1> DEFINE Recursive(g) == g = [k \in 0..(Len(inputs) - 1) |->
             IF k = 0 THEN inputs[1].lasts
             ELSE g[k - 1] - CrossfadeAfter(plan, inputs[k].clip).lasts + inputs[k + 1].lasts]
<1>4. \A g : Recursive(g) <=> IsChain(g, last, first, less, more)
  <2> SUFFICES ASSUME NEW g
               PROVE  \A k \in 0..last : ChainStep(g, first, less, more, k) =
                        IF k = 0 THEN inputs[1].lasts
                        ELSE g[k - 1] - CrossfadeAfter(plan, inputs[k].clip).lasts
                               + inputs[k + 1].lasts
    BY DEF IsChain
  <2>1. \A k \in 0..last : k = 0 \/ k \in 1..last
    BY <1>1
  <2> QED BY <2>1 DEF ChainStep
<1>5. IsChain(acc, last, first, less, more)
  <2>1. acc = CHOOSE g : Recursive(g)
    BY DEF Accumulated
  <2>2. \E g : IsChain(g, last, first, less, more)
    <3> HIDE DEF last, first, less, more
    <3> QED BY <1>1, <1>2, <1>3, ChainExists
  <2> HIDE DEF Recursive, acc, last, first, less, more
  <2> QED BY <1>4, <2>1, <2>2
<1> HIDE DEF acc
<1>6. ChainTotals(acc, last, first, less, more)
  <2> HIDE DEF less, more, last, first
  <2>1. last \in Nat
    BY <1>1
  <2>2. first \in Int
    BY <1>2
  <2>3. less \in [1..last -> Int]
    BY <1>3
  <2>4. more \in [1..last -> Int]
    BY <1>3
  <2> QED BY <1>5, <2>1, <2>2, <2>3, <2>4, ChainFacts, Zenon
<1>7. \A k \in 1..last :
        less[k] = CrossfadeAfter(plan, inputs[k].clip).lasts /\ more[k] = inputs[k + 1].lasts
  OBVIOUS
<1> HIDE DEF less, more
<1> QED BY <1>6, <1>7 DEF acc, ChainTotals

Sound(inputs, k) == IF inputs[k].kind = "file" THEN inputs[k].feeds ELSE inputs[k].lasts

LEMMA HeardFacts ==
  ASSUME NEW inputs \in Seq(InputRecord), inputs # <<>>,
         NEW audio \in [1..(Len(inputs) - 1) -> Int]
  PROVE  /\ \A k \in 0..(Len(inputs) - 1) : Heard(inputs, audio)[k] \in Int
         /\ Heard(inputs, audio)[0] = Sound(inputs, 1)
         /\ \A k \in 1..(Len(inputs) - 1) :
              Heard(inputs, audio)[k] =
                Heard(inputs, audio)[k - 1] - audio[k] + Sound(inputs, k + 1)
<1> DEFINE last == Len(inputs) - 1
           more == [k \in 1..last |-> Sound(inputs, k + 1)]
           heard == Heard(inputs, audio)
           first == Sound(inputs, 1)
<1>1. last \in Nat /\ 1 \in 1..Len(inputs) /\ \A k \in 1..last : k + 1 \in 1..Len(inputs)
  BY LenProperties, EmptySeq
<1>2. first \in Int /\ \A k \in 1..last : Sound(inputs, k + 1) \in Int
  BY <1>1, InputFields DEF Sound
<1>3. more \in [1..last -> Int]
  BY <1>2
<1> DEFINE Recursive(g) == g = [k \in 0..(Len(inputs) - 1) |->
             IF k = 0 THEN Sound(inputs, 1) ELSE g[k - 1] - audio[k] + Sound(inputs, k + 1)]
<1>4. \A g : Recursive(g) <=> IsChain(g, last, first, audio, more)
  <2> SUFFICES ASSUME NEW g
               PROVE  \A k \in 0..last : ChainStep(g, first, audio, more, k) =
                        IF k = 0 THEN Sound(inputs, 1)
                        ELSE g[k - 1] - audio[k] + Sound(inputs, k + 1)
    BY DEF IsChain
  <2>1. \A k \in 0..last : k = 0 \/ k \in 1..last
    BY <1>1
  <2> QED BY <2>1 DEF ChainStep
<1>5. IsChain(heard, last, first, audio, more)
  <2>1. heard = CHOOSE g : Recursive(g)
    BY DEF Heard, Sound
  <2>2. \E g : IsChain(g, last, first, audio, more)
    <3>1. audio \in [1..last -> Int]
      OBVIOUS
    <3> HIDE DEF last, first, more
    <3> QED BY <1>1, <1>2, <1>3, <3>1, ChainExists
  <2> HIDE DEF Recursive, heard, last, first, more
  <2> QED BY <1>4, <2>1, <2>2
<1> HIDE DEF heard
<1>6. ChainTotals(heard, last, first, audio, more)
  <2>1. last \in Nat
    BY <1>1
  <2>2. first \in Int
    BY <1>2
  <2>3. audio \in [1..last -> Int]
    OBVIOUS
  <2>4. more \in [1..last -> Int]
    BY <1>3
  <2> HIDE DEF more, last, first
  <2> QED BY <1>5, <2>1, <2>2, <2>3, <2>4, ChainFacts, Zenon
<1>7. \A k \in 1..last : more[k] = Sound(inputs, k + 1)
  OBVIOUS
<1> HIDE DEF more
<1> QED BY <1>6, <1>7 DEF heard, ChainTotals

(* What the k-th pair takes from the duration that a delete works out.        *)
PairTakes(order, list, n) ==
  IF 2 <= n /\ n - 1 <= Len(list) THEN Fitted(list[n - 1].lasts, order[n - 1], order[n]) ELSE 0

LEMMA PlannedFacts ==
  ASSUME RowsTyped, NEW order \in Seq(Clips), NEW list \in Seq(Saved)
  PROVE  \E upTo :
           /\ PlannedLength(order, list) = upTo[Len(order)]
           /\ upTo[0] = 0
           /\ \A n \in 0..Len(order) : upTo[n] \in Int
           /\ \A n \in 1..Len(order) :
                upTo[n] = upTo[n - 1] - PairTakes(order, list, n) + Long(order[n])
<1> DEFINE N == Len(order)
           less == [n \in 1..N |-> PairTakes(order, list, n)]
           more == [n \in 1..N |-> Long(order[n])]
           Recursive(g) == g = [n \in 0..N |->
             IF n = 0 THEN 0 ELSE g[n - 1] + Long(order[n]) - PairTakes(order, list, n)]
           upTo == CHOOSE g : Recursive(g)
<1>1. N \in Nat /\ Len(list) \in Nat /\ DOMAIN list = 1..Len(list)
  BY LenProperties
<1>2. \A n \in 1..N : order[n] \in Clips /\ Long(order[n]) \in Int
  BY ElementOfSeq, ShownTypes
<1>3. ASSUME NEW n \in 1..N
      PROVE  PairTakes(order, list, n) \in Int
  <2>1. CASE 2 <= n /\ n - 1 <= Len(list)
    <3>1. n - 1 \in DOMAIN list /\ n - 1 \in 1..N
      BY <1>1, <2>1
    <3>2. list[n - 1].lasts \in Int
      BY <3>1, SavedFields
    <3>3. Long(order[n]) \in Int /\ Long(order[n - 1]) \in Int
      BY <1>2, <3>1
    <3>4. Fitted(list[n - 1].lasts, order[n - 1], order[n]) \in Int
      BY <3>2, <3>3 DEF Fitted, Least
    <3> QED BY <2>1, <3>4 DEF PairTakes
  <2>2. CASE ~(2 <= n /\ n - 1 <= Len(list))
    BY <2>2 DEF PairTakes
  <2> QED BY <2>1, <2>2
<1>4. less \in [1..N -> Int] /\ more \in [1..N -> Int]
  BY <1>2, <1>3
<1>5. \A g : IsChain(g, N, 0, less, more) => Recursive(g)
  <2> SUFFICES ASSUME NEW g, IsChain(g, N, 0, less, more)
               PROVE  Recursive(g)
    OBVIOUS
  <2>1. ChainTotals(g, N, 0, less, more)
    <3>1. 0 \in Int /\ N \in Nat
      BY <1>1
    <3> HIDE DEF N, less, more
    <3> QED BY <1>4, <3>1, ChainFacts, Zenon
  <2>2. ASSUME NEW n \in 1..N
        PROVE  ChainStep(g, 0, less, more, n) =
                 g[n - 1] + Long(order[n]) - PairTakes(order, list, n)
    <3>1. n - 1 \in 0..N /\ n # 0
      BY <1>1
    <3>2. g[n - 1] \in Int
      BY <2>1, <3>1 DEF ChainTotals
    <3>3. ChainStep(g, 0, less, more, n) =
            g[n - 1] - PairTakes(order, list, n) + Long(order[n])
      BY <3>1 DEF ChainStep
    <3> QED BY <1>2, <1>3, <3>2, <3>3
  <2>3. ChainStep(g, 0, less, more, 0) = 0
    BY DEF ChainStep
  <2>4. \A n \in 0..N : n = 0 \/ n \in 1..N
    BY <1>1
  <2>5. g = [n \in 0..N |-> ChainStep(g, 0, less, more, n)]
    BY DEF IsChain
  <2>6. \A n \in 0..N : ChainStep(g, 0, less, more, n) =
          IF n = 0 THEN 0 ELSE g[n - 1] + Long(order[n]) - PairTakes(order, list, n)
    BY <2>2, <2>3, <2>4
  <2> QED BY <2>5, <2>6
<1>6. \E g : IsChain(g, N, 0, less, more)
  <2>1. 0 \in Int /\ N \in Nat
    BY <1>1
  <2> HIDE DEF N, less, more
  <2> QED BY <1>4, <2>1, ChainExists
<1>7. PlannedLength(order, list) = upTo[N]
  BY DEF PlannedLength, PairTakes
<1>8. Recursive(upTo)
  <2> HIDE DEF Recursive
  <2> QED BY <1>5, <1>6
<1> HIDE DEF upTo
<1>9. upTo[0] = 0 /\ \A n \in 1..N :
        upTo[n] = upTo[n - 1] + Long(order[n]) - PairTakes(order, list, n)
  <2> HIDE DEF N
  <2>1. 0 \in 0..N /\ \A n \in 1..N : n \in 0..N /\ n # 0
    BY <1>1
  <2> QED BY <1>8, <2>1
<1> DEFINE Reached == {n \in 0..N : upTo[n] \in Int}
<1>10. 0 \in Reached
  BY <1>1, <1>9
<1>11. ASSUME NEW n \in 1..N, n - 1 \in Reached PROVE n \in Reached
  <2> HIDE DEF N
  <2>1. n \in 0..N /\ upTo[n - 1] \in Int
    BY <1>1, <1>11
  <2> QED BY <1>2, <1>3, <1>9, <2>1
<1> HIDE DEF Reached
<1>12. \A n \in 0..N : n \in Reached
  <2> HIDE DEF N
  <2> QED BY <1>1, <1>10, <1>11, UpTo, Zenon
<1>13. \A n \in 0..N : upTo[n] \in Int
  BY <1>12 DEF Reached
<1>14. ASSUME NEW n \in 1..N
       PROVE  upTo[n] = upTo[n - 1] - PairTakes(order, list, n) + Long(order[n])
  <2> HIDE DEF N
  <2>1. n - 1 \in 0..N
    BY <1>1
  <2> QED BY <1>2, <1>3, <1>9, <1>13, <2>1
<1> QED BY <1>7, <1>9, <1>13, <1>14

-----------------------------------------------------------------------------

JobRecord == DOMAIN job = {"status", "plan", "inputs", "video", "audio"}

(* What a job that was built shows, it took from its own copy.                *)
JobShown ==
  /\ job.status \in {"none", "queued", "built", "failed"}
  /\ job.status # "built" => job.inputs = <<>> /\ job.video = <<>> /\ job.audio = <<>>
  /\ job.status = "built" =>
       /\ job.inputs \in Seq(InputRecord) /\ job.inputs # <<>>
       /\ \A j, k \in 1..Len(job.inputs) : job.inputs[j].clip = job.inputs[k].clip => j = k
       /\ Buildable(job.plan, job.inputs)
       /\ job.video = VideoFades(job.plan, job.inputs)
       /\ job.audio = AudioFades(job.plan, job.inputs)

TransInv ==
  /\ born \in 0..ClipCount
  /\ RowsTyped /\ \A c \in Clips : Valid(rows[c]) /\ (c > born => rows[c] = NoRow)
  /\ saved \in Seq(Saved) /\ job.plan \in Seq(Saved)
  /\ edits \in 0..MaxEdits
  /\ answer.code \in {0, 200, 500} /\ answer.lasts \in Int
  /\ JobRecord /\ JobShown

Silent(inputs) == \A k \in DOMAIN inputs : inputs[k].kind # "file"

LEMMA BuiltFacts ==
  ASSUME TransInv, job.status = "built"
  PROVE  /\ job.inputs \in Seq(InputRecord) /\ job.inputs # <<>> /\ job.plan \in Seq(Saved)
         /\ Len(job.inputs) \in Nat /\ Len(job.inputs) - 1 \in Nat
         /\ DOMAIN job.inputs = 1..Len(job.inputs)
         /\ job.video \in Seq([type : XfadeTypes, lasts : Nat, offset : Int])
         /\ job.audio \in Seq(Nat)
         /\ DOMAIN job.video = 1..(Len(job.inputs) - 1)
         /\ Silent(job.inputs) => job.audio = <<>>
         /\ ~Silent(job.inputs) => /\ Len(job.audio) = Len(job.inputs) - 1
                                   /\ DOMAIN job.audio = 1..(Len(job.inputs) - 1)
                                   /\ job.audio \in [1..(Len(job.inputs) - 1) -> Int]
         /\ \A k \in 1..(Len(job.inputs) - 1) :
              /\ job.video[k].type = CrossfadeAfter(job.plan, job.inputs[k].clip).type
              /\ job.video[k].lasts = CrossfadeAfter(job.plan, job.inputs[k].clip).lasts
              /\ job.video[k].offset =
                   Accumulated(job.plan, job.inputs)[k - 1] - job.video[k].lasts
              /\ job.video[k].lasts \in Int
              /\ ~Silent(job.inputs) => job.audio[k] = job.video[k].lasts
<1> DEFINE plan == job.plan
           inputs == job.inputs
           n == Len(inputs) - 1
           After(k) == CrossfadeAfter(plan, inputs[k].clip)
<1>1. /\ inputs \in Seq(InputRecord) /\ inputs # <<>> /\ Buildable(plan, inputs)
      /\ plan \in Seq(Saved)
      /\ job.video = VideoFades(plan, inputs) /\ job.audio = AudioFades(plan, inputs)
  BY DEF TransInv, JobShown
<1> HIDE DEF plan, inputs
<1>2. /\ Len(inputs) \in Nat /\ DOMAIN inputs = 1..Len(inputs) /\ n \in Nat
      /\ \A k \in 1..n : k \in 1..Len(inputs) /\ k - 1 \in 0..n
  BY <1>1, LenProperties, EmptySeq
<1>3. ASSUME NEW k \in 1..n
      PROVE  After(k).type \in XfadeTypes /\ After(k).lasts \in Nat
             /\ Accumulated(plan, inputs)[k - 1] \in Int
  <2>1. After(k).lasts \in Nat
    BY <1>1, CrossfadeTypes
  <2>2. After(k).type \in XfadeTypes
    <3>1. CASE Own(plan, inputs[k].clip) # {}
      <4>1. Len(inputs) > 1 /\ k \in DOMAIN inputs
        BY <1>2
      <4>2. Outgoing(plan, inputs[k].clip).type \in XfadeTypes
        BY <1>1, <3>1, <4>1 DEF Buildable
      <4> QED BY <3>1, <4>2 DEF CrossfadeAfter
    <3>2. CASE Own(plan, inputs[k].clip) = {}
      BY <3>2 DEF CrossfadeAfter, XfadeTypes
    <3> QED BY <3>1, <3>2
  <2>3. Accumulated(plan, inputs)[k - 1] \in Int
    BY <1>1, <1>2, AccumulatedFacts
  <2> QED BY <2>1, <2>2, <2>3
<1>4. job.video = [k \in 1..n |-> [type |-> After(k).type, lasts |-> After(k).lasts,
                     offset |-> Accumulated(plan, inputs)[k - 1] - After(k).lasts]]
  BY <1>1 DEF VideoFades
<1>5. ~Silent(inputs) => job.audio = [k \in 1..n |-> After(k).lasts]
  BY <1>1, Zenon DEF AudioFades, CrossfadeAfter, Silent, PictureDefault, SoundDefault
<1>6. Silent(inputs) => job.audio = <<>>
  BY <1>1 DEF AudioFades, Silent
<1> HIDE DEF After
<1>7. ASSUME NEW k \in 1..n
      PROVE  /\ job.video[k].type = After(k).type /\ job.video[k].lasts = After(k).lasts
             /\ job.video[k].offset = Accumulated(plan, inputs)[k - 1] - job.video[k].lasts
             /\ job.video[k].lasts \in Int
             /\ ~Silent(inputs) => job.audio[k] = job.video[k].lasts
  BY <1>3, <1>4, <1>5
<1>8. /\ job.video \in [1..n -> [type : XfadeTypes, lasts : Nat, offset : Int]]
      /\ ~Silent(inputs) => job.audio \in [1..n -> Nat]
  <2> HIDE DEF n
  <2>1. \A k \in 1..n :
          /\ After(k).type \in XfadeTypes /\ After(k).lasts \in Nat
          /\ Accumulated(plan, inputs)[k - 1] - After(k).lasts \in Int
    BY <1>3
  <2> QED BY <1>4, <1>5, <2>1
<1>9. /\ job.video \in Seq([type : XfadeTypes, lasts : Nat, offset : Int]) /\ DOMAIN job.video = 1..n
      /\ ~Silent(inputs) => /\ job.audio \in Seq(Nat) /\ Len(job.audio) = n
                            /\ DOMAIN job.audio = 1..n /\ job.audio \in [1..n -> Int]
  <2> HIDE DEF n
  <2>1. \A f : f \in [1..n -> Nat] => f \in [1..n -> Int]
    OBVIOUS
  <2> QED BY <1>2, <1>8, <2>1, AsSequence
<1>10. job.audio \in Seq(Nat)
  <2>1. <<>> \in Seq(Nat)
    OBVIOUS
  <2> QED BY <1>6, <1>9, <2>1
<1> QED BY <1>1, <1>2, <1>6, <1>7, <1>9, <1>10 DEF plan, inputs, After

LEMMA Typed == TransInv => TransTypeOK
<1> SUFFICES ASSUME TransInv PROVE TransTypeOK
  OBVIOUS
<1>1. job.status \in {"none", "queued", "built", "failed"}
  BY DEF TransInv, JobShown
<1>2. /\ job.inputs \in Seq(InputRecord) /\ job.audio \in Seq(Nat)
      /\ job.video \in Seq([type : XfadeTypes, lasts : Nat, offset : Int])
  <2>1. CASE job.status = "built"
    BY <2>1, BuiltFacts
  <2>2. CASE job.status # "built"
    <3>1. job.inputs = <<>> /\ job.video = <<>> /\ job.audio = <<>>
      BY <2>2 DEF TransInv, JobShown
    <3> QED BY <3>1
  <2> QED BY <2>1, <2>2
<1>3. rows \in [Clips -> Row] /\ \A c \in Clips : Valid(rows[c]) /\ (c > born => rows[c] = NoRow)
  BY DEF TransInv, RowsTyped
<1> QED BY <1>1, <1>2, <1>3 DEF TransInv, TransTypeOK, InputRecord

(* As long as the clips are cut where their picture is, sound and picture     *)
(* have come to the same length.                                              *)
LEMMA KeepTogether == TransInv => SoundFollowsPicture
<1> SUFFICES ASSUME TransInv, Faded, ~Silent(job.inputs)
             PROVE  /\ Len(job.audio) = Len(job.inputs) - 1
                    /\ \A k \in DOMAIN job.audio :
                         /\ job.audio[k] = job.video[k].lasts
                         /\ Trim(k) => Heard(job.inputs, job.audio)[k - 1] - job.audio[k]
                                         = job.video[k].offset
  <2>1. TransInv /\ Faded /\ Silent(job.inputs) => job.audio = <<>>
    BY DEF TransInv, JobShown, Faded, AudioFades, Silent
  <2> QED BY <2>1, Zenon DEF SoundFollowsPicture, Silent
<1> DEFINE inputs == job.inputs
           plan == job.plan
           audio == job.audio
           n == Len(inputs) - 1
           heard == Heard(inputs, audio)
           acc == Accumulated(plan, inputs)
<1>1. job.status = "built"
  BY DEF Faded
<1>2. /\ inputs \in Seq(InputRecord) /\ inputs # <<>> /\ plan \in Seq(Saved)
      /\ Len(inputs) \in Nat /\ n \in Nat
      /\ Len(audio) = n /\ DOMAIN audio = 1..n /\ audio \in [1..n -> Int]
      /\ \A k \in 1..n : /\ job.video[k].lasts = CrossfadeAfter(plan, inputs[k].clip).lasts
                         /\ job.video[k].offset = acc[k - 1] - job.video[k].lasts
                         /\ audio[k] = job.video[k].lasts
  BY <1>1, BuiltFacts
<1>3. /\ heard[0] = Sound(inputs, 1)
      /\ \A k \in 1..n : heard[k] = heard[k - 1] - audio[k] + Sound(inputs, k + 1)
  BY <1>2, HeardFacts
<1>4. /\ acc[0] = inputs[1].lasts
      /\ \A k \in 1..n : acc[k] = acc[k - 1] - CrossfadeAfter(plan, inputs[k].clip).lasts
                                   + inputs[k + 1].lasts
  BY <1>2, AccumulatedFacts
<1> HIDE DEF heard, acc, audio, plan
<1>5. ASSUME NEW k \in 1..n, Trim(k)
      PROVE  heard[k - 1] = acc[k - 1]
  <2>1. \A j \in 1..k : Sound(inputs, j) = inputs[j].lasts
    BY <1>5 DEF Trim, Sound
  <2> HIDE DEF inputs
  <2> DEFINE Reached == {j \in 0..(k - 1) : heard[j] = acc[j]}
  <2>2. k \in Nat /\ k >= 1 /\ k - 1 \in Nat
    BY <1>2
  <2>3. 0 \in Reached
    <3>1. 1 \in 1..k /\ 0 \in 0..(k - 1)
      BY <2>2
    <3> QED BY <1>3, <1>4, <2>1, <3>1
  <2>4. ASSUME NEW j \in 1..(k - 1), j - 1 \in Reached
        PROVE  j \in Reached
    <3>1. j \in 1..n /\ j + 1 \in 1..k /\ j \in 0..(k - 1)
      BY <1>2, <2>2
    <3>2. /\ heard[j] = heard[j - 1] - audio[j] + Sound(inputs, j + 1)
          /\ acc[j] = acc[j - 1] - audio[j] + inputs[j + 1].lasts
          /\ Sound(inputs, j + 1) = inputs[j + 1].lasts
      BY <1>2, <1>3, <1>4, <2>1, <3>1, ZenonT(40)
    <3>3. heard[j - 1] = acc[j - 1]
      BY <2>4
    <3> QED BY <3>1, <3>2, <3>3
  <2> HIDE DEF Reached
  <2>5. \A j \in 0..(k - 1) : j \in Reached
    BY <2>2, <2>3, <2>4, UpTo
  <2>6. k - 1 \in Reached
    BY <2>2, <2>5
  <2> QED BY <2>6 DEF Reached
<1>6. \A k \in 1..n : Trim(k) => heard[k - 1] - audio[k] = job.video[k].offset
  BY <1>2, <1>5
<1> QED BY <1>2, <1>6 DEF heard, audio

(* Where no transition of the first clip leads elsewhere since, and the last  *)
(* between the two was not asked for in reverse, it is the one looked up.     *)
LEMMA Landing == TransInv => TransitionsLand
<1> DEFINE plan == job.plan
<1> SUFFICES ASSUME TransInv, Faded, NEW k \in DOMAIN job.video
             PROVE  Lands(k)
  BY DEF TransitionsLand
<1> DEFINE x == job.inputs[k].clip
           y == job.inputs[k + 1].clip
           mine == Between(plan, x, y)
           own == Own(plan, x)
           fade == CrossfadeAfter(plan, x)
           video == job.video[k]
<1>1. plan \in Seq(Saved) /\ video.type = fade.type /\ video.lasts = fade.lasts
  BY BuiltFacts DEF Faded
<1>2. /\ Len(plan) \in Nat /\ DOMAIN plan = 1..Len(plan)
      /\ mine \in SUBSET (1..Len(plan)) /\ own \in SUBSET (1..Len(plan))
  BY <1>1, LenProperties DEF Between, Own
<1>3. Lands(k) <=> (\/ Elsewhere(plan, x, y) \/ Reversed(plan, x, y)
                    \/ IF mine = {} THEN video.lasts = Second /\ video.type = "fade"
                       ELSE /\ video.lasts = plan[LastOf(mine)].lasts
                            /\ video.type = plan[LastOf(mine)].type)
  BY Zenon DEF Lands
<1> HIDE DEF plan, x, y, video
<1> SUFFICES ASSUME ~Elsewhere(plan, x, y), ~Reversed(plan, x, y)
             PROVE  IF mine = {} THEN video.lasts = Second /\ video.type = "fade"
                    ELSE /\ video.lasts = plan[LastOf(mine)].lasts
                         /\ video.type = plan[LastOf(mine)].type
  BY <1>3
<1>4. \A i \in own : plan[i].from = x /\ i \in Int
  BY <1>2 DEF Own
<1>5. ASSUME NEW i \in own
      PROVE  plan[i].to = y \/ \E j \in mine : i <= j
  <2>1. plan[i].to = y \/ ~(\A j \in mine : j < i)
    BY DEF Elsewhere
  <2> QED BY <1>2, <2>1
<1>6. CASE mine = {}
  <2>1. \A i \in own : FALSE
    BY <1>2, <1>4, <1>5, <1>6 DEF Between
  <2>2. fade.lasts = Second /\ fade.type = "fade"
    BY <2>1 DEF CrossfadeAfter, PictureDefault
  <2> QED BY <1>1, <1>6, <2>2
<1>7. CASE mine # {}
  <2> DEFINE last == LastOf(mine)
  <2>1. last \in mine /\ \A j \in mine : j <= last
    <3>1. \E m \in mine : \A j \in mine : j <= m
      BY <1>2, <1>7, Greatest
    <3> QED BY <3>1 DEF LastOf
  <2>2. last \in own
    <3>1. {plan[last].from, plan[last].to} = {x, y} /\ last \in DOMAIN plan
      BY <2>1 DEF Between
    <3>2. plan[last].from # y \/ x = y
      BY <1>7 DEF Reversed
    <3>3. plan[last].from = x
      BY <3>1, <3>2
    <3> QED BY <3>1, <3>3 DEF Own
  <2> HIDE DEF last, mine, own
  <2>3. \A j \in own : j <= last
    <3> SUFFICES ASSUME NEW j \in own, ~(j <= last) PROVE FALSE
      OBVIOUS
    <3>1. j \in Int /\ last \in Int /\ \A i \in mine : i \in Int
      BY <1>2, <2>1
    <3>2. \A i \in mine : i < j
      BY <2>1, <3>1
    <3>3. plan[j].to = y
      BY <1>5, <3>1, <3>2
    <3>4. j \in mine
      BY <1>2, <1>4, <3>3 DEF Between, mine
    <3> QED BY <3>1, <3>2, <3>4
  <2>4. PICK m \in own : Outgoing(plan, x) = plan[m] /\ \A j \in own : j <= m
    BY <1>1, <2>2, OutgoingIsLast DEF own
  <2>5. m = last
    BY <1>2, <2>2, <2>3, <2>4
  <2>6. fade.lasts = plan[last].lasts /\ fade.type = plan[last].type
    BY <2>2, <2>4, <2>5 DEF CrossfadeAfter, own
  <2> HIDE DEF fade
  <2> QED BY <1>1, <1>7, <2>6 DEF last
<1> QED BY <1>6, <1>7

(* A delete would answer the length of what would be rendered: after k pairs  *)
(* both have come to the same.                                                *)
LEMMA Pairing == TransInv => PairedLengthRenders
<1> DEFINE order == Listed
           n == Len(order)
           inputs == Inputs
           L(i) == Long(order[i])
<1> SUFFICES ASSUME TransInv, n > 1, AlongTracks = order,
                    \A c \in Present : Long(c) = Shown(rows[c]),
                    Feeds(rows[order[n]]) = Shown(rows[order[n]]), InPairs(saved, order)
             PROVE  PlannedLength(AlongTracks, saved) = RenderedLength(saved, inputs)
  BY Zenon DEF PairedLengthRenders
<1>1. /\ RowsTyped /\ saved \in Seq(Saved)
      /\ order \in Seq(Present) /\ order \in Seq(Clips) /\ n \in Nat
      /\ \A i, j \in 1..n : order[i] = order[j] => i = j
  BY ListedFacts DEF TransInv
<1>2. /\ inputs \in Seq(InputRecord) /\ Len(inputs) = n
      /\ \A i \in 1..n : inputs[i] = Input(order[i])
  BY <1>1, InputsFacts
<1>3. ASSUME NEW i \in 1..n
      PROVE  /\ inputs[i].clip = order[i] /\ inputs[i].lasts = L(i) /\ L(i) \in Int
             /\ inputs[i].feeds = Feeds(rows[order[i]]) /\ L(i) = Shown(rows[order[i]])
  <2>1. order[i] \in Present /\ order[i] \in Clips
    BY <1>1, ElementOfSeq
  <2>2. /\ inputs[i].clip = order[i] /\ inputs[i].lasts = Shown(rows[order[i]])
        /\ inputs[i].feeds = Feeds(rows[order[i]])
    <3>1. \A c : /\ Input(c).clip = c /\ Input(c).lasts = Shown(rows[c])
                 /\ Input(c).feeds = Feeds(rows[c])
      BY DEF Input
    <3>2. inputs[i] = Input(order[i])
      BY <1>2
    <3> HIDE DEF inputs, order
    <3> QED BY <3>1, <3>2
  <2>3. Long(order[i]) = Shown(rows[order[i]])
    BY <2>1
  <2>4. Long(order[i]) \in Int
    BY <1>1, <2>1, ShownTypes
  <2> QED BY <2>2, <2>3, <2>4
<1> HIDE DEF order, inputs
<1>4. n - 1 \in 1..(n - 1) /\ n - 2 \in 0..(n - 1) /\ n - 1 \in 0..(n - 1) /\ n \in 1..n /\ 1 \in 1..n
      /\ n - 1 \in Nat
  <2> HIDE DEF n
  <2>1. n \in Nat
    BY <1>1
  <2> QED BY <2>1
<1>5. inputs[n].feeds = L(n)
  <2>1. inputs[n].feeds = Feeds(rows[order[n]]) /\ L(n) = Shown(rows[order[n]])
    BY <1>3, <1>4
  <2> QED BY <2>1
<1>6. PICK upTo :
        /\ PlannedLength(order, saved) = upTo[n]
        /\ upTo[0] = 0
        /\ \A i \in 0..n : upTo[i] \in Int
        /\ \A i \in 1..n : upTo[i] = upTo[i - 1] - PairTakes(order, saved, i) + L(i)
  BY <1>1, PlannedFacts
<1> HIDE DEF L
<1>7. /\ Len(saved) = n - 1 /\ DOMAIN saved = 1..(n - 1)
      /\ \A i \in 1..(n - 1) : i \in 1..n /\ i + 1 \in 1..n
  BY <1>1, LenProperties DEF InPairs
<1>8. ASSUME NEW i \in 1..(n - 1)
      PROVE  /\ saved[i].lasts \in Int
             /\ PairTakes(order, saved, i + 1) = saved[i].lasts
             /\ CrossfadeAfter(saved, inputs[i].clip).lasts = saved[i].lasts
  <2>1. /\ saved[i].from = order[i]
        /\ saved[i].lasts <= Long(order[i]) /\ saved[i].lasts <= Long(order[i + 1])
    BY <1>7 DEF InPairs
  <2>2. saved[i].lasts \in Int
    BY <1>1, <1>7, SavedFields
  <2>3. Long(order[i]) \in Int /\ Long(order[i + 1]) \in Int
    BY <1>3, <1>7 DEF L
  <2>4. Fitted(saved[i].lasts, order[i], order[i + 1]) = saved[i].lasts
    BY <2>1, <2>2, <2>3 DEF Fitted, Least
  <2>5. 2 <= i + 1 /\ (i + 1) - 1 = i /\ i <= Len(saved)
    BY <1>7
  <2>6. PairTakes(order, saved, i + 1) = saved[i].lasts
    BY <2>4, <2>5 DEF PairTakes
  <2>7. Own(saved, order[i]) = {i}
    <3>1. ASSUME NEW j \in 1..(n - 1), saved[j].from = order[i]
          PROVE  j = i
      <4>1. order[j] = order[i]
        BY <1>7, <3>1 DEF InPairs
      <4> QED BY <1>1, <1>7, <4>1
    <3> QED BY <1>7, <2>1, <3>1 DEF Own
  <2>8. Outgoing(saved, order[i]) = saved[i]
    BY <1>1, <2>7, OutgoingIsLast
  <2>9. CrossfadeAfter(saved, order[i]).lasts = saved[i].lasts
    BY <2>7, <2>8 DEF CrossfadeAfter
  <2>10. inputs[i].clip = order[i]
    BY <1>3, <1>7
  <2> QED BY <2>2, <2>6, <2>9, <2>10
<1> DEFINE acc == Accumulated(saved, inputs)
<1>9. /\ acc[0] = inputs[1].lasts
      /\ \A k \in 0..(n - 1) : acc[k] \in Int
      /\ \A k \in 1..(n - 1) :
           acc[k] = acc[k - 1] - CrossfadeAfter(saved, inputs[k].clip).lasts + inputs[k + 1].lasts
  <2>1. inputs # <<>>
    BY <1>2, <1>4, EmptySeq
  <2> QED BY <1>1, <1>2, <2>1, AccumulatedFacts
<1>10. acc[0] = L(1) /\ \A k \in 1..(n - 1) : acc[k] = acc[k - 1] - saved[k].lasts + L(k + 1)
  <2>1. \A k \in 1..(n - 1) : inputs[k + 1].lasts = L(k + 1)
    BY <1>3, <1>7
  <2> HIDE DEF acc
  <2> QED BY <1>3, <1>4, <1>8, <1>9, <2>1
<1>11. VideoFades(saved, inputs)[n - 1].offset = acc[n - 2] - saved[n - 1].lasts
  <2>1. (n - 1) - 1 = n - 2
    BY <1>1
  <2>2. VideoFades(saved, inputs)[n - 1].offset =
          acc[n - 2] - CrossfadeAfter(saved, inputs[n - 1].clip).lasts
    BY <1>2, <1>4, <2>1 DEF VideoFades
  <2> QED BY <1>4, <1>8, <2>2
<1> HIDE DEF acc
<1> DEFINE Reached == {k \in 0..(n - 1) : upTo[k + 1] = acc[k]}
<1>12. 0 \in Reached
  <2>1. PairTakes(order, saved, 1) = 0
    BY DEF PairTakes
  <2>2. upTo[1] = upTo[1 - 1] - 0 + L(1)
    BY <1>4, <1>6, <2>1
  <2>3. upTo[1] = L(1)
    BY <1>3, <1>4, <1>6, <2>2 DEF L
  <2> QED BY <1>1, <1>10, <2>3
<1>13. ASSUME NEW k \in 1..(n - 1), k - 1 \in Reached
       PROVE  k \in Reached
  <2>1. k + 1 \in 1..n /\ k - 1 \in 0..(n - 1) /\ k \in 0..(n - 1) /\ (k + 1) - 1 = k /\ (k - 1) + 1 = k
    BY <1>1
  <2>2. upTo[k + 1] = upTo[k] - saved[k].lasts + L(k + 1)
    BY <1>6, <1>8, <2>1
  <2>3. upTo[k] = acc[k - 1]
    BY <1>13, <2>1
  <2>4. acc[k] = acc[k - 1] - saved[k].lasts + L(k + 1)
    BY <1>10
  <2> QED BY <2>1, <2>2, <2>3, <2>4
<1> HIDE DEF Reached
<1>14. n - 1 \in Reached
  <2> DEFINE m == n - 1
  <2>1. m \in Nat /\ \A k \in 1..m : k - 1 \in Reached => k \in Reached
    BY <1>4, <1>13
  <2> HIDE DEF m
  <2>2. \A k \in 0..m : k \in Reached
    BY <1>12, <2>1, UpTo
  <2>3. m \in 0..m
    BY <2>1
  <2> QED BY <2>2, <2>3 DEF m
<1>15. upTo[n] = acc[n - 1]
  <2>1. (n - 1) + 1 = n
    BY <1>1
  <2> QED BY <1>14, <2>1 DEF Reached
<1>16. acc[n - 1] = acc[n - 2] - saved[n - 1].lasts + L(n)
  <2>1. (n - 1) + 1 = n /\ (n - 1) - 1 = n - 2
    BY <1>1
  <2> QED BY <1>4, <1>10, <2>1
<1>17. RenderedLength(saved, inputs) = VideoFades(saved, inputs)[n - 1].offset + inputs[n].feeds
  BY <1>2 DEF RenderedLength
<1>18. PlannedLength(AlongTracks, saved) = PlannedLength(order, saved)
  OBVIOUS
<1> QED BY <1>5, <1>6, <1>11, <1>15, <1>16, <1>17, <1>18

RowsGood == RowsTyped /\ \A c \in Clips : Valid(rows[c]) /\ (c > born => rows[c] = NoRow)

LEMMA NothingStored == NoRow \in Row /\ Valid(NoRow)
<1>1. NoRow \in Row
  BY TransitionAssumption DEF NoRow, Row
<1>2. NoRow.kind = "none" /\ NoRow.track = 0
  BY DEF NoRow
<1> QED BY <1>1, <1>2 DEF Valid, OfFile

LEMMA TransStarts == TransInit => TransInv
<1> SUFFICES ASSUME TransInit PROVE TransInv
  OBVIOUS
<1>1. saved \in Seq(Saved) /\ job = NoJob /\ answer = NoAnswer /\ edits = 0
  BY DEF TransInit
<1>2. job.plan \in Seq(Saved)
  BY <1>1 DEF NoJob
<1>3. JobRecord /\ JobShown
  BY <1>1 DEF NoJob, JobRecord, JobShown
<1>4. answer.code \in {0, 200, 500} /\ answer.lasts \in Int
  BY <1>1 DEF NoAnswer
<1>5. born \in 0..ClipCount /\ RowsGood
  BY DEF TransInit, RowsGood, RowsTyped
<1>6. edits \in 0..MaxEdits
  BY <1>1, TransitionAssumption
<1> QED BY <1>1, <1>2, <1>3, <1>4, <1>5, <1>6 DEF TransInv, RowsGood

LEMMA JobStays ==
  ASSUME JobRecord, JobShown, job' = job
  PROVE  JobRecord' /\ JobShown'
BY DEF JobRecord, JobShown

(* What an edit of the project may change: the job keeps what it has.         *)
LEMMA Edits ==
  ASSUME TransInv, Edit, job' = job, born' \in 0..ClipCount, RowsGood', saved' \in Seq(Saved),
         answer'.code \in {0, 200, 500}, answer'.lasts \in Int
  PROVE  TransInv'
<1>1. JobRecord' /\ JobShown' /\ job'.plan \in Seq(Saved)
  BY JobStays DEF TransInv
<1>2. edits' \in 0..MaxEdits
  BY TransitionAssumption DEF TransInv, Edit
<1>3. /\ RowsTyped' /\ \A c \in Clips : Valid(rows'[c]) /\ (c > born' => rows'[c] = NoRow)
  BY DEF RowsGood
<1> QED BY <1>1, <1>2, <1>3 DEF TransInv

LEMMA Rewriting ==
  ASSUME TransInv, Edit, UNCHANGED <<saved, job, answer>>, NEW c \in Clips,
         NEW r \in Row, Valid(r), Write(c, r)
  PROVE  TransInv'
<1>1. /\ rows \in [Clips -> Row] /\ rows' = [rows EXCEPT ![c] = r] /\ born' = born
      /\ born \in 0..ClipCount /\ c \in Clips /\ rows[c].kind # "none"
      /\ \A d \in Clips : Valid(rows[d]) /\ (d > born => rows[d] = NoRow)
  BY DEF TransInv, RowsTyped, Write, Present
<1>2. ~(c > born)
  BY <1>1 DEF NoRow
<1>3. rows' \in [Clips -> Row] /\ \A d \in Clips : rows'[d] = IF d = c THEN r ELSE rows[d]
  BY <1>1
<1>4. RowsGood'
  BY <1>1, <1>2, <1>3 DEF RowsGood, RowsTyped
<1> QED BY <1>1, <1>4, Edits DEF TransInv

LEMMA Inserting ==
  ASSUME TransInv, Edit, UNCHANGED <<saved, job, answer>>, NEW r \in Row, Valid(r), Insert(r)
  PROVE  TransInv'
<1>1. /\ rows \in [Clips -> Row] /\ rows' = [rows EXCEPT ![born + 1] = r]
      /\ born' = born + 1 /\ born < ClipCount /\ born \in 0..ClipCount
      /\ \A d \in Clips : Valid(rows[d]) /\ (d > born => rows[d] = NoRow)
  BY DEF TransInv, RowsTyped, Insert
<1>2. born + 1 \in Clips /\ born' \in 0..ClipCount /\ \A d \in Clips : d \in Int
  BY <1>1, TransitionAssumption DEF Clips
<1>3. rows' \in [Clips -> Row] /\ \A d \in Clips : rows'[d] = IF d = born + 1 THEN r ELSE rows[d]
  BY <1>1, <1>2
<1>4. RowsGood'
  BY <1>1, <1>2, <1>3 DEF RowsGood, RowsTyped
<1> QED BY <1>2, <1>4, Edits DEF TransInv

LEMMA NewRow ==
  NoRow \in Row /\ NoRow.kind = "none" /\ NoRow.track = 0 /\ NoRow.start = None /\ NoRow.end = None
BY NothingStored DEF NoRow

LEMMA AddsClip ==
  ASSUME TransInv, NEW kind \in {"file", "mute", "generator"}, NEW position \in 0..LastPosition,
         NEW in \in 0..SourceFrames, NEW out \in 0..SourceFrames, AddClip(kind, position, in, out)
  PROVE  TransInv'
<1> DEFINE r == [NoRow EXCEPT !.kind = kind, !.position = position, !.in = in, !.out = out]
<1>1. kind \in Kinds /\ position \in Nat /\ in \in Nat /\ out \in Nat
  BY TransitionAssumption DEF Kinds
<1>2. /\ Edit /\ Insert(r) /\ UNCHANGED <<saved, job, answer>>
      /\ kind # "generator" => in < out /\ out <= SourceFrames
  BY DEF AddClip
<1>3. r \in Row /\ r.kind = kind /\ r.in = in /\ r.out = out /\ r.track = 0
  BY <1>1, NewRow DEF Row
<1> HIDE DEF r
<1>4. Valid(r)
  BY <1>2, <1>3 DEF Valid, OfFile
<1> QED BY <1>2, <1>3, <1>4, Inserting

LEMMA AddsImage ==
  ASSUME TransInv, NEW position \in 0..LastPosition, NEW in \in 0..SourceFrames,
         NEW out \in 0..SourceFrames, NEW start \in None..LastTime, NEW end \in 1..LastTime,
         AddImage(position, in, out, start, end)
  PROVE  TransInv'
<1> DEFINE r == [NoRow EXCEPT !.kind = "image", !.position = position, !.in = in, !.out = out,
                              !.start = start, !.end = end]
<1>1. /\ position \in Nat /\ in \in Nat /\ out \in Nat /\ "image" \in Kinds
      /\ start \in Nat \cup {None} /\ end \in Nat \cup {None}
  BY TransitionAssumption DEF Kinds, None
<1>2. Edit /\ Insert(r) /\ UNCHANGED <<saved, job, answer>>
  BY DEF AddImage
<1>3. r \in Row /\ r.kind = "image" /\ r.track = 0
  BY <1>1, NewRow DEF Row
<1> HIDE DEF r
<1>4. Valid(r)
  BY <1>3 DEF Valid, OfFile
<1> QED BY <1>2, <1>3, <1>4, Inserting

LEMMA UpdatesClip ==
  ASSUME TransInv, NEW c \in Clips, NEW in \in None..SourceFrames, NEW out \in None..SourceFrames,
         NEW position \in None..LastPosition, UpdateClip(c, in, out, position)
  PROVE  TransInv'
<1> DEFINE old == rows[c]
           i == OrElse(in, old.in)
           o == OrElse(out, old.out)
           p == OrElse(position, old.position)
           r == [old EXCEPT !.in = i, !.out = o, !.position = p]
<1>1. RowsTyped /\ Valid(old) /\ old.kind # "none"
  BY DEF TransInv, UpdateClip, Write, Present
<1>2. /\ Edit /\ Write(c, r) /\ UNCHANGED <<saved, job, answer>>
      /\ (r.kind # "generator" => OfFile(r) /\ r.in < r.out /\ r.out <= SourceFrames)
  BY DEF UpdateClip
<1>3. old \in Row /\ old.position \in Nat /\ old.in \in Nat /\ old.out \in Nat
  BY <1>1, RowFields
<1> HIDE DEF old
<1>4. i \in Nat /\ o \in Nat /\ p \in Nat
  BY <1>3, TransitionAssumption DEF OrElse, None
<1> HIDE DEF i, o, p
<1>5. /\ r \in Row /\ r.kind = old.kind /\ r.track = old.track /\ r.start = old.start
      /\ r.end = old.end
  BY <1>3, <1>4 DEF Row
<1> HIDE DEF r
<1>6. Valid(r)
  BY <1>1, <1>2, <1>5 DEF Valid, OfFile, Timed
<1> QED BY <1>2, <1>5, <1>6, Rewriting

LEMMA DeletesClip ==
  ASSUME TransInv, NEW c \in Clips, DeleteClip(c)
  PROVE  TransInv'
<1>1. Edit /\ Write(c, NoRow) /\ UNCHANGED <<saved, job, answer>>
  BY DEF DeleteClip
<1> QED BY <1>1, NothingStored, Rewriting

(* A place on a track.                                                        *)
LEMMA Placing ==
  ASSUME TransInv, NEW c \in Clips, c \in Present, NEW track \in 0..TrackCount,
         NEW start \in Nat \cup {None}, NEW end \in Nat \cup {None},
         track # 0 /\ None \notin {start, end} => start < end
  PROVE  LET r == [rows[c] EXCEPT !.track = track, !.start = start, !.end = end]
         IN r \in Row /\ Valid(r)
<1> DEFINE old == rows[c]
           r == [old EXCEPT !.track = track, !.start = start, !.end = end]
<1>1. RowsTyped /\ Valid(old) /\ old.kind # "none"
  BY DEF TransInv, Present
<1>2. old \in Row
  BY <1>1, RowFields
<1>3. /\ r \in Row /\ r.kind = old.kind /\ r.in = old.in /\ r.out = old.out
      /\ r.track = track /\ r.start = start /\ r.end = end
  BY <1>2 DEF Row
<1> HIDE DEF r, old
<1>4. Valid(r)
  BY <1>1, <1>3 DEF Valid, OfFile, Timed
<1> QED BY <1>3, <1>4 DEF r, old

LEMMA PlacesClip ==
  ASSUME TransInv, NEW c \in Clips, NEW track \in 1..TrackCount, NEW start \in 0..LastTime,
         NEW end \in 1..LastTime, AddTimelineClip(c, track, start, end)
  PROVE  TransInv'
<1> DEFINE r == [rows[c] EXCEPT !.track = track, !.start = start, !.end = end]
<1>1. Edit /\ start < end /\ Write(c, r) /\ c \in Present /\ UNCHANGED <<saved, job, answer>>
  BY DEF AddTimelineClip, Write
<1>2. track \in 0..TrackCount /\ start \in Nat \cup {None} /\ end \in Nat \cup {None}
  BY TransitionAssumption
<1>3. r \in Row /\ Valid(r)
  BY <1>1, <1>2, Placing
<1> HIDE DEF r
<1> QED BY <1>1, <1>3, Rewriting

LEMMA MovesClip ==
  ASSUME TransInv, NEW c \in Clips, NEW track \in {None} \cup 1..TrackCount,
         NEW start \in None..LastTime, NEW end \in {None} \cup 1..LastTime,
         UpdateTimelineClip(c, track, start, end)
  PROVE  TransInv'
<1> DEFINE old == rows[c]
           t == OrElse(track, old.track)
           s == OrElse(start, old.start)
           e == OrElse(end, old.end)
           r == [old EXCEPT !.track = t, !.start = s, !.end = e]
<1>1. RowsTyped /\ c \in Present
  BY DEF TransInv, UpdateTimelineClip, Write
<1>2. Edit /\ (Timed(r) => r.start < r.end) /\ Write(c, r) /\ UNCHANGED <<saved, job, answer>>
  BY DEF UpdateTimelineClip
<1>3. /\ old \in Row /\ old.track \in 0..TrackCount /\ old.start \in Nat \cup {None}
      /\ old.end \in Nat \cup {None}
  <2>1. old \in Row
    BY <1>1, RowFields
  <2> HIDE DEF old
  <2> QED BY <2>1 DEF Row
<1> HIDE DEF old
<1>4. t \in 0..TrackCount /\ s \in Nat \cup {None} /\ e \in Nat \cup {None}
  BY <1>3, TransitionAssumption DEF OrElse, None
<1> HIDE DEF t, s, e
<1>5. r.start = s /\ r.end = e
  BY <1>3, <1>4 DEF Row
<1>6. None \notin {s, e} => s < e
  <2> HIDE DEF r
  <2> QED BY <1>2, <1>5 DEF Timed
<1>7. r \in Row /\ Valid(r)
  BY <1>1, <1>4, <1>6, Placing DEF old
<1> HIDE DEF r
<1> QED BY <1>2, <1>7, Rewriting

LEMMA TakesOffClip ==
  ASSUME TransInv, NEW c \in Clips, RemoveTimelineClip(c)
  PROVE  TransInv'
<1> DEFINE r == [rows[c] EXCEPT !.track = 0, !.start = None, !.end = None]
<1>1. Edit /\ Write(c, r) /\ c \in Present /\ UNCHANGED <<saved, job, answer>>
  BY DEF RemoveTimelineClip, Write
<1>2. 0 \in 0..TrackCount /\ None \in Nat \cup {None}
  BY TransitionAssumption
<1>3. r \in Row /\ Valid(r)
  BY <1>1, <1>2, Placing
<1> HIDE DEF r
<1> QED BY <1>1, <1>3, Rewriting

LEMMA SplitsClip ==
  ASSUME TransInv, NEW c \in Clips, NEW frame \in 1..SourceFrames, SplitClip(c, frame)
  PROVE  TransInv'
<1> DEFINE old == rows[c]
           kind == IF old.kind = "image" THEN "lost" ELSE old.kind
           long == (frame - old.in) * OutputTicks
           cut == IF old.start = None THEN None ELSE old.start + long
           next == old.position + (frame - old.in)
           half == [old EXCEPT !.kind = kind, !.track = 0]
           one == [half EXCEPT !.out = frame, !.end = cut]
           two == [half EXCEPT !.in = frame, !.start = cut, !.position = next]
<1>1. /\ Edit /\ UNCHANGED <<saved, job, answer>>
      /\ old.in < frame /\ frame < old.out /\ born + 2 <= ClipCount /\ born' = born + 2
      /\ rows' = [rows EXCEPT ![c] = NoRow, ![born + 1] = one, ![born + 2] = two]
  BY DEF SplitClip
<1>2. /\ rows \in [Clips -> Row] /\ born \in 0..ClipCount
      /\ \A d \in Clips : Valid(rows[d]) /\ (d > born => rows[d] = NoRow)
  BY DEF TransInv, RowsTyped
<1>3. /\ old \in Row /\ old.kind \in Kinds \cup {"none"} /\ Valid(old)
      /\ old.position \in Nat /\ old.in \in Nat /\ old.out \in Nat
      /\ old.start \in Nat \cup {None} /\ old.end \in Nat \cup {None}
  <2>1. old \in Row /\ Valid(old)
    BY <1>2
  <2> HIDE DEF old
  <2> QED BY <2>1 DEF Row
<1> HIDE DEF old, one, two
<1>4. old.kind # "none"
  <2>1. NoRow.in = 0 /\ NoRow.out = 0
    BY DEF NoRow
  <2>2. old # NoRow
    BY <1>1, <1>3, <2>1
  <2> QED BY <1>3, <2>2 DEF Valid
<1>5. frame \in Nat /\ 0 \in 0..TrackCount
  BY TransitionAssumption
<1>6. long \in Nat
  <2>1. frame - old.in \in Nat /\ OutputTicks \in Nat
    BY <1>1, <1>3, <1>5, TransitionAssumption
  <2> QED BY <2>1
<1>7. cut \in Nat \cup {None} /\ next \in Nat
  <2> HIDE DEF long
  <2> QED BY <1>1, <1>3, <1>5, <1>6
<1>8. kind \in Kinds
  BY <1>3, <1>4 DEF Kinds
<1> HIDE DEF kind, cut, next, long
<1>9. /\ half \in Row /\ half.kind = kind /\ half.in = old.in /\ half.out = old.out
      /\ half.track = 0
  BY <1>3, <1>5, <1>8 DEF Row
<1> HIDE DEF half
<1>10. one \in Row /\ one.kind = kind /\ one.in = old.in /\ one.out = frame /\ one.track = 0
  BY <1>5, <1>7, <1>9 DEF Row, one
<1>11. two \in Row /\ two.kind = kind /\ two.in = frame /\ two.out = old.out /\ two.track = 0
  BY <1>5, <1>7, <1>9 DEF Row, two
<1>12. kind # "none" /\ (kind \in {"file", "mute"} => old.out <= SourceFrames)
  BY <1>3, <1>4 DEF kind, Valid, OfFile
<1>13. frame <= SourceFrames
  BY TransitionAssumption
<1>14. Valid(one) /\ Valid(two)
  BY <1>1, <1>3, <1>5, <1>10, <1>11, <1>12, <1>13 DEF Valid, OfFile
<1>15. /\ born + 1 \in Clips /\ born + 2 \in Clips /\ born' \in 0..ClipCount
       /\ \A d \in Clips : d \in Int
  BY <1>1, <1>2, TransitionAssumption, SMTT(40) DEF Clips
<1>16. /\ rows' \in [Clips -> Row]
       /\ \A d \in Clips : rows'[d] = IF d = born + 2 THEN two
                                      ELSE IF d = born + 1 THEN one
                                      ELSE IF d = c THEN NoRow ELSE rows[d]
  BY <1>1, <1>2, <1>10, <1>11, <1>15, NewRow
<1>17. RowsGood'
  BY <1>1, <1>2, <1>14, <1>15, <1>16, NothingStored DEF RowsGood, RowsTyped
<1> QED BY <1>1, <1>15, <1>17, Edits DEF TransInv

-----------------------------------------------------------------------------

(* An edit of the transitions alone.                                          *)
LEMMA Saves ==
  ASSUME TransInv, Edit, UNCHANGED <<rows, born, job>>, saved' \in Seq(Saved),
         answer'.code \in {0, 200, 500}, answer'.lasts \in Int
  PROVE  TransInv'
<1>1. RowsGood' /\ born' \in 0..ClipCount
  BY DEF TransInv, RowsGood, RowsTyped
<1> QED BY <1>1, Edits

LEMMA AddsTransition ==
  ASSUME TransInv, NEW x \in Clips, NEW y \in Clips, NEW type \in Types,
         NEW lasts \in 1..LongestFade, AddTransition(x, y, type, lasts)
  PROVE  TransInv'
<1>1. Timeline(x, y, type, lasts) \in Saved
  BY TransitionAssumption DEF Timeline, Saved
<1>2. saved' = Append(saved, Timeline(x, y, type, lasts)) /\ Edit /\ UNCHANGED <<rows, born, job, answer>>
  BY DEF AddTransition
<1>3. saved' \in Seq(Saved)
  BY <1>1, <1>2, AppendProperties DEF TransInv
<1> QED BY <1>2, <1>3, Saves DEF TransInv

LEMMA AppliesTransition ==
  ASSUME TransInv, NEW k \in DOMAIN Listed, ApplyTransition(k)
  PROVE  TransInv'
<1> DEFINE e == Effect(Listed[k], Listed[k + 1])
<1>1. e \in Saved
  <2>1. /\ Listed \in Seq(Clips) /\ DOMAIN Listed = 1..Len(Listed) /\ k + 1 \in DOMAIN Listed
    BY ListedFacts DEF TransInv, ApplyTransition
  <2>2. Listed[k] \in Clips /\ Listed[k + 1] \in Clips
    BY <2>1, ElementOfSeq
  <2> QED BY <2>2, TransitionAssumption DEF Effect, Saved, Types
<1>2. saved' = Append(saved, e) /\ Edit /\ UNCHANGED <<rows, born, job, answer>>
  BY DEF ApplyTransition
<1> HIDE DEF e
<1>3. saved' \in Seq(Saved)
  BY <1>1, <1>2, AppendProperties, SMTT(40) DEF TransInv
<1> QED BY <1>2, <1>3, Saves DEF TransInv

LEMMA WithoutOne ==
  ASSUME NEW list \in Seq(Saved), NEW i \in DOMAIN list,
         NEW rest, rest = [k \in 1..(Len(list) - 1) |-> list[IF k < i THEN k ELSE k + 1]]
  PROVE  rest \in Seq(Saved)
<1> DEFINE n == Len(list) - 1
<1>1. Len(list) \in Nat /\ DOMAIN list = 1..Len(list) /\ n \in Nat
  BY LenProperties
<1>2. ASSUME NEW k \in 1..n
      PROVE  list[IF k < i THEN k ELSE k + 1] \in Saved
  <2>1. (IF k < i THEN k ELSE k + 1) \in 1..Len(list)
    BY <1>1
  <2> QED BY <2>1, ElementOfSeq
<1>3. rest \in [1..n -> Saved]
  <2> HIDE DEF n
  <2> QED BY <1>2 DEF n
<1> HIDE DEF n
<1> QED BY <1>1, <1>3, AsSequence

LEMMA DeletesTransition ==
  ASSUME TransInv, NEW i \in DOMAIN saved, DeleteTransition(i)
  PROVE  TransInv'
<1> DEFINE rest == [k \in 1..(Len(saved) - 1) |-> saved[IF k < i THEN k ELSE k + 1]]
           lasts == PlannedLength(AlongTracks, rest)
<1>1. rest \in Seq(Saved)
  BY WithoutOne DEF TransInv
<1>2. /\ Edit /\ saved' = rest /\ UNCHANGED <<rows, born, job>>
      /\ answer' \in {[code |-> 500, lasts |-> 0], [code |-> 200, lasts |-> lasts]}
  <2> HIDE DEF rest
  <2> QED BY DEF DeleteTransition, rest
<1> HIDE DEF rest
<1>3. lasts \in Int
  <2>1. RowsTyped /\ AlongTracks \in Seq(Clips)
    BY AlongFacts DEF TransInv
  <2>2. Len(AlongTracks) \in 0..Len(AlongTracks)
    BY <2>1, LenProperties
  <2>3. PICK upTo : /\ lasts = upTo[Len(AlongTracks)]
                    /\ \A n \in 0..Len(AlongTracks) : upTo[n] \in Int
    BY <1>1, <2>1, PlannedFacts
  <2> QED BY <2>2, <2>3
<1> HIDE DEF lasts
<1>4. answer'.code \in {0, 200, 500} /\ answer'.lasts \in Int
  BY <1>2, <1>3
<1> QED BY <1>1, <1>2, <1>4, Saves

(* A step of the job alone.                                                   *)
LEMMA JobSteps ==
  ASSUME TransInv, UNCHANGED <<rows, born, saved, edits, answer>>, JobRecord', JobShown',
         job'.plan \in Seq(Saved)
  PROVE  TransInv'
BY DEF TransInv, RowsTyped

LEMMA Submits ==
  ASSUME TransInv, SubmitRender
  PROVE  TransInv'
<1>1. job' = [status |-> "queued", plan |-> saved, inputs |-> <<>>, video |-> <<>>, audio |-> <<>>]
      /\ UNCHANGED <<rows, born, saved, edits, answer>>
  BY DEF SubmitRender, NoJob
<1>2. JobRecord' /\ JobShown' /\ job'.plan \in Seq(Saved)
  BY <1>1 DEF JobRecord, JobShown, TransInv
<1> QED BY <1>1, <1>2, JobSteps

LEMMA Builds ==
  ASSUME TransInv, BuildCommand
  PROVE  TransInv'
<1> DEFINE inputs == Inputs
           plan == job.plan
           video == VideoFades(plan, inputs)
           audio == AudioFades(plan, inputs)
<1>1. /\ Present # {} /\ Buildable(plan, inputs) /\ plan \in Seq(Saved)
      /\ job' = [job EXCEPT !.status = "built", !.inputs = inputs, !.video = video, !.audio = audio]
      /\ UNCHANGED <<rows, born, saved, edits, answer>>
      /\ JobRecord
  BY DEF TransInv, BuildCommand
<1>2. /\ inputs \in Seq(InputRecord) /\ inputs # <<>>
      /\ \A j, k \in 1..Len(inputs) : inputs[j].clip = inputs[k].clip => j = k
  <2>1. RowsTyped
    BY DEF TransInv
  <2>2. Len(inputs) = Len(Listed) /\ Len(Listed) # 0
    BY <1>1, <2>1, InputsFacts, ListedFacts, EmptySeq
  <2> HIDE DEF inputs
  <2>3. inputs # <<>>
    BY <2>2
  <2> QED BY <2>1, <2>3, InputsFacts DEF inputs
<1> HIDE DEF inputs, plan, video, audio
<1>3. /\ DOMAIN job' = DOMAIN job /\ job'.plan = plan /\ job'.status = "built"
      /\ job'.inputs = inputs /\ job'.video = video /\ job'.audio = audio
  BY <1>1 DEF JobRecord, plan
<1>4. job'.video = VideoFades(job'.plan, job'.inputs) /\ job'.audio = AudioFades(job'.plan, job'.inputs)
      /\ Buildable(job'.plan, job'.inputs)
  BY <1>1, <1>3 DEF video, audio
<1>5. JobRecord' /\ JobShown' /\ job'.plan \in Seq(Saved)
  BY <1>1, <1>2, <1>3, <1>4 DEF JobRecord, JobShown
<1> QED BY <1>1, <1>5, JobSteps

LEMMA Fails ==
  ASSUME TransInv, BuildFails
  PROVE  TransInv'
<1>1. /\ job' = [job EXCEPT !.status = "failed"] /\ job.status = "queued"
      /\ UNCHANGED <<rows, born, saved, edits, answer>>
      /\ JobRecord /\ JobShown /\ job.plan \in Seq(Saved)
  BY DEF TransInv, BuildFails
<1>2. /\ DOMAIN job' = DOMAIN job /\ job'.plan = job.plan /\ job'.status = "failed"
      /\ job'.inputs = job.inputs /\ job'.video = job.video /\ job'.audio = job.audio
  BY <1>1 DEF JobRecord
<1>3. JobRecord' /\ JobShown' /\ job'.plan \in Seq(Saved)
  BY <1>1, <1>2 DEF JobRecord, JobShown
<1> QED BY <1>1, <1>3, JobSteps

LEMMA TransSteps == TransInv /\ [TransNext]_transVars => TransInv'
<1> SUFFICES ASSUME TransInv, [TransNext]_transVars PROVE TransInv'
  OBVIOUS
<1>1. CASE EditClips
  BY <1>1, AddsClip, AddsImage, UpdatesClip, SplitsClip, DeletesClip DEF EditClips
<1>2. CASE EditTimeline
  BY <1>2, PlacesClip, MovesClip, TakesOffClip DEF EditTimeline
<1>3. CASE EditTransitions
  BY <1>3, AddsTransition, AppliesTransition, DeletesTransition DEF EditTransitions
<1>4. CASE SubmitRender
  BY <1>4, Submits
<1>5. CASE BuildCommand
  BY <1>5, Builds
<1>6. CASE BuildFails
  BY <1>6, Fails
<1>7. CASE UNCHANGED transVars
  <2>1. UNCHANGED <<rows, born, saved, edits, job, answer>>
    BY <1>7 DEF transVars
  <2>2. JobRecord' /\ JobShown'
    BY <2>1, JobStays DEF TransInv
  <2> QED BY <2>1, <2>2, JobSteps DEF TransInv
<1> QED BY <1>1, <1>2, <1>3, <1>4, <1>5, <1>6, <1>7 DEF TransNext

(* What is saved is what is rendered, whatever was done to clips, places and  *)
(* transitions before the submission and until the worker reads the clips.    *)
(* In the command of a job every pair of clips fades as long in the sound     *)
(* (Python) as in the picture (Rust), and begins there at the same time where *)
(* the clips before are cut alike; two clips shown one after the other fade   *)
(* with the youngest transition that the job's copy has for the two, or with  *)
(* the default, unless one of the first clip leads elsewhere or theirs was    *)
(* asked for in reverse; and where both orders and both lengths of the clips  *)
(* agree and each pair has its transition, the duration that a delete answers *)
(* is the length of what would be rendered.                                   *)
THEOREM SavedFades == TransSpec => []SavedFadesRender
<1>1. TransInv => SavedFadesRender
  BY Typed, KeepTogether, Landing, Pairing DEF SavedFadesRender
<1> QED BY <1>1, TransStarts, TransSteps, PTL DEF TransSpec
=============================================================================
