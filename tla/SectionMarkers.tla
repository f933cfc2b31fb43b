--------------------------- MODULE SectionMarkers ---------------------------
(* The section markers of a project (api/routers/markers.py,                 *)
(* db/markers_repository.py): half-open intervals that must not overlap.     *)
EXTENDS MediaCalls

CONSTANT Timeline  \* bound: the last point in time

ASSUME TimelineAssumption == Timeline \in Nat \ {0}

VARIABLES
  sections,     \* sections[m]: the interval of the marker that call m created
  markerCall,   \* markerCall[r]: place of call r, the marker it is about, the
                \* interval it read or is to write
  markerRaced   \* history: a marker was written between the reads and the write
                \* of another call

markerVars == <<sections, markerCall, markerRaced>>

Intervals == {i \in (0 .. Timeline) \X (0 .. Timeline) : i[1] < i[2]}
NoSection == <<0, 0>>
Sections == {m \in Calls : sections[m] # NoSection}
NoMarkerCall == [pc |-> "none", m |-> None, at |-> NoSection, stale |-> FALSE]

MarkersInit ==
  /\ sections = [m \in Calls |-> NoSection]
  /\ markerCall = [r \in Calls |-> NoMarkerCall]
  /\ markerRaced = FALSE

Disjoint(i, k) == ~(i[1] < k[2] /\ i[2] > k[1])

(* Mutated: only where a section starts is looked at.                        *)
FreeStart(interval, excluded) ==
  \A m \in Sections \ {excluded} : ~(sections[m][1] <= interval[1] /\ interval[1] < sections[m][2])

(* check_overlap                                                             *)
Free(interval, excluded) == \A m \in Sections \ {excluded} : Disjoint(sections[m], interval)

MarkerEnds(r) == markerCall' = [markerCall EXCEPT ![r] = NoMarkerCall]

(* POST: end_time > start_time and no overlap, or 422.                       *)
MarkerCreate ==
  /\ Called
  /\ \E interval \in Intervals :
       /\ Free(interval, None)
       /\ markerCall' = [markerCall EXCEPT ![calls'] =
            [pc |-> "write", m |-> calls', at |-> interval, stale |-> FALSE]]
  /\ UNCHANGED <<sections, markerRaced>>

(* PATCH reads the row; a new name alone is written back with the times read.*)
MarkerRead ==
  /\ Called
  /\ \E m \in Sections, pc \in {"check", "update"} :
       markerCall' = [markerCall EXCEPT ![calls'] =
         [pc |-> pc, m |-> m, at |-> sections[m], stale |-> FALSE]]
  /\ UNCHANGED <<sections, markerRaced>>

(* New times are tested against the others.                                  *)
MarkerCheck(r) ==
  /\ markerCall[r].pc = "check"
  /\ \/ \E interval \in Intervals :
          /\ Free(interval, markerCall[r].m)
          /\ markerCall' = [markerCall EXCEPT ![r].pc = "update", ![r].at = interval]
     \/ MarkerEnds(r)
  /\ UNCHANGED <<sections, markerRaced>>

Meanwhile(r) ==
  [q \in Calls |-> IF q = r \/ markerCall[q].pc = "none" THEN NoMarkerCall
                   ELSE [markerCall[q] EXCEPT !.stale = TRUE]]

(* An UPDATE of a deleted row changes nothing: 404.                          *)
MarkerWrite(r) ==
  LET m == markerCall[r].m IN
  /\ markerCall[r].pc \in {"write", "update"}
  /\ IF markerCall[r].pc = "update" /\ sections[m] = NoSection
     THEN MarkerEnds(r) /\ UNCHANGED <<sections, markerRaced>>
     ELSE /\ sections' = [sections EXCEPT ![m] = markerCall[r].at]
          /\ markerCall' = Meanwhile(r)
          /\ markerRaced' = (markerRaced \/ markerCall[r].stale)

MarkerDelete ==
  /\ Called
  /\ \E m \in Sections : sections' = [sections EXCEPT ![m] = NoSection]
  /\ UNCHANGED <<markerCall, markerRaced>>

MarkersServerEnds ==
  /\ markerCall' = [r \in Calls |-> NoMarkerCall]
  /\ UNCHANGED <<sections, markerRaced>>

MarkersNext ==
  \/ MarkerCreate \/ MarkerRead \/ MarkerDelete
  \/ SameCalls /\ \E r \in Calls : MarkerCheck(r) \/ MarkerWrite(r)

-----------------------------------------------------------------------------
(* Properties.                                                               *)

MarkersTypeOK ==
  /\ sections \in [Calls -> Intervals \union {NoSection}]
  /\ markerCall \in [Calls -> [pc : {"none", "check", "write", "update"},
                               m : Calls \union {None},
                               at : Intervals \union {NoSection}, stale : BOOLEAN]]
  /\ markerRaced \in BOOLEAN

(* No two sections of a project overlap, however markers are created, moved, *)
(* renamed and deleted, unless one was written between another's check and   *)
(* its write.                                                                *)
SectionsDisjoint ==
  ~markerRaced => \A m, n \in Sections : m # n => Disjoint(sections[m], sections[n])
=============================================================================
