---------------------------- MODULE MediaProofs -----------------------------
(* Theorems about the media services of MediaServer, one service after the   *)
(* other and then together: for any bounds, videos, quota, keys, finite      *)
(* batch, number of encoders and length of the timeline.                     *)
EXTENDS MediaServer, FiniteSetTheorems, TLAPS

-----------------------------------------------------------------------------
(* The library services: assets, encoder cache, section markers, waveforms   *)
(* and strips.                                                               *)

(* How a step of the server looks to one service, and to the budget of calls.*)

LEMMA AssetStep == [Next]_vars => AssetNext \/ AssetServerEnds \/ UNCHANGED assetVars
BY DEF Next, vars, Library, libraryVars, ServerEnds

LEMMA EncStep == [Next]_vars => EncNext \/ EncServerEnds \/ UNCHANGED encVars
BY DEF Next, vars, Library, libraryVars, ServerEnds

LEMMA MarkersStep == [Next]_vars => MarkersNext \/ MarkersServerEnds \/ UNCHANGED markerVars
BY DEF Next, vars, Library, libraryVars, ServerEnds

LEMMA VisualStep == [Next]_vars => VisualNext \/ VisualServerEnds \/ UNCHANGED visualVars
BY DEF Next, vars, Library, libraryVars, ServerEnds

Counted == calls \in 0 .. MaxCalls /\ stops \in 0 .. MaxStops

LEMMA CallStep ==
  [Next]_vars => /\ Called \/ UNCHANGED calls
                 /\ UNCHANGED stops \/ (stops < MaxStops /\ stops' = stops + 1)
<1>1. ProxyNext => (Called \/ UNCHANGED calls) /\ UNCHANGED stops
  BY DEF Called, ProxyNext, SameCalls, ProxySubmit, ProxyScan, ProxyDelete
<1>2. TtsNext => (Called \/ UNCHANGED calls) /\ UNCHANGED stops
  BY DEF Called, TtsNext, SameCalls, TtsCall, TtsCalled
<1>3. BatchNext => (Called \/ UNCHANGED calls) /\ UNCHANGED stops
  BY DEF Called, BatchNext, SameCalls, BatchCreate, CancelRead
<1>4. VisualNext => (Called \/ UNCHANGED calls) /\ UNCHANGED stops
  BY DEF Called, VisualNext, SameCalls, VisualPost, VisualDelete
<1>5. AssetNext => (Called \/ UNCHANGED calls) /\ UNCHANGED stops
  BY DEF Called, AssetNext, SameCalls, AssetUpload, AssetFind
<1>6. EncNext => (Called \/ UNCHANGED calls) /\ UNCHANGED stops
  BY DEF Called, EncNext, SameCalls, EncGet, EncRefresh, EncAsk
<1>7. MarkersNext => (Called \/ UNCHANGED calls) /\ UNCHANGED stops
  BY DEF Called, MarkersNext, SameCalls, MarkerCreate, MarkerRead, MarkerDelete
<1> QED
  BY <1>1, <1>2, <1>3, <1>4, <1>5, <1>6, <1>7 DEF Next, vars, Library, ServerEnds

(* No behaviour makes more calls, or sees more stops, than the bounds, so    *)
(* that each call has its own number.                                        *)
THEOREM CallsCounted == Spec => []Counted
<1>1. Init => Counted
  BY CallsAssumption DEF Init, Counted
<1>2. Counted /\ [Next]_vars => Counted'
  BY CallStep, CallsAssumption DEF Called, Counted
<1> QED
  BY <1>1, <1>2, PTL DEF Spec

-----------------------------------------------------------------------------
(* Assets.  Unless two uploads overlapped, at most one is on its way, and    *)
(* none once there is a row: the row is never written again.                 *)
AssetInv ==
  /\ AssetTypeOK
  /\ \A r \in Calls : assetCall[r] \in {"restore", "delete"} => asset # "absent"
  /\ ~assetRaced =>
       /\ asset # "absent" => assetFile = "complete" /\ Uploading = {}
       /\ \A r, q \in Uploading : r = q
       /\ \A r \in Calls : assetCall[r] = "insert" => assetFile = "complete"

LEMMA AssetInductive == AssetInv /\ [Next]_vars => AssetInv'
<1> SUFFICES ASSUME AssetInv, [Next]_vars PROVE AssetInv'
  OBVIOUS
<1> USE DEF AssetInv, AssetTypeOK, Uploading, AssetGoes
<1>1. CASE AssetUpload
  BY <1>1 DEF AssetUpload
<1>2. CASE AssetFind
  BY <1>2 DEF AssetFind
<1>3. ASSUME NEW r \in Calls, AssetTruncate(r) PROVE AssetInv'
  BY <1>3 DEF AssetTruncate
<1>4. ASSUME NEW r \in Calls, AssetWritten(r) PROVE AssetInv'
  BY <1>4 DEF AssetWritten
<1>5. ASSUME NEW r \in Calls, AssetWriteFails(r) PROVE AssetInv'
  BY <1>5 DEF AssetWriteFails
<1>6. ASSUME NEW r \in Calls, AssetInsert(r) PROVE AssetInv'
  BY <1>6 DEF AssetInsert
<1>7. ASSUME NEW r \in Calls, AssetRestore(r) PROVE AssetInv'
  BY <1>7 DEF AssetRestore
<1>8. ASSUME NEW r \in Calls, AssetDelete(r) PROVE AssetInv'
  BY <1>8 DEF AssetDelete
<1>9. CASE AssetServerEnds
  BY <1>9 DEF AssetServerEnds
<1>10. CASE UNCHANGED assetVars
  BY <1>10 DEF assetVars
<1> QED
  BY <1>1, <1>2, <1>3, <1>4, <1>5, <1>6, <1>7, <1>8, <1>9, <1>10, AssetStep DEF AssetNext

(* An asset that a client can download has its whole file.                   *)
THEOREM AssetFiles == Spec => [](AssetTypeOK /\ AssetHasFile)
<1>1. Init => AssetInv
  BY DEF Init, AssetInit, AssetInv, AssetTypeOK, Uploading
<1>2. AssetInv => AssetTypeOK /\ AssetHasFile
  BY DEF AssetInv, AssetHasFile
<1> QED
  BY <1>1, <1>2, AssetInductive, PTL DEF Spec

-----------------------------------------------------------------------------
(* The encoder cache.  The lock has one holder, and what is in the table is  *)
(* known at each of its places.                                              *)
EncHolds == {"recheck", "detect", "clear", "insert"}
Whole(rows) == rows = {} \/ rows = 1 .. Encoders

EncInv ==
  /\ EncTypeOK
  /\ calls \in 0 .. MaxCalls
  /\ \A r \in Calls : r > calls => encCall[r] = "none"
  /\ \A r, q \in Calls : encCall[r] \in EncHolds /\ encCall[q] \in EncHolds => r = q
  /\ ~encTorn =>
       /\ (\A r \in Calls : encCall[r] \notin {"clear", "insert"}) =>
            encoders = encSaved /\ Whole(encoders)
       /\ \A r \in Calls : encCall[r] = "clear" => encoders = {} /\ Whole(encSaved)
       /\ \A r \in Calls : encCall[r] = "insert" => encoders = 1 .. encNext - 1

LEMMA EncInductive == EncInv /\ [Next]_vars => EncInv'
<1> SUFFICES ASSUME EncInv, [Next]_vars PROVE EncInv'
  OBVIOUS
<1> USE EncodersAssumption, CallsAssumption DEF EncInv, EncTypeOK, EncHolds, EncGoes, Whole
<1>0. Called \/ UNCHANGED calls
  BY CallStep
<1> USE <1>0 DEF Called, Calls
<1>1. CASE EncGet
  BY <1>1 DEF EncGet, EncAsk, EncLocked
<1>2. CASE EncRefresh
  BY <1>2 DEF EncRefresh, EncAsk, EncLocked
<1>3. CASE EncOtherCommits
  BY <1>3 DEF EncOtherCommits
<1>4. CASE EncOtherRollsBack
  BY <1>4 DEF EncOtherRollsBack
<1>5. ASSUME NEW r \in Calls, EncRecheck(r) PROVE EncInv'
  BY <1>5 DEF EncRecheck
<1>6. ASSUME NEW r \in Calls, EncFails(r) PROVE EncInv'
  BY <1>6 DEF EncFails
<1>7. ASSUME NEW r \in Calls, EncDetected(r) PROVE EncInv'
  BY <1>7 DEF EncDetected
<1>8. ASSUME NEW r \in Calls, EncCleared(r) PROVE EncInv'
  BY <1>8 DEF EncCleared
<1>9. ASSUME NEW r \in Calls, EncInsert(r) PROVE EncInv'
  <2>1. CASE encNext \in encoders
    <3>1. /\ encCall' = [encCall EXCEPT ![r] = "done"]
          /\ encCall[r] = "insert"
          /\ UNCHANGED <<encoders, encNext, encSaved, encTorn>>
      BY <1>9, <2>1 DEF EncInsert
    <3>2. encoders # 1 .. encNext - 1
      BY <2>1
    <3> QED
      BY <3>1, <3>2
  <2>2. CASE encNext \notin encoders
    <3>1. /\ encoders' = encoders \union {encNext} /\ encNext' = encNext + 1
          /\ encNext <= Encoders
          /\ encCall[r] = "insert"
          /\ UNCHANGED <<encCall, encSaved, encTorn>>
      BY <1>9, <2>2 DEF EncInsert
    <3>2. EncTypeOK'
      BY <3>1
    <3>3. encoders = 1 .. encNext - 1 => encoders' = 1 .. encNext' - 1
      BY <3>1
    <3> QED
      BY <3>1, <3>2, <3>3
  <2> QED
    BY <2>1, <2>2
<1>10. ASSUME NEW r \in Calls, EncStored(r) PROVE EncInv'
  BY <1>10 DEF EncStored
<1>11. CASE EncServerEnds
  <2>1. EncTypeOK'
    BY <1>11 DEF EncServerEnds
  <2>2. \A r \in Calls : encCall'[r] \notin EncHolds /\ (r > calls' => encCall'[r] = "none")
    BY <1>11 DEF EncServerEnds
  <2>3. ~encTorn' => encoders' = encSaved' /\ Whole(encSaved')
    <3>1. CASE \E r \in Calls : encCall[r] = "insert"
      BY <1>11, <3>1 DEF EncServerEnds
    <3>2. CASE \E r \in Calls : encCall[r] = "clear"
      BY <1>11, <3>2 DEF EncServerEnds
    <3>3. CASE \A r \in Calls : encCall[r] \notin {"clear", "insert"}
      BY <1>11, <3>3 DEF EncServerEnds
    <3> QED
      BY <3>1, <3>2, <3>3
  <2> QED
    BY <2>1, <2>2, <2>3
<1>12. CASE UNCHANGED encVars
  BY <1>12 DEF encVars
<1> QED
  BY <1>1, <1>2, <1>3, <1>4, <1>5, <1>6, <1>7, <1>8, <1>9, <1>10, <1>11, <1>12, EncStep
  DEF EncNext

(* A list of encoders that nobody is replacing is whole, or empty, and on    *)
(* disk.                                                                     *)
THEOREM EncoderLists == Spec => [](EncTypeOK /\ EncodersWhole)
<1>1. Init => EncInv
  <2>1. ASSUME Init PROVE /\ encoders = {} /\ encSaved = {} /\ calls = 0
                          /\ encCall = [r \in Calls |-> "none"]
                          /\ encNext = 1 /\ encTorn = FALSE
    BY <2>1 DEF Init, EncInit
  <2> QED
    BY <2>1, EncodersAssumption, CallsAssumption DEF EncInv, EncTypeOK, EncHolds, Whole
<1>2. EncInv => EncTypeOK /\ EncodersWhole
  BY DEF EncInv, EncodersWhole, EncLocked, EncHolds, Whole
<1> QED
  BY <1>1, <1>2, EncInductive, PTL DEF Spec

-----------------------------------------------------------------------------
(* Section markers.  What a call is about to write still fits, unless another*)
(* call has written since it looked.                                         *)
MarkersInv ==
  /\ MarkersTypeOK
  /\ calls \in 0 .. MaxCalls
  /\ \A r \in Calls : markerCall[r].pc # "none" =>
       markerCall[r].m \in Calls /\ markerCall[r].at \in Intervals
  /\ ~markerRaced =>
       /\ SectionsDisjoint
       /\ \A r \in Calls : markerCall[r].pc \in {"write", "update"} /\ ~markerCall[r].stale =>
            Free(markerCall[r].at, markerCall[r].m)

(* Removing a section leaves the others free, and two intervals are disjoint *)
(* whichever is named first.                                                 *)
LEMMA DisjointSymmetric ==
  ASSUME NEW i \in Intervals, NEW k \in Intervals, Disjoint(i, k)
  PROVE  Disjoint(k, i)
BY TimelineAssumption DEF Disjoint, Intervals

LEMMA MarkersInductive == MarkersInv /\ [Next]_vars => MarkersInv'
<1> SUFFICES ASSUME MarkersInv, [Next]_vars PROVE MarkersInv'
  OBVIOUS
<1> USE TimelineAssumption, CallsAssumption DEF MarkersInv
<1>0. calls' \in 0 .. MaxCalls /\ (Called => calls' \in Calls)
  BY CallStep DEF Called, Calls
<1>a. \A i \in Intervals : i # NoSection
  BY DEF Intervals, NoSection
<1>1. CASE MarkerCreate
  <2>1. PICK interval \in Intervals :
          /\ Free(interval, None)
          /\ markerCall' = [markerCall EXCEPT ![calls'] =
               [pc |-> "write", m |-> calls', at |-> interval, stale |-> FALSE]]
    BY <1>1 DEF MarkerCreate
  <2>2. UNCHANGED <<sections, markerRaced>> /\ calls' \in Calls
    BY <1>0, <1>1 DEF MarkerCreate
  <2>3. MarkersTypeOK'
    BY <2>1, <2>2 DEF MarkersTypeOK
  <2>4. Free(interval, calls')
    BY <2>1 DEF Free, Sections, Calls, None
  <2> QED
    BY <1>0, <2>1, <2>2, <2>3, <2>4 DEF MarkersTypeOK, SectionsDisjoint, Sections, Free
<1>2. CASE MarkerRead
  <2>1. PICK m \in Sections, pc \in {"check", "update"} :
          markerCall' = [markerCall EXCEPT ![calls'] =
            [pc |-> pc, m |-> m, at |-> sections[m], stale |-> FALSE]]
    BY <1>2 DEF MarkerRead
  <2>2. UNCHANGED <<sections, markerRaced>> /\ calls' \in Calls
    BY <1>0, <1>2 DEF MarkerRead
  <2>3. m \in Calls /\ sections[m] \in Intervals
    BY DEF Sections, MarkersTypeOK
  <2>4. MarkersTypeOK'
    BY <2>1, <2>2, <2>3 DEF MarkersTypeOK
  <2>5. ~markerRaced => Free(sections[m], m)
    BY DEF SectionsDisjoint, Free
  <2> QED
    BY <1>0, <2>1, <2>2, <2>3, <2>4, <2>5 DEF MarkersTypeOK, SectionsDisjoint, Sections, Free
<1>3. ASSUME NEW r \in Calls, MarkerCheck(r) PROVE MarkersInv'
  <2>1. UNCHANGED <<sections, markerRaced>> /\ markerCall[r].pc = "check"
    BY <1>3 DEF MarkerCheck
  <2>2. CASE MarkerEnds(r)
    BY <1>0, <2>1, <2>2 DEF MarkerEnds, NoMarkerCall, NoSection, None, MarkersTypeOK,
      SectionsDisjoint, Sections, Free
  <2>3. CASE \E interval \in Intervals :
          /\ Free(interval, markerCall[r].m)
          /\ markerCall' = [markerCall EXCEPT ![r].pc = "update", ![r].at = interval]
    <3>1. PICK interval \in Intervals :
          /\ Free(interval, markerCall[r].m)
          /\ markerCall' = [markerCall EXCEPT ![r].pc = "update", ![r].at = interval]
      BY <2>3
    <3>2. MarkersTypeOK'
      BY <2>1, <3>1, ZenonT(40) DEF MarkersTypeOK
    <3>3. \A q \in Calls :
            /\ markerCall'[q] \in {markerCall[q], [markerCall[r] EXCEPT !.pc = "update",
                                                                      !.at = interval]}
            /\ markerCall'[q].m = markerCall[q].m
            /\ q # r => markerCall'[q] = markerCall[q]
            /\ q = r => markerCall'[q].at = interval
      BY <3>1 DEF MarkersTypeOK
    <3>4. \A q \in Calls : markerCall'[q].pc # "none" =>
            markerCall'[q].m \in Calls /\ markerCall'[q].at \in Intervals
      BY <2>1, <3>3
    <3>5. Sections' = Sections /\ (SectionsDisjoint' <=> SectionsDisjoint)
      BY <2>1 DEF Sections, SectionsDisjoint
    <3>6. ASSUME ~markerRaced, NEW q \in Calls, markerCall'[q].pc \in {"write", "update"},
                 ~markerCall'[q].stale
          PROVE  Free(markerCall[q].at, markerCall[q].m)'
      <4>1. CASE q = r
        <5>1. markerCall'[q].at = interval /\ markerCall'[q].m = markerCall[r].m
          BY <3>3, <4>1
        <5>2. \A k \in Sections \ {markerCall[r].m} : Disjoint(sections[k], interval)
          BY <3>1 DEF Free
        <5>3. \A k \in Sections' \ {markerCall'[q].m} :
                Disjoint(sections'[k], markerCall'[q].at)
          BY <2>1, <3>5, <5>1, <5>2
        <5> QED
          BY <5>3 DEF Free
      <4>2. CASE q # r
        BY <2>1, <3>3, <3>5, <3>6, <4>2 DEF Free
      <4> QED
        BY <4>1, <4>2
    <3> QED
      BY <1>0, <2>1, <3>2, <3>4, <3>5, <3>6
  <2> QED
    BY <1>3, <2>2, <2>3 DEF MarkerCheck
<1>4. ASSUME NEW r \in Calls, MarkerWrite(r) PROVE MarkersInv'
  <2> DEFINE m == markerCall[r].m
             at == markerCall[r].at
  <2>1. markerCall[r].pc \in {"write", "update"} /\ m \in Calls /\ at \in Intervals
    BY <1>4 DEF MarkerWrite
  <2>2. CASE MarkerEnds(r) /\ UNCHANGED <<sections, markerRaced>>
    BY <1>0, <2>2 DEF MarkerEnds, NoMarkerCall, NoSection, None, MarkersTypeOK,
      SectionsDisjoint, Sections, Free
  <2>3. CASE /\ sections' = [sections EXCEPT ![m] = at]
             /\ markerCall' = Meanwhile(r)
             /\ markerRaced' = (markerRaced \/ markerCall[r].stale)
    <3>1. MarkersTypeOK'
      <4>1. sections' \in [Calls -> Intervals \union {NoSection}]
        BY <2>1, <2>3 DEF MarkersTypeOK
      <4>2. markerCall[r].stale \in BOOLEAN /\ markerRaced' \in BOOLEAN
        BY <2>3 DEF MarkersTypeOK
      <4>3. ASSUME NEW q \in Calls
            PROVE  /\ NoMarkerCall.pc = "none" /\ NoMarkerCall.m = None
                   /\ NoMarkerCall.at = NoSection /\ NoMarkerCall.stale = FALSE
                   /\ [markerCall[q] EXCEPT !.stale = TRUE] \in
                        [pc : {"none", "check", "write", "update"}, m : Calls \union {None},
                         at : Intervals \union {NoSection}, stale : BOOLEAN]
        BY ZenonT(40) DEF MarkersTypeOK, NoMarkerCall
      <4>4. NoMarkerCall \in [pc : {"none", "check", "write", "update"},
                              m : Calls \union {None},
                              at : Intervals \union {NoSection}, stale : BOOLEAN]
        BY DEF NoMarkerCall
      <4> QED
        BY <2>3, <4>1, <4>2, <4>3, <4>4 DEF MarkersTypeOK, Meanwhile
    <3>2. \A q \in Calls : markerCall'[q].pc # "none" =>
            /\ markerCall'[q].stale
            /\ markerCall[q].pc # "none"
            /\ markerCall'[q].m = markerCall[q].m /\ markerCall'[q].at = markerCall[q].at
      BY <2>3 DEF MarkersTypeOK, Meanwhile, NoMarkerCall
    <3>3. ~markerRaced' => SectionsDisjoint'
      <4> SUFFICES ASSUME ~markerRaced', NEW x \in Sections', NEW y \in Sections', x # y
                   PROVE  Disjoint(sections'[x], sections'[y])
        BY DEF SectionsDisjoint
      <4>1. ~markerRaced /\ ~markerCall[r].stale
        BY <2>3
      <4>2. Free(at, m) /\ SectionsDisjoint
        BY <2>1, <4>1
      <4>3. /\ x \in Calls /\ sections'[x] = IF x = m THEN at ELSE sections[x]
            /\ y \in Calls /\ sections'[y] = IF y = m THEN at ELSE sections[y]
        BY <2>1, <2>3 DEF Sections, MarkersTypeOK
      <4>4. \A z \in Sections : sections[z] \in Intervals
        BY DEF Sections, MarkersTypeOK
      <4>5. CASE x = m
        <5>1. y \in Sections \ {m}
          BY <4>3, <4>5 DEF Sections
        <5> QED
          BY <2>1, <4>2, <4>3, <4>4, <4>5, <5>1, DisjointSymmetric DEF Free
      <4>6. CASE y = m
        <5>1. x \in Sections \ {m}
          BY <4>3, <4>6 DEF Sections
        <5> QED
          BY <4>2, <4>3, <4>6, <5>1 DEF Free
      <4>7. CASE x # m /\ y # m
        BY <4>1, <4>2, <4>3, <4>7 DEF SectionsDisjoint, Sections
      <4> QED
        BY <4>5, <4>6, <4>7
    <3> QED
      BY <1>0, <3>1, <3>2, <3>3
  <2> QED
    BY <1>4, <2>2, <2>3 DEF MarkerWrite
<1>5. CASE MarkerDelete
  <2>1. PICK m \in Sections : sections' = [sections EXCEPT ![m] = NoSection]
    BY <1>5 DEF MarkerDelete
  <2>2. UNCHANGED <<markerCall, markerRaced>>
    BY <1>5 DEF MarkerDelete
  <2>3. /\ Sections' = Sections \ {m}
        /\ \A n \in Sections' : sections'[n] = sections[n]
    BY <2>1 DEF Sections, MarkersTypeOK
  <2>4. MarkersTypeOK'
    BY <2>1, <2>2 DEF MarkersTypeOK
  <2> QED
    BY <1>0, <2>2, <2>3, <2>4 DEF SectionsDisjoint, Free
<1>6. CASE MarkersServerEnds
  BY <1>0, <1>6 DEF MarkersServerEnds, NoMarkerCall, NoSection, None, MarkersTypeOK,
    SectionsDisjoint, Sections
<1>7. CASE UNCHANGED markerVars
  BY <1>0, <1>7 DEF markerVars, MarkersTypeOK, SectionsDisjoint, Sections, Free
<1> QED
  BY <1>1, <1>2, <1>3, <1>4, <1>5, <1>6, <1>7, MarkersStep DEF MarkersNext

(* No two sections of a project overlap.                                     *)
THEOREM Markers == Spec => [](MarkersTypeOK /\ SectionsDisjoint)
<1>1. Init => MarkersInv
  <2> SUFFICES ASSUME Init PROVE MarkersInv
    OBVIOUS
  <2>1. /\ calls = 0 /\ markerRaced = FALSE
        /\ sections = [m \in Calls |-> NoSection]
        /\ markerCall = [r \in Calls |-> NoMarkerCall]
    BY DEF Init, MarkersInit
  <2>2. Sections = {}
    BY <2>1 DEF Sections
  <2>3. MarkersTypeOK
    BY <2>1 DEF MarkersTypeOK, NoMarkerCall
  <2>4. \A r \in Calls : markerCall[r].pc = "none"
    BY <2>1 DEF NoMarkerCall
  <2> QED
    BY <2>1, <2>2, <2>3, <2>4, CallsAssumption DEF MarkersInv, SectionsDisjoint
<1>2. MarkersInv => MarkersTypeOK /\ SectionsDisjoint
  BY DEF MarkersInv, SectionsDisjoint
<1> QED
  BY <1>1, <1>2, MarkersInductive, PTL DEF Spec

-----------------------------------------------------------------------------
(* Waveforms and strips.  Unless two requests raced, at most one is between  *)
(* its look at the table and GENERATING, its row is younger than every other,*)
(* and no row is at work or READY meanwhile.                                 *)
VisualInv ==
  /\ VisualTypeOK
  /\ calls \in 0 .. MaxCalls
  /\ \A r \in Calls : r > calls => visual[r] = "absent" /\ visualTask[r] = "none"
  /\ VisualOwned
  /\ ~visualRaced => \A r \in At({"add", "start"}), q \in Calls :
       /\ visual[q] \notin {"ready", "generating"}
       /\ q # r => visualBorn[q] < visualBorn[r]

LEMMA VisualTable ==
  /\ DOMAIN VisualTransitions = {"pending", "generating", "ready", "error", "absent"}
  /\ \A st \in DOMAIN VisualTransitions :
       /\ "generating" \in VisualTransitions[st] <=> st = "pending"
       /\ "ready" \in VisualTransitions[st] <=> st = "generating"
       /\ "error" \in VisualTransitions[st] <=> st = "generating"
BY DEF VisualTransitions

LEMMA VisualInductive == VisualInv /\ [Next]_vars => VisualInv'
<1> SUFFICES ASSUME VisualInv, [Next]_vars PROVE VisualInv'
  OBVIOUS
<1> USE CallsAssumption, VisualTable
    DEF VisualInv, VisualTypeOK, VisualOwned, VisualGoes, At, Newest, Rows
<1>0. Called \/ UNCHANGED calls
  BY CallStep
<1> USE <1>0 DEF Called, Calls
<1>1. CASE VisualPost
  BY <1>1 DEF VisualPost
<1>2. CASE VisualDelete
  BY <1>2 DEF VisualDelete
<1>3. ASSUME NEW r \in Calls, VisualDecide(r) PROVE VisualInv'
  <2>1. visualTask[r] = "check" /\ r <= calls /\ UNCHANGED <<visual, visualGone, visualLost>>
    BY <1>3 DEF VisualDecide, Decides
  <2>2. CASE VisualGoes(r, "done") /\ UNCHANGED <<visualBorn, visualRaced>>
    BY <2>1, <2>2, SMTT(40)
  <2>3. CASE /\ \A q \in Calls : Newest(q) => visual[q] \notin {"ready", "generating"}
             /\ VisualGoes(r, "add")
             /\ \E rank \in 1 .. MaxCalls :
                  /\ \A q \in Calls : visualBorn[q] < rank
                  /\ visualBorn' = [visualBorn EXCEPT ![r] = rank]
             /\ visualRaced' = (visualRaced \/ At({"add", "start"}) # {})
    <3>1. PICK rank \in 1 .. MaxCalls : /\ \A q \in Calls : visualBorn[q] < rank
                                        /\ visualBorn' = [visualBorn EXCEPT ![r] = rank]
      BY <2>3
    <3>2. VisualTypeOK' /\ \A q \in Calls \ visualLost : visual[q] = "generating" => q # r
      BY <2>1, <2>3, <3>1
    <3>3. ASSUME ~visualRaced'
          PROVE  /\ \A q \in Calls : visual[q] \notin {"ready", "generating"}
                 /\ At({"add", "start"})' = {r}
                 /\ \A q \in Calls : q # r => visualBorn'[q] < visualBorn'[r]
      <4>1. ~visualRaced /\ At({"add", "start"}) = {}
        BY <2>3, <3>3
      <4>2. \A q \in Calls : visual[q] \in {"ready", "generating"} => Newest(q)
        BY <4>1
      <4>3. \A q \in Calls : visual[q] \notin {"ready", "generating"}
        BY <2>3, <4>2
      <4>4. At({"add", "start"})' = {r}
        BY <2>3, <4>1
      <4>5. \A q \in Calls : q # r => visualBorn'[q] < visualBorn'[r]
        BY <3>1
      <4> QED
        BY <4>3, <4>4, <4>5
    <3>4. VisualOwned'
      BY <2>1, <2>3, <3>2, <3>3
    <3>5. \A q \in Calls : q > calls' => visual'[q] = "absent" /\ visualTask'[q] = "none"
      BY <2>1, <2>3
    <3>6. ~visualRaced' => \A p \in At({"add", "start"})', q \in Calls :
            visual'[q] \notin {"ready", "generating"} /\ (q # p => visualBorn'[q] < visualBorn'[p])
      BY <2>1, <3>3
    <3> QED
      BY <3>2, <3>4, <3>5, <3>6, SMTT(40)
  <2> QED
    BY <1>3, <2>2, <2>3 DEF VisualDecide, Decides
<1>4. ASSUME NEW r \in Calls, VisualAdd(r) PROVE VisualInv'
  <2>1. CASE VisualGoes(r, "done") /\ UNCHANGED visual
    BY <1>4, <2>1, SMTT(40) DEF VisualAdd
  <2>2. CASE visual' = [visual EXCEPT ![r] = "pending"] /\ VisualGoes(r, "start")
    <3>1. /\ visualTask[r] = "add" /\ r <= calls
          /\ UNCHANGED <<visualBorn, visualGone, visualRaced, visualLost>>
      BY <1>4 DEF VisualAdd
    <3>2. VisualTypeOK'
      BY <2>2, <3>1
    <3>3. VisualOwned'
      BY <2>2, <3>1
    <3> QED
      BY <2>2, <3>1, <3>2, <3>3, SMTT(40)
  <2> QED
    BY <1>4, <2>1, <2>2 DEF VisualAdd
<1>5. ASSUME NEW r \in Calls, VisualStart(r) PROVE VisualInv'
  BY <1>5 DEF VisualStart, VisualUpdates
<1>6. ASSUME NEW r \in Calls, VisualGenerated(r) PROVE VisualInv'
  <2>1. /\ visualTask[r] = "generate" /\ VisualGoes(r, "done")
        /\ UNCHANGED <<visualBorn, visualGone, visualRaced, visualLost>>
        /\ \/ visual[r] # "generating" /\ visual' = visual
           \/ visual[r] = "generating" /\ visual' = [visual EXCEPT ![r] = "ready"]
    BY <1>6 DEF VisualGenerated, VisualUpdates
  <2>2. VisualTypeOK'
    BY <2>1
  <2>3. VisualOwned'
    BY <2>1, ZenonT(40)
  <2>4. At({"add", "start"})' \subseteq At({"add", "start"})
    BY <2>1
  <2>5. ASSUME NEW q \in Calls, q > calls'
        PROVE  visual'[q] = "absent" /\ visualTask'[q] = "none"
    <3>1. r <= calls /\ calls <= calls'
      BY <2>1
    <3>2. q # r /\ q > calls
      BY <2>5, <3>1
    <3> QED
      BY <2>1, <3>2
  <2> QED
    BY <2>1, <2>2, <2>3, <2>4, <2>5, SMTT(40)
<1>7. ASSUME NEW r \in Calls, VisualFails(r) PROVE VisualInv'
  <2>1. /\ visualTask[r] = "generate" /\ VisualGoes(r, "done")
        /\ UNCHANGED <<visualBorn, visualGone, visualRaced, visualLost>>
        /\ \/ visual[r] # "generating" /\ visual' = visual
           \/ visual[r] = "generating" /\ visual' = [visual EXCEPT ![r] = "error"]
    BY <1>7 DEF VisualFails, VisualUpdates
  <2>2. VisualTypeOK'
    BY <2>1
  <2>3. VisualOwned'
    BY <2>1, ZenonT(40)
  <2>4. At({"add", "start"})' \subseteq At({"add", "start"})
    BY <2>1
  <2>5. ASSUME NEW q \in Calls, q > calls'
        PROVE  visual'[q] = "absent" /\ visualTask'[q] = "none"
    <3>1. r <= calls /\ calls <= calls'
      BY <2>1
    <3>2. q # r /\ q > calls
      BY <2>5, <3>1
    <3> QED
      BY <2>1, <3>2
  <2> QED
    BY <2>1, <2>2, <2>3, <2>4, <2>5, SMTT(40)
<1>8. ASSUME NEW r \in Calls, VisualBreaks(r) PROVE VisualInv'
  <2>1. VisualTypeOK'
    BY <1>8 DEF VisualBreaks
  <2>2. VisualOwned'
    BY <1>8 DEF VisualBreaks
  <2>3. At({"add", "start"})' \subseteq At({"add", "start"})
    BY <1>8 DEF VisualBreaks
  <2> QED
    BY <1>8, <2>1, <2>2, <2>3 DEF VisualBreaks
<1>9. CASE VisualServerEnds
  <2>1. VisualTypeOK'
    BY <1>9 DEF VisualServerEnds
  <2>2. VisualOwned'
    BY <1>9 DEF VisualServerEnds
  <2> QED
    BY <1>9, <2>1, <2>2 DEF VisualServerEnds
<1>10. CASE UNCHANGED visualVars
  BY <1>10 DEF visualVars
<1> QED
  BY <1>1, <1>2, <1>3, <1>4, <1>5, <1>6, <1>7, <1>8, <1>9, <1>10, VisualStep DEF VisualNext

(* A row GENERATING has its task, and the row that is at work or READY is the*)
(* one that is shown.                                                        *)
THEOREM Visuals == Spec => [](VisualTypeOK /\ VisualOwned)
<1>1. Init => VisualInv
  <2>1. ASSUME Init PROVE /\ calls = 0 /\ visualRaced = FALSE /\ visualLost = {}
                          /\ visual = [r \in Calls |-> "absent"]
                          /\ visualBorn = [r \in Calls |-> 0]
                          /\ visualTask = [r \in Calls |-> "none"] /\ visualGone = FALSE
    BY <2>1 DEF Init, VisualInit
  <2> QED
    BY <2>1, CallsAssumption DEF VisualInv, VisualTypeOK, VisualOwned, VisualTransitions, At
<1>2. VisualInv => VisualTypeOK /\ VisualOwned
  BY DEF VisualInv
<1> QED
  BY <1>1, <1>2, VisualInductive, PTL DEF Spec

-----------------------------------------------------------------------------
(* Proxies, for any set of videos, quota and bounds.                         *)

LEMMA ProxyStep == [Next]_vars => ProxyNext \/ ProxyServerEnds \/ UNCHANGED proxyVars
BY DEF Next, vars, Library, ServerEnds

(* What the handler may find in the row of its video, which a delete may have*)
(* taken away, and which rows stand for it; the file that is being encoded is*)
(* there unless somebody removes it.                                         *)
Excused == proxyCut \union proxyLost

ProxyInv ==
  /\ ProxyTypeOK
  /\ ProxyHasFile
  /\ \A v \in Videos \ proxyLost :
       /\ proxy[v] = "pending" => AtPlace("start") /\ Video = v
       /\ proxy[v] = "generating" => AtPlace("encoding") /\ Video = v
  /\ AtPlace("start") => proxy[Video] \in {"pending", "absent"}
  /\ AtPlace("encoding") => proxy[Video] \in {"generating", "absent"}
  /\ AtPlace("encoding") /\ proxy[Video] = "generating" /\ Video \notin Excused =>
       proxyFile[Video] # "none"

LEMMA ProxyTable ==
  \A st \in ProxyStatus \union {"absent"} :
    /\ "generating" \in ProxyTransitions[st] <=> st = "pending"
    /\ "ready" \in ProxyTransitions[st] <=> st = "generating"
    /\ "failed" \in ProxyTransitions[st] <=> st = "generating"
    /\ "stale" \in ProxyTransitions[st] <=> st = "ready"
BY DEF ProxyTransitions, ProxyStatus

(* The handler at work is a record with a place and a video.                 *)
LEMMA ProxyBusy ==
  ASSUME ProxyTypeOK, Busy
  PROVE  /\ Video \in Videos /\ proxyWork.evicts \in Videos
         /\ proxyWork \in [pc : {"quota", "evicting", "add", "start", "encoding"},
                           v : Videos, evicts : Videos]
BY DEF ProxyTypeOK, Busy, Video

LEMMA ProxyInductive == ProxyInv /\ [Next]_vars => ProxyInv'
<1> SUFFICES ASSUME ProxyInv, [Next]_vars PROVE ProxyInv'
  OBVIOUS
<1> USE ProxyTable DEF ProxyInv, ProxyTypeOK, ProxyHasFile, ProxyStatus, AtPlace, Busy, Video,
      Idle, Excused
<1>1. ASSUME NEW v \in Videos, ProxySubmit(v) PROVE ProxyInv'
  BY <1>1 DEF ProxySubmit
<1>2. ASSUME NEW v \in Videos, ProxyScan(v) PROVE ProxyInv'
  <2>1. CASE UNCHANGED proxy /\ proxyJobs' = Append(proxyJobs, v)
    BY <1>2, <2>1 DEF ProxyScan
  <2>2. CASE proxy[v] = "ready" /\ proxy' = [proxy EXCEPT ![v] = "stale"] /\ UNCHANGED proxyJobs
    BY <1>2, <2>2 DEF ProxyScan
  <2> QED
    BY <1>2, <2>1, <2>2 DEF ProxyScan
<1>3. ASSUME NEW v \in Videos, ProxyDelete(v) PROVE ProxyInv'
  BY <1>3 DEF ProxyDelete, RemovesFile
<1>4. ASSUME NEW v \in Videos, ProxyRowGone(v) PROVE ProxyInv'
  BY <1>4 DEF ProxyRowGone
<1>5. CASE ProxyTake
  BY <1>5 DEF ProxyTake
<1>6. CASE ProxyEvict
  <2>1. PICK v \in Videos :
          /\ proxyFile' = [proxyFile EXCEPT ![v] = "none"] /\ proxyCut' = proxyCut \union {v}
          /\ proxyWork' = [proxyWork EXCEPT !.pc = "evicting", !.evicts = v]
          /\ UNCHANGED <<proxy, proxyJobs, proxyLost>>
    BY <1>6 DEF ProxyEvict, RemovesFile, Evictable
  <2>2. ProxyTypeOK' /\ proxyWork'.pc = "evicting"
    BY <1>6, <2>1, ProxyBusy, ZenonT(40) DEF ProxyEvict
  <2> QED
    BY <1>6, <2>1, <2>2 DEF ProxyEvict
<1>7. CASE ProxyEvicted
  BY <1>7, ProxyBusy DEF ProxyEvicted
<1>8. CASE ProxyQuotaMet
  BY <1>8, ProxyBusy DEF ProxyQuotaMet, ProxyGoes
<1>9. CASE ProxyAdd
  BY <1>9, ProxyBusy DEF ProxyAdd, ProxyGoes
<1>10. CASE ProxyStart
  BY <1>10, ProxyBusy DEF ProxyStart, ProxyGoes
<1>11. CASE ProxyEncoded
  BY <1>11, ProxyBusy DEF ProxyEncoded
<1>12. CASE ProxyFails
  BY <1>12, ProxyBusy DEF ProxyFails
<1>13. CASE ProxyTimeout
  BY <1>13, ProxyBusy DEF ProxyTimeout, Leaves
<1>14. CASE ProxyServerEnds
  BY <1>14, ProxyBusy DEF ProxyServerEnds, Leaves
<1>15. CASE UNCHANGED proxyVars
  BY <1>15 DEF proxyVars
<1> QED
  BY <1>1, <1>2, <1>3, <1>4, <1>5, <1>6, <1>7, <1>8, <1>9, <1>10, <1>11, <1>12, <1>13, <1>14,
     <1>15, ProxyStep DEF ProxyNext

(* A READY proxy has its complete file, and a row PENDING or GENERATING has  *)
(* the handler behind it.                                                    *)
THEOREM Proxies == Spec => [](ProxyTypeOK /\ ProxyHasFile /\ ProxyOwned)
<1>1. Init => ProxyInv
  BY DEF Init, ProxyInit, ProxyInv, ProxyTypeOK, ProxyHasFile, ProxyStatus, AtPlace, Busy
<1>2. ProxyInv => ProxyTypeOK /\ ProxyHasFile /\ ProxyOwned
  BY DEF ProxyInv, ProxyOwned, AtPlace
<1> QED
  BY <1>1, <1>2, ProxyInductive, PTL DEF Spec

-----------------------------------------------------------------------------
(* The narration cue, for any set of keys and any number of calls.           *)

LEMMA TtsSees == [Next]_vars => TtsNext \/ TtsServerEnds \/ UNCHANGED ttsVars
BY DEF Next, vars, Library, ServerEnds

CueRows == {NoCue} \union [st : CueStatus, key : Keys, asset : Keys \union {NoAsset}]
CallPlaces == {"none", "synthesise", "reset", "mark", "spawn", "move", "rewrite", "delete"}
TaskPlaces == {"none", "get", "backend", "store", "ending", "done"}

(* Somebody is about to write the outcome of a synthesis.                    *)
Speaks == \E r \in Calls : ttsCall[r].pc = "spawn" \/ ttsTask[r].pc \in {"get", "backend", "store"}

TtsTyped ==
  /\ cue \in CueRows
  /\ ttsCall \in [Calls -> [pc : CallPlaces, read : CueRows]]
  /\ ttsTask \in [Calls -> [pc : TaskPlaces, key : Keys]]
  /\ ttsActive \in Calls \union {None}
  /\ ttsCached \subseteq Keys
  /\ ttsOverlap \in BOOLEAN /\ ttsLost \in BOOLEAN

(* Until a PATCH overlaps a synthesis, every task speaks what the cue says.  *)
TtsInv ==
  /\ TtsTyped
  /\ calls \in 0 .. MaxCalls
  /\ \A r \in Calls : r > calls => ttsCall[r].pc = "none"
  /\ ~ttsOverlap =>
       /\ cue.st = "ready" => cue.asset = cue.key
       /\ \A r \in Calls : ttsTask[r].pc \in {"backend", "store"} /\ cue # NoCue =>
            ttsTask[r].key = cue.key
  /\ cue.st = "synthesising" /\ ~ttsOverlap /\ ~ttsLost => Speaks

LEMMA CueShape ==
  /\ NoCue.st = "absent" /\ NoCue.key = FirstKey /\ NoCue.asset = NoAsset
  /\ \A st \in CueStatus, key \in Keys, snd \in Keys \union {NoAsset} :
       /\ Cue(st, key, snd) \in CueRows /\ Cue(st, key, snd) # NoCue
       /\ Cue(st, key, snd).st = st /\ Cue(st, key, snd).key = key
       /\ Cue(st, key, snd).asset = snd
  /\ \A c \in CueRows : c # NoCue => c.st \in CueStatus /\ c.key \in Keys
BY TtsAssumption DEF NoCue, Cue, CueRows, CueStatus

(* What the helpers of the actions do to one call, one task and the row.     *)
LEMMA CallMoves ==
  ASSUME TtsTyped, NEW r \in Calls, NEW pc \in CallPlaces, CallGoes(r, pc)
  PROVE  /\ ttsCall' \in [Calls -> [pc : CallPlaces, read : CueRows]]
         /\ \A q \in Calls : ttsCall'[q].pc = IF q = r THEN pc ELSE ttsCall[q].pc
BY DEF TtsTyped, CallGoes

LEMMA CallStops ==
  ASSUME TtsTyped, NEW r \in Calls, CallEnds(r)
  PROVE  /\ ttsCall' \in [Calls -> [pc : CallPlaces, read : CueRows]]
         /\ \A q \in Calls : ttsCall'[q].pc = IF q = r THEN "none" ELSE ttsCall[q].pc
<1>1. NoCall.pc = "none" /\ NoCall \in [pc : CallPlaces, read : CueRows]
  BY DEF NoCall, CueRows, CallPlaces
<1> QED
  BY <1>1 DEF TtsTyped, CallEnds

LEMMA TaskMoves ==
  ASSUME TtsTyped, NEW r \in Calls, NEW pc \in TaskPlaces, TaskIs(r, pc)
  PROVE  /\ ttsTask' \in [Calls -> [pc : TaskPlaces, key : Keys]]
         /\ \A q \in Calls : /\ ttsTask'[q].pc = IF q = r THEN pc ELSE ttsTask[q].pc
                             /\ ttsTask'[q].key = ttsTask[q].key
BY DEF TtsTyped, TaskIs

LEMMA RowMarked ==
  ASSUME TtsTyped, NEW st \in CueStatus, NEW snd \in Keys \union {NoAsset}
  PROVE  /\ Marked(st, snd) \in CueRows
         /\ cue = NoCue => Marked(st, snd) = NoCue
         /\ cue # NoCue => /\ Marked(st, snd) # NoCue
                           /\ Marked(st, snd).st = st /\ Marked(st, snd).key = cue.key
                           /\ Marked(st, snd).asset = snd
BY CueShape DEF TtsTyped, Marked

LEMMA TtsInductive == TtsInv /\ [Next]_vars => TtsInv'
<1> SUFFICES ASSUME TtsInv, [Next]_vars PROVE TtsInv'
  OBVIOUS
<1> USE TtsAssumption DEF TtsInv, Speaks
<1>c. NoCue.st = "absent"
  BY CueShape
<1>0. calls \in 0 .. MaxCalls /\ calls' \in 0 .. MaxCalls /\ calls <= calls'
  BY CallStep, CallsAssumption DEF Called
<1>a. TtsTyped
  OBVIOUS
<1>b. {"pending", "synthesising", "ready", "failed"} = CueStatus
  BY DEF CueStatus
<1> USE <1>0, <1>a, <1>b, <1>c DEF Calls
<1>1. CASE TtsCall
  <2>1. PICK pc \in {"synthesise", "move", "rewrite", "delete"} :
          /\ ttsCall' = [ttsCall EXCEPT ![calls'] = [pc |-> pc, read |-> cue]]
          /\ UNCHANGED <<cue, ttsTask, ttsActive, ttsCached, ttsOverlap, ttsLost>>
          /\ calls' = calls + 1 /\ calls' \in Calls
    <3>1. Called /\ calls' \in Calls
      BY <1>1, CallsAssumption DEF TtsCall, TtsCalled, Called
    <3> QED
      BY <1>1, <3>1 DEF TtsCall, TtsCalled, Called
  <2>2. TtsTyped'
    BY <2>1 DEF TtsTyped, CallPlaces
  <2>3. \A q \in Calls : ttsCall'[q].pc = IF q = calls' THEN pc ELSE ttsCall[q].pc
    BY <2>1 DEF TtsTyped
  <2> QED
    BY <2>1, <2>2, <2>3
<1>2. ASSUME NEW r \in Calls, SynthesiseGet(r) PROVE TtsInv'
  <2>1. UNCHANGED <<cue, ttsTask, ttsActive, ttsCached, ttsOverlap, ttsLost>>
        /\ ttsCall[r].pc = "synthesise"
    BY <1>2 DEF SynthesiseGet
  <2>2. PICK pc \in {"none", "reset", "mark"} :
          /\ ttsCall' \in [Calls -> [pc : CallPlaces, read : CueRows]]
          /\ \A q \in Calls : ttsCall'[q].pc = IF q = r THEN pc ELSE ttsCall[q].pc
    BY <1>2, CallMoves, CallStops DEF SynthesiseGet, CallPlaces
  <2>3. TtsTyped'
    BY <2>1, <2>2 DEF TtsTyped
  <2> QED
    BY <2>1, <2>2, <2>3
<1>3. ASSUME NEW r \in Calls, SynthesiseReset(r) PROVE TtsInv'
  <2>1. /\ ttsCall[r].pc = "reset" /\ cue' = Marked("pending", NoAsset) /\ CallGoes(r, "mark")
        /\ UNCHANGED <<ttsTask, ttsActive, ttsCached, ttsOverlap, ttsLost>>
    BY <1>3 DEF SynthesiseReset
  <2>2. /\ ttsCall' \in [Calls -> [pc : CallPlaces, read : CueRows]]
        /\ \A q \in Calls : ttsCall'[q].pc = IF q = r THEN "mark" ELSE ttsCall[q].pc
    BY <2>1, CallMoves DEF CallPlaces
  <2>3. TtsTyped'
    BY <2>1, <2>2, RowMarked DEF TtsTyped
  <2>4. /\ cue = NoCue => cue' = NoCue
        /\ cue # NoCue => /\ cue' # NoCue
                          /\ cue'.st = "pending" /\ cue'.key = cue.key /\ cue'.asset = NoAsset
    BY <2>1, RowMarked
  <2> QED
    BY <2>1, <2>2, <2>3, <2>4
<1>4. ASSUME NEW r \in Calls, SynthesiseMark(r) PROVE TtsInv'
  <2>1. /\ ttsCall[r].pc = "mark" /\ cue' = Marked("synthesising", NoAsset)
        /\ CallGoes(r, "spawn")
        /\ UNCHANGED <<ttsTask, ttsActive, ttsCached, ttsOverlap, ttsLost>>
    BY <1>4 DEF SynthesiseMark
  <2>2. /\ ttsCall' \in [Calls -> [pc : CallPlaces, read : CueRows]]
        /\ \A q \in Calls : ttsCall'[q].pc = IF q = r THEN "spawn" ELSE ttsCall[q].pc
    BY <2>1, CallMoves DEF CallPlaces
  <2>3. TtsTyped'
    BY <2>1, <2>2, RowMarked DEF TtsTyped
  <2>4. /\ cue = NoCue => cue' = NoCue
        /\ cue # NoCue => /\ cue' # NoCue
                          /\ cue'.st = "synthesising" /\ cue'.key = cue.key /\ cue'.asset = NoAsset
    BY <2>1, RowMarked
  <2> QED
    BY <2>1, <2>2, <2>3, <2>4
<1>5. ASSUME NEW r \in Calls, SynthesiseSpawn(r) PROVE TtsInv'
  <2>1. /\ ttsCall[r].pc = "spawn" /\ ttsActive' = r
        /\ ttsTask' = [ttsTask EXCEPT ![r].pc = "get"]
        /\ UNCHANGED <<cue, ttsCached, ttsOverlap, ttsLost>>
    BY <1>5 DEF SynthesiseSpawn
  <2>2. /\ ttsCall' \in [Calls -> [pc : CallPlaces, read : CueRows]]
        /\ \A q \in Calls : ttsCall'[q].pc = IF q = r THEN "none" ELSE ttsCall[q].pc
    BY <1>5, CallStops DEF SynthesiseSpawn
  <2>3. /\ ttsTask' \in [Calls -> [pc : TaskPlaces, key : Keys]]
        /\ \A q \in Calls : /\ ttsTask'[q].pc = IF q = r THEN "get" ELSE ttsTask[q].pc
                            /\ ttsTask'[q].key = ttsTask[q].key
    BY <2>1 DEF TtsTyped, TaskPlaces
  <2>4. TtsTyped'
    BY <2>1, <2>2, <2>3 DEF TtsTyped
  <2> QED
    BY <2>1, <2>2, <2>3, <2>4
<1>6. ASSUME NEW r \in Calls, TaskGet(r) PROVE TtsInv'
  <2>1. /\ ttsTask[r].pc = "get"
        /\ UNCHANGED <<cue, ttsCall, ttsActive, ttsCached, ttsOverlap, ttsLost>>
    BY <1>6 DEF TaskGet
  <2>2. CASE cue = NoCue
    <3>1. /\ ttsTask' \in [Calls -> [pc : TaskPlaces, key : Keys]]
          /\ \A q \in Calls : ttsTask'[q].pc = IF q = r THEN "ending" ELSE ttsTask[q].pc
      BY <1>6, <2>2, TaskMoves DEF TaskGet, TaskPlaces
    <3>2. TtsTyped'
      BY <2>1, <3>1 DEF TtsTyped
    <3> QED
      BY <2>1, <2>2, <3>1, <3>2
  <2>3. CASE cue # NoCue
    <3>1. PICK pc \in {"store", "backend"} :
            ttsTask' = [ttsTask EXCEPT ![r] = [pc |-> pc, key |-> cue.key]]
      BY <1>6, <2>3 DEF TaskGet
    <3>2. /\ ttsTask' \in [Calls -> [pc : TaskPlaces, key : Keys]]
          /\ \A q \in Calls : /\ ttsTask'[q].pc = IF q = r THEN pc ELSE ttsTask[q].pc
                              /\ ttsTask'[q].key = IF q = r THEN cue.key ELSE ttsTask[q].key
      <4>1. cue.key \in Keys
        BY <2>3, CueShape DEF TtsTyped
      <4> QED
        BY <3>1, <4>1 DEF TtsTyped, TaskPlaces
    <3>3. TtsTyped'
      BY <2>1, <3>2 DEF TtsTyped
    <3> QED
      BY <2>1, <3>2, <3>3
  <2> QED
    BY <2>2, <2>3
<1>7. ASSUME NEW r \in Calls, TaskSpoken(r) PROVE TtsInv'
  <2>1. /\ ttsTask[r].pc = "backend" /\ ttsCached' = ttsCached \union {ttsTask[r].key}
        /\ UNCHANGED <<cue, ttsCall, ttsActive, ttsOverlap, ttsLost>>
    BY <1>7 DEF TaskSpoken
  <2>2. /\ ttsTask' \in [Calls -> [pc : TaskPlaces, key : Keys]]
        /\ \A q \in Calls : /\ ttsTask'[q].pc = IF q = r THEN "store" ELSE ttsTask[q].pc
                            /\ ttsTask'[q].key = ttsTask[q].key
    BY <1>7, TaskMoves DEF TaskSpoken, TaskPlaces
  <2>3. TtsTyped'
    BY <2>1, <2>2 DEF TtsTyped
  <2> QED
    BY <2>1, <2>2, <2>3
<1>8. ASSUME NEW r \in Calls, TaskFails(r) PROVE TtsInv'
  <2>1. /\ cue' = Marked("failed", NoAsset)
        /\ UNCHANGED <<ttsCall, ttsActive, ttsCached, ttsOverlap, ttsLost>>
    BY <1>8 DEF TaskFails
  <2>2. /\ ttsTask' \in [Calls -> [pc : TaskPlaces, key : Keys]]
        /\ \A q \in Calls : /\ ttsTask'[q].pc = IF q = r THEN "ending" ELSE ttsTask[q].pc
                            /\ ttsTask'[q].key = ttsTask[q].key
    BY <1>8, TaskMoves DEF TaskFails, TaskPlaces
  <2>3. TtsTyped'
    BY <2>1, <2>2, RowMarked DEF TtsTyped
  <2>4. /\ cue = NoCue => cue' = NoCue
        /\ cue # NoCue => /\ cue' # NoCue
                          /\ cue'.st = "failed" /\ cue'.key = cue.key /\ cue'.asset = NoAsset
    BY <2>1, RowMarked
  <2> QED
    BY <2>1, <2>2, <2>3, <2>4
<1>9. ASSUME NEW r \in Calls, TaskStore(r) PROVE TtsInv'
  <2>1. /\ ttsTask[r].pc = "store" /\ ttsTask[r].key \in Keys
        /\ cue' = Marked("ready", ttsTask[r].key)
        /\ UNCHANGED <<ttsCall, ttsActive, ttsCached, ttsOverlap, ttsLost>>
    BY <1>9 DEF TaskStore, TtsTyped
  <2>2. /\ ttsTask' \in [Calls -> [pc : TaskPlaces, key : Keys]]
        /\ \A q \in Calls : /\ ttsTask'[q].pc = IF q = r THEN "ending" ELSE ttsTask[q].pc
                            /\ ttsTask'[q].key = ttsTask[q].key
    BY <1>9, TaskMoves DEF TaskStore, TaskPlaces
  <2>3. TtsTyped'
    BY <2>1, <2>2, RowMarked DEF TtsTyped
  <2>4. /\ cue = NoCue => cue' = NoCue
        /\ cue # NoCue => /\ cue' # NoCue
                          /\ cue'.st = "ready" /\ cue'.key = cue.key /\ cue'.asset = ttsTask[r].key
    BY <2>1, RowMarked
  <2> QED
    BY <2>1, <2>2, <2>3, <2>4
<1>10. ASSUME NEW r \in Calls, TaskEnds(r) PROVE TtsInv'
  <2>1. /\ ttsTask[r].pc = "ending" /\ ttsActive' = None
        /\ ttsTask' = [ttsTask EXCEPT ![r] = [pc |-> "done", key |-> FirstKey]]
        /\ UNCHANGED <<cue, ttsCall, ttsCached, ttsOverlap, ttsLost>>
    <3>1. [NoTask EXCEPT !.pc = "done"] = [pc |-> "done", key |-> FirstKey]
      BY DEF NoTask
    <3> QED
      BY <1>10, <3>1 DEF TaskEnds
  <2>2. /\ ttsTask' \in [Calls -> [pc : TaskPlaces, key : Keys]]
        /\ \A q \in Calls : /\ ttsTask'[q].pc = IF q = r THEN "done" ELSE ttsTask[q].pc
                            /\ q # r => ttsTask'[q] = ttsTask[q]
    BY <2>1 DEF TtsTyped, TaskPlaces
  <2>3. TtsTyped'
    BY <2>1, <2>2 DEF TtsTyped
  <2> QED
    BY <2>1, <2>2, <2>3
<1>11. ASSUME NEW r \in Calls, PatchMove(r) PROVE TtsInv'
  <2>1. /\ ttsCall[r].pc = "move"
        /\ cue' = IF cue = NoCue THEN cue ELSE ttsCall[r].read
        /\ ttsOverlap' \in BOOLEAN /\ (~ttsOverlap' => ~ttsOverlap /\ cue' = cue)
        /\ UNCHANGED <<ttsTask, ttsActive, ttsCached, ttsLost>>
    BY <1>11 DEF PatchMove, Overlaps, TtsTyped
  <2>2. /\ ttsCall' \in [Calls -> [pc : CallPlaces, read : CueRows]]
        /\ \A q \in Calls : ttsCall'[q].pc = IF q = r THEN "none" ELSE ttsCall[q].pc
    BY <1>11, CallStops DEF PatchMove
  <2>3. TtsTyped'
    BY <2>1, <2>2 DEF TtsTyped
  <2> QED
    BY <2>1, <2>2, <2>3
<1>12. ASSUME NEW r \in Calls, PatchText(r) PROVE TtsInv'
  <2>1. PICK key \in Keys : cue' = IF cue = NoCue THEN cue ELSE Cue("pending", key, NoAsset)
    BY <1>12 DEF PatchText
  <2>2. /\ ttsCall[r].pc = "rewrite" /\ ttsOverlap' \in BOOLEAN
        /\ ~ttsOverlap' => ~ttsOverlap /\ Synthesis = {}
        /\ UNCHANGED <<ttsTask, ttsActive, ttsCached, ttsLost>>
    BY <1>12 DEF PatchText, Overlaps, TtsTyped
  <2>3. /\ ttsCall' \in [Calls -> [pc : CallPlaces, read : CueRows]]
        /\ \A q \in Calls : ttsCall'[q].pc = IF q = r THEN "none" ELSE ttsCall[q].pc
    BY <1>12, CallStops DEF PatchText
  <2>4. cue' \in CueRows /\ (cue' # NoCue => cue'.st = "pending")
    <3>1. cue \in CueRows
      BY DEF TtsTyped
    <3>2. /\ Cue("pending", key, NoAsset) \in CueRows
          /\ Cue("pending", key, NoAsset).st = "pending"
      BY DEF Cue, CueRows, CueStatus
    <3> QED
      BY <2>1, <3>1, <3>2
  <2>5. TtsTyped'
    BY <2>2, <2>3, <2>4 DEF TtsTyped
  <2>6. Synthesis = {} => \A q \in Calls : ttsTask[q].pc \notin {"backend", "store"}
    BY DEF Synthesis, Running
  <2>7. ~ttsOverlap' => \A q \in Calls : ttsTask'[q].pc \notin {"backend", "store"}
    BY <2>2, <2>6
  <2>8. cue'.st \notin {"ready", "synthesising"}
    BY <2>4
  <2> QED
    BY <2>3, <2>5, <2>7, <2>8
<1>13. ASSUME NEW r \in Calls, DeleteCue(r) PROVE TtsInv'
  <2>1. /\ ttsCall[r].pc = "delete" /\ cue' = NoCue /\ NoCue \in CueRows
        /\ UNCHANGED <<ttsTask, ttsActive, ttsCached, ttsOverlap, ttsLost>>
    BY <1>13 DEF DeleteCue, CueRows
  <2>2. /\ ttsCall' \in [Calls -> [pc : CallPlaces, read : CueRows]]
        /\ \A q \in Calls : ttsCall'[q].pc = IF q = r THEN "none" ELSE ttsCall[q].pc
    BY <1>13, CallStops DEF DeleteCue
  <2>3. TtsTyped'
    BY <2>1, <2>2 DEF TtsTyped
  <2> QED
    BY <2>1, <2>2, <2>3
<1>14. CASE TtsServerEnds
  <2>1. /\ ttsCall' = [r \in Calls |-> NoCall] /\ ttsActive' = None
        /\ ttsTask' = [r \in Calls |-> IF Running(r) THEN [pc |-> "done", key |-> FirstKey]
                                       ELSE ttsTask[r]]
        /\ ttsLost' = (ttsLost \/ Synthesis \union Spawning # {})
        /\ UNCHANGED <<cue, ttsCached, ttsOverlap>>
    BY <1>14 DEF TtsServerEnds, NoTask
  <2>2. NoCall \in [pc : CallPlaces, read : CueRows] /\ NoCall.pc = "none"
    BY DEF NoCall, CallPlaces, CueRows
  <2>3. \A q \in Calls : Running(q) <=> ttsTask[q].pc \notin {"none", "done"}
    BY DEF Running
  <2>4. /\ ttsTask' \in [Calls -> [pc : TaskPlaces, key : Keys]]
        /\ \A q \in Calls : ttsTask'[q].pc \in {"none", "done"}
    BY <2>1, <2>3 DEF TtsTyped, TaskPlaces
  <2>5. TtsTyped'
    BY <2>1, <2>2, <2>4 DEF TtsTyped
  <2>6. Speaks => Synthesis \union Spawning # {}
    BY <2>3 DEF Synthesis, Spawning
  <2> QED
    BY <2>1, <2>2, <2>4, <2>5, <2>6
<1>15. CASE UNCHANGED ttsVars
  BY <1>15 DEF ttsVars, TtsTyped
<1> QED
  BY <1>1, <1>2, <1>3, <1>4, <1>5, <1>6, <1>7, <1>8, <1>9, <1>10, <1>11, <1>12, <1>13, <1>14,
     <1>15, TtsSees DEF TtsNext, TtsStep

LEMMA TtsInitial == Init => TtsInv
<1> SUFFICES ASSUME Init PROVE TtsInv
  OBVIOUS
<1>1. /\ calls = 0 /\ cue = NewCue /\ ttsActive = None /\ ttsCached = {}
      /\ ttsCall = [r \in Calls |-> NoCall] /\ ttsTask = [r \in Calls |-> NoTask]
      /\ ttsOverlap = FALSE /\ ttsLost = FALSE
  BY DEF Init, TtsInit
<1>2. NewCue \in CueRows /\ NewCue.st = "pending"
  BY CueShape, TtsAssumption DEF NewCue, CueStatus
<1>5. \A r \in Calls : ttsCall[r].pc = "none" /\ ttsTask[r].pc = "none"
  BY <1>1 DEF NoCall, NoTask
<1>3. NoCall \in [pc : CallPlaces, read : CueRows] /\ NoCall.pc = "none"
  BY DEF NoCall, CallPlaces, CueRows
<1>4. NoTask \in [pc : TaskPlaces, key : Keys] /\ NoTask.pc = "none"
  BY TtsAssumption DEF NoTask, TaskPlaces
<1>6. TtsTyped
  BY <1>1, <1>2, <1>3, <1>4 DEF TtsTyped
<1> QED
  BY <1>1, <1>2, <1>5, <1>6, CallsAssumption DEF TtsInv

LEMMA TtsImplies == TtsInv => TtsTypeOK /\ ReadyCueMatches /\ CueOwned
<1> SUFFICES ASSUME TtsInv PROVE TtsTypeOK /\ ReadyCueMatches /\ CueOwned
  OBVIOUS
<1>1. TtsTypeOK
  BY DEF TtsInv, TtsTyped, TtsTypeOK, CallPlaces, TaskPlaces, CueRows
<1>2. ReadyCueMatches
  BY DEF TtsInv, ReadyCueMatches
<1>3. CueOwned
  BY DEF TtsInv, CueOwned, Speaks, Synthesis, Spawning, Running
<1> QED
  BY <1>1, <1>2, <1>3

(* A READY cue has the sound of what it says, and a cue "synthesising" has a *)
(* task, or a request that is about to start one.                            *)
THEOREM Narration == Spec => [](TtsTypeOK /\ ReadyCueMatches /\ CueOwned)
BY TtsInitial, TtsInductive, TtsImplies, PTL DEF Spec

THEOREM NarrationMatches == Spec => []ReadyCueMatches
BY Narration, PTL

-----------------------------------------------------------------------------
(* Batch rendering, for any finite batch, limit and number of calls.         *)

LEMMA BatchStep == [Next]_vars => BatchNext \/ BatchServerEnds \/ UNCHANGED batchVars
BY DEF Next, vars, Library, ServerEnds

Statuses == {"queued", "running", "completed", "failed", "cancelled", "absent"}
Early == {"unborn", "waiting", "start", "starting"}
Late == {"committing", "handling", "handled", "completing", "broken", "failing", "cancelled",
         "cancelling"}
Places == Early \union Late \union {"none", "done"}
CancelPlaces == {"none", "mark", "marking", "interrupt", "await", "answer", "done"}

(* Where a task has been told to stop: only the row's last update is left.   *)
Stopping == {"cancelled", "cancelling", "done"}

BatchTyped ==
  /\ batchJob \in [BatchJobs -> Statuses]
  /\ batchTask \in [BatchJobs -> Places]
  /\ batchCall \in [Calls -> [pc : CancelPlaces, j : BatchJobs \union {"none"},
                              says : Statuses \union {"none"}]]
  /\ batchTorn \subseteq BatchJobs /\ batchLost \subseteq BatchJobs

(* What the row of a job may say at each place of its task.                  *)
RowFits ==
  \A j \in BatchJobs :
    /\ batchTask[j] = "none" <=> batchJob[j] = "absent"
    /\ batchTask[j] = "unborn" => batchJob[j] = "queued" /\ \A k \in BatchJobs : batchTask[k] = "unborn"
    /\ batchTask[j] \in Early => batchJob[j] \in {"queued", "cancelled"}
    /\ batchTask[j] \in Late => batchJob[j] \in {"running", "cancelled"}

(* A cancel request that has interrupted the task finds it stopping.         *)
Fits(call, task, row) ==
  call.pc # "none" =>
    /\ call.j \in BatchJobs
    /\ task[call.j] \notin {"none", "unborn"}
    /\ call.pc = "interrupt" => row[call.j] # "queued"
    /\ call.pc \in {"answer", "await"} => task[call.j] \in Stopping
    /\ call.pc = "done" /\ call.says # "none" => task[call.j] \in Stopping
    /\ call.pc = "done" /\ call.says = "cancelled" => row[call.j] = "cancelled"

CallFits == \A r \in Calls : Fits(batchCall[r], batchTask, batchJob)

BatchInv == BatchTyped /\ RowFits /\ CallFits /\ BatchOwned

LEMMA BatchTable ==
  /\ DOMAIN BatchTransitions = Statuses
  /\ \A st \in Statuses :
       /\ "running" \in BatchTransitions[st] <=> st = "queued"
       /\ "completed" \in BatchTransitions[st] <=> st = "running"
       /\ "failed" \in BatchTransitions[st] <=> st = "running"
       /\ "cancelled" \in BatchTransitions[st] <=> st \in {"queued", "running"}
BY DEF BatchTransitions, Statuses

(* A step that only moves one task that runs, and leaves its row as it fits. *)
LEMMA OneTask ==
  ASSUME BatchInv, NEW j \in BatchJobs, NEW pc \in Late \union {"start", "starting", "done"},
         batchTask[j] \notin {"none", "unborn"},
         batchTask' = [batchTask EXCEPT ![j] = pc],
         UNCHANGED <<batchJob, batchCall, batchLost>>,
         batchTorn \subseteq batchTorn', batchTorn' \subseteq BatchJobs,
         batchTask[j] \in Stopping => pc \in Stopping,
         pc \in {"start", "starting"} => batchJob[j] \in {"queued", "cancelled"},
         pc \in Late => batchJob[j] \in {"running", "cancelled"},
         pc = "done" => batchJob[j] \notin {"queued", "running"} \/ j \in batchTorn' \union batchLost
  PROVE  BatchInv'
<1> USE DEF BatchInv, BatchTyped, Early, Late, Places, Stopping
<1>1. BatchTyped'
  OBVIOUS
<1>2. RowFits'
  BY DEF RowFits
<1>3. CallFits'
  BY DEF CallFits, Fits
<1>4. BatchOwned'
  BY DEF BatchOwned, TaskAlive
<1> QED
  BY <1>1, <1>2, <1>3, <1>4

(* A step that only writes one row: the end of an update.                    *)
LEMMA OneRow ==
  ASSUME BatchInv, NEW j \in BatchJobs,
         NEW st \in {"running", "completed", "failed", "cancelled"}, NEW pc \in Late \union {"done"},
         batchTask[j] \in {"starting", "completing", "failing", "cancelling"},
         batchJob' = [batchJob EXCEPT ![j] = st],
         batchTask' = [batchTask EXCEPT ![j] = pc],
         UNCHANGED <<batchCall, batchTorn, batchLost>>,
         batchTask[j] \in Stopping => pc \in Stopping /\ st = "cancelled",
         pc \in Late => st = "running",
         pc = "done" => st # "running"
  PROVE  BatchInv'
<1> USE DEF BatchInv, BatchTyped, Early, Late, Places, Stopping, Statuses
<1>1. BatchTyped'
  OBVIOUS
<1>2. RowFits'
  BY DEF RowFits
<1>3. CallFits'
  BY DEF CallFits, Fits
<1>4. BatchOwned'
  BY DEF BatchOwned, TaskAlive
<1> QED
  BY <1>1, <1>2, <1>3, <1>4

(* What task.cancel() does to the task and its row, whoever calls it.        *)
LEMMA RowsWhenInterrupted ==
  ASSUME BatchInv, NEW j \in BatchJobs, batchTask[j] \notin {"none", "unborn"},
         batchJob[j] # "queued",
         batchTask' = Interrupted(j), batchTorn' = Tears(j),
         UNCHANGED <<batchJob, batchLost>>
  PROVE  RowFits' /\ BatchOwned'
<1>1. PICK pc \in {"cancelled", "done"} :
        /\ batchTask' = [batchTask EXCEPT ![j] = pc]
        /\ pc = "cancelled" <=> batchTask[j] \in {"handling", "handled", "completing"}
  BY DEF Interrupted, BatchInv, BatchTyped
<1>2. batchTorn \subseteq batchTorn'
  BY DEF Tears
<1>3. pc = "cancelled" => batchJob[j] \in {"running", "cancelled"}
  BY <1>1 DEF BatchInv, RowFits, Late
<1>4. ASSUME pc = "done"
      PROVE  batchJob[j] \notin {"queued", "running"} \/ j \in batchTorn' \union batchLost
  <2>1. CASE batchTask[j] \in {"starting", "committing", "broken", "failing", "cancelled",
                               "cancelling"}
    BY <2>1 DEF Tears
  <2>2. CASE batchTask[j] \in {"waiting", "start"}
    BY <2>2 DEF BatchInv, RowFits, Early
  <2>3. CASE batchTask[j] = "done"
    BY <1>2, <2>3 DEF BatchInv, BatchOwned, TaskAlive
  <2> QED
    BY <1>1, <1>4, <2>1, <2>2, <2>3 DEF BatchInv, BatchTyped, Places, Early, Late
<1>5. RowFits'
  BY <1>1, <1>3 DEF BatchInv, BatchTyped, RowFits, Early, Late
<1>6. BatchOwned'
  BY <1>1, <1>2, <1>4 DEF BatchInv, BatchTyped, BatchOwned, TaskAlive
<1> QED
  BY <1>5, <1>6

(* A request that reads "running" interrupts the task and then awaits it.    *)
LEMMA Interrupting ==
  ASSUME BatchInv, NEW j \in BatchJobs, batchTask[j] \notin {"none", "unborn"},
         batchJob[j] # "queued",
         batchTask' = Interrupted(j), batchTorn' = Tears(j),
         UNCHANGED <<batchJob, batchLost>>,
         batchCall' = [batchCall EXCEPT ![calls'] = [pc |-> "await", j |-> j, says |-> "none"]]
  PROVE  BatchInv'
<1>1. /\ batchTask' \in [BatchJobs -> Places]
      /\ batchTorn' \subseteq BatchJobs
      /\ batchTask'[j] \in {"cancelled", "done"}
      /\ \A k \in BatchJobs : /\ batchTask[k] \in Stopping => batchTask'[k] \in Stopping
                              /\ k # j => batchTask'[k] = batchTask[k]
  BY DEF Interrupted, Tears, BatchInv, BatchTyped, Places, Late, Stopping
<1>2. BatchTyped'
  BY <1>1 DEF BatchInv, BatchTyped, CancelPlaces
<1>3. ASSUME NEW r \in Calls
      PROVE  batchCall'[r] \in {batchCall[r], [pc |-> "await", j |-> j, says |-> "none"]}
  BY DEF BatchInv, BatchTyped
<1>4. CallFits'
  <2> DEFINE new == [pc |-> "await", j |-> j, says |-> "none"]
  <2>1. Fits(new, batchTask', batchJob')
    BY <1>1 DEF Fits, Stopping
  <2>2. ASSUME NEW r \in Calls PROVE Fits(batchCall[r], batchTask', batchJob')
    <3>1. Fits(batchCall[r], batchTask, batchJob)
      BY <2>2 DEF BatchInv, CallFits
    <3> QED
      BY <1>1, <3>1 DEF Fits, Stopping
  <2> QED
    BY <1>3, <2>1, <2>2 DEF CallFits
<1> QED
  BY <1>2, <1>4, RowsWhenInterrupted DEF BatchInv

(* A cancel request that only goes on.                                       *)
LEMMA OneCall ==
  ASSUME BatchInv, UNCHANGED <<batchJob, batchTask, batchTorn, batchLost>>,
         batchCall' \in [Calls -> [pc : CancelPlaces, j : BatchJobs \union {"none"},
                                   says : Statuses \union {"none"}]],
         CallFits'
  PROVE  BatchInv'
BY DEF BatchInv, BatchTyped, RowFits, BatchOwned, TaskAlive

(* A new cancel request, which takes the number of its call.                 *)
LEMMA NewCall ==
  ASSUME BatchInv, NEW j \in BatchJobs, NEW pc \in {"done", "mark", "await"},
         batchTask[j] \notin {"none", "unborn"},
         pc = "await" => batchTask[j] \in Stopping,
         UNCHANGED <<batchJob, batchTask, batchTorn, batchLost>>,
         batchCall' = [batchCall EXCEPT ![calls'] = [pc |-> pc, j |-> j, says |-> "none"]]
  PROVE  BatchInv'
<1>1. batchCall' \in [Calls -> [pc : CancelPlaces, j : BatchJobs \union {"none"},
                                says : Statuses \union {"none"}]]
  BY DEF BatchInv, BatchTyped, CancelPlaces
<1>2. CallFits'
  BY DEF BatchInv, BatchTyped, CallFits, Fits
<1> QED
  BY <1>1, <1>2, OneCall

(* The first steps of a batch: nobody knows its jobs yet.                    *)
LEMMA Beginning == BatchInv /\ (BatchCreate \/ BatchSpawn) => BatchInv'
<1> SUFFICES ASSUME BatchInv, BatchCreate \/ BatchSpawn PROVE BatchInv'
  OBVIOUS
<1>1. \/ \A j \in BatchJobs : batchTask[j] = "none"
      \/ \A j \in BatchJobs : batchTask[j] = "unborn" /\ batchJob[j] = "queued"
  BY DEF BatchCreate, BatchSpawn, BatchInv, RowFits
<1>2. \A r \in Calls : batchCall[r].pc = "none"
  BY <1>1 DEF BatchInv, CallFits, Fits
<1>3. PICK pc \in {"unborn", "waiting"} :
        /\ batchTask' = [j \in BatchJobs |-> pc]
        /\ batchJob' = [j \in BatchJobs |-> "queued"]
  <2>1. CASE BatchCreate
    BY <2>1 DEF BatchCreate
  <2>2. CASE BatchSpawn
    <3>1. \A j \in BatchJobs : batchJob[j] = "queued"
      BY <2>2 DEF BatchSpawn, BatchInv, RowFits
    <3> QED
      BY <2>2, <3>1 DEF BatchSpawn, BatchInv, BatchTyped
  <2> QED
    BY <2>1, <2>2
<1>4. UNCHANGED <<batchCall, batchTorn, batchLost>>
  BY DEF BatchCreate, BatchSpawn, OnlyTasks
<1>5. BatchTyped'
  BY <1>3, <1>4 DEF BatchInv, BatchTyped, Statuses, Places, Early
<1>6. RowFits'
  BY <1>3 DEF RowFits, Early, Late
<1>7. CallFits'
  BY <1>2, <1>4 DEF CallFits, Fits
<1>8. BatchOwned'
  BY <1>3 DEF BatchOwned, TaskAlive
<1> QED
  BY <1>5, <1>6, <1>7, <1>8 DEF BatchInv

(* The steps of one task.                                                    *)
LEMMA TaskSteps ==
  ASSUME BatchInv, NEW j \in BatchJobs,
         \/ BatchAcquire(j) \/ BatchValidate(j) \/ BatchWrite(j)
         \/ BatchCommitted(j) \/ BatchHandled(j)
  PROVE  BatchInv'
<1> USE DEF TaskGoes, OnlyTasks, Sets
<1>1. batchJob[j] \in Statuses /\ batchTask[j] \in Places
  BY DEF BatchInv, BatchTyped
<1>2. /\ batchTask[j] \in Early => batchJob[j] \in {"queued", "cancelled"}
      /\ batchTask[j] \in Late => batchJob[j] \in {"running", "cancelled"}
  BY DEF BatchInv, RowFits
<1>3. batchTorn \subseteq BatchJobs
  BY DEF BatchInv, BatchTyped
<1>4. CASE BatchAcquire(j)
  <2> DEFINE pc == IF batchJob[j] = "queued" THEN "start" ELSE "done"
  <2>1. /\ batchTask[j] = "waiting" /\ batchTask' = [batchTask EXCEPT ![j] = pc]
        /\ UNCHANGED <<batchJob, batchCall, batchTorn, batchLost>>
    BY <1>4 DEF BatchAcquire
  <2>2. pc = "done" => batchJob[j] = "cancelled"
    BY <1>2, <2>1 DEF Early
  <2>3. pc \in {"start", "done"} /\ (pc = "start" => batchJob[j] = "queued")
    OBVIOUS
  <2> HIDE DEF pc
  <2> QED
    BY <1>3, <2>1, <2>2, <2>3, OneTask DEF Stopping, Late
<1>5. CASE BatchValidate(j)
  <2>1. PICK pc \in {"starting", "completing", "broken", "failing", "cancelling", "done"} :
          /\ batchTask' = [batchTask EXCEPT ![j] = pc]
          /\ batchTask[j] \in {"start", "handled", "broken", "cancelled"}
          /\ batchTask[j] = "cancelled" => pc \in {"cancelling", "done"}
          /\ pc = "starting" => batchTask[j] = "start"
          /\ pc \in Late => batchTask[j] \in Late
          /\ pc = "done" => batchJob[j] \notin {"queued", "running"}
    <3>1. CASE batchTask[j] = "start"
      BY <1>1, <1>2, <1>5, <3>1, BatchTable DEF BatchValidate, May, Early, Late
    <3>2. CASE batchTask[j] = "handled"
      BY <1>1, <1>2, <1>5, <3>2, BatchTable DEF BatchValidate, May, Late
    <3>3. CASE batchTask[j] = "broken"
      BY <1>1, <1>2, <1>5, <3>3, BatchTable DEF BatchValidate, May, Late
    <3>4. CASE batchTask[j] = "cancelled"
      BY <1>1, <1>2, <1>5, <3>4, BatchTable DEF BatchValidate, May, Late
    <3> QED
      BY <1>5, <3>1, <3>2, <3>3, <3>4 DEF BatchValidate
  <2>2. UNCHANGED <<batchJob, batchCall, batchTorn, batchLost>>
    BY <1>5 DEF BatchValidate
  <2> QED
    BY <1>2, <1>3, <2>1, <2>2, OneTask DEF Stopping, Late, Early
<1>6. CASE BatchWrite(j)
  <2>1. UNCHANGED <<batchCall, batchTorn, batchLost>>
    BY <1>6 DEF BatchWrite
  <2>2. PICK st \in {"running", "completed", "failed", "cancelled"}, pc \in {"committing", "done"} :
          /\ batchJob' = [batchJob EXCEPT ![j] = st]
          /\ batchTask' = [batchTask EXCEPT ![j] = pc]
          /\ batchTask[j] \in {"starting", "completing", "failing", "cancelling"}
          /\ batchTask[j] = "cancelling" => pc = "done" /\ st = "cancelled"
          /\ pc = "committing" <=> st = "running"
    BY <1>6 DEF BatchWrite
  <2> QED
    BY <2>1, <2>2, OneRow DEF Stopping, Late
<1>7. CASE BatchCommitted(j)
  <2>1. /\ batchTask[j] = "committing" /\ batchTask' = [batchTask EXCEPT ![j] = "handling"]
        /\ UNCHANGED <<batchJob, batchCall, batchTorn, batchLost>>
    BY <1>7 DEF BatchCommitted
  <2> QED
    BY <1>2, <1>3, <2>1, OneTask DEF Stopping, Late
<1>8. CASE BatchHandled(j)
  <2>1. PICK pc \in {"handled", "broken"} :
          /\ batchTask[j] = "handling" /\ batchTask' = [batchTask EXCEPT ![j] = pc]
          /\ UNCHANGED <<batchJob, batchCall, batchTorn, batchLost>>
    BY <1>8 DEF BatchHandled
  <2> QED
    BY <1>2, <1>3, <2>1, OneTask DEF Stopping, Late
<1> QED
  BY <1>4, <1>5, <1>6, <1>7, <1>8

(* The steps of one cancel request.                                          *)
LEMMA CallSteps ==
  ASSUME BatchInv, NEW r \in Calls,
         CancelValidate(r) \/ CancelWrite(r) \/ CancelInterrupt(r) \/ CancelAnswer(r)
  PROVE  BatchInv'
<1> USE DEF CancelGoes
<1>1. /\ batchCall \in [Calls -> [pc : CancelPlaces, j : BatchJobs \union {"none"},
                                  says : Statuses \union {"none"}]]
      /\ batchJob \in [BatchJobs -> Statuses] /\ batchTask \in [BatchJobs -> Places]
  BY DEF BatchInv, BatchTyped
<1> DEFINE j == batchCall[r].j
<1>2. CASE CancelValidate(r)
  <2>1. /\ batchCall[r].pc = "mark"
        /\ UNCHANGED <<batchJob, batchTask, batchTorn, batchLost>>
        /\ \/ batchCall' = [batchCall EXCEPT ![r].pc = "marking"]
           \/ batchCall' = [batchCall EXCEPT ![r] = NoCancel]
    BY <1>2 DEF CancelValidate
  <2>2. batchCall' \in [Calls -> [pc : CancelPlaces, j : BatchJobs \union {"none"},
                                  says : Statuses \union {"none"}]]
    BY <1>1, <2>1 DEF NoCancel, CancelPlaces
  <2>3. CallFits'
    BY <1>1, <2>1 DEF BatchInv, CallFits, Fits, NoCancel
  <2> QED
    BY <2>1, <2>2, <2>3, OneCall
<1>3. CASE CancelWrite(r)
  <2>1. /\ batchCall[r].pc = "marking"
        /\ batchJob' = [batchJob EXCEPT ![j] = "cancelled"]
        /\ batchCall' = [batchCall EXCEPT ![r].pc = "interrupt"]
        /\ UNCHANGED <<batchTask, batchTorn, batchLost>>
    BY <1>3 DEF CancelWrite, Sets
  <2>2. j \in BatchJobs /\ batchTask[j] \notin {"none", "unborn"}
    BY <2>1 DEF BatchInv, CallFits, Fits
  <2>3. BatchTyped'
    BY <1>1, <2>1 DEF BatchInv, BatchTyped, CancelPlaces, Statuses
  <2>4. RowFits'
    BY <1>1, <2>1, <2>2 DEF BatchInv, RowFits, Early, Late
  <2>5. CallFits'
    BY <1>1, <2>1, <2>2 DEF BatchInv, CallFits, Fits
  <2>6. BatchOwned'
    BY <1>1, <2>1, <2>2 DEF BatchInv, BatchOwned, TaskAlive
  <2> QED
    BY <2>3, <2>4, <2>5, <2>6 DEF BatchInv
<1>4. CASE CancelInterrupt(r)
  <2>1. /\ batchCall[r].pc = "interrupt"
        /\ batchTask' = Interrupted(j) /\ batchTorn' = Tears(j)
        /\ batchCall' = [batchCall EXCEPT ![r].pc = "answer"]
        /\ UNCHANGED <<batchJob, batchLost>>
    BY <1>4 DEF CancelInterrupt
  <2>2. j \in BatchJobs /\ batchTask[j] \notin {"none", "unborn"} /\ batchJob[j] # "queued"
    BY <2>1 DEF BatchInv, CallFits, Fits
  <2>3. /\ batchTask' \in [BatchJobs -> Places]
        /\ batchTorn' \subseteq BatchJobs
        /\ batchTask'[j] \in Stopping
        /\ \A k \in BatchJobs : /\ batchTask[k] \in Stopping => batchTask'[k] \in Stopping
                                /\ k # j => batchTask'[k] = batchTask[k]
        /\ batchTask'[j] \in {"cancelled", "done"}
    BY <1>1, <2>1, <2>2 DEF Interrupted, Tears, BatchInv, BatchTyped, Places, Late, Stopping
  <2>4. BatchTyped'
    BY <1>1, <2>1, <2>3 DEF BatchInv, BatchTyped, CancelPlaces
  <2>5. RowFits' /\ BatchOwned'
    BY <2>1, <2>2, RowsWhenInterrupted
  <2>6. CallFits'
    <3>1. ASSUME NEW q \in Calls PROVE Fits(batchCall[q], batchTask', batchJob')
      <4>1. Fits(batchCall[q], batchTask, batchJob)
        BY <3>1 DEF BatchInv, CallFits
      <4> QED
        BY <2>1, <2>3, <4>1 DEF Fits, Stopping
    <3>2. ASSUME NEW q \in Calls PROVE Fits(batchCall'[q], batchTask', batchJob')
      <4>1. CASE q = r
        BY <1>1, <2>1, <2>2, <2>3, <4>1 DEF Fits, Stopping
      <4>2. CASE q # r
        BY <1>1, <2>1, <3>1, <4>2
      <4> QED
        BY <4>1, <4>2
    <3> QED
      BY <3>2 DEF CallFits
  <2> QED
    BY <2>4, <2>5, <2>6 DEF BatchInv
<1>5. CASE CancelAnswer(r)
  <2>1. /\ batchCall[r].pc \in {"answer", "await"}
        /\ batchCall' = [batchCall EXCEPT ![r] = [pc |-> "done", j |-> j, says |-> batchJob[j]]]
        /\ UNCHANGED <<batchJob, batchTask, batchTorn, batchLost>>
    BY <1>5 DEF CancelAnswer, CancelAnswers
  <2>2. /\ j \in BatchJobs /\ batchTask[j] \notin {"none", "unborn"}
        /\ batchTask[j] \in Stopping
    BY <2>1 DEF BatchInv, CallFits, Fits
  <2>3. batchCall' \in [Calls -> [pc : CancelPlaces, j : BatchJobs \union {"none"},
                                  says : Statuses \union {"none"}]]
    BY <1>1, <2>1, <2>2 DEF CancelPlaces
  <2>4. CallFits'
    BY <1>1, <2>1, <2>2 DEF BatchInv, CallFits, Fits
  <2> QED
    BY <2>1, <2>3, <2>4, OneCall
<1> QED
  BY <1>2, <1>3, <1>4, <1>5

LEMMA BatchInductive == BatchInv /\ [Next]_vars => BatchInv'
<1> SUFFICES ASSUME BatchInv, [Next]_vars PROVE BatchInv'
  OBVIOUS
<1>1. ASSUME NEW j \in BatchJobs, CancelRead(j) PROVE BatchInv'
  <2>1. /\ batchTask[j] \notin {"none", "unborn"}
        /\ batchJob[j] \in Statuses \ {"absent"} /\ batchTask[j] \in Places
    BY <1>1 DEF CancelRead, BatchInv, BatchTyped, RowFits
  <2>2. UNCHANGED <<batchJob, batchLost>>
    BY <1>1 DEF CancelRead
  <2>3. CASE batchJob[j] = "running" /\ TaskAlive(j)
    <3>1. batchCall' = [batchCall EXCEPT ![calls'] = [pc |-> "await", j |-> j, says |-> "none"]]
      BY <1>1, <2>3 DEF CancelRead, Final
    <3>2. batchTask' = Interrupted(j) /\ batchTorn' = Tears(j)
      BY <1>1, <2>3 DEF CancelRead
    <3> QED
      BY <2>1, <2>2, <2>3, <3>1, <3>2, Interrupting
  <2>4. CASE ~(batchJob[j] = "running" /\ TaskAlive(j))
    <3>1. PICK pc \in {"done", "mark"} :
            batchCall' = [batchCall EXCEPT ![calls'] = [pc |-> pc, j |-> j, says |-> "none"]]
      BY <1>1, <2>1, <2>4 DEF CancelRead, Final, Statuses
    <3>2. UNCHANGED <<batchTask, batchTorn>>
      BY <1>1, <2>4 DEF CancelRead
    <3> QED
      BY <2>1, <2>2, <3>1, <3>2, NewCall
  <2> QED
    BY <2>3, <2>4
<1>2. CASE BatchServerEnds
  <2>1. BatchTyped'
    BY <1>2 DEF BatchServerEnds, BatchInv, BatchTyped, NoCancel, CancelPlaces, Places
  <2>2. \A j \in BatchJobs : /\ batchTask'[j] = IF batchTask[j] = "none" THEN "none" ELSE "done"
                             /\ batchJob'[j] = batchJob[j]
    BY <1>2 DEF BatchServerEnds, TaskAlive
  <2>3. RowFits'
    BY <2>2 DEF BatchInv, RowFits, Early, Late
  <2>4. CallFits'
    BY <1>2, <2>2 DEF BatchServerEnds, BatchInv, CallFits, Fits, NoCancel, Stopping
  <2>5. BatchOwned'
    BY <1>2, <2>2 DEF BatchServerEnds, BatchInv, BatchOwned, TaskAlive
  <2> QED
    BY <2>1, <2>3, <2>4, <2>5 DEF BatchInv
<1>3. CASE UNCHANGED batchVars
  BY <1>3 DEF batchVars, BatchInv, BatchTyped, RowFits, CallFits, Fits, BatchOwned, TaskAlive
<1> QED
  BY <1>1, <1>2, <1>3, BatchStep, Beginning, TaskSteps, CallSteps DEF BatchNext

LEMMA BatchInitial == Init => BatchInv
<1> SUFFICES ASSUME BatchInit PROVE BatchInv
  BY DEF Init
<1>1. BatchTyped
  BY DEF BatchInit, BatchTyped, NoCancel, CancelPlaces, Statuses, Places, Early
<1>2. RowFits /\ CallFits /\ BatchOwned
  BY DEF BatchInit, RowFits, CallFits, Fits, BatchOwned, NoCancel, Early, Late
<1> QED
  BY <1>1, <1>2 DEF BatchInv

-----------------------------------------------------------------------------
(* The semaphore.                                                            *)

AtWork == IsFiniteSet(Holding) /\ Cardinality(Holding) <= ParallelLimit

(* Who leaves the semaphore makes room; only a task that found room enters.  *)
LEMMA Enters ==
  BatchInv /\ [Next]_vars =>
    \/ Holding' \subseteq Holding
    \/ Cardinality(Holding) < ParallelLimit /\ \E j \in BatchJobs : Holding' \subseteq Holding \union {j}
<1> SUFFICES ASSUME BatchInv, [Next]_vars
             PROVE  \/ Holding' \subseteq Holding
                    \/ /\ Cardinality(Holding) < ParallelLimit
                       /\ \E j \in BatchJobs : Holding' \subseteq Holding \union {j}
  OBVIOUS
<1> USE DEF Holding
<1>0. batchTask \in [BatchJobs -> Places]
  BY DEF BatchInv, BatchTyped
<1>1. CASE BatchCreate
  BY <1>1 DEF BatchCreate
<1>2. CASE BatchSpawn
  BY <1>2 DEF BatchSpawn
<1>3. ASSUME NEW j \in BatchJobs, BatchAcquire(j)
      PROVE  Cardinality(Holding) < ParallelLimit /\ Holding' \subseteq Holding \union {j}
  BY <1>0, <1>3 DEF BatchAcquire, TaskGoes
<1>4. ASSUME NEW j \in BatchJobs,
             \/ BatchValidate(j) \/ BatchWrite(j) \/ BatchCommitted(j) \/ BatchHandled(j)
      PROVE  Holding' \subseteq Holding
  BY <1>0, <1>4 DEF BatchValidate, BatchWrite, BatchCommitted, BatchHandled, TaskGoes
<1>5. ASSUME NEW j \in BatchJobs, CancelRead(j) PROVE Holding' \subseteq Holding
  BY <1>0, <1>5 DEF CancelRead, Interrupted
<1>6. ASSUME NEW r \in Calls, CancelValidate(r) \/ CancelWrite(r) \/ CancelAnswer(r)
      PROVE  Holding' \subseteq Holding
  BY <1>6 DEF CancelValidate, CancelWrite, CancelAnswer
<1>7. ASSUME NEW r \in Calls, CancelInterrupt(r) PROVE Holding' \subseteq Holding
  BY <1>0, <1>7 DEF CancelInterrupt, Interrupted
<1>8. CASE BatchServerEnds
  BY <1>8 DEF BatchServerEnds, TaskAlive
<1>9. CASE UNCHANGED batchVars
  BY <1>9 DEF batchVars
<1> QED
  BY <1>1, <1>2, <1>3, <1>4, <1>5, <1>6, <1>7, <1>8, <1>9, BatchStep DEF BatchNext

LEMMA WorkBounded == BatchInv /\ AtWork /\ [Next]_vars => AtWork'
<1> SUFFICES ASSUME BatchInv, AtWork, [Next]_vars PROVE AtWork'
  OBVIOUS
<1>1. CASE Holding' \subseteq Holding
  BY <1>1, FS_Subset, FS_CardinalityType, BatchAssumption DEF AtWork
<1>2. ASSUME NEW j \in BatchJobs, Cardinality(Holding) < ParallelLimit,
             Holding' \subseteq Holding \union {j}
      PROVE  AtWork'
  <2>0. IsFiniteSet(Holding) /\ Cardinality(Holding) \in Nat
    BY FS_CardinalityType DEF AtWork
  <2>1. /\ IsFiniteSet(Holding \union {j})
        /\ Cardinality(Holding \union {j}) <= Cardinality(Holding) + 1
        /\ Cardinality(Holding) \in Nat
    BY <2>0, FS_AddElement
  <2>2. /\ IsFiniteSet(Holding') /\ Cardinality(Holding') \in Nat
        /\ Cardinality(Holding') <= Cardinality(Holding \union {j})
    BY <1>2, <2>1, FS_Subset, FS_CardinalityType
  <2>3. Cardinality(Holding \union {j}) \in Nat
    BY <2>1, FS_CardinalityType
  <2> QED
    BY <1>2, <2>1, <2>2, <2>3, BatchAssumption DEF AtWork
<1> QED
  BY <1>1, <1>2, Enters

LEMMA FewAtFirst == Init => AtWork
<1>1. Init => Holding = {}
  BY DEF Init, BatchInit, Holding
<1> QED
  BY <1>1, FS_EmptySet, BatchAssumption DEF AtWork

LEMMA BatchImplies ==
  BatchInv /\ AtWork => BatchTypeOK /\ BatchOwned /\ CancelAnswersStand
<1> SUFFICES ASSUME BatchInv, AtWork PROVE BatchTypeOK /\ CancelAnswersStand
  BY DEF BatchInv
<1>1. BatchTypeOK
  BY BatchTable DEF BatchInv, BatchTyped, AtWork, BatchTypeOK, Places, Early, Late, CancelPlaces
<1>2. CancelAnswersStand
  BY DEF BatchInv, BatchTyped, CallFits, Fits, Stopping, CancelAnswersStand
<1> QED
  BY <1>1, <1>2

(* For any batch, limit and number of cancel requests: the rows, tasks and   *)
(* requests keep their ranges, no more jobs work than the limit admits, and  *)
(* a row that says queued or running has its task, within the exceptions     *)
(* that BatchOwned names; a 200 "cancelled" stands (batch.py).               *)
THEOREM Batches == Spec => [](BatchTypeOK /\ BatchOwned)
  BY FewAtFirst, BatchInitial, BatchInductive, WorkBounded, BatchImplies, PTL DEF Spec

(* The same, as the run states it: after a cancel request was answered 200   *)
(* with "cancelled", the job stays cancelled and its handler is not running. *)
THEOREM AnswersStand == Spec => []CancelAnswersStand
  BY FewAtFirst, BatchInitial, BatchInductive, WorkBounded, BatchImplies, PTL DEF Spec

-----------------------------------------------------------------------------
(* What holds of the media services together, from the invariants of each.   *)

(* Every variable of the media services keeps its range, and no more batch   *)
(* jobs are at work than the semaphore of the batch admits.                  *)
THEOREM Typing == Spec => []TypeOK
<1>1. /\ Counted /\ ProxyTypeOK /\ TtsTypeOK /\ BatchTypeOK
      /\ VisualTypeOK /\ AssetTypeOK /\ EncTypeOK /\ MarkersTypeOK
      => TypeOK
  BY DEF Counted, TypeOK
<1> QED
  BY <1>1, CallsCounted, Proxies, Narration, Batches, Visuals, AssetFiles, EncoderLists, Markers, PTL

(* A proxy that says READY and an asset that can be downloaded have their    *)
(* whole file, whatever writes, deletes, evicts and fails meanwhile.         *)
THEOREM FilesWhole == Spec => []ReadyHasFile
<1>1. ProxyHasFile /\ AssetHasFile => ReadyHasFile
  BY DEF ReadyHasFile
<1> QED
  BY <1>1, Proxies, AssetFiles, PTL

(* A row that says somebody is at work has its task behind it: proxies, cues,*)
(* batch jobs, waveforms and strips, within the exceptions each one names.   *)
THEOREM Owned == Spec => []InProgressIsOwned
<1>1. ProxyOwned /\ CueOwned /\ BatchOwned /\ VisualOwned => InProgressIsOwned
  BY DEF InProgressIsOwned
<1> QED
  BY <1>1, Proxies, Narration, Batches, Visuals, PTL
=============================================================================
