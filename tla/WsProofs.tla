------------------------------ MODULE WsProofs ------------------------------
(* Theorems about the event stream of WsReplay, for every number of clients, *)
(* connections and events and every size of the buffer: the buffer is in the *)
(* order of the ids, no client is sent an event twice, and none misses one.  *)
EXTENDS WsReplay, FiniteSetTheorems, SequenceTheorems, TLAPS

-----------------------------------------------------------------------------
(* Sequences of events.                                                      *)

Sorted(s) == \A i, j \in DOMAIN s : i < j => s[i] < s[j]
Injective(s) == \A i, j \in DOMAIN s : s[i] = s[j] => i = j

(* The elements of a sequence, by position.                                  *)
LEMMA ElemsAt ==
  ASSUME NEW S, NEW s \in Seq(S)
  PROVE  /\ Elems(s) \subseteq S
         /\ \A i \in 1 .. Len(s) : s[i] \in Elems(s)
         /\ \A x \in Elems(s) : \E i \in 1 .. Len(s) : s[i] = x
         /\ s = << >> <=> Len(s) = 0
         /\ Elems(s) = {} <=> s = << >>
<1>1. /\ Len(s) \in Nat /\ s \in [1 .. Len(s) -> S] /\ DOMAIN s = 1 .. Len(s)
  BY LenProperties
<1>2. s = << >> <=> Len(s) = 0
  BY EmptySeq, <1>1
<1> QED BY <1>1, <1>2 DEF Elems

(* What goes to the end of a sequence.                                       *)
LEMMA AppendFacts ==
  ASSUME NEW S, NEW s \in Seq(S), NEW x \in S
  PROVE  /\ Append(s, x) \in Seq(S)
         /\ Append(s, x) # << >>
         /\ Elems(Append(s, x)) = Elems(s) \union {x}
         /\ Append(s, x)[Len(Append(s, x))] = x
         /\ x \notin Elems(s) /\ Injective(s) => Injective(Append(s, x))
<1>1. /\ Len(s) \in Nat /\ DOMAIN s = 1 .. Len(s)
  BY LenProperties
<1>2. /\ Append(s, x) \in Seq(S) /\ Len(Append(s, x)) = Len(s) + 1
      /\ \A i \in 1 .. Len(s) : Append(s, x)[i] = s[i]
      /\ Append(s, x)[Len(s) + 1] = x
  BY AppendProperties, <1>1
<1>3. DOMAIN Append(s, x) = 1 .. Len(s) + 1
  BY <1>2, LenProperties
<1>4. Elems(Append(s, x)) = Elems(s) \union {x}
  BY <1>1, <1>2, <1>3 DEF Elems
<1>5. ASSUME x \notin Elems(s), Injective(s) PROVE Injective(Append(s, x))
  BY <1>1, <1>2, <1>3, <1>5 DEF Elems, Injective
<1>6. Append(s, x) # << >>
  BY <1>1, <1>2, EmptySeq
<1> QED BY <1>2, <1>4, <1>5, <1>6

(* A sorted sequence stays one when what is appended is larger.              *)
LEMMA AppendSorted ==
  ASSUME NEW S, S \subseteq Int, NEW s \in Seq(S), NEW x \in S, Sorted(s),
         \A y \in Elems(s) : y < x
  PROVE  Sorted(Append(s, x))
<1>1. /\ Len(s) \in Nat /\ DOMAIN s = 1 .. Len(s)
  BY LenProperties
<1>2. /\ Append(s, x) \in Seq(S) /\ Len(Append(s, x)) = Len(s) + 1
      /\ \A i \in 1 .. Len(s) : Append(s, x)[i] = s[i]
      /\ Append(s, x)[Len(s) + 1] = x
  BY AppendProperties, <1>1
<1>3. DOMAIN Append(s, x) = 1 .. Len(s) + 1
  BY <1>2, LenProperties
<1>4. \A i \in 1 .. Len(s) : s[i] < x
  BY <1>1 DEF Elems
<1> QED BY <1>1, <1>2, <1>3, <1>4 DEF Sorted

(* A sorted sequence has its elements once.                                  *)
LEMMA SortedOnce ==
  ASSUME NEW S, S \subseteq Int, NEW s \in Seq(S), Sorted(s)
  PROVE  Injective(s)
<1>1. /\ Len(s) \in Nat /\ DOMAIN s = 1 .. Len(s) /\ \A i \in 1 .. Len(s) : s[i] \in Int
  BY LenProperties, ElementOfSeq
<1>2. ASSUME NEW i \in 1 .. Len(s), NEW j \in 1 .. Len(s), s[i] = s[j] PROVE i = j
  <2>1. ~(i < j) /\ ~(j < i)
    BY <1>1, <1>2 DEF Sorted
  <2> QED BY <1>1, <2>1
<1> QED BY <1>1, <1>2 DEF Injective

(* What is left of a sequence from a position on.                            *)
LEMMA SuffixFacts ==
  ASSUME NEW S, S \subseteq Int, NEW s \in Seq(S), NEW a \in 1 .. Len(s) + 1
  PROVE  LET t == SubSeq(s, a, Len(s)) IN
         /\ t \in Seq(S) /\ Len(t) = Len(s) - a + 1
         /\ \A i \in 1 .. Len(t) : t[i] = s[a + i - 1]
         /\ Elems(t) = {s[i] : i \in a .. Len(s)}
         /\ Sorted(s) => Sorted(t)
<1> DEFINE t == SubSeq(s, a, Len(s))
<1>1. /\ Len(s) \in Nat /\ DOMAIN s = 1 .. Len(s) /\ \A i \in 1 .. Len(s) : s[i] \in S
  BY LenProperties, ElementOfSeq
<1>2. \A i \in a .. Len(s) : s[i] \in S
  BY <1>1
<1>3. /\ t \in Seq(S) /\ Len(t) = Len(s) - a + 1
      /\ \A i \in 1 .. Len(s) - a + 1 : t[i] = s[a + i - 1]
  BY <1>1, <1>2, SubSeqProperties
<1>4. DOMAIN t = 1 .. Len(t)
  BY <1>3, LenProperties
<1>5. \A i \in a .. Len(s) : i - a + 1 \in 1 .. Len(t) /\ t[i - a + 1] = s[i]
  BY <1>1, <1>3
<1>6. Elems(t) = {s[i] : i \in a .. Len(s)}
  <2>1. \A i \in 1 .. Len(t) : a + i - 1 \in a .. Len(s) /\ t[i] = s[a + i - 1]
    BY <1>1, <1>3
  <2> HIDE DEF t
  <2>2. \A x \in Elems(t) : x \in {s[i] : i \in a .. Len(s)}
    BY <1>4, <2>1 DEF Elems
  <2>3. \A i \in a .. Len(s) : s[i] \in Elems(t)
    BY <1>4, <1>5 DEF Elems
  <2> QED BY <2>2, <2>3
<1>7. ASSUME Sorted(s) PROVE Sorted(t)
  BY <1>1, <1>3, <1>4, <1>7 DEF Sorted
<1> QED BY <1>3, <1>6, <1>7

(* A sorted sequence and its first element.                                  *)
LEMMA TailFacts ==
  ASSUME NEW S, S \subseteq Int, NEW s \in Seq(S), s # << >>
  PROVE  /\ Head(s) \in S /\ Tail(s) \in Seq(S) /\ Len(Tail(s)) = Len(s) - 1
         /\ Head(s) \in Elems(s) /\ Elems(s) = {Head(s)} \union Elems(Tail(s))
         /\ Sorted(s) => Sorted(Tail(s)) /\ \A x \in Elems(Tail(s)) : Head(s) < x
<1>1. /\ Len(s) \in Nat \ {0} /\ DOMAIN s = 1 .. Len(s) /\ \A i \in 1 .. Len(s) : s[i] \in S
  BY LenProperties, ElementOfSeq, EmptySeq
<1>2. /\ Head(s) = s[1] /\ Tail(s) \in Seq(S) /\ Len(Tail(s)) = Len(s) - 1
      /\ \A i \in 1 .. Len(s) - 1 : Tail(s)[i] = s[i + 1]
  BY HeadTailProperties, <1>1
<1>3. DOMAIN Tail(s) = 1 .. Len(s) - 1
  BY <1>2, LenProperties
<1>4. \A i \in 1 .. Len(s) : i = 1 \/ (i - 1 \in 1 .. Len(s) - 1 /\ Tail(s)[i - 1] = s[i])
  BY <1>1, <1>2
<1>5. Elems(s) = {Head(s)} \union Elems(Tail(s))
  <2>1. ASSUME NEW i \in 1 .. Len(s) PROVE s[i] = Head(s) \/ s[i] \in Elems(Tail(s))
    <3>1. CASE i = 1
      BY <1>2, <3>1
    <3>2. CASE i - 1 \in 1 .. Len(s) - 1 /\ Tail(s)[i - 1] = s[i]
      BY <1>3, <3>2 DEF Elems
    <3> QED BY <1>4, <3>1, <3>2
  <2>2. \A i \in 1 .. Len(s) - 1 : i + 1 \in 1 .. Len(s) /\ Tail(s)[i] = s[i + 1]
    BY <1>1, <1>2
  <2>3. \A x \in Elems(Tail(s)) : x \in Elems(s)
    BY <1>1, <1>3, <2>2 DEF Elems
  <2>4. Head(s) \in Elems(s)
    BY <1>1, <1>2 DEF Elems
  <2>5. \A x \in Elems(s) : x = Head(s) \/ x \in Elems(Tail(s))
    BY <1>1, <2>1 DEF Elems
  <2> QED BY <2>3, <2>4, <2>5
<1>6. ASSUME Sorted(s) PROVE Sorted(Tail(s)) /\ \A x \in Elems(Tail(s)) : Head(s) < x
  BY <1>1, <1>2, <1>3, <1>6 DEF Sorted, Elems
<1>7. Head(s) \in S /\ Head(s) \in Elems(s)
  BY <1>1, <1>2, <1>5
<1> QED BY <1>2, <1>5, <1>6, <1>7

(* A sorted sequence without one of its elements.                            *)
LEMMA WithoutFacts ==
  ASSUME NEW S, S \subseteq Int, NEW s \in Seq(S), Sorted(s), NEW a \in 1 .. Len(s)
  PROVE  /\ Without(s, a) \in Seq(S) /\ Sorted(Without(s, a))
         /\ Elems(Without(s, a)) = Elems(s) \ {s[a]}
<1> DEFINE p == SubSeq(s, 1, a - 1)
           q == SubSeq(s, a + 1, Len(s))
           w == Without(s, a)
<1>1. /\ Len(s) \in Nat /\ DOMAIN s = 1 .. Len(s) /\ \A i \in 1 .. Len(s) : s[i] \in S
  BY LenProperties, ElementOfSeq
<1>0. Injective(s)
  BY SortedOnce
<1>2. /\ p \in Seq(S) /\ Len(p) = a - 1 /\ \A i \in 1 .. a - 1 : p[i] = s[i]
  <2>1. \A i \in 1 .. a - 1 : s[i] \in S
    BY <1>1
  <2>2. p \in Seq(S) /\ Len(p) = IF 1 <= a - 1 THEN a - 1 - 1 + 1 ELSE 0
    BY <1>1, <2>1, SubSeqProperties
  <2>3. \A i \in 1 .. a - 1 - 1 + 1 : p[i] = s[1 + i - 1]
    BY <1>1, <2>1, SubSeqProperties
  <2> QED BY <1>1, <2>2, <2>3
<1>3. /\ q \in Seq(S) /\ Len(q) = Len(s) - a /\ \A i \in 1 .. Len(s) - a : q[i] = s[a + i]
  <2>1. a + 1 \in 1 .. Len(s) + 1
    BY <1>1
  <2>2. /\ q \in Seq(S) /\ Len(q) = Len(s) - (a + 1) + 1
        /\ \A i \in 1 .. Len(q) : q[i] = s[a + 1 + i - 1]
    BY <2>1, SuffixFacts
  <2> HIDE DEF q
  <2>3. Len(q) = Len(s) - a /\ \A i \in 1 .. Len(s) - a : a + 1 + i - 1 = a + i
    BY <1>1, <2>2
  <2> QED BY <2>2, <2>3
<1>4. /\ w \in Seq(S) /\ Len(w) = Len(s) - 1
      /\ \A i \in 1 .. Len(s) - 1 : w[i] = IF i < a THEN s[i] ELSE s[i + 1]
  <2>1. /\ w \in Seq(S) /\ Len(w) = Len(p) + Len(q)
        /\ \A i \in 1 .. Len(p) + Len(q) :
             w[i] = IF i <= Len(p) THEN p[i] ELSE q[i - Len(p)]
    BY <1>2, <1>3, ConcatProperties DEF Without
  <2> HIDE DEF p, q, w
  <2>2. ASSUME NEW i \in 1 .. Len(s) - 1 PROVE w[i] = IF i < a THEN s[i] ELSE s[i + 1]
    <3>0. i \in 1 .. Len(p) + Len(q) /\ Len(p) = a - 1
      BY <1>1, <1>2, <1>3
    <3>1. CASE i < a
      <4>1. i <= Len(p) /\ i \in 1 .. a - 1
        BY <3>0, <3>1
      <4> QED BY <1>2, <2>1, <3>0, <3>1, <4>1
    <3>2. CASE ~(i < a)
      <4>0. ~(i <= Len(p)) /\ i - Len(p) = i - a + 1 /\ i - a + 1 \in 1 .. Len(s) - a
        BY <1>1, <3>0, <3>2
      <4>1. w[i] = q[i - a + 1] /\ i - a + 1 \in 1 .. Len(s) - a
        BY <2>1, <3>0, <4>0
      <4>2. q[i - a + 1] = s[a + (i - a + 1)]
        BY <1>3, <4>1
      <4> QED BY <1>1, <3>2, <4>1, <4>2
    <3> QED BY <3>1, <3>2
  <2> QED BY <1>1, <1>2, <1>3, <2>1, <2>2
<1> HIDE DEF p, q, w
<1>5. DOMAIN w = 1 .. Len(s) - 1
  BY <1>4, LenProperties
<1>6. Sorted(w)
  BY <1>1, <1>4, <1>5, SMTT(40) DEF Sorted
<1>7. Elems(w) \subseteq Elems(s) \ {s[a]}
  <2> SUFFICES ASSUME NEW i \in 1 .. Len(s) - 1
               PROVE  w[i] \in Elems(s) /\ w[i] # s[a]
    BY <1>5 DEF Elems
  <2>1. CASE i < a
    <3>1. w[i] = s[i] /\ i \in 1 .. Len(s)
      BY <1>1, <1>4, <2>1
    <3>2. s[i] # s[a]
      BY <1>1, <2>1, <3>1, <1>0 DEF Injective
    <3> QED BY <1>1, <3>1, <3>2 DEF Elems
  <2>2. CASE ~(i < a)
    <3>1. w[i] = s[i + 1] /\ i + 1 \in 1 .. Len(s) /\ i + 1 # a
      BY <1>1, <1>4, <2>2
    <3>2. s[i + 1] # s[a]
      BY <1>1, <3>1, <1>0 DEF Injective
    <3> QED BY <1>1, <3>1, <3>2 DEF Elems
  <2> QED BY <2>1, <2>2
<1>8. \A i \in 1 .. Len(s) : i # a =>
        \E j \in 1 .. Len(s) - 1 : w[j] = s[i]
  <2> SUFFICES ASSUME NEW i \in 1 .. Len(s), i # a
               PROVE  \E j \in 1 .. Len(s) - 1 : w[j] = s[i]
    OBVIOUS
  <2>1. CASE i < a
    BY <1>1, <1>4, <2>1
  <2>2. CASE i > a
    <3>1. i - 1 \in 1 .. Len(s) - 1 /\ w[i - 1] = s[i]
      BY <1>1, <1>4, <2>2
    <3> QED BY <3>1
  <2> QED BY <1>1, <2>1, <2>2
<1>9. Elems(s) \ {s[a]} \subseteq Elems(w)
  BY <1>1, <1>5, <1>8 DEF Elems
<1> QED BY <1>4, <1>6, <1>7, <1>9 DEF w

-----------------------------------------------------------------------------
(* The inductive invariant.                                                  *)

(* Events are numbered in the order of their building; those of a former     *)
(* life have ended; an id is the place in this life; a connection has one    *)
(* heartbeat under way.                                                      *)
Numbered ==
  /\ \E n \in 0 .. NumEvents : Built = 1 .. n
  /\ \A e \in Events : e < life => event[e].pc # "none" /\ ~Open(e)
  /\ \A e \in Built : e >= life => event[e].id = e - life
  /\ \A d, e \in Events : Open(d) /\ Open(e) /\ event[d].by = event[e].by /\ event[d].by # None
                          => d = e

(* The lock is served and the buffer is filled in the order of the events,   *)
(* and they expire in that order.                                            *)
Streamed ==
  /\ Sorted(turn) /\ Sorted(buffer)
  /\ \A d \in Done, e \in Events : Open(e) => d < e
  /\ \A e \in Elems(buffer) : e >= life
  /\ \A e \in Events : Open(e) => old < e
  /\ old \in Built \union {0}
  /\ \E n \in 0 .. Len(buffer) : \A i \in DOMAIN buffer : buffer[i] <= old <=> i <= n

(* A connection whose client is there.                                       *)
Up(c) == conn[c].pc # "none" /\ c \notin cut

(* A client has one connection at a time, whose replay holds finished events *)
(* in their order.                                                           *)
Connected ==
  /\ \A c \in Conns : conn[c].pc # "none" => conn[c].of \in Clients
  /\ \A c \in live \union cut : conn[c].pc # "none"
  /\ \A c \in Conns : Up(c) => Listens(c)
  /\ \A c, d \in Conns : Up(c) /\ Up(d) /\ conn[c].of = conn[d].of => c = d
  /\ \A c \in Conns : /\ Sorted(conn[c].rest) /\ Elems(conn[c].rest) \subseteq Done
                      /\ conn[c].pc = "replaying" <=> conn[c].rest # << >>
  /\ \A e \in Events : /\ event[e].dead \subseteq cut
                       /\ \A c \in event[e].to : conn[c].pc # "none"

Base == TypeOK /\ Numbered /\ Streamed /\ Connected

EventSet == [pc : EventPCs, id : 0 .. NumEvents, by : Conns \union {None},
             from : SUBSET Conns, to : SUBSET Conns, dead : SUBSET Conns]
ConnSet == [pc : ConnPCs, of : Clients \union {Nobody}, rest : Seq(Events)]

LEMMA Bounds == /\ Events \subseteq Int /\ Conns \subseteq Int /\ << >> \in Seq(Events)
                /\ NumEvents \in Nat /\ NumConns \in Nat /\ BufferSize \in Nat
                /\ Elems(<< >>) = {} /\ Sorted(<< >>) /\ Injective(<< >>) /\ Len(<< >>) = 0
BY WsAssumption, EmptySeq DEF Events, Conns, Elems, Sorted, Injective

LEMMA Numbers == \A e \in Events : e \in Int /\ ~(e < e)
BY DEF Events

(* What a broadcast holds and waits for is open, and the first is the least. *)
LEMMA TurnFacts ==
  ASSUME Base, turn # << >>
  PROVE  /\ Head(turn) \in Events /\ Open(Head(turn)) /\ Tail(turn) \in Seq(Events)
         /\ Sorted(Tail(turn))
         /\ Elems(Tail(turn)) = {e \in Events : Open(e)} \ {Head(turn)}
         /\ \A e \in Events : Open(e) => Head(turn) <= e
<1>1. turn \in Seq(Events) /\ Sorted(turn) /\ Elems(turn) = {e \in Events : Open(e)}
  BY DEF Base, TypeOK, Streamed
<1>2. /\ Head(turn) \in Events /\ Tail(turn) \in Seq(Events) /\ Head(turn) \in Elems(turn)
      /\ Elems(turn) = {Head(turn)} \union Elems(Tail(turn))
      /\ Sorted(Tail(turn)) /\ \A x \in Elems(Tail(turn)) : Head(turn) < x
  BY <1>1, TailFacts, Bounds
<1>3. ASSUME NEW x \in Elems(Tail(turn)) PROVE x # Head(turn)
  <2>1. Head(turn) < x /\ Head(turn) \in Int
    BY <1>2, Bounds
  <2> QED BY <2>1
<1>4. ASSUME NEW e \in Events, Open(e) PROVE Head(turn) <= e
  <2>1. e \in Elems(turn) /\ e \in Int /\ Head(turn) \in Int
    BY <1>1, <1>2, <1>4, Bounds
  <2> QED BY <1>2, <2>1
<1> QED BY <1>1, <1>2, <1>3, <1>4

LEMMA Initially == Init => Base
<1> SUFFICES ASSUME Init PROVE Base
  OBVIOUS
<1> USE Bounds DEF Init
<1>1. TypeOK
  <2>1. event \in [Events -> EventSet]
    BY DEF EventSet, EventPCs
  <2>2. conn \in [Conns -> ConnSet]
    BY DEF ConnSet, ConnPCs
  <2>3. seen \in [Clients -> Seq(Events)]
    OBVIOUS
  <2> QED BY <2>1, <2>2, <2>3 DEF TypeOK, EventSet, ConnSet, Open, Holds, Listens, Done
<1>2. Numbered
  BY DEF Numbered, Built, Open, Events
<1>3. Streamed
  BY DEF Streamed, Done, Open, Built
<1>4. Connected
  BY DEF Connected, Up, Listens, Done, Open
<1> QED BY <1>1, <1>2, <1>3, <1>4 DEF Base

(* build_event: the next event is appended to those that wait.               *)
LEMMA BuildBase ==
  ASSUME Base, NEW e \in Events, NEW by \in Conns \union {None}, Build(e, by)
  PROVE  /\ Base'
         /\ \A d \in Events : Open(d)' <=> Open(d) \/ d = e
         /\ Built' = Built \union {e} /\ Done' = Done /\ e \notin Built /\ \A d \in Built : d < e
         /\ \A d \in Events : event'[d].to = event[d].to
         /\ UNCHANGED <<conn, cut, seen, life, skipped, blind>>
<1> USE Bounds
<1>1. /\ event \in [Events -> EventSet] /\ event' \in [Events -> EventSet]
      /\ e >= life /\ \A d \in Built : d < e
  <2>1. event \in [Events -> EventSet]
    BY DEF Base, TypeOK, EventSet
  <2>2. event[e].pc = "none"
    BY DEF Build
  <2>3. PICK n \in 0 .. NumEvents : Built = 1 .. n
    BY DEF Base, Numbered
  <2>4. \A d \in Built : d < e
    BY <2>2, <2>3 DEF Built, Events
  <2>5. life \in 1 .. NumEvents + 1 /\ ~(e < life)
    BY <2>2 DEF Base, TypeOK, Numbered
  <2>6. e - life \in 0 .. NumEvents /\ e >= life
    BY <2>5 DEF Events
  <2>7. event' = [event EXCEPT ![e] = [@ EXCEPT !.pc = "waiting", !.id = e - life, !.by = by]]
    BY <2>1 DEF Build, EventSet
  <2>8. [event[e] EXCEPT !.pc = "waiting", !.id = e - life, !.by = by] \in EventSet
    BY <2>1, <2>6 DEF EventSet, EventPCs
  <2>9. event' \in [Events -> EventSet]
    BY <2>1, <2>7, <2>8
  <2> QED BY <2>1, <2>4, <2>6, <2>9
<1>2. /\ \A d \in Events \ {e} : event'[d] = event[d]
      /\ event'[e] = [event[e] EXCEPT !.pc = "waiting", !.id = e - life, !.by = by]
      /\ event[e].pc = "none" /\ event'[e].pc = "waiting" /\ event'[e].id = e - life
      /\ event'[e].by = by /\ event'[e].dead = event[e].dead /\ event'[e].to = event[e].to
  BY <1>1 DEF Build, EventSet
<1>3. /\ \A d \in Events : Open(d)' <=> Open(d) \/ d = e
      /\ Built' = Built \union {e} /\ Done' = Done
  <2>1. \A d \in Events : event'[d].pc = IF d = e THEN "waiting" ELSE event[d].pc
    BY <1>2
  <2> QED BY <1>2, <2>1 DEF Open, Built, Done
<1>4. /\ turn' \in Seq(Events) /\ Elems(turn') = Elems(turn) \union {e} /\ Sorted(turn')
      /\ turn # << >> => turn' # << >> /\ Head(turn') = Head(turn)
  <2>1. turn \in Seq(Events) /\ Sorted(turn) /\ Elems(turn) \subseteq Built
    BY DEF Base, TypeOK, Streamed, Open, Built
  <2>2. \A d \in Elems(turn) : d < e
    BY <1>1, <2>1
  <2>3. turn' = Append(turn, e)
    BY DEF Build
  <2>4. turn' \in Seq(Events) /\ Elems(turn') = Elems(turn) \union {e} /\ turn' # << >>
    BY <2>1, <2>3, AppendFacts
  <2>5. Sorted(turn')
    BY <2>1, <2>2, <2>3, AppendSorted
  <2>6. turn # << >> => Head(turn') = Head(turn)
    BY <2>1, <2>3, HeadTailAppend
  <2> QED BY <2>4, <2>5, <2>6
<1>5. TypeOK'
  <2>1. Elems(turn') = {d \in Events : Open(d)'}
    BY <1>3, <1>4 DEF Base, TypeOK
  <2>2. ASSUME NEW d \in Events, (event[d].pc = "sending")' PROVE Holds(d)'
    <3>1. event[d].pc = "sending"
      BY <1>2, <2>2
    <3>2. Holds(d)
      BY <3>1 DEF Base, TypeOK
    <3> QED BY <1>4, <3>2 DEF Holds
  <2>3. Elems(buffer) \subseteq Done'
    BY <1>3 DEF Base, TypeOK
  <2> QED BY <1>1, <1>4, <2>1, <2>2, <2>3
          DEF Base, TypeOK, EventSet, Build, streamVars, connVars, Listens
<1>6. Numbered'
  <2>1. PICK n \in 0 .. NumEvents : Built = 1 .. n
    BY DEF Base, Numbered
  <2>2. Built' = 1 .. e
    <3>1. \A d \in Events : d < e => d \in Built
      BY DEF Build, Built
    <3>2. \A d \in Built' : d \in 1 .. e
      BY <1>1, <1>3, <2>1 DEF Events
    <3>3. \A d \in 1 .. e : d \in Built'
      BY <1>3, <3>1 DEF Events
    <3> QED BY <3>2, <3>3
  <2>3. \A d \in Events : d < life => (event[d].pc # "none" /\ ~Open(d))'
    BY <1>1, <1>2, <1>3 DEF Base, TypeOK, Numbered
  <2>4. \A d \in Built' : d >= life => event'[d].id = d - life
    BY <1>1, <1>2, <1>3 DEF Base, Numbered, Built
  <2>5. ASSUME NEW c \in Events, NEW d \in Events, Open(c)', Open(d)',
               event'[c].by = event'[d].by, event'[c].by # None
        PROVE  c = d
    <3>1. CASE c # e /\ d # e
      <4>1. Open(c) /\ Open(d) /\ event[c].by = event[d].by /\ event[c].by # None
        BY <1>2, <1>3, <2>5, <3>1
      <4> QED BY <4>1 DEF Base, Numbered
    <3>2. CASE c = e
      BY <1>2, <1>3, <2>5, <3>2 DEF Build
    <3>3. CASE d = e
      BY <1>2, <1>3, <2>5, <3>3 DEF Build
    <3> QED BY <3>1, <3>2, <3>3
  <2>6. e \in 0 .. NumEvents
    BY DEF Events
  <2> QED BY <2>2, <2>3, <2>4, <2>5, <2>6 DEF Numbered, Build, streamVars
<1>7. Streamed'
  <2>1. \A d \in Done', c \in Events : Open(c)' => d < c
    BY <1>1, <1>3 DEF Base, Streamed, Built, Done
  <2>2. \A d \in Events : Open(d)' => old < d
    <3>1. old < e
      BY <1>1 DEF Base, Streamed, Events
    <3> QED BY <1>3, <3>1 DEF Base, Streamed
  <2>3. old \in Built' \union {0}
    BY <1>3 DEF Base, Streamed
  <2> QED BY <1>4, <2>1, <2>2, <2>3 DEF Base, Streamed, Build, streamVars
<1>8. Connected'
  <2>1. \A d \in Events : event'[d].dead \subseteq cut /\ \A c \in event'[d].to : conn[c].pc # "none"
    <3>1. \A d \in Events : event'[d].dead = event[d].dead /\ event'[d].to = event[d].to
      BY <1>2
    <3> QED BY <3>1 DEF Base, Connected
  <2> QED BY <1>3, <2>1 DEF Base, Connected, Build, connVars, Up, Listens
<1>9. \A d \in Events : event'[d].to = event[d].to
  BY <1>2
<1>10. UNCHANGED <<conn, cut, seen, life, skipped, blind>> /\ e \notin Built
  BY <1>2 DEF Build, streamVars, connVars, Built
<1> QED BY <1>1, <1>3, <1>5, <1>6, <1>7, <1>8, <1>9, <1>10 DEF Base

(* One connection of the loop.                                               *)
LEMMA VisitBase ==
  ASSUME Base, NEW e \in Events, NEW c \in Conns, Visit(e, c)
  PROVE  /\ Base'
         /\ Open(e) /\ c \notin event[e].to /\ conn[c].pc # "none" /\ conn[c].of \in Clients
         /\ \A d \in Events : Open(d) => e <= d
         /\ \A d \in Events : Open(d)' <=> Open(d)
         /\ Built' = Built /\ Done' = Done
         /\ \A d \in Events \ {e} : event'[d].to = event[d].to
         /\ event'[e].to = event[e].to \union {c}
         /\ IF c \in cut THEN UNCHANGED seen ELSE Receives(c, e)
         /\ UNCHANGED <<conn, cut, life, skipped, blind>>
<1> USE Bounds
<1>1. event \in [Events -> EventSet] /\ conn \in [Conns -> ConnSet] /\ conn[c].of \in Clients
  BY DEF Base, TypeOK, EventSet, ConnSet, Connected, Visit
<1>2. PICK r \in EventSet :
        /\ event' = [event EXCEPT ![e] = r]
        /\ r.pc = "sending" /\ r.id = event[e].id /\ r.by = event[e].by
        /\ r.dead \subseteq cut /\ r.to = event[e].to \union {c}
  <2>1. PICK fails \in {TRUE, FALSE} : /\ fails => c \in cut
                                       /\ event' = [event EXCEPT ![e] = Offered(e, c, fails)]
    BY DEF Visit
  <2>2. event[e] \in EventSet /\ event[e].dead \subseteq cut /\ live \subseteq Conns
    BY <1>1 DEF Base, TypeOK, Connected
  <2>3. /\ Offered(e, c, fails) \in EventSet
        /\ Offered(e, c, fails).pc = "sending" /\ Offered(e, c, fails).id = event[e].id
        /\ Offered(e, c, fails).by = event[e].by /\ Offered(e, c, fails).dead \subseteq cut
        /\ Offered(e, c, fails).to = event[e].to \union {c}
    BY <2>1, <2>2 DEF Offered, EventSet, EventPCs
  <2> QED BY <2>1, <2>3, Zenon
<1>3. Open(e)
  BY DEF Visit
<1>4. /\ event' \in [Events -> EventSet]
      /\ \A d \in Events \ {e} : event'[d] = event[d]
      /\ event'[e].pc = "sending" /\ event'[e].id = event[e].id /\ event'[e].by = event[e].by
      /\ event'[e].dead \subseteq cut /\ event'[e].to = event[e].to \union {c}
      /\ Open(e)
  BY <1>1, <1>2, <1>3
<1>5. /\ \A d \in Events : Open(d)' <=> Open(d)
      /\ Built' = Built /\ Done' = Done
  <2>1. \A d \in Events : event'[d].pc = IF d = e THEN "sending" ELSE event[d].pc
    BY <1>4
  <2> QED BY <1>4, <2>1 DEF Open, Built, Done
<1>6. \A d \in Events : event'[d].id = event[d].id /\ event'[d].by = event[d].by
  BY <1>4
<1>7. UNCHANGED <<turn, buffer, old, life, live, conn, cut, skipped, blind>>
  BY DEF Visit, streamVars, connVars
<1>8. TypeOK'
  <2>1. seen' \in [Clients -> Seq(Events)]
    <3>1. seen \in [Clients -> Seq(Events)]
      BY DEF Base, TypeOK
    <3>2. CASE c \in cut
      BY <3>1, <3>2 DEF Visit
    <3>3. CASE c \notin cut
      <4>1. seen' = [seen EXCEPT ![conn[c].of] = Append(@, e)]
        BY <3>3 DEF Visit, Receives
      <4>2. Append(seen[conn[c].of], e) \in Seq(Events)
        BY <1>1, <3>1, AppendFacts
      <4> QED BY <3>1, <4>1, <4>2
    <3> QED BY <3>2, <3>3
  <2>2. ASSUME NEW d \in Events, event'[d].pc = "sending" PROVE Holds(d)
    <3>1. d = e \/ event[d].pc = "sending"
      BY <1>4, <2>2
    <3> QED BY <3>1 DEF Base, TypeOK, Visit
  <2>3. /\ Elems(turn') = {d \in Events : Open(d)'} /\ Elems(buffer') \subseteq Done'
    BY <1>5, <1>7 DEF Base, TypeOK
  <2> QED BY <1>4, <1>7, <2>1, <2>2, <2>3 DEF Base, TypeOK, EventSet, Holds, Listens
<1>9. Numbered'
  <2>1. \E n \in 0 .. NumEvents : Built' = 1 .. n
    BY <1>5 DEF Base, Numbered
  <2>2. \A d \in Events : d < life' => event'[d].pc # "none" /\ ~Open(d)'
    BY <1>4, <1>5, <1>7 DEF Base, Numbered
  <2>3. \A d \in Built' : d >= life' => event'[d].id = d - life'
    BY <1>5, <1>6, <1>7 DEF Base, Numbered, Built
  <2>4. \A d, b \in Events :
          Open(d)' /\ Open(b)' /\ event'[d].by = event'[b].by /\ event'[d].by # None => d = b
    BY <1>5, <1>6 DEF Base, Numbered
  <2> QED BY <2>1, <2>2, <2>3, <2>4 DEF Numbered
<1>10. Streamed'
  BY <1>5, <1>7 DEF Base, Streamed
<1>11. Connected'
  <2>1. \A d \in Events : event'[d].dead \subseteq cut
    BY <1>4 DEF Base, Connected
  <2>2. \A d \in Events : \A b \in event'[d].to : conn[b].pc # "none"
    <3>1. conn[c].pc # "none"
      BY DEF Visit, Base, Connected
    <3> QED BY <1>4, <3>1 DEF Base, Connected
  <2> QED BY <1>5, <1>7, <2>1, <2>2 DEF Base, Connected, Up, Listens
<1>12. /\ c \notin event[e].to /\ conn[c].pc # "none"
       /\ IF c \in cut THEN UNCHANGED seen ELSE Receives(c, e)
  BY DEF Visit, Base, Connected
<1>13. \A d \in Events : Open(d) => e <= d
  BY TurnFacts DEF Visit, Holds
<1> QED BY <1>1, <1>4, <1>5, <1>7, <1>8, <1>9, <1>10, <1>11, <1>12, <1>13 DEF Base

LEMMA EndedFacts ==
  ASSUME event \in [Events -> EventSet], NEW e \in Events, NEW pc \in EventPCs
  PROVE  /\ Ended(e, pc) \in [Events -> EventSet]
         /\ \A d \in Events \ {e} : Ended(e, pc)[d] = event[d]
         /\ Ended(e, pc)[e].pc = pc /\ Ended(e, pc)[e].id = event[e].id
         /\ Ended(e, pc)[e].by = None /\ Ended(e, pc)[e].to = {} /\ Ended(e, pc)[e].dead = {}
<1> DEFINE r == [event[e] EXCEPT !.pc = pc, !.by = None, !.from = {}, !.to = {}, !.dead = {}]
<1>1. /\ r \in EventSet /\ r.pc = pc /\ r.id = event[e].id /\ r.by = None /\ r.to = {}
      /\ r.dead = {}
  BY DEF EventSet
<1>2. Ended(e, pc) = [event EXCEPT ![e] = r]
  BY DEF Ended
<1> HIDE DEF r
<1> QED BY <1>1, <1>2

(* Broadcasts X end.                                                         *)
Ends(X, pc) ==
  /\ event' \in [Events -> EventSet]
  /\ \A d \in X : Open(d)
  /\ \A d \in Events \ X : event'[d] = event[d]
  /\ \A d \in X : /\ event'[d].pc = pc /\ event'[d].id = event[d].id /\ event'[d].by = None
                  /\ event'[d].to = {} /\ event'[d].dead = {}

LEMMA EndsEffect ==
  ASSUME Base, NEW X \in SUBSET Events, NEW pc \in {"done", "failed"}, Ends(X, pc)
  PROVE  /\ \A d \in Events : Open(d)' <=> Open(d) /\ d \notin X
         /\ Built' = Built
         /\ Done' = IF pc = "done" THEN Done \union X ELSE Done
         /\ \A d \in Events : event'[d].pc = "sending" => event[d].pc = "sending" /\ d \notin X
         /\ \A d \in Events : /\ event'[d].dead \subseteq cut
                              /\ \A c \in event'[d].to : conn[c].pc # "none"
         /\ life' = life => Numbered'
<1>1. /\ \A d \in Events : event'[d].pc = IF d \in X THEN pc ELSE event[d].pc
      /\ \A d \in Events : event'[d].id = event[d].id
      /\ \A d \in Events : d \notin X => event'[d].by = event[d].by
      /\ \A d \in X : Open(d)
  BY DEF Ends
<1>2. /\ \A d \in Events : Open(d)' <=> Open(d) /\ d \notin X
      /\ Built' = Built
      /\ \A d \in Events : event'[d].pc = "sending" => event[d].pc = "sending" /\ d \notin X
  BY <1>1 DEF Open, Built
<1>3. Done' = IF pc = "done" THEN Done \union X ELSE Done
  BY <1>1 DEF Done, Open
<1>4. \A d \in Events : /\ event'[d].dead \subseteq cut
                        /\ \A c \in event'[d].to : conn[c].pc # "none"
  <2> SUFFICES ASSUME NEW d \in Events
               PROVE  event'[d].dead \subseteq cut /\ \A c \in event'[d].to : conn[c].pc # "none"
    OBVIOUS
  <2>1. CASE d \in X
    BY <2>1 DEF Ends
  <2>2. CASE d \notin X
    BY <2>2 DEF Ends, Base, Connected
  <2> QED BY <2>1, <2>2
<1>5. ASSUME life' = life PROVE Numbered'
  <2>1. \E n \in 0 .. NumEvents : Built' = 1 .. n
    BY <1>2 DEF Base, Numbered
  <2>2. \A d \in Events : d < life => event'[d].pc # "none" /\ ~Open(d)'
    BY <1>1, <1>2 DEF Base, Numbered
  <2>3. \A d \in Built' : d >= life => event'[d].id = d - life
    BY <1>1, <1>2 DEF Base, Numbered, Built
  <2>4. \A d, b \in Events :
          Open(d)' /\ Open(b)' /\ event'[d].by = event'[b].by /\ event'[d].by # None => d = b
    BY <1>1, <1>2 DEF Base, Numbered
  <2> QED BY <1>5, <2>1, <2>2, <2>3, <2>4 DEF Numbered
<1> QED BY <1>2, <1>3, <1>4, <1>5

(* The buffer with one event more, and within its size.                      *)
LEMMA BufferedFacts ==
  ASSUME Base, NEW e \in Events, Open(e)
  PROVE  /\ Buffered(e) \in Seq(Events) /\ Sorted(Buffered(e)) /\ Len(Buffered(e)) <= BufferSize
         /\ Elems(Buffered(e)) \subseteq Elems(buffer) \union {e}
         /\ \E n \in 0 .. Len(Buffered(e)) :
              \A i \in DOMAIN Buffered(e) : Buffered(e)[i] <= old <=> i <= n
<1> USE Bounds
<1> DEFINE s == Append(buffer, e)
<1>1. /\ buffer \in Seq(Events) /\ Sorted(buffer) /\ Len(buffer) <= BufferSize /\ old < e
      /\ Elems(buffer) \subseteq Done /\ old \in Int
  BY DEF Base, TypeOK, Streamed
<1>2. PICK n \in 0 .. Len(buffer) : \A i \in DOMAIN buffer : buffer[i] <= old <=> i <= n
  BY DEF Base, Streamed
<1>3. Len(buffer) \in Nat /\ DOMAIN buffer = 1 .. Len(buffer)
  BY <1>1, LenProperties
<1>4. /\ s \in Seq(Events) /\ Len(s) = Len(buffer) + 1 /\ s # << >>
      /\ Elems(s) = Elems(buffer) \union {e}
      /\ \A i \in 1 .. Len(buffer) : s[i] = buffer[i]
      /\ s[Len(buffer) + 1] = e
  BY <1>1, AppendProperties, AppendFacts
<1>5. Sorted(s)
  BY <1>1, AppendSorted DEF Base, Streamed
<1>6. \A i \in 1 .. Len(s) : s[i] <= old <=> i <= n
  <2> SUFFICES ASSUME NEW i \in 1 .. Len(s) PROVE s[i] <= old <=> i <= n
    OBVIOUS
  <2>1. CASE i \in 1 .. Len(buffer)
    BY <1>2, <1>3, <1>4, <2>1
  <2>2. CASE i = Len(buffer) + 1
    BY <1>1, <1>2, <1>3, <1>4, <2>2
  <2> QED BY <1>3, <1>4, <2>1, <2>2
<1> HIDE DEF s
<1>7. CASE Len(s) > BufferSize
  <2>1. Buffered(e) = Tail(s)
    BY <1>7 DEF Buffered, Trimmed, s
  <2>2. /\ Tail(s) \in Seq(Events) /\ Len(Tail(s)) = Len(s) - 1 /\ Sorted(Tail(s))
        /\ Elems(Tail(s)) \subseteq Elems(s)
    <3>1. /\ Tail(s) \in Seq(Events) /\ Len(Tail(s)) = Len(s) - 1
          /\ Sorted(s) => Sorted(Tail(s))
          /\ Elems(s) = {Head(s)} \union Elems(Tail(s))
      BY <1>4, TailFacts
    <3> QED BY <1>5, <3>1
  <2>3. \A i \in 1 .. Len(s) - 1 : Tail(s)[i] = s[i + 1]
    BY <1>4, <2>2, HeadTailProperties
  <2>4. DOMAIN Tail(s) = 1 .. Len(s) - 1
    BY <2>2, LenProperties
  <2> DEFINE m == IF n = 0 THEN 0 ELSE n - 1
  <2>5. m \in 0 .. Len(Tail(s))
    BY <1>3, <1>4, <2>2
  <2>6. \A i \in 1 .. Len(s) - 1 : Tail(s)[i] <= old <=> i <= m
    BY <1>3, <1>4, <1>6, <2>3
  <2> HIDE DEF m
  <2>7. \E k \in 0 .. Len(Tail(s)) : \A i \in DOMAIN Tail(s) : Tail(s)[i] <= old <=> i <= k
    BY <2>4, <2>5, <2>6
  <2>8. Len(Tail(s)) <= BufferSize
    BY <1>1, <1>3, <1>4, <2>2
  <2> QED BY <1>4, <2>1, <2>2, <2>7, <2>8
<1>8. CASE ~(Len(s) > BufferSize)
  <2>1. Buffered(e) = s
    BY <1>8 DEF Buffered, Trimmed, s
  <2>2. n \in 0 .. Len(s) /\ DOMAIN s = 1 .. Len(s) /\ Len(s) <= BufferSize
    BY <1>3, <1>4, <1>8, LenProperties
  <2> QED BY <1>4, <1>5, <1>6, <2>1, <2>2
<1> QED BY <1>7, <1>8

(* What is shared by the end of a broadcast and its failure.                 *)
LEMMA HeadEnds ==
  ASSUME Base, NEW e \in Events, Open(e), Holds(e), NEW pc \in {"done", "failed"},
         event' = Ended(e, pc), turn' = Tail(turn)
  PROVE  /\ Ends({e}, pc)
         /\ turn' \in Seq(Events) /\ Sorted(turn') /\ Elems(turn') = {d \in Events : Open(d)'}
         /\ \A d \in Events : event'[d].pc # "sending"
         /\ \A d \in Events : Open(d) => e <= d
<1> USE Bounds
<1>1. event \in [Events -> EventSet]
  BY DEF Base, TypeOK, EventSet
<1>2. Ends({e}, pc)
  BY <1>1, EndedFacts DEF EventPCs, Ends
<1>3. turn # << >> /\ Head(turn) = e
  BY DEF Holds
<1>4. /\ turn' \in Seq(Events) /\ Sorted(turn') /\ Elems(turn') = {d \in Events : Open(d)} \ {e}
      /\ \A d \in Events : Open(d) => e <= d
  BY <1>3, TurnFacts
<1>5. /\ \A d \in Events : Open(d)' <=> Open(d) /\ d # e
      /\ \A d \in Events : event'[d].pc = "sending" => event[d].pc = "sending" /\ d # e
  BY <1>2, EndsEffect
<1>6. \A d \in Events : event[d].pc = "sending" => d = e
  BY <1>3 DEF Base, TypeOK, Holds
<1> QED BY <1>2, <1>4, <1>5, <1>6

(* The end of a broadcast.                                                   *)
LEMMA FinishBase ==
  ASSUME Base, NEW e \in Events, Finish(e)
  PROVE  /\ Base'
         /\ Open(e) /\ \A d \in Events : Open(d)' <=> Open(d) /\ d # e
         /\ Built' = Built /\ Done' = Done \union {e}
         /\ \A d \in Events \ {e} : event'[d].to = event[d].to
         /\ event'[e].to = {}
         /\ UNCHANGED <<conn, cut, seen, life, blind>>
<1> USE Bounds
<1>1. /\ Open(e) /\ Holds(e) /\ event' = Ended(e, "done") /\ turn' = Tail(turn)
      /\ buffer' = Buffered(e) /\ live' = live \ event[e].dead
      /\ UNCHANGED <<old, life, conn, cut, seen, blind>>
  BY DEF Finish
<1>2. /\ Ends({e}, "done")
      /\ turn' \in Seq(Events) /\ Sorted(turn') /\ Elems(turn') = {d \in Events : Open(d)'}
      /\ \A d \in Events : event'[d].pc # "sending"
      /\ \A d \in Events : Open(d) => e <= d
  BY <1>1, HeadEnds
<1>3. /\ \A d \in Events : Open(d)' <=> Open(d) /\ d # e
      /\ Built' = Built /\ Done' = Done \union {e}
      /\ \A d \in Events : /\ event'[d].dead \subseteq cut
                           /\ \A c \in event'[d].to : conn[c].pc # "none"
      /\ Numbered'
  BY <1>1, <1>2, EndsEffect
<1>4. /\ buffer' \in Seq(Events) /\ Sorted(buffer') /\ Len(buffer') <= BufferSize
      /\ Elems(buffer') \subseteq Elems(buffer) \union {e}
      /\ \E n \in 0 .. Len(buffer') : \A i \in DOMAIN buffer' : buffer'[i] <= old <=> i <= n
  BY <1>1, BufferedFacts
<1>5. TypeOK'
  <2>1. Elems(buffer') \subseteq Done'
    BY <1>3, <1>4 DEF Base, TypeOK
  <2>2. \A c \in Conns : Listens(c) => c \in live' \union cut
    BY <1>1 DEF Base, TypeOK, Connected
  <2>3. skipped' \subseteq Clients \X Events
    BY DEF Finish, Base, TypeOK, Connected
  <2>4. live' \subseteq Conns
    BY <1>1 DEF Base, TypeOK
  <2> QED BY <1>1, <1>2, <1>4, <2>1, <2>2, <2>3, <2>4 DEF Base, TypeOK, Ends, EventSet, Listens
<1>6. Streamed'
  <2>1. \A d \in Done', c \in Events : Open(c)' => d < c
    BY <1>2, <1>3 DEF Base, Streamed
  <2>2. e >= life
    BY <1>1 DEF Base, Numbered, TypeOK
  <2>3. \A d \in Elems(buffer') : d >= life
    BY <1>4, <2>2 DEF Base, Streamed
  <2> QED BY <1>1, <1>2, <1>3, <1>4, <2>1, <2>3 DEF Base, Streamed
<1>7. Connected'
  BY <1>1, <1>3 DEF Base, Connected, Up, Listens
<1>8. event'[e].to = {} /\ \A d \in Events \ {e} : event'[d].to = event[d].to
  BY <1>2 DEF Ends
<1> QED BY <1>1, <1>3, <1>5, <1>6, <1>7, <1>8 DEF Base

(* A broadcast that raises.                                                  *)
LEMMA RaiseBase ==
  ASSUME Base, NEW e \in Events, Raise(e)
  PROVE  /\ Base'
         /\ Open(e) /\ \A d \in Events : Open(d)' <=> Open(d) /\ d # e
         /\ Built' = Built /\ Done' = Done
         /\ \A d \in Events \ {e} : event'[d].to = event[d].to
         /\ event'[e].to = {}
         /\ UNCHANGED <<conn, cut, seen, life, skipped, blind>>
<1> USE Bounds
<1>1. /\ Open(e) /\ Holds(e) /\ event' = Ended(e, "failed") /\ turn' = Tail(turn)
      /\ UNCHANGED <<buffer, old, life, live, conn, cut, seen, skipped, blind>>
  BY DEF Raise, streamVars, connVars
<1>2. /\ Ends({e}, "failed")
      /\ turn' \in Seq(Events) /\ Sorted(turn') /\ Elems(turn') = {d \in Events : Open(d)'}
      /\ \A d \in Events : event'[d].pc # "sending"
  BY <1>1, HeadEnds
<1>3. /\ \A d \in Events : Open(d)' <=> Open(d) /\ d # e
      /\ Built' = Built /\ Done' = Done
      /\ \A d \in Events : /\ event'[d].dead \subseteq cut
                           /\ \A c \in event'[d].to : conn[c].pc # "none"
      /\ Numbered'
  BY <1>1, <1>2, EndsEffect
<1>4. TypeOK'
  BY <1>1, <1>2, <1>3 DEF Base, TypeOK, Ends, EventSet, Listens
<1>5. Streamed'
  BY <1>1, <1>2, <1>3 DEF Base, Streamed
<1>6. Connected'
  BY <1>1, <1>3 DEF Base, Connected, Up, Listens
<1>7. event'[e].to = {} /\ \A d \in Events \ {e} : event'[d].to = event[d].to
  BY <1>2 DEF Ends
<1> QED BY <1>1, <1>3, <1>4, <1>5, <1>6, <1>7 DEF Base

(* What has not expired is the end of the buffer.                            *)
LEMMA FreshFacts ==
  ASSUME Base
  PROVE  /\ Expired \in 0 .. Len(buffer) /\ \A i \in DOMAIN buffer : buffer[i] <= old <=> i <= Expired
         /\ Fresh \in Seq(Events) /\ Sorted(Fresh)
         /\ Len(Fresh) = Len(buffer) - Expired
         /\ \A i \in 1 .. Len(Fresh) : Fresh[i] = buffer[Expired + i]
         /\ Elems(Fresh) \subseteq Elems(buffer) /\ Elems(Fresh) \subseteq Done
<1> USE Bounds
<1>1. /\ Expired \in 0 .. Len(buffer)
      /\ \A i \in DOMAIN buffer : buffer[i] <= old <=> i <= Expired
  BY DEF Base, Streamed, Expired
<1>2. /\ buffer \in Seq(Events) /\ Sorted(buffer) /\ Elems(buffer) \subseteq Done
  BY DEF Base, TypeOK, Streamed
<1>3. Len(buffer) \in Nat /\ DOMAIN buffer = 1 .. Len(buffer) /\ Expired + 1 \in 1 .. Len(buffer) + 1
  BY <1>1, <1>2, LenProperties
<1>4. /\ Fresh \in Seq(Events) /\ Len(Fresh) = Len(buffer) - (Expired + 1) + 1
      /\ \A i \in 1 .. Len(Fresh) : Fresh[i] = buffer[Expired + 1 + i - 1]
      /\ Elems(Fresh) = {buffer[i] : i \in Expired + 1 .. Len(buffer)}
      /\ Sorted(Fresh)
  <2> DEFINE a == Expired + 1
             t == SubSeq(buffer, a, Len(buffer))
  <2>1. a \in 1 .. Len(buffer) + 1
    BY <1>3
  <2>2. /\ t \in Seq(Events) /\ Len(t) = Len(buffer) - a + 1
        /\ \A i \in 1 .. Len(t) : t[i] = buffer[a + i - 1]
        /\ Elems(t) = {buffer[i] : i \in a .. Len(buffer)}
        /\ Sorted(buffer) => Sorted(t)
    <3> HIDE DEF a
    <3> QED BY <1>2, <2>1, SuffixFacts
  <2>3. t = Fresh
    BY DEF Fresh
  <2> QED BY <1>2, <2>2, <2>3
<1>5. Len(Fresh) = Len(buffer) - Expired
  BY <1>1, <1>3, <1>4
<1>6. \A i \in 1 .. Len(Fresh) : Fresh[i] = buffer[Expired + i]
  <2> SUFFICES ASSUME NEW i \in 1 .. Len(Fresh) PROVE Fresh[i] = buffer[Expired + i]
    OBVIOUS
  <2>1. Expired + 1 + i - 1 = Expired + i
    BY <1>1, <1>3, <1>5
  <2> QED BY <1>4, <2>1
<1>7. Elems(Fresh) \subseteq Elems(buffer)
  <2>1. \A i \in Expired + 1 .. Len(buffer) : i \in 1 .. Len(buffer)
    BY <1>1, <1>3
  <2> QED BY <1>3, <1>4, <2>1 DEF Elems
<1> QED BY <1>1, <1>2, <1>4, <1>5, <1>6, <1>7

(* A replay is the end of what is fresh, after the anchor if there is one.   *)
LEMMA ReplayFacts ==
  ASSUME Base, NEW id
  PROVE  /\ Replay(id) \in Seq(Events) /\ Sorted(Replay(id))
         /\ Elems(Replay(id)) \subseteq Elems(Fresh)
         /\ Anchors(id) = {} => Replay(id) = Fresh
         /\ Anchors(id) # {} => \E a \in Anchors(id) :
              Elems(Replay(id)) = {Fresh[i] : i \in a + 1 .. Len(Fresh)}
<1> USE Bounds
<1>1. Fresh \in Seq(Events) /\ Sorted(Fresh)
  BY FreshFacts
<1>2. Len(Fresh) \in Nat /\ DOMAIN Fresh = 1 .. Len(Fresh)
  BY <1>1, LenProperties
<1>3. CASE Anchors(id) = {}
  BY <1>1, <1>3 DEF Replay
<1>4. CASE Anchors(id) # {}
  <2> DEFINE a == CHOOSE i \in Anchors(id) : TRUE
  <2>1. a \in Anchors(id)
    BY <1>4
  <2>2. Replay(id) = SubSeq(Fresh, 1 + a, Len(Fresh))
    BY <1>4 DEF Replay, FreshFrom
  <2> HIDE DEF a
  <2>3. a \in 1 .. Len(Fresh)
    BY <1>2, <2>1 DEF Anchors
  <2>4. 1 + a \in 1 .. Len(Fresh) + 1 /\ 1 + a = a + 1
    BY <1>2, <2>3
  <2>5. /\ Replay(id) \in Seq(Events) /\ Sorted(Replay(id))
        /\ Elems(Replay(id)) = {Fresh[i] : i \in a + 1 .. Len(Fresh)}
    <3> DEFINE b == 1 + a
               t == SubSeq(Fresh, b, Len(Fresh))
    <3>1. /\ t \in Seq(Events)
          /\ Sorted(Fresh) => Sorted(t)
          /\ Elems(t) = {Fresh[i] : i \in b .. Len(Fresh)}
      <4> HIDE DEF b
      <4>1. b \in 1 .. Len(Fresh) + 1
        BY <2>4 DEF b
      <4> QED BY <1>1, <4>1, SuffixFacts
    <3>2. t = Replay(id)
      BY <2>2
    <3> QED BY <1>1, <2>4, <3>1, <3>2
  <2>6. \A i \in a + 1 .. Len(Fresh) : i \in 1 .. Len(Fresh)
    BY <1>2, <2>3
  <2>7. Elems(Replay(id)) \subseteq Elems(Fresh)
    BY <1>2, <2>5, <2>6 DEF Elems
  <2> QED BY <1>4, <2>1, <2>5, <2>7
<1> QED BY <1>3, <1>4

(* A connection is accepted.                                                 *)
LEMMA ConnectEffect ==
  ASSUME Base, NEW c \in Conns, NEW k \in Clients, Connect(c, k)
  PROVE  \E rest \in Seq(Events) :
           /\ rest = IF seen[k] # << >> THEN Replay(event[LastSeen(k)].id) ELSE << >>
           /\ Sorted(rest) /\ Elems(rest) \subseteq Elems(Fresh)
           /\ conn' = [conn EXCEPT ![c] =
                         [pc |-> IF rest = << >> THEN "listening" ELSE "replaying",
                          of |-> k, rest |-> rest]]
           /\ conn[c].pc = "none" /\ c \notin cut /\ c \notin live /\ live' = live \union {c}
           /\ \A b \in Conns : conn[b].of = k => b \in cut
           /\ UNCHANGED <<event, turn, buffer, old, life, cut, seen>>
<1> DEFINE rest == IF seen[k] # << >> THEN Replay(event[LastSeen(k)].id) ELSE << >>
<1>1. /\ conn' = [conn EXCEPT ![c] =
                    [pc |-> IF rest = << >> THEN "listening" ELSE "replaying",
                     of |-> k, rest |-> rest]]
      /\ conn[c].pc = "none" /\ live' = live \union {c}
      /\ Of(k) \subseteq cut
      /\ UNCHANGED <<event, turn, buffer, old, life, cut, seen>>
  BY DEF Connect, streamVars
<1>2. /\ rest \in Seq(Events) /\ Sorted(rest) /\ Elems(rest) \subseteq Elems(Fresh)
  BY ReplayFacts, Bounds
<1>3. c \notin cut /\ c \notin live
  BY <1>1 DEF Base, Connected
<1>4. \A b \in Conns : conn[b].of = k => b \in cut
  BY <1>1 DEF Of
<1> HIDE DEF rest
<1>5. rest = IF seen[k] # << >> THEN Replay(event[LastSeen(k)].id) ELSE << >>
  BY DEF rest
<1> QED BY <1>1, <1>2, <1>3, <1>4, <1>5

LEMMA ConnectBase ==
  ASSUME Base, NEW c \in Conns, NEW k \in Clients, Connect(c, k)
  PROVE  Base'
<1> USE Bounds
<1>1. PICK rest \in Seq(Events) :
        /\ Sorted(rest) /\ Elems(rest) \subseteq Elems(Fresh)
        /\ conn' = [conn EXCEPT ![c] =
                      [pc |-> IF rest = << >> THEN "listening" ELSE "replaying",
                       of |-> k, rest |-> rest]]
        /\ conn[c].pc = "none" /\ c \notin cut /\ c \notin live /\ live' = live \union {c}
        /\ \A b \in Conns : conn[b].of = k => b \in cut
        /\ UNCHANGED <<event, turn, buffer, old, life, cut, seen>>
  BY ConnectEffect
<1>2. conn \in [Conns -> ConnSet]
  BY DEF Base, TypeOK, ConnSet
<1>3. /\ conn' \in [Conns -> ConnSet]
      /\ \A b \in Conns \ {c} : conn'[b] = conn[b]
      /\ conn'[c].pc = (IF rest = << >> THEN "listening" ELSE "replaying")
      /\ conn'[c].of = k /\ conn'[c].rest = rest
  BY <1>1, <1>2 DEF ConnSet, ConnPCs
<1>4. TypeOK'
  <2>1. \A b \in Conns : Listens(b)' => b \in live' \union cut
    BY <1>1, <1>3 DEF Base, TypeOK, Listens
  <2>2. skipped' \subseteq Clients \X Events
    BY DEF Connect, Base, TypeOK, Done
  <2>3. blind' \subseteq Clients
    BY DEF Connect, Base, TypeOK
  <2>4. /\ live' \subseteq Conns /\ turn \in Seq(Events) /\ Elems(turn) = {d \in Events : Open(d)}
    BY <1>1 DEF Base, TypeOK
  <2> QED BY <1>1, <1>3, <2>1, <2>2, <2>3, <2>4 DEF Base, TypeOK, ConnSet, Open, Holds, Done
<1>5. Numbered' /\ Streamed'
  BY <1>1 DEF Base, Numbered, Streamed, Built, Open, Done
<1>6. Connected'
  <2>1. \A b \in Conns : conn'[b].pc = "none" => conn[b].pc = "none"
    BY <1>1, <1>3
  <2>2. \A b \in Conns : conn'[b].pc # "none" => conn'[b].of \in Clients
    BY <1>3 DEF Base, Connected
  <2>3. \A b \in live' \union cut : conn'[b].pc # "none"
    <3>1. live \union cut \subseteq Conns /\ conn'[c].pc # "none"
      BY <1>3 DEF Base, TypeOK
    <3> QED BY <1>1, <2>1, <3>1 DEF Base, Connected
  <2>4. \A b \in Conns : Up(b)' <=> Up(b) \/ b = c
    BY <1>1, <1>3 DEF Up
  <2>5. \A b \in Conns : Up(b)' => Listens(b)'
    BY <1>1, <1>3, <2>4 DEF Base, Connected, Listens
  <2>6. ASSUME NEW b \in Conns, NEW d \in Conns, Up(b)', Up(d)', conn'[b].of = conn'[d].of
        PROVE  b = d
    <3>1. \A a \in Conns : Up(a) => conn[a].of # k
      BY <1>1 DEF Up
    <3>2. Up(b) /\ Up(d) => b = d
      BY <1>1, <1>3, <2>6 DEF Base, Connected, Up
    <3> QED BY <1>3, <2>4, <2>6, <3>1, <3>2
  <2>7. \A b \in Conns : /\ Sorted(conn'[b].rest) /\ Elems(conn'[b].rest) \subseteq Done
                         /\ conn'[b].pc = "replaying" <=> conn'[b].rest # << >>
    <3>1. Elems(rest) \subseteq Done
      BY <1>1, FreshFacts
    <3> QED BY <1>1, <1>3, <3>1 DEF Base, Connected
  <2>8. \A e \in Events : /\ event[e].dead \subseteq cut
                          /\ \A b \in event[e].to : conn'[b].pc # "none"
    <3>1. \A e \in Events : event[e].to \subseteq Conns
      BY DEF Base, TypeOK
    <3> QED BY <2>1, <3>1 DEF Base, Connected
  <2> QED BY <1>1, <2>2, <2>3, <2>5, <2>6, <2>7, <2>8 DEF Connected, Done
<1> QED BY <1>4, <1>5, <1>6 DEF Base

(* One event of a replay.                                                    *)
LEMMA ReplayEffect ==
  ASSUME Base, NEW c \in Conns, ReplaySend(c)
  PROVE  /\ conn[c].rest \in Seq(Events) /\ conn[c].rest # << >> /\ Head(conn[c].rest) \in Done
         /\ conn[c].of \in Clients
         /\ IF c \in cut THEN UNCHANGED seen ELSE Receives(c, Head(conn[c].rest))
         /\ \E r \in ConnSet :
              /\ conn' = [conn EXCEPT ![c] = r]
              /\ r.of = conn[c].of /\ r.pc # "none" /\ (r.pc = "closed" => c \in cut)
              /\ Sorted(r.rest) /\ Elems(r.rest) \subseteq Elems(conn[c].rest)
              /\ r.pc = "replaying" <=> r.rest # << >>
              /\ c \notin cut => r.rest = Tail(conn[c].rest)
         /\ UNCHANGED <<event, turn, buffer, old, life, live, cut, skipped, blind>>
<1> USE Bounds
<1>1. conn \in [Conns -> ConnSet] /\ conn[c] \in ConnSet /\ conn[c].rest \in Seq(Events)
  BY DEF Base, TypeOK, ConnSet
<1>2. conn[c].pc = "replaying" /\ conn[c].rest # << >> /\ conn[c].of \in Clients
      /\ Sorted(conn[c].rest) /\ Elems(conn[c].rest) \subseteq Done
  BY DEF ReplaySend, Base, Connected
<1> DEFINE rest == Tail(conn[c].rest)
<1>3. /\ Head(conn[c].rest) \in Elems(conn[c].rest) /\ rest \in Seq(Events) /\ Sorted(rest)
      /\ Elems(rest) \subseteq Elems(conn[c].rest)
  <2>1. /\ Head(conn[c].rest) \in Elems(conn[c].rest) /\ rest \in Seq(Events)
        /\ Elems(conn[c].rest) = {Head(conn[c].rest)} \union Elems(rest)
        /\ Sorted(conn[c].rest) => Sorted(rest)
    BY <1>1, <1>2, TailFacts
  <2> QED BY <1>2, <2>1
<1>4. /\ IF c \in cut THEN UNCHANGED seen ELSE Receives(c, Head(conn[c].rest))
      /\ UNCHANGED <<event, turn, buffer, old, life, live, cut, skipped, blind>>
  BY DEF ReplaySend, streamVars
<1>5. CASE conn' = [conn EXCEPT ![c].rest = rest, ![c].pc = IF rest = << >> THEN "listening" ELSE @]
  <2> DEFINE r == [conn[c] EXCEPT !.rest = rest, !.pc = IF rest = << >> THEN "listening" ELSE @]
  <2>1. /\ r \in ConnSet /\ r.of = conn[c].of /\ r.rest = rest
        /\ r.pc = IF rest = << >> THEN "listening" ELSE "replaying"
    <3> HIDE DEF rest
    <3> QED BY <1>1, <1>2, <1>3 DEF ConnSet, ConnPCs
  <2>2. conn' = [conn EXCEPT ![c] = r]
    BY <1>5
  <2> HIDE DEF r
  <2> QED BY <1>1, <1>2, <1>3, <1>4, <2>1, <2>2
<1>6. CASE c \in cut /\ conn' = [conn EXCEPT ![c].rest = << >>, ![c].pc = "closed"]
  <2> DEFINE r == [conn[c] EXCEPT !.rest = << >>, !.pc = "closed"]
  <2>1. r \in ConnSet /\ r.of = conn[c].of /\ r.rest = << >> /\ r.pc = "closed"
    BY <1>1 DEF ConnSet, ConnPCs
  <2>2. conn' = [conn EXCEPT ![c] = r]
    BY <1>6
  <2> HIDE DEF r
  <2> QED BY <1>1, <1>2, <1>3, <1>4, <1>6, <2>1, <2>2, ZenonT(40)
<1> QED BY <1>5, <1>6 DEF ReplaySend

LEMMA ReplaySendBase ==
  ASSUME Base, NEW c \in Conns, ReplaySend(c)
  PROVE  Base'
<1> USE Bounds
<1>1. /\ conn[c].rest \in Seq(Events) /\ conn[c].rest # << >> /\ Head(conn[c].rest) \in Done
      /\ conn[c].of \in Clients
      /\ IF c \in cut THEN UNCHANGED seen ELSE Receives(c, Head(conn[c].rest))
      /\ UNCHANGED <<event, turn, buffer, old, life, live, cut, skipped, blind>>
  BY ReplayEffect
<1>2. PICK r \in ConnSet :
        /\ conn' = [conn EXCEPT ![c] = r]
        /\ r.of = conn[c].of /\ r.pc # "none" /\ (r.pc = "closed" => c \in cut)
        /\ Sorted(r.rest) /\ Elems(r.rest) \subseteq Elems(conn[c].rest)
        /\ r.pc = "replaying" <=> r.rest # << >>
  BY ReplayEffect
<1>3. conn \in [Conns -> ConnSet] /\ conn[c].pc = "replaying"
  BY DEF Base, TypeOK, ConnSet, ReplaySend
<1>4. /\ conn' \in [Conns -> ConnSet] /\ conn'[c] = r
      /\ \A b \in Conns \ {c} : conn'[b] = conn[b]
  BY <1>2, <1>3
<1>5. \A b \in Conns : /\ conn'[b].pc # "none" <=> conn[b].pc # "none"
                       /\ conn'[b].of = conn[b].of
                       /\ Up(b)' <=> Up(b)
                       /\ Listens(b)' => Listens(b)
                       /\ Up(b) /\ Listens(b) => Listens(b)'
  <2>1. Listens(c) /\ (Listens(c)' \/ c \in cut)
    BY <1>2, <1>3, <1>4 DEF Listens, ConnSet, ConnPCs
  <2>2. /\ conn'[c].pc # "none" /\ conn[c].pc # "none" /\ conn'[c].of = conn[c].of
    BY <1>2, <1>3, <1>4
  <2> QED BY <1>1, <1>4, <2>1, <2>2 DEF Up, Listens
<1>6. TypeOK'
  <2>1. seen' \in [Clients -> Seq(Events)]
    <3>1. seen \in [Clients -> Seq(Events)]
      BY DEF Base, TypeOK
    <3>2. CASE c \in cut
      BY <1>1, <3>1, <3>2
    <3>3. CASE c \notin cut
      <4> DEFINE x == Head(conn[c].rest)
      <4>1. seen' = [seen EXCEPT ![conn[c].of] = Append(@, x)]
        BY <1>1, <3>3 DEF Receives
      <4>2. Append(seen[conn[c].of], x) \in Seq(Events)
        <5>1. x \in Events
          BY <1>1 DEF Done
        <5> HIDE DEF x
        <5> QED BY <1>1, <3>1, <5>1, AppendFacts
      <4> HIDE DEF x
      <4> QED BY <3>1, <4>1, <4>2
    <3> QED BY <3>2, <3>3
  <2>2. \A b \in Conns : Listens(b)' => b \in live \union cut
    BY <1>5 DEF Base, TypeOK
  <2> QED BY <1>1, <1>4, <2>1, <2>2 DEF Base, TypeOK, ConnSet, Open, Holds, Done
<1>7. Numbered' /\ Streamed'
  BY <1>1 DEF Base, Numbered, Streamed, Built, Open, Done
<1>8. Connected'
  <2>1. \A b \in Conns : /\ Sorted(conn'[b].rest) /\ Elems(conn'[b].rest) \subseteq Done
                         /\ conn'[b].pc = "replaying" <=> conn'[b].rest # << >>
    BY <1>2, <1>4 DEF Base, Connected
  <2>2. /\ live \union cut \subseteq Conns /\ \A e \in Events : event[e].to \subseteq Conns
    BY DEF Base, TypeOK
  <2>3. \A b \in Conns : conn'[b].pc # "none" => conn'[b].of \in Clients
    BY <1>5 DEF Base, Connected
  <2>4. \A b \in live \union cut : conn'[b].pc # "none"
    BY <1>5, <2>2 DEF Base, Connected
  <2>5. \A b \in Conns : Up(b)' => Listens(b)'
    BY <1>5 DEF Base, Connected
  <2>6. \A b, d \in Conns : Up(b)' /\ Up(d)' /\ conn'[b].of = conn'[d].of => b = d
    BY <1>5 DEF Base, Connected
  <2>7. \A e \in Events : /\ event[e].dead \subseteq cut
                          /\ \A b \in event[e].to : conn'[b].pc # "none"
    BY <1>5, <2>2 DEF Base, Connected
  <2> QED BY <1>1, <2>1, <2>3, <2>4, <2>5, <2>6, <2>7 DEF Connected, Done
<1> QED BY <1>6, <1>7, <1>8 DEF Base

(* A client goes.                                                            *)
LEMMA CutBase ==
  ASSUME Base, NEW c \in Conns, Cut(c)
  PROVE  Base'
<1>1. /\ cut' = cut \union {c} /\ conn[c].pc # "none"
      /\ UNCHANGED <<event, turn, buffer, old, life, live, conn, seen, blind>>
  BY DEF Cut, streamVars, Listens
<1>2. TypeOK'
  <2>1. skipped' \subseteq Clients \X Events
    <3>1. conn[c].of \in Clients /\ Elems(conn[c].rest) \subseteq Events
      BY <1>1 DEF Base, Connected, Done
    <3> QED BY <3>1 DEF Cut, Base, TypeOK
  <2>2. \A b \in Conns : Listens(b) => b \in live \union cut'
    BY <1>1 DEF Base, TypeOK
  <2> QED BY <1>1, <2>1, <2>2 DEF Base, TypeOK, Open, Holds, Done, Listens
<1>3. Numbered' /\ Streamed'
  BY <1>1 DEF Base, Numbered, Streamed, Built, Open, Done
<1>4. Connected'
  <2>1. \A b \in live \union cut' : conn[b].pc # "none"
    BY <1>1 DEF Base, Connected
  <2>2. \A e \in Events : event[e].dead \subseteq cut'
    BY <1>1 DEF Base, Connected
  <2>3. \A b \in Conns : Up(b)' => Up(b)
    BY <1>1 DEF Up
  <2> QED BY <1>1, <2>1, <2>2, <2>3 DEF Base, Connected, Done, Listens
<1> QED BY <1>2, <1>3, <1>4 DEF Base

(* A buffered event expires.                                                 *)
LEMMA ExpireBase ==
  ASSUME Base, Expire
  PROVE  Base'
<1> USE Bounds
<1>1. /\ Fresh # << >> /\ old' = Head(Fresh)
      /\ UNCHANGED <<event, turn, buffer, live, conn, cut, skipped, blind, seen, life>>
  BY DEF Expire, connVars
<1>2. /\ Expired \in 0 .. Len(buffer) /\ Fresh \in Seq(Events)
      /\ Len(Fresh) = Len(buffer) - Expired
      /\ \A i \in 1 .. Len(Fresh) : Fresh[i] = buffer[Expired + i]
      /\ Elems(Fresh) \subseteq Done
  BY FreshFacts
<1>3. /\ buffer \in Seq(Events) /\ Sorted(buffer)
  BY DEF Base, TypeOK, Streamed
<1>4. /\ Len(buffer) \in Nat /\ DOMAIN buffer = 1 .. Len(buffer)
      /\ \A i \in 1 .. Len(buffer) : buffer[i] \in Int
  BY <1>3, LenProperties, ElementOfSeq
<1>5. Len(Fresh) \in Nat \ {0} /\ Head(Fresh) = Fresh[1] /\ Head(Fresh) \in Elems(Fresh)
  <2>1. Len(Fresh) \in Nat \ {0}
    BY <1>1, <1>2, EmptySeq
  <2>2. Head(Fresh) = Fresh[1]
    BY <2>1
  <2>3. Head(Fresh) \in Elems(Fresh)
    BY <1>1, <1>2, TailFacts
  <2> QED BY <2>1, <2>2, <2>3
<1>6. old' \in Done /\ old' = buffer[Expired + 1] /\ Expired + 1 \in 1 .. Len(buffer)
  BY <1>1, <1>2, <1>4, <1>5
<1>7. TypeOK'
  <2>1. old' \in 0 .. NumEvents
    BY <1>6 DEF Done, Events
  <2> QED BY <1>1, <2>1 DEF Base, TypeOK, Open, Holds, Done, Listens
<1>8. Numbered'
  BY <1>1 DEF Base, Numbered, Built, Open
<1>9. Streamed'
  <2>1. \A e \in Events : Open(e) => old' < e
    BY <1>6 DEF Base, Streamed
  <2>2. old' \in Built
    BY <1>6 DEF Done, Built
  <2>3. ASSUME NEW i \in DOMAIN buffer PROVE buffer[i] <= old' <=> i <= Expired + 1
    BY <1>3, <1>4, <1>6 DEF Sorted
  <2>4. \E n \in 0 .. Len(buffer) : \A i \in DOMAIN buffer : buffer[i] <= old' <=> i <= n
    BY <1>4, <1>6, <2>3
  <2> QED BY <1>1, <2>1, <2>2, <2>4 DEF Base, Streamed, Built, Open, Done
<1>10. Connected'
  BY <1>1 DEF Base, Connected, Up, Listens, Done
<1> QED BY <1>7, <1>8, <1>9, <1>10 DEF Base

(* The endpoint notices that its client is gone.                             *)
LEMMA HangupBase ==
  ASSUME Base, NEW c \in Conns, Hangup(c)
  PROVE  /\ Base'
         /\ \A d \in Events : Open(d)' => Open(d) /\ event'[d] = event[d]
         /\ Done' = Done /\ Built' = Built
         /\ \A b \in Conns : Up(b)' <=> Up(b)
         /\ \A b \in Conns : conn'[b].of = conn[b].of /\ conn'[b].rest = conn[b].rest
         /\ \A d \in Events : event'[d].to \subseteq event[d].to
<1> USE Bounds
<1> DEFINE beats == {e \in Events : Open(e) /\ event[e].by = c}
<1>1. /\ conn[c].pc = "listening" /\ c \in cut
      /\ conn' = [conn EXCEPT ![c].pc = "closed"]
      /\ live' = live \ {c}
      /\ event' = [e \in Events |-> IF e \in beats THEN Ended(e, "failed")[e] ELSE event[e]]
      /\ turn' = IF beats = {} THEN turn
                 ELSE Without(turn, CHOOSE i \in DOMAIN turn : turn[i] \in beats)
      /\ UNCHANGED <<buffer, old, life, cut, seen, skipped, blind>>
  BY DEF Hangup, streamVars
<1>2. event \in [Events -> EventSet] /\ conn \in [Conns -> ConnSet]
  BY DEF Base, TypeOK, EventSet, ConnSet
<1>3. Ends(beats, "failed")
  <2>1. \A e \in beats : /\ Ended(e, "failed")[e] \in EventSet
                         /\ Ended(e, "failed")[e].pc = "failed"
                         /\ Ended(e, "failed")[e].id = event[e].id
                         /\ Ended(e, "failed")[e].by = None
                         /\ Ended(e, "failed")[e].to = {} /\ Ended(e, "failed")[e].dead = {}
    BY <1>2, EndedFacts DEF EventPCs
  <2>2. \A e \in beats : e \in Events /\ Open(e)
    OBVIOUS
  <2> HIDE DEF beats
  <2>3. \A e \in Events : event'[e] = IF e \in beats THEN Ended(e, "failed")[e] ELSE event[e]
    BY <1>1
  <2>4. event' \in [Events -> EventSet]
    BY <1>1, <1>2, <2>1
  <2> QED BY <2>1, <2>2, <2>3, <2>4 DEF Ends
<1>4. \A d, e \in beats : d = e
  <2>1. c # None
    BY DEF Conns, None
  <2> QED BY <2>1 DEF Base, Numbered
<1>5. /\ \A d \in Events : Open(d)' <=> Open(d) /\ d \notin beats
      /\ Built' = Built /\ Done' = Done
      /\ \A d \in Events : event'[d].pc = "sending" => event[d].pc = "sending" /\ d \notin beats
      /\ \A d \in Events : /\ event'[d].dead \subseteq cut
                           /\ \A b \in event'[d].to : conn[b].pc # "none"
      /\ Numbered'
  <2>1. beats \in SUBSET Events
    OBVIOUS
  <2> HIDE DEF beats
  <2> QED BY <1>1, <1>3, <2>1, EndsEffect
<1>6. turn \in Seq(Events) /\ Sorted(turn) /\ Elems(turn) = {d \in Events : Open(d)}
  BY DEF Base, TypeOK, Streamed
<1>7. \A e \in beats : e \in Events /\ Open(e)
  OBVIOUS
<1> HIDE DEF beats
<1>8. /\ turn' \in Seq(Events) /\ Sorted(turn')
      /\ Elems(turn') = {d \in Events : Open(d) /\ d \notin beats}
  <2>1. CASE beats = {}
    BY <1>1, <1>6, <2>1
  <2>2. CASE beats # {}
    <3> DEFINE i == CHOOSE i \in DOMAIN turn : turn[i] \in beats
    <3>1. PICK e \in beats : TRUE
      BY <2>2
    <3>2. \E j \in DOMAIN turn : turn[j] = e
      BY <1>6, <1>7 DEF Elems
    <3>3. i \in DOMAIN turn /\ turn[i] \in beats
      BY <3>2
    <3>4. i \in 1 .. Len(turn)
      BY <1>6, <3>3, LenProperties
    <3>5. turn' = Without(turn, i)
      BY <1>1, <2>2
    <3> HIDE DEF i
    <3>6. /\ Without(turn, i) \in Seq(Events) /\ Sorted(Without(turn, i))
          /\ Elems(Without(turn, i)) = Elems(turn) \ {turn[i]}
      BY <1>6, <3>4, WithoutFacts
    <3>7. beats = {turn[i]}
      BY <1>4, <3>3
    <3> QED BY <1>6, <3>5, <3>6, <3>7
  <2> QED BY <2>1, <2>2
<1>9. \A d \in Events : event'[d].pc = "sending" => Holds(d)'
  <2> SUFFICES ASSUME NEW d \in Events, event'[d].pc = "sending" PROVE Holds(d)'
    OBVIOUS
  <2>1. Holds(d) /\ Open(d) /\ d \notin beats
    BY <1>5 DEF Base, TypeOK, Open
  <2>2. d \in Elems(turn')
    BY <1>8, <2>1
  <2>3. turn' # << >>
    BY <2>2
  <2>4. /\ Head(turn') \in Elems(turn')
        /\ Elems(turn') = {Head(turn')} \union Elems(Tail(turn'))
        /\ \A x \in Elems(Tail(turn')) : Head(turn') < x
    BY <1>8, <2>3, TailFacts
  <2>5. \A e \in Events : Open(e) => d <= e
    BY <2>1, TurnFacts DEF Holds
  <2>6. Head(turn') \in Events /\ d <= Head(turn')
    BY <1>8, <2>4, <2>5
  <2>7. Head(turn') = d \/ Head(turn') < d
    BY <2>2, <2>4
  <2>8. Head(turn') = d
    <3>1. Head(turn') \in Int /\ d \in Int
      BY <2>6
    <3> QED BY <2>6, <2>7, <3>1
  <2> QED BY <2>3, <2>8 DEF Holds
<1>10. /\ conn' \in [Conns -> ConnSet]
       /\ \A b \in Conns : /\ conn'[b].of = conn[b].of /\ conn'[b].rest = conn[b].rest
                           /\ conn'[b].pc = IF b = c THEN "closed" ELSE conn[b].pc
  BY <1>1, <1>2 DEF ConnSet, ConnPCs
<1>11. \A b \in Conns : Up(b)' <=> Up(b)
  BY <1>1, <1>10 DEF Up
<1>12. TypeOK'
  <2>1. Elems(buffer) \subseteq Done' /\ Elems(turn') = {d \in Events : Open(d)'}
    BY <1>5, <1>8 DEF Base, TypeOK
  <2>2. \A b \in Conns : Listens(b)' => b \in live' \union cut
    BY <1>1, <1>10 DEF Base, TypeOK, Listens
  <2> QED BY <1>1, <1>3, <1>8, <1>9, <1>10, <2>1, <2>2 DEF Base, TypeOK, Ends, EventSet, ConnSet
<1>13. Streamed'
  BY <1>1, <1>5, <1>8 DEF Base, Streamed
<1>14. Connected'
  <2>1. \A b \in Conns : conn'[b].pc = "none" <=> conn[b].pc = "none"
    BY <1>1, <1>10
  <2>2. live' \union cut \subseteq Conns /\ \A e \in Events : event'[e].to \subseteq Conns
    BY <1>1, <1>3 DEF Base, TypeOK, Ends, EventSet
  <2>3. \A b \in Conns : /\ Sorted(conn'[b].rest) /\ Elems(conn'[b].rest) \subseteq Done
                         /\ conn'[b].pc = "replaying" <=> conn'[b].rest # << >>
    BY <1>1, <1>10 DEF Base, Connected
  <2>4. \A b \in Conns : conn'[b].pc # "none" => conn'[b].of \in Clients
    BY <1>10, <2>1 DEF Base, Connected
  <2>5. \A b \in live' \union cut : conn'[b].pc # "none"
    BY <1>1, <2>1, <2>2 DEF Base, Connected
  <2>6. \A b \in Conns : Up(b)' => Listens(b)'
    BY <1>1, <1>10, <1>11 DEF Base, Connected, Listens, Up
  <2>7. \A b, d \in Conns : Up(b)' /\ Up(d)' /\ conn'[b].of = conn'[d].of => b = d
    BY <1>10, <1>11 DEF Base, Connected
  <2>8. \A e \in Events : /\ event'[e].dead \subseteq cut
                          /\ \A b \in event'[e].to : conn'[b].pc # "none"
    BY <1>5, <2>1, <2>2
  <2> QED BY <1>1, <1>5, <2>3, <2>4, <2>5, <2>6, <2>7, <2>8 DEF Connected
<1>15. \A d \in Events : Open(d)' => Open(d) /\ event'[d] = event[d]
  BY <1>3, <1>5 DEF Ends
<1>16. \A d \in Events : event'[d].to \subseteq event[d].to
  BY <1>3 DEF Ends
<1> QED BY <1>5, <1>10, <1>11, <1>12, <1>13, <1>14, <1>15, <1>16 DEF Base

(* The server starts anew.                                                   *)
LEMMA RestartBase ==
  ASSUME Base, Restart
  PROVE  /\ Base'
         /\ \A d \in Events : ~Open(d)'
         /\ Done' = Done /\ Built' = Built /\ \A d \in Built : d < life'
         /\ \A c \in Conns : ~Up(c)'
         /\ \A c \in Conns : conn'[c].of = conn[c].of
         /\ UNCHANGED <<seen, skipped, blind>>
<1> USE Bounds
<1> DEFINE open == {e \in Events : Open(e)}
<1>1. /\ life' = 1 + Cardinality(Built)
      /\ event' = [e \in Events |-> IF Open(e) THEN Ended(e, "failed")[e] ELSE event[e]]
      /\ turn' = << >> /\ buffer' = << >>
      /\ live' = {}
      /\ conn' = [c \in Conns |-> IF Listens(c) THEN [conn[c] EXCEPT !.pc = "closed", !.rest = << >>]
                                  ELSE conn[c]]
      /\ cut' = {c \in Conns : conn[c].pc # "none"}
      /\ UNCHANGED <<old, seen, skipped, blind>>
  BY DEF Restart
<1>2. event \in [Events -> EventSet] /\ conn \in [Conns -> ConnSet]
  BY DEF Base, TypeOK, EventSet, ConnSet
<1>3. Ends(open, "failed")
  <2>1. \A e \in open : /\ Ended(e, "failed")[e] \in EventSet
                        /\ Ended(e, "failed")[e].pc = "failed"
                        /\ Ended(e, "failed")[e].id = event[e].id
                        /\ Ended(e, "failed")[e].by = None
                        /\ Ended(e, "failed")[e].to = {} /\ Ended(e, "failed")[e].dead = {}
    BY <1>2, EndedFacts DEF EventPCs
  <2>2. \A e \in open : e \in Events /\ Open(e)
    OBVIOUS
  <2>3. event' = [e \in Events |-> IF e \in open THEN Ended(e, "failed")[e] ELSE event[e]]
    BY <1>1
  <2> HIDE DEF open
  <2>4. event' \in [Events -> EventSet]
    BY <1>2, <2>1, <2>3
  <2>5. \A e \in Events : event'[e] = IF e \in open THEN Ended(e, "failed")[e] ELSE event[e]
    BY <2>3
  <2> QED BY <2>1, <2>2, <2>4, <2>5 DEF Ends
<1>4. /\ \A d \in Events : Open(d)' <=> Open(d) /\ d \notin open
      /\ Built' = Built /\ Done' = Done
      /\ \A d \in Events : event'[d].pc = "sending" => event[d].pc = "sending" /\ d \notin open
      /\ \A d \in Events : /\ event'[d].dead \subseteq cut
                           /\ \A b \in event'[d].to : conn[b].pc # "none"
  <2>1. open \in SUBSET Events
    OBVIOUS
  <2> HIDE DEF open
  <2> QED BY <1>3, <2>1, EndsEffect
<1>5. \A d \in Events : ~Open(d)' /\ event'[d].pc # "sending"
  BY <1>4 DEF Open
<1> HIDE DEF open
<1>6. PICK n \in 0 .. NumEvents : Built = 1 .. n
  BY DEF Base, Numbered
<1>7. life' = n + 1 /\ \A d \in Events : d \in Built <=> d < life'
  <2>1. Cardinality(1 .. n) = n
    <3>1. 1 \in Int /\ n \in Int /\ (IF 1 > n THEN 0 ELSE n - 1 + 1) = n
      BY <1>6
    <3> QED BY <3>1, FS_Interval
  <2>2. life' = n + 1
    <3>1. Cardinality(Built) = n
      BY <1>6, <2>1, Zenon
    <3>2. life' = 1 + Cardinality(Built)
      BY <1>1
    <3> QED BY <1>6, <3>1, <3>2
  <2>3. \A d \in Events : d \in Built <=> d <= n
    BY <1>6 DEF Events
  <2> QED BY <1>6, <2>2, <2>3
<1>8. /\ conn' \in [Conns -> ConnSet]
      /\ \A c \in Conns : /\ conn'[c].of = conn[c].of
                          /\ conn'[c].pc = IF Listens(c) THEN "closed" ELSE conn[c].pc
                          /\ conn'[c].rest = IF Listens(c) THEN << >> ELSE conn[c].rest
  <2>1. \A c \in Conns : [conn[c] EXCEPT !.pc = "closed", !.rest = << >>] \in ConnSet
    BY <1>2 DEF ConnSet, ConnPCs
  <2> QED BY <1>1, <1>2, <2>1 DEF ConnSet
<1>9. \A c \in Conns : ~Listens(c)' /\ (conn'[c].pc # "none" <=> conn[c].pc # "none") /\ ~Up(c)'
  <2>1. \A c \in Conns : conn'[c].pc # "none" <=> conn[c].pc # "none"
    BY <1>8 DEF Listens
  <2>2. \A c \in Conns : ~Listens(c)'
    BY <1>8 DEF Listens
  <2>3. \A c \in Conns : conn[c].pc # "none" => c \in cut'
    BY <1>1
  <2> QED BY <2>1, <2>2, <2>3 DEF Up
<1>10. TypeOK'
  <2>1. Elems(turn') = {d \in Events : Open(d)'}
    BY <1>1, <1>5
  <2>2. life' \in 1 .. NumEvents + 1
    BY <1>6, <1>7
  <2>3. cut' \subseteq Conns /\ live' \subseteq Conns
    BY <1>1
  <2>4. turn' \in Seq(Events) /\ buffer' \in Seq(Events) /\ Elems(buffer') \subseteq Done'
        /\ Len(buffer') <= BufferSize
    <3>1. turn' = << >> /\ buffer' = << >>
      BY <1>1
    <3>2. 0 <= BufferSize
      OBVIOUS
    <3> QED BY <3>1, <3>2
  <2>5. \A e \in Events : event'[e].pc = "sending" => Holds(e)'
    BY <1>5
  <2>6. \A c \in Conns : Listens(c)' => c \in live' \union cut'
    BY <1>9
  <2>7. event' \in [Events -> EventSet]
    BY <1>3 DEF Ends
  <2>8. /\ old' \in 0 .. NumEvents /\ seen' \in [Clients -> Seq(Events)]
        /\ skipped' \subseteq Clients \X Events /\ blind' \subseteq Clients
    BY <1>1 DEF Base, TypeOK
  <2> QED BY <1>8, <2>1, <2>2, <2>3, <2>4, <2>5, <2>6, <2>7, <2>8 DEF TypeOK, EventSet, ConnSet
<1>11. Numbered'
  <2>1. \A e \in Events : e < life' => event'[e].pc # "none" /\ ~Open(e)'
    BY <1>4, <1>5, <1>7 DEF Built
  <2>2. Built' \subseteq Events
    BY DEF Built
  <2>3. \A e \in Built' : ~(e >= life')
    BY <1>4, <1>6, <1>7
  <2> QED BY <1>4, <1>5, <1>6, <2>1, <2>3 DEF Numbered
<1>12. Streamed'
  <2>1. DOMAIN buffer' = {} /\ Len(buffer') = 0
    <3>1. DOMAIN << >> = 1 .. 0
      OBVIOUS
    <3>2. buffer' = << >>
      BY <1>1
    <3> QED BY <3>1, <3>2
  <2>2. \E k \in 0 .. Len(buffer') : \A i \in DOMAIN buffer' : buffer'[i] <= old' <=> i <= k
    BY <2>1
  <2>3. \A d \in Elems(buffer') : d >= life'
    BY <1>1
  <2>4. old' \in Built' \union {0}
    BY <1>1, <1>4 DEF Base, Streamed
  <2>5. Sorted(turn') /\ Sorted(buffer')
    BY <1>1
  <2> QED BY <1>5, <2>2, <2>3, <2>4, <2>5 DEF Streamed
<1>13. Connected'
  <2>1. \A c \in Conns : /\ Sorted(conn'[c].rest) /\ Elems(conn'[c].rest) \subseteq Done
                         /\ conn'[c].pc = "replaying" <=> conn'[c].rest # << >>
    BY <1>8 DEF Base, Connected, Listens
  <2>2. cut \subseteq cut' /\ cut' \subseteq Conns
    BY <1>1 DEF Base, TypeOK, Connected
  <2>3. \A c \in live' \union cut' : conn'[c].pc # "none"
    BY <1>1, <1>9
  <2>4. \A e \in Events : /\ event'[e].dead \subseteq cut'
                          /\ \A b \in event'[e].to : conn'[b].pc # "none"
    <3>1. \A e \in Events : event'[e].to \subseteq Conns
      BY <1>3 DEF Ends, EventSet
    <3> QED BY <1>4, <1>9, <2>2, <3>1
  <2>5. \A c \in Conns : conn'[c].pc # "none" => conn'[c].of \in Clients
    BY <1>8, <1>9 DEF Base, Connected
  <2> QED BY <1>4, <1>9, <2>1, <2>3, <2>4, <2>5 DEF Connected
<1>14. \A d \in Built : d < life'
  BY <1>7 DEF Built
<1> QED BY <1>1, <1>4, <1>5, <1>8, <1>9, <1>10, <1>11, <1>12, <1>13, <1>14 DEF Base

LEMMA BaseStep == Base /\ [Next]_vars => Base'
<1> SUFFICES ASSUME Base, [Next]_vars PROVE Base'
  OBVIOUS
<1>1. CASE Next
  <2>1. ASSUME NEW e \in Events, NEW by \in Conns \union {None}, Build(e, by) PROVE Base'
    BY <2>1, BuildBase
  <2>2. ASSUME NEW e \in Events, Broadcast(e) PROVE Base'
    BY <2>2, VisitBase, FinishBase, RaiseBase DEF Broadcast
  <2>3. ASSUME NEW c \in Conns,
               (\E k \in Clients : Connect(c, k)) \/ ReplaySend(c) \/ Cut(c) \/ Hangup(c)
        PROVE  Base'
    BY <2>3, ConnectBase, ReplaySendBase, CutBase, HangupBase
  <2>4. CASE Expire \/ Restart
    BY <2>4, ExpireBase, RestartBase
  <2> QED BY <1>1, <2>1, <2>2, <2>3, <2>4 DEF Next
<1>2. CASE UNCHANGED vars
  BY <1>2, ZenonT(40) DEF vars, Base, TypeOK, Numbered, Streamed, Connected, Open, Holds, Done, Built, Listens,
              Up
<1> QED BY <1>1, <1>2

(* The replay buffer is in the order of the events' ids, whatever waits for  *)
(* the lock and whoever leaves the queue of the broadcasts.                  *)
THEOREM InOrder == Spec => []BufferInOrder
<1>1. Init => Base
  BY Initially
<1>2. Base /\ [Next]_vars => Base'
  BY BaseStep
<1>3. Base => BufferInOrder
  BY DEF Base, Streamed, Sorted, BufferInOrder
<1> QED BY <1>1, <1>2, <1>3, PTL DEF Spec

-----------------------------------------------------------------------------
(* What clients have received.                                               *)

(* Only events that were built, none past one that is still under way, and   *)
(* every one that was offered to a connection that is there.                 *)
Seen ==
  /\ \A k \in Clients : Elems(seen[k]) \subseteq Built
  /\ \A k \in Clients, e \in Events : Open(e) => \A x \in Elems(seen[k]) : x <= e
  /\ \A e \in Events, c \in Conns :
       Up(c) /\ c \in event[e].to => e \in Elems(seen[conn[c].of])

(* A client receives an event.                                               *)
LEMMA ReceiveFacts ==
  ASSUME Base, NEW c \in Conns, NEW k \in Clients, k = conn[c].of, NEW x \in Events,
         Receives(c, x)
  PROVE  /\ \A j \in Clients : j # k => seen'[j] = seen[j]
         /\ Elems(seen'[k]) = Elems(seen[k]) \union {x}
         /\ seen'[k] # << >> /\ seen'[k][Len(seen'[k])] = x
         /\ x \notin Elems(seen[k]) /\ Injective(seen[k]) => Injective(seen'[k])
         /\ \A j \in Clients : Elems(seen[j]) \subseteq Elems(seen'[j])
<1>1. seen \in [Clients -> Seq(Events)]
  BY DEF Base, TypeOK
<1>2. seen' = [seen EXCEPT ![k] = Append(seen[k], x)]
  BY DEF Receives
<1>3. seen'[k] = Append(seen[k], x) /\ \A j \in Clients : j # k => seen'[j] = seen[j]
  BY <1>1, <1>2
<1>4. seen[k] \in Seq(Events)
  BY <1>1
<1>5. /\ Append(seen[k], x) # << >>
      /\ Elems(Append(seen[k], x)) = Elems(seen[k]) \union {x}
      /\ Append(seen[k], x)[Len(Append(seen[k], x))] = x
      /\ x \notin Elems(seen[k]) /\ Injective(seen[k]) => Injective(Append(seen[k], x))
  BY <1>4, AppendFacts
<1> QED BY <1>3, <1>5

LEMMA SeenStep == Base /\ Seen /\ [Next]_vars => Seen'
<1> SUFFICES ASSUME Base, Seen, [Next]_vars PROVE Seen'
  OBVIOUS
<1> USE Bounds
<1>1. ASSUME NEW e \in Events, NEW by \in Conns \union {None}, Build(e, by) PROVE Seen'
  <2>1. /\ \A d \in Events : Open(d)' <=> Open(d) \/ d = e
        /\ Built' = Built \union {e} /\ \A d \in Built : d < e
        /\ \A d \in Events : event'[d].to = event[d].to
        /\ UNCHANGED <<conn, cut, seen>>
    BY <1>1, BuildBase
  <2>2. \A k \in Clients, d \in Events : Open(d)' => \A x \in Elems(seen[k]) : x <= d
    <3>2. ASSUME NEW k \in Clients, NEW x \in Elems(seen[k]) PROVE x <= e
      <4>1. x < e /\ x \in Int /\ e \in Int
        BY <2>1 DEF Seen, Built
      <4> QED BY <4>1
    <3> QED BY <2>1, <3>2 DEF Seen
  <2> QED BY <2>1, <2>2 DEF Seen, Up
<1>2. ASSUME NEW e \in Events, NEW c \in Conns, Visit(e, c) PROVE Seen'
  <2>1. /\ Open(e) /\ conn[c].pc # "none" /\ conn[c].of \in Clients
        /\ \A d \in Events : Open(d) => e <= d
        /\ \A d \in Events : Open(d)' <=> Open(d)
        /\ Built' = Built
        /\ \A d \in Events \ {e} : event'[d].to = event[d].to
        /\ event'[e].to = event[e].to \union {c}
        /\ UNCHANGED <<conn, cut>>
    BY <1>2, VisitBase
  <2>2. CASE c \in cut
    <3>1. UNCHANGED seen
      BY <1>2, <2>2 DEF Visit
    <3>2. ~Up(c)
      BY <2>2 DEF Up
    <3> QED BY <2>1, <3>1, <3>2 DEF Seen, Up
  <2>3. CASE c \notin cut
    <3>1. PICK k \in Clients : k = conn[c].of
      BY <2>1
    <3>2. Receives(c, e)
      BY <1>2, <2>3 DEF Visit
    <3>3. /\ \A j \in Clients : j # k => seen'[j] = seen[j]
          /\ Elems(seen'[k]) = Elems(seen[k]) \union {e}
          /\ \A j \in Clients : Elems(seen[j]) \subseteq Elems(seen'[j])
      BY <3>1, <3>2, ReceiveFacts, ZenonT(40)
    <3>4. \A j \in Clients : Elems(seen'[j]) \subseteq Built
      BY <2>1, <3>3 DEF Seen, Open, Built
    <3>5. \A j \in Clients, d \in Events : Open(d) => \A x \in Elems(seen'[j]) : x <= d
      BY <2>1, <3>3 DEF Seen
    <3>6. ASSUME NEW d \in Events, NEW b \in Conns, Up(b), b \in event'[d].to
          PROVE  d \in Elems(seen'[conn[b].of])
      <4>1. conn[b].of \in Clients
        BY <3>6 DEF Up, Base, Connected
      <4>2. CASE b \in event[d].to
        BY <3>3, <3>6, <4>1, <4>2 DEF Seen
      <4>3. CASE b \notin event[d].to
        <5>1. d = e /\ b = c
          BY <2>1, <3>6, <4>3
        <5> QED BY <3>1, <3>3, <5>1
      <4> QED BY <4>2, <4>3
    <3> QED BY <2>1, <3>4, <3>5, <3>6 DEF Seen, Up
  <2> QED BY <2>2, <2>3
<1>3. ASSUME NEW e \in Events, Finish(e) \/ Raise(e) PROVE Seen'
  <2>1. /\ \A d \in Events : Open(d)' <=> Open(d) /\ d # e
        /\ Built' = Built
        /\ \A d \in Events \ {e} : event'[d].to = event[d].to
        /\ event'[e].to = {}
        /\ UNCHANGED <<conn, cut, seen>>
    BY <1>3, FinishBase, RaiseBase
  <2> QED BY <2>1 DEF Seen, Up
<1>4. ASSUME NEW c \in Conns, NEW k \in Clients, Connect(c, k) PROVE Seen'
  <2>1. /\ conn[c].pc = "none" /\ UNCHANGED <<event, cut, seen>>
        /\ \A b \in Conns \ {c} : conn'[b] = conn[b]
    <3>1. conn \in [Conns -> ConnSet]
      BY DEF Base, TypeOK, ConnSet
    <3> QED BY <1>4, <3>1, ConnectEffect
  <2>2. ASSUME NEW e \in Events, NEW b \in Conns, Up(b)', b \in event[e].to
        PROVE  e \in Elems(seen[conn'[b].of])
    <3>1. b # c
      BY <2>1, <2>2 DEF Base, Connected
    <3>2. Up(b) /\ conn'[b] = conn[b]
      BY <2>1, <2>2, <3>1 DEF Up
    <3> QED BY <2>2, <3>2 DEF Seen
  <2> QED BY <2>1, <2>2 DEF Seen, Open, Built
<1>5. ASSUME NEW c \in Conns, ReplaySend(c) PROVE Seen'
  <2>1. /\ Head(conn[c].rest) \in Done /\ conn[c].of \in Clients
        /\ IF c \in cut THEN UNCHANGED seen ELSE Receives(c, Head(conn[c].rest))
        /\ UNCHANGED <<event, cut>>
    BY <1>5, ReplayEffect
  <2>2. \A b \in Conns : (Up(b)' => Up(b)) /\ conn'[b].of = conn[b].of
    <3>1. PICK r \in ConnSet : conn' = [conn EXCEPT ![c] = r] /\ r.of = conn[c].of /\ r.pc # "none"
      BY <1>5, ReplayEffect
    <3>2. conn \in [Conns -> ConnSet] /\ conn[c].pc # "none"
      BY <1>5 DEF Base, TypeOK, ConnSet, ReplaySend
    <3>3. \A b \in Conns : conn'[b] = IF b = c THEN r ELSE conn[b]
      BY <3>1, <3>2
    <3> QED BY <2>1, <3>1, <3>2, <3>3 DEF Up
  <2>3. CASE c \in cut
    BY <2>1, <2>2, <2>3 DEF Seen, Open, Built
  <2>4. CASE c \notin cut
    <3>1. PICK k \in Clients : k = conn[c].of
      BY <2>1
    <3>2. PICK x \in Done : x = Head(conn[c].rest)
      BY <2>1
    <3>3. /\ \A j \in Clients : j # k => seen'[j] = seen[j]
          /\ Elems(seen'[k]) = Elems(seen[k]) \union {x}
          /\ \A j \in Clients : Elems(seen[j]) \subseteq Elems(seen'[j])
      <4>1. x \in Events /\ Receives(c, x)
        BY <2>1, <2>4, <3>2 DEF Done
      <4> QED BY <3>1, <4>1, ReceiveFacts, ZenonT(40)
    <3>4. \A j \in Clients : Elems(seen'[j]) \subseteq Built
      <4>1. x \in Built
        BY DEF Done, Built
      <4> QED BY <3>3, <4>1 DEF Seen
    <3>5. \A j \in Clients, d \in Events : Open(d) => \A y \in Elems(seen'[j]) : y <= d
      <4>1. ASSUME NEW d \in Events, Open(d) PROVE x <= d
        <5>1. x < d /\ x \in Int /\ d \in Int
          BY <4>1 DEF Base, Streamed, Done
        <5> QED BY <5>1
      <4>2. ASSUME NEW j \in Clients, NEW d \in Events, Open(d), NEW y \in Elems(seen'[j])
            PROVE  y <= d
        <5>1. y = x \/ y \in Elems(seen[j])
          BY <3>3
        <5> QED BY <4>1, <4>2, <5>1 DEF Seen
      <4> QED BY <4>2
    <3>6. \A d \in Events, b \in Conns : Up(b) /\ b \in event[d].to
                                         => d \in Elems(seen'[conn[b].of])
      <4>1. \A b \in Conns : Up(b) => conn[b].of \in Clients
        BY DEF Up, Base, Connected
      <4> QED BY <3>3, <4>1 DEF Seen
    <3> QED BY <2>1, <2>2, <3>4, <3>5, <3>6 DEF Seen, Open, Built
  <2> QED BY <2>3, <2>4
<1>6. ASSUME NEW c \in Conns, Cut(c) PROVE Seen'
  <2>1. cut \subseteq cut' /\ UNCHANGED <<event, conn, seen>>
    BY <1>6 DEF Cut
  <2> QED BY <2>1 DEF Seen, Up, Open, Built
<1>7. ASSUME NEW c \in Conns, Hangup(c) PROVE Seen'
  <2>1. /\ \A d \in Events : Open(d)' => Open(d)
        /\ Built' = Built
        /\ \A b \in Conns : Up(b)' <=> Up(b)
        /\ \A b \in Conns : conn'[b].of = conn[b].of
        /\ \A d \in Events : event'[d].to \subseteq event[d].to
        /\ UNCHANGED seen
    BY <1>7, HangupBase DEF Hangup
  <2> QED BY <2>1 DEF Seen
<1>8. CASE Expire
  BY <1>8 DEF Expire, connVars, Seen, Up, Open, Built
<1>9. CASE Restart
  BY <1>9, RestartBase DEF Seen
<1>10. CASE UNCHANGED vars
  BY <1>10 DEF vars, Seen, Up, Open, Built
<1> QED BY <1>1, <1>2, <1>3, <1>4, <1>5, <1>6, <1>7, <1>8, <1>9, <1>10 DEF Next, Broadcast

(* The anchor of a client whose latest event belongs to this life is that    *)
(* event, so that the replay is what lies behind it.                         *)
LEMMA AnchorFacts ==
  ASSUME Base, NEW x \in Built, x >= life, NEW a \in Anchors(event[x].id)
  PROVE  a \in 1 .. Len(Fresh) /\ Fresh[a] = x
<1> USE Bounds
<1>1. Fresh \in Seq(Events) /\ Elems(Fresh) \subseteq Elems(buffer) /\ Elems(Fresh) \subseteq Done
  BY FreshFacts
<1>2. DOMAIN Fresh = 1 .. Len(Fresh)
  BY <1>1, LenProperties
<1>3. a \in 1 .. Len(Fresh) /\ event[Fresh[a]].id = event[x].id
  BY <1>2 DEF Anchors
<1>4. Fresh[a] \in Elems(Fresh)
  BY <1>2, <1>3 DEF Elems
<1>5. Fresh[a] \in Built /\ Fresh[a] >= life
  BY <1>1, <1>4 DEF Base, Streamed, Done, Built
<1>6. event[x].id = x - life /\ event[Fresh[a]].id = Fresh[a] - life
  BY <1>5 DEF Base, Numbered
<1>7. x \in Int /\ Fresh[a] \in Int /\ life \in Int
  <2>1. x \in Events /\ Fresh[a] \in Events
    BY <1>5 DEF Built
  <2>2. life \in 1 .. NumEvents + 1
    BY DEF Base, TypeOK
  <2>3. life \in Int
    BY <2>2
  <2> QED BY <2>1, <2>3, Numbers
<1> QED BY <1>3, <1>6, <1>7

LEMMA LastFacts ==
  ASSUME Base, Seen, NEW k \in Clients, seen[k] # << >>
  PROVE  LastSeen(k) \in Elems(seen[k]) /\ LastSeen(k) \in Built
<1>1. seen[k] \in Seq(Events)
  BY DEF Base, TypeOK
<1>2. Len(seen[k]) \in Nat \ {0}
  BY <1>1, EmptySeq
<1>3. LastSeen(k) \in Elems(seen[k])
  BY <1>1, <1>2, ElemsAt DEF LastSeen
<1> QED BY <1>3 DEF Seen

-----------------------------------------------------------------------------
(* No event twice.                                                           *)

(* A client that came back with its latest id has received every event once, *)
(* and what is left of its replay and what it has not been offered are new.  *)
Once ==
  /\ \A k \in Clients \ blind : Injective(seen[k])
  /\ \A c \in Conns : Up(c) /\ conn[c].of \notin blind =>
       Elems(conn[c].rest) \intersect Elems(seen[conn[c].of]) = {}
  /\ \A c \in Conns, e \in Events :
       Up(c) /\ conn[c].of \notin blind /\ Open(e) /\ c \notin event[e].to
         => e \notin Elems(seen[conn[c].of])

(* What is replayed to a client that knows where it stopped is new to it, and*)
(* so is what is under way.                                                  *)
LEMMA ReturnFacts ==
  ASSUME Base, Seen, NEW c \in Conns, NEW k \in Clients, Connect(c, k), k \notin blind'
  PROVE  /\ Elems(conn'[c].rest) \intersect Elems(seen[k]) = {}
         /\ \A e \in Events : Open(e) => e \notin Elems(seen[k])
<1> USE Bounds
<1>1. PICK rest \in Seq(Events) :
        /\ rest = IF seen[k] # << >> THEN Replay(event[LastSeen(k)].id) ELSE << >>
        /\ conn' = [conn EXCEPT ![c] =
                      [pc |-> IF rest = << >> THEN "listening" ELSE "replaying",
                       of |-> k, rest |-> rest]]
  BY ConnectEffect
<1>2. conn'[c].rest = rest
  BY <1>1 DEF Base, TypeOK
<1>3. CASE seen[k] = << >>
  BY <1>1, <1>2, <1>3
<1>4. CASE seen[k] # << >>
  <2> DEFINE x == LastSeen(k)
  <2>1. x \in Elems(seen[k]) /\ x \in Built
    BY <1>4, LastFacts
  <2>2. x >= life /\ x \in Elems(Fresh) /\ \A e \in Elems(seen[k]) : ~(e > x)
    BY <1>4 DEF Connect
  <2>3. /\ Fresh \in Seq(Events) /\ Sorted(Fresh) /\ Elems(Fresh) \subseteq Done
    BY FreshFacts
  <2>4. Len(Fresh) \in Nat /\ DOMAIN Fresh = 1 .. Len(Fresh)
    BY <2>3, LenProperties
  <2>5. rest = Replay(event[x].id)
    BY <1>1, <1>4
  <2>6. \A e \in Elems(seen[k]) : e \in Int /\ x \in Int /\ e <= x
    <3> SUFFICES ASSUME NEW e \in Elems(seen[k]) PROVE e \in Int /\ x \in Int /\ e <= x
      OBVIOUS
    <3>1. e \in Int /\ x \in Int
      BY <2>1 DEF Seen, Built
    <3> QED BY <2>2, <3>1
  <2> HIDE DEF x
  <2>7. Anchors(event[x].id) # {}
    <3>1. PICK i \in DOMAIN Fresh : Fresh[i] = x
      BY <2>2 DEF Elems
    <3> QED BY <3>1 DEF Anchors
  <2>8. PICK a \in Anchors(event[x].id) :
          Elems(rest) = {Fresh[i] : i \in a + 1 .. Len(Fresh)}
    BY <2>5, <2>7, ReplayFacts
  <2>9. a \in 1 .. Len(Fresh) /\ Fresh[a] = x
    BY <2>1, <2>2, AnchorFacts
  <2>10. ASSUME NEW y \in Elems(rest) PROVE y \notin Elems(seen[k])
    <3>1. PICK i \in a + 1 .. Len(Fresh) : y = Fresh[i]
      BY <2>8
    <3>2. i \in 1 .. Len(Fresh) /\ a < i
      BY <2>4, <2>9
    <3>3. x < y
      BY <2>3, <2>4, <2>9, <3>1, <3>2 DEF Sorted
    <3> QED BY <2>6, <3>3
  <2>11. ASSUME NEW e \in Events, Open(e) PROVE e \notin Elems(seen[k])
    <3>1. x < e
      BY <2>2, <2>3, <2>11 DEF Base, Streamed
    <3> QED BY <2>6, <3>1
  <2> QED BY <1>2, <2>10, <2>11
<1> QED BY <1>3, <1>4

LEMMA OnceStep == Base /\ Seen /\ Once /\ [Next]_vars => Once'
<1> SUFFICES ASSUME Base, Seen, Once, [Next]_vars PROVE Once'
  OBVIOUS
<1> USE Bounds
<1>0. \A c \in Conns : Up(c) => conn[c].of \in Clients
  BY DEF Up, Base, Connected
<1>1. ASSUME NEW e \in Events, NEW by \in Conns \union {None}, Build(e, by) PROVE Once'
  <2>1. /\ \A d \in Events : Open(d)' <=> Open(d) \/ d = e
        /\ e \notin Built
        /\ \A d \in Events : event'[d].to = event[d].to
        /\ UNCHANGED <<conn, cut, seen, blind>>
    BY <1>1, BuildBase
  <2>2. \A k \in Clients : e \notin Elems(seen[k])
    BY <2>1 DEF Seen
  <2> QED BY <1>0, <2>1, <2>2 DEF Once, Up
<1>2. ASSUME NEW e \in Events, NEW c \in Conns, Visit(e, c) PROVE Once'
  <2>1. /\ Open(e) /\ c \notin event[e].to /\ conn[c].pc # "none" /\ conn[c].of \in Clients
        /\ \A d \in Events : Open(d)' <=> Open(d)
        /\ \A d \in Events \ {e} : event'[d].to = event[d].to
        /\ event'[e].to = event[e].to \union {c}
        /\ UNCHANGED <<conn, cut, blind>>
    BY <1>2, VisitBase
  <2>2. CASE c \in cut
    <3>1. UNCHANGED seen
      BY <1>2, <2>2 DEF Visit
    <3>2. ~Up(c)
      BY <2>2 DEF Up
    <3> QED BY <2>1, <3>1, <3>2 DEF Once, Up
  <2>3. CASE c \notin cut
    <3>1. PICK k \in Clients : k = conn[c].of
      BY <2>1
    <3>2. /\ \A j \in Clients : j # k => seen'[j] = seen[j]
          /\ Elems(seen'[k]) = Elems(seen[k]) \union {e}
          /\ e \notin Elems(seen[k]) /\ Injective(seen[k]) => Injective(seen'[k])
      <4>1. Receives(c, e)
        BY <1>2, <2>3 DEF Visit
      <4> QED BY <3>1, <4>1, ReceiveFacts, ZenonT(40)
    <3>3. Up(c) /\ \A b \in Conns : Up(b) /\ conn[b].of = k => b = c
      BY <2>1, <2>3, <3>1 DEF Up, Base, Connected
    <3>4. k \notin blind => e \notin Elems(seen[k])
      BY <2>1, <3>1, <3>3 DEF Once
    <3>5. \A j \in Clients \ blind : Injective(seen'[j])
      BY <3>2, <3>4 DEF Once
    <3>6. ASSUME NEW b \in Conns, Up(b), conn[b].of \notin blind
          PROVE  Elems(conn[b].rest) \intersect Elems(seen'[conn[b].of]) = {}
      <4>1. Elems(conn[b].rest) \intersect Elems(seen[conn[b].of]) = {}
        BY <3>6 DEF Once
      <4>2. e \notin Elems(conn[b].rest)
        BY <2>1 DEF Base, Connected, Done, Open
      <4> QED BY <1>0, <3>2, <3>6, <4>1, <4>2
    <3>7. ASSUME NEW b \in Conns, NEW d \in Events,
                 Up(b), conn[b].of \notin blind, Open(d), b \notin event'[d].to
          PROVE  d \notin Elems(seen'[conn[b].of])
      <4>1. d \notin Elems(seen[conn[b].of])
        BY <2>1, <3>7 DEF Once
      <4>2. CASE conn[b].of = k
        BY <2>1, <3>2, <3>3, <3>7, <4>1, <4>2
      <4>3. CASE conn[b].of # k
        BY <1>0, <3>2, <3>7, <4>1, <4>3
      <4> QED BY <4>2, <4>3
    <3> QED BY <2>1, <3>5, <3>6, <3>7 DEF Once, Up
  <2> QED BY <2>2, <2>3
<1>3. ASSUME NEW e \in Events, Finish(e) \/ Raise(e) PROVE Once'
  <2>1. /\ \A d \in Events : Open(d)' <=> Open(d) /\ d # e
        /\ \A d \in Events \ {e} : event'[d].to = event[d].to
        /\ UNCHANGED <<conn, cut, seen, blind>>
    BY <1>3, FinishBase, RaiseBase
  <2> QED BY <2>1 DEF Once, Up
<1>4. ASSUME NEW c \in Conns, NEW k \in Clients, Connect(c, k) PROVE Once'
  <2>1. /\ conn[c].pc = "none" /\ UNCHANGED <<event, cut, seen>>
        /\ \A b \in Conns \ {c} : conn'[b] = conn[b]
        /\ conn'[c].of = k
    <3>1. conn \in [Conns -> ConnSet]
      BY DEF Base, TypeOK, ConnSet
    <3> QED BY <1>4, <3>1, ConnectEffect
  <2>2. blind \subseteq blind'
    BY <1>4 DEF Connect
  <2>3. \A b \in Conns \ {c} : Up(b)' <=> Up(b)
    BY <2>1 DEF Up
  <2>4. ASSUME NEW b \in Conns, Up(b)', conn'[b].of \notin blind'
        PROVE  /\ Elems(conn'[b].rest) \intersect Elems(seen[conn'[b].of]) = {}
               /\ \A e \in Events : Open(e) /\ b \notin event[e].to
                                      => e \notin Elems(seen[conn'[b].of])
    <3>1. CASE b = c
      BY <1>4, <2>1, <2>4, <3>1, ReturnFacts
    <3>2. CASE b # c
      BY <2>1, <2>2, <2>3, <2>4, <3>2 DEF Once
    <3> QED BY <3>1, <3>2
  <2> QED BY <2>1, <2>2, <2>4 DEF Once, Open
<1>5. ASSUME NEW c \in Conns, ReplaySend(c) PROVE Once'
  <2>1. /\ conn[c].rest \in Seq(Events) /\ conn[c].rest # << >>
        /\ Head(conn[c].rest) \in Done /\ conn[c].of \in Clients
        /\ IF c \in cut THEN UNCHANGED seen ELSE Receives(c, Head(conn[c].rest))
        /\ UNCHANGED <<event, cut, blind>>
    BY <1>5, ReplayEffect
  <2>2. PICK r \in ConnSet :
          /\ conn' = [conn EXCEPT ![c] = r]
          /\ r.of = conn[c].of /\ r.pc # "none"
          /\ c \notin cut => r.rest = Tail(conn[c].rest)
    BY <1>5, ReplayEffect
  <2>3. /\ \A b \in Conns : (Up(b)' <=> Up(b)) /\ conn'[b].of = conn[b].of
        /\ \A b \in Conns \ {c} : conn'[b] = conn[b]
        /\ conn'[c].rest = r.rest
    <3>2. conn \in [Conns -> ConnSet] /\ conn[c].pc # "none"
      BY <1>5 DEF Base, TypeOK, ConnSet, ReplaySend
    <3>3. \A b \in Conns : conn'[b] = IF b = c THEN r ELSE conn[b]
      BY <2>2, <3>2
    <3> QED BY <2>1, <2>2, <3>2, <3>3 DEF Up
  <2>4. CASE c \in cut
    <3>1. ~Up(c) /\ UNCHANGED seen
      BY <2>1, <2>4 DEF Up
    <3> QED BY <2>1, <2>3, <3>1 DEF Once, Open
  <2>5. CASE c \notin cut
    <3>1. PICK k \in Clients : k = conn[c].of
      BY <2>1
    <3>2. PICK x \in Done : x = Head(conn[c].rest)
      BY <2>1
    <3>3. /\ \A j \in Clients : j # k => seen'[j] = seen[j]
          /\ Elems(seen'[k]) = Elems(seen[k]) \union {x}
          /\ x \notin Elems(seen[k]) /\ Injective(seen[k]) => Injective(seen'[k])
      <4>1. x \in Events /\ Receives(c, x)
        BY <2>1, <2>5, <3>2 DEF Done
      <4> QED BY <3>1, <4>1, ReceiveFacts, ZenonT(40)
    <3>4. Up(c) /\ \A b \in Conns : Up(b) /\ conn[b].of = k => b = c
      BY <1>5, <2>1, <2>5, <3>1 DEF Up, Base, Connected, ReplaySend
    <3>5. /\ x \in Elems(conn[c].rest) /\ Elems(conn'[c].rest) \subseteq Elems(conn[c].rest)
          /\ x \notin Elems(conn'[c].rest)
      <4> DEFINE s == conn[c].rest
      <4>1. s \in Seq(Events) /\ s # << >> /\ Sorted(s)
        BY <2>1 DEF Base, Connected
      <4> HIDE DEF s
      <4>2. /\ Head(s) \in Events /\ Head(s) \in Elems(s)
            /\ Elems(s) = {Head(s)} \union Elems(Tail(s))
            /\ \A y \in Elems(Tail(s)) : Head(s) < y
        BY <4>1, TailFacts
      <4>3. Head(s) \notin Elems(Tail(s))
        <5>1. Head(s) \in Int /\ ~(Head(s) < Head(s))
          BY <4>2, Numbers
        <5> QED BY <4>2, <5>1
      <4>4. conn'[c].rest = Tail(s) /\ x = Head(s)
        BY <2>2, <2>3, <2>5, <3>2 DEF s
      <4> QED BY <4>2, <4>3, <4>4 DEF s
    <3>6. k \notin blind => x \notin Elems(seen[k])
      BY <3>1, <3>4, <3>5 DEF Once
    <3>7. \A j \in Clients \ blind : Injective(seen'[j])
      BY <3>3, <3>6 DEF Once
    <3>8. ASSUME NEW b \in Conns, Up(b), conn[b].of \notin blind
          PROVE  Elems(conn'[b].rest) \intersect Elems(seen'[conn[b].of]) = {}
      <4>1. Elems(conn[b].rest) \intersect Elems(seen[conn[b].of]) = {}
        BY <3>8 DEF Once
      <4>2. CASE b = c
        BY <3>1, <3>3, <3>5, <4>1, <4>2
      <4>3. CASE b # c
        BY <1>0, <2>3, <3>3, <3>4, <3>8, <4>1, <4>3
      <4> QED BY <4>2, <4>3
    <3>9. ASSUME NEW b \in Conns, NEW d \in Events,
                 Up(b), conn[b].of \notin blind, Open(d), b \notin event[d].to
          PROVE  d \notin Elems(seen'[conn[b].of])
      <4>1. d \notin Elems(seen[conn[b].of])
        BY <3>9 DEF Once
      <4>2. d # x
        BY <3>9 DEF Done, Open
      <4>3. CASE conn[b].of = k
        BY <3>3, <4>1, <4>2, <4>3
      <4>4. CASE conn[b].of # k
        BY <1>0, <3>3, <3>9, <4>1, <4>4
      <4> QED BY <4>3, <4>4
    <3> QED BY <2>1, <2>3, <3>7, <3>8, <3>9 DEF Once, Open
  <2> QED BY <2>4, <2>5
<1>6. ASSUME NEW c \in Conns, Cut(c) PROVE Once'
  <2>1. cut \subseteq cut' /\ UNCHANGED <<event, conn, seen, blind>>
    BY <1>6 DEF Cut
  <2>2. \A b \in Conns : Up(b)' => Up(b)
    BY <2>1 DEF Up
  <2> QED BY <2>1, <2>2 DEF Once, Open
<1>7. ASSUME NEW c \in Conns, Hangup(c) PROVE Once'
  <2>1. /\ \A d \in Events : Open(d)' => Open(d) /\ event'[d] = event[d]
        /\ \A b \in Conns : Up(b)' <=> Up(b)
        /\ \A b \in Conns : conn'[b].of = conn[b].of /\ conn'[b].rest = conn[b].rest
        /\ UNCHANGED <<seen, blind>>
    BY <1>7, HangupBase DEF Hangup
  <2> QED BY <2>1 DEF Once
<1>8. CASE Expire
  BY <1>8 DEF Expire, connVars, Once, Up, Open
<1>9. CASE Restart
  BY <1>9, RestartBase DEF Once
<1>10. CASE UNCHANGED vars
  BY <1>10 DEF vars, Once, Up, Open
<1> QED BY <1>1, <1>2, <1>3, <1>4, <1>5, <1>6, <1>7, <1>8, <1>9, <1>10 DEF Next, Broadcast

LEMMA InitiallySeen == Init => Seen /\ Once
BY Bounds DEF Init, Seen, Once, Up, Open

(* What a replay sends and what is sent live do not overlap: a client that   *)
(* comes back with its latest id, which the buffer still has, is not sent an *)
(* event twice, over all its connections.                                    *)
THEOREM OnlyOnce == Spec => []NoDuplicates
<1>1. Init => Base /\ Seen /\ Once
  BY Initially, InitiallySeen
<1>2. Base /\ Seen /\ Once /\ [Next]_vars => (Base /\ Seen /\ Once)'
  BY BaseStep, SeenStep, OnceStep
<1>3. Once => NoDuplicates
  BY DEF Once, Injective, NoDuplicates
<1> QED BY <1>1, <1>2, <1>3, PTL DEF Spec

-----------------------------------------------------------------------------
(* No event missed.                                                          *)

(* A client has an event, or has been told that it is lost, or is about to   *)
(* get it.                                                                   *)
Has(k, e) ==
  \/ e \in Elems(seen[k])
  \/ <<k, e>> \in skipped
  \/ \E c \in Conns : Up(c) /\ conn[c].of = k /\ e \in Elems(conn[c].rest)

(* Every event that was broadcast to its end in this life is accounted for,  *)
(* for the connections that are there, and, for clients that are away, up to *)
(* the id that they will come back with.                                     *)
Caught ==
  \A e \in Done : e >= life =>
    /\ \A c \in Conns : Up(c) => Has(conn[c].of, e)
    /\ \A k \in Clients : seen[k] # << >> /\ e < LastSeen(k) => Has(k, e)

LEMMA LastSeenNext == \A k : LastSeen(k)' = seen'[k][Len(seen'[k])]
BY DEF LastSeen

(* The account of a client that comes back.                                  *)
LEMMA ConnectCaught ==
  ASSUME Base, Seen, Caught, NEW c \in Conns, NEW k \in Clients, Connect(c, k),
         NEW e \in Done, e >= life
  PROVE  e \in Elems(seen[k]) \/ <<k, e>> \in skipped' \/ e \in Elems(conn'[c].rest)
<1> USE Bounds
<1>1. PICK rest \in Seq(Events) :
        /\ rest = IF seen[k] # << >> THEN Replay(event[LastSeen(k)].id) ELSE << >>
        /\ conn' = [conn EXCEPT ![c] =
                      [pc |-> IF rest = << >> THEN "listening" ELSE "replaying",
                       of |-> k, rest |-> rest]]
        /\ \A b \in Conns : conn[b].of = k => b \in cut
  BY ConnectEffect
<1>2. conn'[c].rest = rest
  BY <1>1 DEF Base, TypeOK
<1> DEFINE x == LastSeen(k)
<1>3. /\ ~(seen[k] # << >> /\ x >= life) => <<k, e>> \in skipped'
      /\ e \notin Elems(Fresh) => <<k, e>> \in skipped'
      /\ skipped \subseteq skipped'
  BY DEF Connect
<1>4. CASE seen[k] # << >> /\ x >= life /\ e \in Elems(Fresh)
  <2>1. x \in Elems(seen[k]) /\ x \in Built
    BY <1>4, LastFacts
  <2>2. /\ Fresh \in Seq(Events) /\ Sorted(Fresh)
    BY FreshFacts
  <2>3. Len(Fresh) \in Nat /\ DOMAIN Fresh = 1 .. Len(Fresh)
    BY <2>2, LenProperties
  <2>4. PICK j \in 1 .. Len(Fresh) : Fresh[j] = e
    BY <1>4, <2>3 DEF Elems
  <2>5. rest = Replay(event[x].id)
    BY <1>1, <1>4
  <2>6. x \in Int /\ e \in Int
    BY <2>1 DEF Built, Done
  <2>7. e < x => Has(k, e)
    BY <1>4 DEF Caught
  <2> HIDE DEF x
  <2>8. CASE Anchors(event[x].id) = {}
    BY <1>2, <1>4, <2>5, <2>8, ReplayFacts
  <2>9. CASE Anchors(event[x].id) # {}
    <3>1. PICK a \in Anchors(event[x].id) :
            Elems(rest) = {Fresh[i] : i \in a + 1 .. Len(Fresh)}
      BY <2>5, <2>9, ReplayFacts
    <3>2. a \in 1 .. Len(Fresh) /\ Fresh[a] = x
      BY <1>4, <2>1, <3>1, AnchorFacts
    <3>3. CASE j > a
      <4>1. j \in a + 1 .. Len(Fresh)
        BY <2>3, <3>2, <3>3
      <4> QED BY <1>2, <2>4, <3>1, <4>1
    <3>4. CASE j = a
      BY <2>1, <2>4, <3>2, <3>4
    <3>5. CASE j < a
      <4>1. e < x
        BY <2>2, <2>3, <2>4, <3>2, <3>5 DEF Sorted
      <4>2. ~\E b \in Conns : Up(b) /\ conn[b].of = k
        BY <1>1 DEF Up
      <4> QED BY <1>3, <2>7, <4>1, <4>2 DEF Has
    <3> QED BY <2>3, <3>2, <3>3, <3>4, <3>5
  <2> QED BY <2>8, <2>9
<1> QED BY <1>2, <1>3, <1>4

LEMMA CaughtStep == Base /\ Seen /\ Caught /\ [Next]_vars => Caught'
<1> SUFFICES ASSUME Base, Seen, Caught, [Next]_vars PROVE Caught'
  OBVIOUS
<1> USE Bounds
<1>0. /\ \A c \in Conns : Up(c) => conn[c].of \in Clients
      /\ \A b, c \in Conns : Up(b) /\ Up(c) /\ conn[b].of = conn[c].of => b = c
  BY DEF Up, Base, Connected
(* Steps that leave what clients have, and which events have ended.          *)
<1>1. ASSUME \A d \in Done' : d >= life' => d \in Done /\ d >= life,
             \A c \in Conns : (Up(c)' <=> Up(c)) /\ conn'[c].of = conn[c].of
                              /\ conn'[c].rest = conn[c].rest,
             seen' = seen, skipped \subseteq skipped'
      PROVE  Caught'
  <2>1. \A k : \A e : Has(k, e) => Has(k, e)'
    BY <1>1 DEF Has
  <2>2. \A k : LastSeen(k)' = LastSeen(k)
    BY <1>1, LastSeenNext DEF LastSeen
  <2> QED BY <1>1, <2>1, <2>2 DEF Caught
<1>2. ASSUME NEW e \in Events, NEW by \in Conns \union {None}, Build(e, by) PROVE Caught'
  <2>1. Done' = Done /\ UNCHANGED <<conn, cut, seen, life, skipped>>
    BY <1>2, BuildBase
  <2> QED BY <1>1, <2>1 DEF Up
(* A client receives an event: one that is under way, or one of its replay.  *)
<1>3. ASSUME NEW c \in Conns, Up(c), NEW x \in Events, Receives(c, x),
             Done' = Done, life' = life, skipped' = skipped,
             \A b \in Conns : (Up(b)' <=> Up(b)) /\ conn'[b].of = conn[b].of,
             \A b \in Conns \ {c} : conn'[b].rest = conn[b].rest,
             Elems(conn[c].rest) \subseteq Elems(conn'[c].rest) \union {x}
      PROVE  Caught'
  <2>1. PICK k \in Clients : k = conn[c].of
    BY <1>0, <1>3
  <2>2. /\ \A j \in Clients : j # k => seen'[j] = seen[j]
        /\ Elems(seen'[k]) = Elems(seen[k]) \union {x}
        /\ \A j \in Clients : Elems(seen[j]) \subseteq Elems(seen'[j])
        /\ seen'[k][Len(seen'[k])] = x
    BY <1>3, <2>1, ReceiveFacts, ZenonT(40)
  <2>3. ASSUME NEW j \in Clients, NEW e \in Events, Has(j, e) PROVE Has(j, e)'
    <3>1. CASE e \in Elems(seen[j])
      BY <2>2, <3>1 DEF Has
    <3>2. CASE <<j, e>> \in skipped
      BY <1>3, <3>2 DEF Has
    <3>3. CASE \E b \in Conns : Up(b) /\ conn[b].of = j /\ e \in Elems(conn[b].rest)
      <4>1. PICK b \in Conns : Up(b) /\ conn[b].of = j /\ e \in Elems(conn[b].rest)
        BY <3>3
      <4>2. CASE e \in Elems(conn'[b].rest)
        BY <1>3, <4>1, <4>2 DEF Has
      <4>3. CASE e \notin Elems(conn'[b].rest)
        <5>1. b = c /\ e = x /\ j = k
          BY <1>3, <2>1, <4>1, <4>3
        <5> QED BY <2>2, <5>1 DEF Has
      <4> QED BY <4>2, <4>3
    <3> QED BY <2>3, <3>1, <3>2, <3>3 DEF Has
  <2>4. ASSUME NEW e \in Done', e >= life' PROVE e \in Done /\ e \in Events /\ e >= life
    BY <1>3, <2>4 DEF Done
  <2>5. ASSUME NEW e \in Done', e >= life', NEW b \in Conns, Up(b)', NEW j \in Clients,
               j = conn'[b].of
        PROVE  Has(j, e)'
    <3>1. Has(j, e)
      BY <1>3, <2>4, <2>5 DEF Caught
    <3> QED BY <2>3, <2>4, <2>5, <3>1
  <2>6. ASSUME NEW e \in Done', e >= life', NEW j \in Clients, seen'[j] # << >>, e < LastSeen(j)'
        PROVE  Has(j, e)'
    <3>1. CASE j = k
      <4>1. Has(k, e)
        BY <1>3, <2>1, <2>4, <2>6 DEF Caught
      <4> QED BY <2>3, <2>4, <2>6, <3>1, <4>1
    <3>2. CASE j # k
      <4>1. seen'[j] = seen[j] /\ LastSeen(j)' = LastSeen(j)
        BY <2>2, <3>2, LastSeenNext DEF LastSeen
      <4>2. Has(j, e)
        BY <2>4, <2>6, <4>1 DEF Caught
      <4> QED BY <2>3, <2>4, <2>6, <4>2
    <3> QED BY <3>1, <3>2
  <2>7. \A b \in Conns : Up(b)' => conn'[b].of \in Clients
    BY <1>0, <1>3
  <2> QED BY <2>5, <2>6, <2>7 DEF Caught
<1>4. ASSUME NEW e \in Events, NEW c \in Conns, Visit(e, c) PROVE Caught'
  <2>1. /\ conn[c].pc # "none" /\ Done' = Done
        /\ IF c \in cut THEN UNCHANGED seen ELSE Receives(c, e)
        /\ UNCHANGED <<conn, cut, life, skipped>>
    BY <1>4, VisitBase
  <2>2. \A b \in Conns : Up(b)' <=> Up(b)
    BY <2>1 DEF Up
  <2>3. CASE c \in cut
    BY <1>1, <2>1, <2>2, <2>3
  <2>4. CASE c \notin cut
    <3>1. Up(c)
      BY <2>1, <2>4 DEF Up
    <3> QED BY <1>3, <2>1, <2>2, <2>4, <3>1
  <2> QED BY <2>3, <2>4
<1>5. ASSUME NEW e \in Events, Raise(e) PROVE Caught'
  <2>1. Done' = Done /\ UNCHANGED <<conn, cut, seen, life, skipped>>
    BY <1>5, RaiseBase
  <2> QED BY <1>1, <2>1 DEF Up
<1>6. ASSUME NEW e \in Events, Finish(e) PROVE Caught'
  <2>1. /\ Open(e) /\ Done' = Done \union {e}
        /\ UNCHANGED <<conn, cut, seen, life>>
        /\ skipped \subseteq skipped'
    BY <1>6, FinishBase DEF Finish
  <2>2. \A k : \A d : Has(k, d) => Has(k, d)'
    BY <2>1 DEF Has, Up
  <2>3. \A b \in Conns : Up(b)' <=> Up(b)
    BY <2>1 DEF Up
  <2>4. ASSUME NEW c \in Conns, Up(c), NEW k \in Clients, k = conn[c].of PROVE Has(k, e)'
    <3>1. c \in live
      BY <2>4 DEF Base, TypeOK, Connected, Up
    <3>2. CASE event[e].pc = "waiting"
      BY <1>6, <3>1, <3>2 DEF Finish
    <3>3. CASE event[e].pc = "sending" /\ c \notin event[e].to
      <4>1. <<k, e>> \in skipped'
        BY <1>6, <2>4, <3>1, <3>3 DEF Finish
      <4> QED BY <4>1 DEF Has
    <3>4. CASE c \in event[e].to
      <4>1. e \in Elems(seen[k])
        BY <2>4, <3>4 DEF Seen
      <4> QED BY <2>1, <4>1 DEF Has
    <3> QED BY <2>1, <3>2, <3>3, <3>4 DEF Open
  <2>5. ASSUME NEW k \in Clients, seen[k] # << >> PROVE ~(e < LastSeen(k))
    <3>1. LastSeen(k) \in Elems(seen[k]) /\ LastSeen(k) \in Built
      BY <2>5, LastFacts
    <3>2. LastSeen(k) <= e /\ LastSeen(k) \in Int /\ e \in Int
      BY <2>1, <3>1, Numbers DEF Seen, Built
    <3> QED BY <3>2
  <2>6. \A k : LastSeen(k)' = LastSeen(k)
    BY <2>1, LastSeenNext DEF LastSeen
  <2> QED BY <1>0, <2>1, <2>2, <2>3, <2>4, <2>5, <2>6 DEF Caught
<1>7. ASSUME NEW c \in Conns, NEW k \in Clients, Connect(c, k) PROVE Caught'
  <2>1. /\ conn[c].pc = "none" /\ c \notin cut /\ UNCHANGED <<event, cut, seen, life>>
        /\ \A b \in Conns \ {c} : conn'[b] = conn[b]
        /\ conn'[c].of = k /\ conn'[c].pc # "none"
        /\ skipped \subseteq skipped'
    <3>1. conn \in [Conns -> ConnSet]
      BY DEF Base, TypeOK, ConnSet
    <3>2. /\ conn[c].pc = "none" /\ c \notin cut /\ UNCHANGED <<event, cut, seen, life>>
          /\ \A b \in Conns \ {c} : conn'[b] = conn[b]
          /\ conn'[c].of = k /\ conn'[c].pc # "none"
      BY <1>7, <3>1, ConnectEffect
    <3> QED BY <1>7, <3>2 DEF Connect
  <2>2. \A b \in Conns : Up(b)' <=> Up(b) \/ b = c
    BY <2>1 DEF Up
  <2>3. ASSUME NEW j \in Clients, NEW e \in Events, Has(j, e) PROVE Has(j, e)'
    <3>1. \A b \in Conns : Up(b) => b # c
      BY <2>1 DEF Up
    <3> QED BY <2>1, <2>2, <2>3, <3>1 DEF Has
  <2>4. Done' = Done
    BY <2>1 DEF Done
  <2>5. ASSUME NEW e \in Done, e >= life PROVE Has(k, e)'
    <3>1. e \in Elems(seen[k]) \/ <<k, e>> \in skipped' \/ e \in Elems(conn'[c].rest)
      BY <1>7, <2>5, ConnectCaught
    <3> QED BY <2>1, <2>2, <3>1 DEF Has
  <2>6. ASSUME NEW e \in Done, e >= life, NEW b \in Conns \ {c}, Up(b) PROVE Has(conn[b].of, e)
    BY <2>6 DEF Caught
  <2>7. \A j : LastSeen(j)' = LastSeen(j)
    BY <2>1, LastSeenNext DEF LastSeen
  <2>8. ASSUME NEW e \in Done, e >= life, NEW b \in Conns, Up(b)', NEW j \in Clients,
               j = conn'[b].of
        PROVE  Has(j, e)'
    <3>1. CASE b = c
      BY <2>1, <2>5, <2>8, <3>1
    <3>2. CASE b # c
      <4>1. Has(j, e) /\ e \in Events
        BY <2>1, <2>2, <2>6, <2>8, <3>2 DEF Done
      <4> QED BY <2>3, <4>1
    <3> QED BY <3>1, <3>2
  <2>9. \A b \in Conns : Up(b)' => conn'[b].of \in Clients
    BY <1>0, <2>1, <2>2
  <2>10. ASSUME NEW e \in Done, e >= life, NEW j \in Clients, seen[j] # << >>, e < LastSeen(j)
         PROVE  Has(j, e)'
    <3>1. Has(j, e) /\ e \in Events
      BY <2>10 DEF Caught, Done
    <3> QED BY <2>3, <3>1
  <2> QED BY <2>1, <2>4, <2>7, <2>8, <2>9, <2>10 DEF Caught
<1>8. ASSUME NEW c \in Conns, ReplaySend(c) PROVE Caught'
  <2>1. /\ conn[c].rest \in Seq(Events) /\ conn[c].rest # << >>
        /\ Head(conn[c].rest) \in Done /\ conn[c].of \in Clients
        /\ IF c \in cut THEN UNCHANGED seen ELSE Receives(c, Head(conn[c].rest))
        /\ UNCHANGED <<event, cut, life, skipped>>
    BY <1>8, ReplayEffect
  <2>2. PICK r \in ConnSet :
          /\ conn' = [conn EXCEPT ![c] = r]
          /\ r.of = conn[c].of /\ r.pc # "none"
          /\ c \notin cut => r.rest = Tail(conn[c].rest)
    BY <1>8, ReplayEffect
  <2>3. /\ \A b \in Conns : (Up(b)' <=> Up(b)) /\ conn'[b].of = conn[b].of
        /\ \A b \in Conns \ {c} : conn'[b].rest = conn[b].rest
        /\ conn'[c].rest = r.rest /\ conn[c].pc # "none"
    <3>2. conn \in [Conns -> ConnSet] /\ conn[c].pc # "none"
      BY <1>8 DEF Base, TypeOK, ConnSet, ReplaySend
    <3>3. \A b \in Conns : conn'[b] = IF b = c THEN r ELSE conn[b]
      BY <2>2, <3>2
    <3> QED BY <2>1, <2>2, <3>2, <3>3 DEF Up
  <2>4. Done' = Done
    BY <2>1 DEF Done
  <2>5. CASE c \in cut
    <3>1. ~Up(c) /\ UNCHANGED seen
      BY <2>1, <2>5 DEF Up
    <3>2. \A k : \A e : Has(k, e) => Has(k, e)'
      BY <2>1, <2>3, <3>1 DEF Has
    <3>3. \A k : LastSeen(k)' = LastSeen(k)
      BY <3>1, LastSeenNext DEF LastSeen
    <3> QED BY <2>1, <2>3, <2>4, <3>1, <3>2, <3>3 DEF Caught
  <2>6. CASE c \notin cut
    <3>1. Up(c)
      BY <2>3, <2>6 DEF Up
    <3>2. PICK x \in Done : x = Head(conn[c].rest)
      BY <2>1
    <3>3. Elems(conn[c].rest) = {x} \union Elems(conn'[c].rest)
      <4> DEFINE s == conn[c].rest
      <4>1. s \in Seq(Events) /\ s # << >>
        BY <2>1
      <4> HIDE DEF s
      <4>2. Elems(s) = {Head(s)} \union Elems(Tail(s))
        BY <4>1, TailFacts
      <4> QED BY <2>2, <2>3, <2>6, <3>2, <4>2 DEF s
    <3>4. x \in Events /\ Receives(c, x)
      BY <2>1, <2>6, <3>2 DEF Done
    <3> QED BY <1>3, <2>1, <2>3, <2>4, <3>1, <3>3, <3>4
  <2> QED BY <2>5, <2>6
<1>9. ASSUME NEW c \in Conns, Cut(c) PROVE Caught'
  <2>1. /\ cut' = cut \union {c} /\ UNCHANGED <<event, conn, seen, life>>
        /\ skipped \subseteq skipped' /\ conn[c].pc # "none" /\ c \notin cut
    BY <1>9 DEF Cut, streamVars, Listens
  <2>2. PICK k \in Clients : k = conn[c].of
    BY <2>1 DEF Base, Connected
  <2>3. \A b \in Conns : Up(b)' <=> Up(b) /\ b # c
    BY <2>1 DEF Up
  <2>4. Up(c) /\ \A b \in Conns : Up(b) /\ b # c => conn[b].of # k
    BY <1>0, <2>1, <2>2 DEF Up
  <2>5. ASSUME NEW j \in Clients, NEW e, j # k, Has(j, e) PROVE Has(j, e)'
    BY <2>1, <2>2, <2>3, <2>5 DEF Has
  <2>6. ASSUME NEW e, seen[k] # << >>, e < LastSeen(k), Has(k, e) PROVE Has(k, e)'
    <3>1. CASE e \in Elems(seen[k]) \/ <<k, e>> \in skipped
      BY <2>1, <3>1 DEF Has
    <3>2. CASE \E b \in Conns : Up(b) /\ conn[b].of = k /\ e \in Elems(conn[b].rest)
      <4>1. e \in Elems(conn[c].rest)
        BY <2>4, <3>2
      <4>2. <<k, e>> \in skipped'
        BY <1>9, <2>2, <2>6, <4>1 DEF Cut
      <4> QED BY <4>2 DEF Has
    <3> QED BY <2>6, <3>1, <3>2 DEF Has
  <2>7. Done' = Done
    BY <2>1 DEF Done
  <2>8. \A j : LastSeen(j)' = LastSeen(j)
    BY <2>1, LastSeenNext DEF LastSeen
  <2>9. ASSUME NEW e \in Done, e >= life, NEW b \in Conns, Up(b)', NEW j \in Clients,
               j = conn[b].of
        PROVE  Has(j, e)'
    <3>1. j # k /\ Has(j, e)
      BY <2>3, <2>4, <2>9 DEF Caught
    <3> QED BY <2>5, <3>1
  <2>10. ASSUME NEW e \in Done, e >= life, NEW j \in Clients, seen[j] # << >>, e < LastSeen(j)
         PROVE  Has(j, e)'
    <3>1. Has(j, e)
      BY <2>10 DEF Caught
    <3> QED BY <2>5, <2>6, <2>10, <3>1
  <2> QED BY <1>0, <2>1, <2>3, <2>7, <2>8, <2>9, <2>10 DEF Caught
<1>10. ASSUME NEW c \in Conns, Hangup(c) PROVE Caught'
  <2>1. /\ Done' = Done
        /\ \A b \in Conns : Up(b)' <=> Up(b)
        /\ \A b \in Conns : conn'[b].of = conn[b].of /\ conn'[b].rest = conn[b].rest
    BY <1>10, HangupBase
  <2>2. UNCHANGED <<seen, life, skipped>>
    BY <1>10 DEF Hangup, streamVars
  <2> QED BY <1>1, <2>1, <2>2
<1>11. CASE Expire
  <2>1. UNCHANGED <<event, conn, cut, seen, life, skipped>>
    BY <1>11 DEF Expire, connVars
  <2> QED BY <1>1, <2>1 DEF Up, Done
<1>12. CASE Restart
  <2>1. \A d \in Done' : ~(d >= life')
    <3> SUFFICES ASSUME NEW d \in Done' PROVE ~(d >= life')
      OBVIOUS
    <3>1. d \in Built /\ d < life' /\ Base'
      BY <1>12, RestartBase DEF Done, Built
    <3>2. d \in Int /\ life' \in Int
      BY <3>1 DEF Base, TypeOK, Built, Events
    <3> QED BY <3>1, <3>2
  <2> QED BY <2>1 DEF Caught
<1>13. CASE UNCHANGED vars
  BY <1>1, <1>13 DEF vars, Up, Done
<1> QED BY <1>2, <1>4, <1>5, <1>6, <1>7, <1>8, <1>9, <1>10, <1>11, <1>12, <1>13
        DEF Next, Broadcast

(* "Resume exactly where the previous connection left off": a client that has*)
(* its replay behind it has received every event that was broadcast to its   *)
(* end in this life of the server, except those that it has been found to    *)
(* miss: lost from the buffer, overtaken, or begun without it.               *)
THEOREM NothingMissed == Spec => []NoGap
<1>1. Init => Base /\ Seen /\ Caught
  BY Initially, InitiallySeen DEF Init, Caught, Done
<1>2. Base /\ Seen /\ Caught /\ [Next]_vars => (Base /\ Seen /\ Caught)'
  BY BaseStep, SeenStep, CaughtStep
<1>3. Base /\ Caught => NoGap
  <2> SUFFICES ASSUME Base, Caught, NEW c \in Conns, conn[c].pc = "listening", c \notin cut,
                      NEW e \in Done, e >= life, <<conn[c].of, e>> \notin skipped
               PROVE  e \in Elems(seen[conn[c].of])
    BY DEF NoGap
  <2>1. Up(c) /\ conn[c].rest = << >>
    BY DEF Up, Base, Connected
  <2>2. Has(conn[c].of, e)
    BY <2>1 DEF Caught
  <2>3. \A b \in Conns : Up(b) /\ conn[b].of = conn[c].of => b = c
    BY <2>1 DEF Base, Connected
  <2> QED BY <2>1, <2>2, <2>3, Bounds DEF Has
<1> QED BY <1>1, <1>2, <1>3, PTL DEF Spec
=============================================================================
