------------------------------ MODULE WsReplay ------------------------------
(* The event stream at /ws: ConnectionManager with its live set, lock and    *)
(* replay buffer (api/websocket/manager.py), the endpoint of a connection    *)
(* with its replay and its heartbeat (api/routers/ws.py), and clients that   *)
(* lose their connection and come back with the last event id they received. *)
(*                                                                           *)
(* A step is what one task does between two awaits.  Events are numbered in  *)
(* the order build_event numbers them, connections in the order of connect.  *)
EXTENDS Integers, Sequences, FiniteSets

CONSTANTS
  NumEvents,   \* bound: the events of a behaviour
  NumConns,    \* bound: the connections of a behaviour
  BufferSize,  \* settings.ws_replay_buffer_size
  Clients,     \* the clients that listen
  Nobody       \* not a client

ASSUME WsAssumption ==
  /\ NumEvents \in Nat
  /\ NumConns \in Nat
  /\ BufferSize \in Nat
  /\ IsFiniteSet(Clients)
  /\ Nobody \notin Clients

Events == 1 .. NumEvents
Conns == 1 .. NumConns
None == 0

VARIABLES
  event,    \* event[e]: how far its broadcast is, its id, whose heartbeat it is,
            \* the live set at its start, the connections it was offered, the dead
  turn,     \* the broadcasts that hold and wait for manager._lock, in order
  buffer,   \* _replay_buffer
  old,      \* events up to here have passed ws_replay_ttl_seconds
  live,     \* _connections
  conn,     \* conn[c]: endpoint's place, client, what is left to replay
  cut,      \* connections whose client is gone
  seen,     \* seen[k]: what client k has received, over all its connections
  life,     \* the first event of this life of the server
  skipped,  \* history: <<client, event>> that a reconnect could not replay
  blind     \* history: clients that presented an id that the buffer did not have
            \* or that was not their latest

vars == <<event, turn, buffer, old, live, conn, cut, seen, life, skipped, blind>>

EventPCs == {"none", "waiting", "sending", "done", "failed"}
ConnPCs == {"none", "replaying", "listening", "closed"}

Elems(s) == {s[i] : i \in DOMAIN s}
Without(s, i) == SubSeq(s, 1, i - 1) \o SubSeq(s, i + 1, Len(s))

Init ==
  /\ event = [e \in Events |-> [pc |-> "none", id |-> 0, by |-> None, from |-> {},
                                to |-> {}, dead |-> {}]]
  /\ turn = << >> /\ buffer = << >> /\ old = 0
  /\ live = {}
  /\ conn = [c \in Conns |-> [pc |-> "none", of |-> Nobody, rest |-> << >>]]
  /\ cut = {}
  /\ seen = [k \in Clients |-> << >>]
  /\ life = 1
  /\ skipped = {} /\ blind = {}

connVars == <<conn, cut, skipped, blind>>
streamVars == <<buffer, old, life>>

-----------------------------------------------------------------------------
(* broadcast.                                                                *)

Open(e) == event[e].pc \in {"waiting", "sending"}
Holds(e) == turn # << >> /\ Head(turn) = e

(* build_event and the call of broadcast, by a request or a background task, *)
(* or by the heartbeat loop of a connection, which makes one at a time.      *)
Build(e, by) ==
  /\ event[e].pc = "none" /\ \A d \in Events : d < e => event[d].pc # "none"
  /\ by # None => /\ conn[by].pc = "listening"
                  /\ \A d \in Events : Open(d) => event[d].by # by
  /\ event' = [event EXCEPT ![e].pc = "waiting", ![e].id = e - life, ![e].by = by]
  /\ turn' = Append(turn, e)
  /\ UNCHANGED <<streamVars, live, connVars, seen>>

(* Iterating over a set that changed its size raises.                        *)
SameSize(e) == event[e].pc = "waiting" \/ Cardinality(live) = Cardinality(event[e].from)

Receives(c, e) == seen' = [seen EXCEPT ![conn[c].of] = Append(@, e)]

Offered(e, c, fails) ==
  [event[e] EXCEPT !.pc = "sending", !.to = @ \union {c},
                   !.from = IF event[e].pc = "waiting" THEN live ELSE @,
                   !.dead = IF fails THEN @ \union {c} ELSE @]

(* The next connection of the loop.  A client that is gone may still be sent *)
(* to for a while, without receiving anything.                               *)
Visit(e, c) ==
  /\ Open(e) /\ Holds(e) /\ SameSize(e)
  /\ c \in live \ event[e].to
  /\ \E fails \in {TRUE, FALSE} : /\ fails => c \in cut
                                  /\ event' = [event EXCEPT ![e] = Offered(e, c, fails)]
  /\ IF c \in cut THEN UNCHANGED seen ELSE Receives(c, e)
  /\ UNCHANGED <<turn, streamVars, live, connVars>>

Trimmed(s) == IF Len(s) > BufferSize THEN Tail(s) ELSE s

(* Mutated: the buffer is filled from its other end.                         *)
BufferedFirst(e) == Trimmed(<<e>> \o buffer)
Buffered(e) == Trimmed(Append(buffer, e))

Ended(e, pc) == [event EXCEPT ![e] = [@ EXCEPT !.pc = pc, !.by = None, !.from = {},
                                               !.to = {}, !.dead = {}]]

(* The loop is at its end: the dead are dropped, the lock is released, the   *)
(* event enters the buffer.  A connection that took the place of another     *)
(* may or may not be visited.                                                *)
Finish(e) ==
  /\ Open(e) /\ Holds(e) /\ SameSize(e)
  /\ IF event[e].pc = "waiting" THEN live = {}
     ELSE live \intersect event[e].from \subseteq event[e].to
  /\ live' = live \ event[e].dead
  /\ event' = Ended(e, "done")
  /\ turn' = Tail(turn)
  /\ buffer' = Buffered(e)
  /\ skipped' = skipped \union
       {<<conn[c].of, e>> : c \in {d \in live : event[e].pc = "sending" /\ d \notin event[e].to}}
  /\ UNCHANGED <<old, life, conn, cut, seen, blind>>

(* Mutated: the lock is not released.                                        *)
RaiseHolding(e) ==
  /\ Open(e) /\ Holds(e) /\ ~SameSize(e)
  /\ event' = Ended(e, "failed")
  /\ UNCHANGED <<turn, streamVars, live, connVars, seen>>

Raise(e) ==
  /\ Open(e) /\ Holds(e) /\ ~SameSize(e)
  /\ event' = Ended(e, "failed")
  /\ turn' = Tail(turn)
  /\ UNCHANGED <<streamVars, live, connVars, seen>>

-----------------------------------------------------------------------------
(* replay_since.  An id names an event only within one life of the server.   *)

(* The filter by timestamp: the buffer is in their order, so that those that *)
(* have expired come first.                                                  *)
Expired == CHOOSE n \in 0 .. Len(buffer) : \A i \in DOMAIN buffer : buffer[i] <= old <=> i <= n
Fresh == SubSeq(buffer, Expired + 1, Len(buffer))
Anchors(id) == {i \in DOMAIN Fresh : event[Fresh[i]].id = id}
FreshFrom(i) == SubSeq(Fresh, i, Len(Fresh))

(* Mutated: the anchor itself is replayed too.                               *)
ReplayInclusive(id) ==
  IF Anchors(id) = {} THEN Fresh ELSE FreshFrom(CHOOSE i \in Anchors(id) : TRUE)

(* Mutated: an id that is not in the buffer gets nothing.                    *)
ReplayKnown(id) ==
  IF Anchors(id) = {} THEN << >> ELSE FreshFrom(1 + CHOOSE i \in Anchors(id) : TRUE)

Replay(id) ==
  IF Anchors(id) = {} THEN Fresh ELSE FreshFrom(1 + CHOOSE i \in Anchors(id) : TRUE)

-----------------------------------------------------------------------------
(* The endpoint and its client.                                              *)

Done == {e \in Events : event[e].pc = "done"}
Built == {e \in Events : event[e].pc # "none"}
LastSeen(k) == seen[k][Len(seen[k])]
Listens(c) == conn[c].pc \in {"replaying", "listening"}
Of(k) == {c \in Conns : conn[c].of = k}

(* accept; then, without an await, the live set and the replay's snapshot.   *)
(* Without a Last-Event-ID there is no replay.                               *)
Connect(c, k) ==
  LET returns == seen[k] # << >>
      rest == IF returns THEN Replay(event[LastSeen(k)].id) ELSE << >>
      mine == returns /\ LastSeen(k) >= life
  IN /\ conn[c].pc = "none" /\ \A b \in Conns : b < c => conn[b].pc # "none"
     /\ Of(k) \subseteq cut
     /\ conn' = [conn EXCEPT ![c] = [pc |-> IF rest = << >> THEN "listening" ELSE "replaying",
                                     of |-> k, rest |-> rest]]
     /\ live' = live \union {c}
     /\ skipped' = skipped \union
          {<<k, e>> : e \in IF mine THEN Done \ Elems(Fresh) ELSE Done}
     /\ blind' = IF returns /\ (\/ ~mine \/ LastSeen(k) \notin Elems(Fresh)
                                \/ \E e \in Elems(seen[k]) : e > LastSeen(k))
                 THEN blind \union {k} ELSE blind
     /\ UNCHANGED <<event, turn, streamVars, cut, seen>>

(* The next event of the replay.  If sending raises, the endpoint is left    *)
(* before its try statement: the connection stays in the live set.           *)
ReplaySend(c) ==
  LET rest == Tail(conn[c].rest) IN
  /\ conn[c].pc = "replaying"
  /\ IF c \in cut THEN UNCHANGED seen ELSE Receives(c, Head(conn[c].rest))
  /\ \/ conn' = [conn EXCEPT ![c].rest = rest,
                   ![c].pc = IF rest = << >> THEN "listening" ELSE @]
     \/ c \in cut /\ conn' = [conn EXCEPT ![c].rest = << >>, ![c].pc = "closed"]
  /\ UNCHANGED <<event, turn, streamVars, live, cut, skipped, blind>>

(* The client is gone.  If a live event has overtaken the replay, what was   *)
(* left of it lies behind the id that the client will come back with.        *)
Cut(c) ==
  LET k == conn[c].of IN
  /\ Listens(c) /\ c \notin cut
  /\ cut' = cut \union {c}
  /\ skipped' = skipped \union
       {<<k, e>> : e \in {d \in Elems(conn[c].rest) : seen[k] # << >> /\ d < LastSeen(k)}}
  /\ UNCHANGED <<event, turn, streamVars, live, conn, seen, blind>>

(* receive_text raises: the heartbeat is cancelled, also within its broadcast*)
(* or while it waits for the lock, and the connection leaves the live set.   *)
Hangup(c) ==
  LET beats == {e \in Events : Open(e) /\ event[e].by = c} IN
  /\ conn[c].pc = "listening" /\ c \in cut
  /\ conn' = [conn EXCEPT ![c].pc = "closed"]
  /\ live' = live \ {c}
  /\ event' = [e \in Events |-> IF e \in beats THEN Ended(e, "failed")[e] ELSE event[e]]
  /\ turn' = IF beats = {} THEN turn
             ELSE Without(turn, CHOOSE i \in DOMAIN turn : turn[i] \in beats)
  /\ UNCHANGED <<streamVars, cut, seen, skipped, blind>>

(* A buffered event gets older than the TTL.                                 *)
Expire ==
  /\ Fresh # << >>
  /\ old' = Head(Fresh)
  /\ UNCHANGED <<event, turn, buffer, live, connVars, seen, life>>

(* The server dies or is stopped; its buffer and its counter start anew.     *)
Restart ==
  /\ life = 1
  /\ life' = 1 + Cardinality(Built)
  /\ event' = [e \in Events |-> IF Open(e) THEN Ended(e, "failed")[e] ELSE event[e]]
  /\ turn' = << >> /\ buffer' = << >>
  /\ live' = {}
  /\ conn' = [c \in Conns |-> IF Listens(c) THEN [conn[c] EXCEPT !.pc = "closed", !.rest = << >>]
                              ELSE conn[c]]
  /\ cut' = {c \in Conns : conn[c].pc # "none"}
  /\ UNCHANGED <<old, seen, skipped, blind>>

Broadcast(e) == Finish(e) \/ Raise(e) \/ \E c \in Conns : Visit(e, c)

Next ==
  \/ \E e \in Events : Broadcast(e) \/ \E by \in Conns \union {None} : Build(e, by)
  \/ \E c \in Conns : \/ \E k \in Clients : Connect(c, k)
                      \/ ReplaySend(c) \/ Cut(c) \/ Hangup(c)
  \/ Expire \/ Restart

(* A send ends: uvicorn's keepalive closes a connection that does not answer.*)
Fairness == \A e \in Events : WF_vars(Broadcast(e))

Spec == Init /\ [][Next]_vars /\ Fairness

-----------------------------------------------------------------------------
(* Properties.                                                               *)

(* Every variable keeps its range; the lock is held by the only broadcast    *)
(* that has begun to send.                                                   *)
TypeOK ==
  /\ event \in [Events -> [pc : EventPCs, id : 0 .. NumEvents, by : Conns \union {None},
                           from : SUBSET Conns, to : SUBSET Conns, dead : SUBSET Conns]]
  /\ turn \in Seq(Events) /\ Elems(turn) = {e \in Events : Open(e)}
  /\ \A e \in Events : event[e].pc = "sending" => Holds(e)
  /\ buffer \in Seq(Events) /\ Elems(buffer) \subseteq Done /\ Len(buffer) <= BufferSize
  /\ old \in 0 .. NumEvents /\ life \in 1 .. NumEvents + 1
  /\ live \subseteq Conns /\ cut \subseteq Conns
  /\ conn \in [Conns -> [pc : ConnPCs, of : Clients \union {Nobody}, rest : Seq(Events)]]
  /\ \A c \in Conns : Listens(c) => c \in live \union cut
  /\ seen \in [Clients -> Seq(Events)]
  /\ skipped \subseteq Clients \X Events /\ blind \subseteq Clients

(* "Results preserve broadcast order" (FR-004): the buffer is in the order   *)
(* in which the events got their ids, although they wait for the lock, and   *)
(* every event and connection is well formed.                                *)
BufferInOrder ==
  /\ TypeOK
  /\ \A i, j \in DOMAIN buffer : i < j => buffer[i] < buffer[j]

(* "Resume exactly where the previous connection left off": a client that    *)
(* has its replay behind it has received every event that was broadcast to   *)
(* the end since it came, over all its connections, whatever was under way   *)
(* when it went and came back.  Excepted are events the buffer had lost at   *)
(* its return, those of an unfinished replay that a live event overtook, and *)
(* those whose fan-out began before its connection took another one's place. *)
NoGap ==
  \A c \in Conns : conn[c].pc = "listening" /\ c \notin cut =>
    \A e \in Done : e >= life /\ <<conn[c].of, e>> \notin skipped =>
      e \in Elems(seen[conn[c].of])

(* A client that presents its latest id, which the buffer still has, is not  *)
(* sent an event twice: what the replay holds and what is sent live are      *)
(* disjoint, also around the moment at which the client comes back.          *)
NoDuplicates ==
  \A k \in Clients \ blind : \A i, j \in DOMAIN seen[k] : seen[k][i] = seen[k][j] => i = j

(* Every broadcast ends, whether connections come, go or die during it, and  *)
(* so does every request and background task that waits for it.  An event is *)
(* broadcast once, so that all end if from some time on none is open.        *)
BroadcastsEnd == <>[](\A e \in Events : ~Open(e))
=============================================================================
