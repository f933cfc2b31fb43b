-------------------------- MODULE PreviewSessions ---------------------------
(* HLS preview sessions: PreviewManager (preview/manager.py) with the rows   *)
(* of preview_sessions (db/preview_repository.py), its tracking of           *)
(* generation tasks, and the requests that start, seek, stop and poll them   *)
(* (api/routers/preview.py).                                                 *)
(*                                                                           *)
(* A step is what one task does between two awaits.  A session is named by   *)
(* the request that started it, and a generation task by the request (start  *)
(* or seek) that created it.                                                 *)
EXTENDS Integers, FiniteSets

CONSTANTS
  NumReqs,      \* bound: the HTTP requests of a behaviour, 1 .. NumReqs
  MaxSessions,  \* settings.preview_max_sessions
  MaxStops,     \* bound: how often the server stops or crashes
  Env           \* what the environment of this instance does

PreviewEvents == {"expiry", "stop", "crash", "fault"}

ASSUME PreviewAssumption ==
  /\ NumReqs \in Nat
  /\ MaxSessions \in Nat
  /\ MaxStops \in Nat
  /\ Env \subseteq PreviewEvents

Reqs == 1 .. NumReqs
None == 0

VARIABLES
  row,       \* row[s]: status of session s in preview_sessions, or "absent"
  late,      \* sessions whose expires_at has passed
  req,       \* req[r]: place, kind, session, what it read, what it awaits
  gen,       \* gen[g]: the generation task of request g; told: its event is set
  tracked,   \* tracked[s]: the task in _generation_tasks
  handle,    \* handle[s]: whose cancel_event is in _cancel_events
  lock,      \* lock[s]: which object _session_locks holds (it is replaced)
  files,     \* files[s]: the task whose complete output the directory holds
  tangled,   \* history: sessions on which requests other than seeks overlapped
  stale,     \* history: sessions of an earlier life of the server
  stops

vars == <<row, late, req, gen, tracked, handle, lock, files, tangled, stale, stops>>

Status == {"initializing", "generating", "ready", "seeking", "error", "expired"}
Allowed == [initializing |-> {"generating", "error", "expired"},
            generating   |-> {"ready", "error", "expired"},
            ready        |-> {"seeking", "error", "expired"},
            seeking      |-> {"ready", "error", "expired"},
            error        |-> {"expired"},
            expired      |-> {},
            absent       |-> {}]

(* The places where _transition is called, and the status it asks for.       *)
Want == [toGenerating |-> "generating", toExpired |-> "expired",
         toReady |-> "ready", toSeeking |-> "seeking",
         genReady |-> "ready", genError |-> "error"]

ReqPCs == {"new", "add", "toGenerating", "announceGenerating", "clean", "toExpired",
           "delete", "lock", "seek", "toReady", "toSeeking", "announceSeeking", "done"}
GenPCs == {"none", "queued", "encoding", "fetch", "genReady", "announceReady",
           "fetchError", "genError", "announceError", "cancelled", "done"}

Live(s)   == row[s] # "absent"
Alive(g)  == gen[g].pc \notin {"none", "done"}
Active(r) == req[r].pc \notin {"new", "done"}

Init ==
  /\ row = [s \in Reqs |-> "absent"]
  /\ late = {}
  /\ req = [r \in Reqs |-> [pc |-> "new", kind |-> "none", s |-> None,
                            st |-> "absent", pend |-> FALSE, on |-> None, lk |-> 0]]
  /\ gen = [g \in Reqs |-> [pc |-> "none", st |-> "absent", pend |-> FALSE,
                            told |-> FALSE]]
  /\ tracked = [s \in Reqs |-> None]
  /\ handle = [s \in Reqs |-> None]
  /\ lock = [s \in Reqs |-> 0]
  /\ files = [s \in Reqs |-> None]
  /\ tangled = {} /\ stale = {}
  /\ stops = 0

rowVars   == <<row, late>>
taskVars  == <<gen, tracked, handle>>
histories == <<tangled, stale, stops>>

-----------------------------------------------------------------------------
(* A request begins on session s; they begin in the order of their numbers.  *)

Fresh(r) == req[r].pc = "new" /\ \A q \in Reqs : q < r => req[q].pc # "new"

(* Clients know a session once its start has broadcast preview.generating.   *)
Known(s) == Live(s) /\ req[s].pc \in {"announceGenerating", "done"}

Tangles(r, s, kind) ==
  tangled' = IF \E q \in Reqs \ {r} : /\ Active(q) /\ req[q].s = s
                                      /\ ~(kind = "seek" /\ req[q].kind = "seek")
             THEN tangled \union {s} ELSE tangled

(* What a request or a task remembers ends with it.                          *)
At(q, pc) == IF pc = "done"
             THEN [q EXCEPT !.pc = "done", !.st = "absent", !.pend = FALSE, !.on = None,
                            !.lk = 0]
             ELSE [q EXCEPT !.pc = pc]
Goes(r, pc) == req' = [req EXCEPT ![r] = At(@, pc)]
GenDone == [pc |-> "done", st |-> "absent", pend |-> FALSE, told |-> FALSE]

(* Set the cancel event, take the task out of the table, cancel it; r then   *)
(* awaits it at pc.  A task that has not run yet ends without its finally.   *)
Interrupts(r, s, kind, st, pc) ==
  LET g == tracked[s]
      waits == g # None /\ Alive(g)
      Told(h) == [gen[h] EXCEPT !.told = @ \/ (h = handle[s] /\ Alive(h))]
  IN /\ tracked' = [tracked EXCEPT ![s] = None]
     /\ gen' = [h \in Reqs |-> IF ~waits \/ h # g THEN Told(h)
                               ELSE IF gen[h].pc = "queued" THEN GenDone
                               ELSE [Told(h) EXCEPT !.pc = "cancelled"]]
     /\ req' = [req EXCEPT ![r].pc = pc, ![r].kind = kind, ![r].s = s, ![r].st = st,
                           ![r].on = IF waits THEN g ELSE None]
     /\ UNCHANGED handle

(* start: the limit is checked, and the row inserted an await later.         *)
StartCheck(r) ==
  /\ Fresh(r)
  /\ Cardinality({s \in Reqs : Live(s)}) < MaxSessions
  /\ req' = [req EXCEPT ![r].pc = "add", ![r].kind = "start", ![r].s = r]
  /\ UNCHANGED <<rowVars, taskVars, lock, files, histories>>

StartAdd(r) ==
  /\ req[r].pc = "add"
  /\ row' = [row EXCEPT ![r] = "initializing"]
  /\ req' = [req EXCEPT ![r].pc = "toGenerating", ![r].st = "initializing"]
  /\ UNCHANGED <<late, taskVars, lock, files, histories>>

(* The new task and its event enter the tables.                              *)
Registers(r, s) ==
  /\ tracked' = [tracked EXCEPT ![s] = r]
  /\ handle' = [handle EXCEPT ![s] = r]
  /\ gen' = [gen EXCEPT ![r].pc = "queued"]
  /\ Goes(r, "done")
  /\ UNCHANGED <<rowVars, lock, files, histories>>

StartSpawn(r) == req[r].pc = "announceGenerating" /\ Registers(r, req[r].s)

(* broadcast raises: the request ends with 500.                              *)
AnnounceFails(r) ==
  /\ "fault" \in Env
  /\ req[r].pc \in {"announceGenerating", "announceSeeking"}
  /\ Goes(r, "done")
  /\ UNCHANGED <<rowVars, taskVars, lock, files, histories>>

(* DELETE /preview/{id}.                                                     *)
StopRead(r, s) ==
  /\ Fresh(r) /\ Known(s)
  /\ Interrupts(r, s, "stop", row[s], "clean")
  /\ Tangles(r, s, "stop")
  /\ UNCHANGED <<rowVars, lock, files, stale, stops>>

(* GET status, manifest or segment: only one that finds the session expired  *)
(* changes anything.                                                         *)
StatusRead(r, s) ==
  /\ Fresh(r) /\ Known(s) /\ s \in late
  /\ Interrupts(r, s, "status", row[s], "clean")
  /\ Tangles(r, s, "status")
  /\ UNCHANGED <<rowVars, lock, files, stale, stops>>

SeekBegin(r, s) ==
  /\ Fresh(r) /\ Known(s)
  /\ req' = [req EXCEPT ![r].pc = "lock", ![r].kind = "seek", ![r].s = s,
                        ![r].lk = lock[s]]
  /\ Tangles(r, s, "seek")
  /\ UNCHANGED <<rowVars, taskVars, lock, files, stale, stops>>

-----------------------------------------------------------------------------
(* _cleanup_session, and what stop does after it.                            *)

Awaited(r) == \A g \in Reqs : g = req[r].on => ~Alive(g)

(* The lock and the event leave their tables, whoever uses them now.         *)
Forgets(r) ==
  /\ handle' = [handle EXCEPT ![req[r].s] = None]
  /\ lock' = [lock EXCEPT ![req[r].s] = @ + 1]
  /\ Goes(r, IF req[r].kind = "stop" THEN "delete" ELSE "done")

CleanFiles(r) ==
  /\ req[r].pc = "clean" /\ Awaited(r)
  /\ files' = [files EXCEPT ![req[r].s] = None]
  /\ IF req[r].st # "expired"
     THEN Goes(r, "toExpired") /\ UNCHANGED <<handle, lock>>
     ELSE Forgets(r)
  /\ UNCHANGED <<rowVars, gen, tracked, histories>>

(* Mutated: the row is kept, as status EXPIRED.                              *)
StopKeepsRow(r) ==
  /\ req[r].pc = "delete"
  /\ Goes(r, "done")
  /\ UNCHANGED <<rowVars, taskVars, lock, files, histories>>

StopDelete(r) ==
  /\ req[r].pc = "delete"
  /\ row' = [row EXCEPT ![req[r].s] = "absent"]
  /\ Goes(r, "done")
  /\ UNCHANGED <<late, taskVars, lock, files, histories>>

-----------------------------------------------------------------------------
(* seek, under the lock that it found.                                       *)

(* Mutated: seek waits for nobody.                                           *)
LockIgnored(r) == TRUE

Inside(r) == req[r].kind = "seek" /\ Active(r) /\ req[r].pc # "lock"
LockFree(r) ==
  \A q \in Reqs : Inside(q) => req[q].s # req[r].s \/ req[q].lk # req[r].lk

SeekRead(r) ==
  LET s == req[r].s IN
  /\ req[r].pc = "lock" /\ LockFree(r)
  /\ IF ~Live(s)
     THEN Goes(r, "done") /\ UNCHANGED taskVars
     ELSE Interrupts(r, s, "seek", row[s], IF s \in late THEN "clean" ELSE "seek")
  /\ UNCHANGED <<rowVars, lock, files, histories>>

SeekRefetch(r) ==
  LET s == req[r].s IN
  /\ req[r].pc = "seek" /\ Awaited(r)
  /\ IF ~Live(s)
     THEN Goes(r, "done") /\ UNCHANGED files
     ELSE /\ files' = [files EXCEPT ![s] = None]
          /\ req' = [req EXCEPT ![r].st = row[s],
                       ![r].pc = IF row[s] = "generating" THEN "toReady" ELSE "toSeeking"]
  /\ UNCHANGED <<rowVars, taskVars, lock, histories>>

SeekSpawn(r) ==
  /\ req[r].pc = "announceSeeking"
  /\ IF Live(req[r].s) THEN Registers(r, req[r].s)
     ELSE Goes(r, "done") /\ UNCHANGED <<rowVars, taskVars, lock, files, histories>>

-----------------------------------------------------------------------------
(* _transition: validate the caller's copy, then in the repository read,     *)
(* validate again, and in a later statement update whatever is there.        *)

Valid(st, s, want) ==
  /\ want \in Allowed[st]
  /\ Live(s) /\ (row[s] = want \/ want \in Allowed[row[s]])

Written(s, want) == [row EXCEPT ![s] = IF @ = "absent" THEN @ ELSE want]

Calling(r) == req[r].pc \in DOMAIN Want

TransitionRead(r) ==
  /\ Calling(r) /\ ~req[r].pend
  /\ IF Valid(req[r].st, req[r].s, Want[req[r].pc])
     THEN req' = [req EXCEPT ![r].pend = TRUE, ![r].st = Want[req[r].pc]]
     ELSE Goes(r, "done")
  /\ UNCHANGED <<rowVars, taskVars, lock, files, histories>>

TransitionWrite(r) ==
  LET s == req[r].s
      After == [toGenerating |-> "announceGenerating", toReady |-> "toSeeking",
                toSeeking |-> "announceSeeking",
                toExpired |-> IF req[r].kind = "stop" THEN "delete" ELSE "done"]
  IN /\ Calling(r) /\ req[r].pend
     /\ row' = Written(s, Want[req[r].pc])
     /\ req' = [req EXCEPT ![r] = At([@ EXCEPT !.pend = FALSE], After[@.pc])]
     /\ IF req[r].pc = "toExpired"
        THEN /\ handle' = [handle EXCEPT ![s] = None]
             /\ lock' = [lock EXCEPT ![s] = @ + 1]
        ELSE UNCHANGED <<handle, lock>>
     /\ UNCHANGED <<late, gen, tracked, files, histories>>

-----------------------------------------------------------------------------
(* _run_generation and _run_seek_generation, which differ in nothing here.   *)

S(g) == req[g].s

(* The finally clause takes out whatever the tables hold for the session.    *)
Ends(g) ==
  /\ gen' = [gen EXCEPT ![g] = GenDone]
  /\ tracked' = [tracked EXCEPT ![S(g)] = None]
  /\ handle' = [handle EXCEPT ![S(g)] = None]

Moves(g, pc) == gen' = [gen EXCEPT ![g].pc = pc] /\ UNCHANGED <<tracked, handle>>

(* The except clause: nothing more if the event is set.                      *)
Errs(g) == IF gen[g].told THEN Ends(g) ELSE Moves(g, "fetchError")

GenRuns(g) ==
  /\ gen[g].pc = "queued"
  /\ Moves(g, "encoding")
  /\ UNCHANGED <<rowVars, req, lock, files, histories>>

(* FFmpeg ends with 0; generate still removes everything if it was told to.  *)
GenEncoded(g) ==
  /\ gen[g].pc = "encoding"
  /\ IF gen[g].told
     THEN Ends(g) /\ files' = [files EXCEPT ![S(g)] = None]
     ELSE Moves(g, "fetch") /\ files' = [files EXCEPT ![S(g)] = g]
  /\ UNCHANGED <<rowVars, req, lock, histories>>

(* Mutated: a failed generation is reported like a good one.                 *)
GenFailsUnnoticed(g) ==
  /\ gen[g].pc = "encoding"
  /\ files' = [files EXCEPT ![S(g)] = None]
  /\ Moves(g, "fetch")
  /\ UNCHANGED <<rowVars, req, lock, histories>>

GenFails(g) ==
  /\ gen[g].pc = "encoding"
  /\ files' = [files EXCEPT ![S(g)] = None]
  /\ Errs(g)
  /\ UNCHANGED <<rowVars, req, lock, histories>>

GenFetch(g) ==
  /\ gen[g].pc \in {"fetch", "fetchError"}
  /\ IF ~Live(S(g)) THEN Ends(g)
     ELSE /\ gen' = [gen EXCEPT ![g].pc = IF @ = "fetch" THEN "genReady" ELSE "genError",
                                ![g].st = row[S(g)]]
          /\ UNCHANGED <<tracked, handle>>
  /\ UNCHANGED <<rowVars, req, lock, files, histories>>

(* A refused READY goes to the except clause.  A refused ERROR is suppressed *)
(* or raises, which at this point only decides whether it is broadcast.      *)
GenTransitionRead(g) ==
  /\ gen[g].pc \in {"genReady", "genError"} /\ ~gen[g].pend
  /\ IF Valid(gen[g].st, S(g), Want[gen[g].pc])
     THEN gen' = [gen EXCEPT ![g].pend = TRUE] /\ UNCHANGED <<tracked, handle>>
     ELSE IF gen[g].pc = "genReady" THEN Errs(g) ELSE Ends(g)
  /\ UNCHANGED <<rowVars, req, lock, files, histories>>

GenTransitionWrite(g) ==
  /\ gen[g].pc \in {"genReady", "genError"} /\ gen[g].pend
  /\ row' = Written(S(g), Want[gen[g].pc])
  /\ gen' = [gen EXCEPT ![g].pend = FALSE,
                        ![g].pc = IF @ = "genReady" THEN "announceReady" ELSE "announceError"]
  /\ UNCHANGED <<late, req, tracked, handle, lock, files, histories>>

GenAnnounces(g) ==
  /\ gen[g].pc \in {"announceReady", "announceError"}
  /\ Ends(g)
  /\ UNCHANGED <<rowVars, req, lock, files, histories>>

GenAnnounceFails(g) ==
  /\ "fault" \in Env /\ gen[g].pc = "announceReady"
  /\ Errs(g)
  /\ UNCHANGED <<rowVars, req, lock, files, histories>>

(* Mutated: the wait for the terminated FFmpeg has no timeout.               *)
GenNeverUnwinds(g) == FALSE

(* A cancelled task: its FFmpeg was terminated, and the wait for it is       *)
(* bounded.  A statement it had sent may still be executed.                  *)
GenUnwinds(g) ==
  /\ gen[g].pc = "cancelled"
  /\ Ends(g)
  /\ \/ UNCHANGED row
     \/ gen[g].pend /\ \E want \in {"ready", "error"} : row' = Written(S(g), want)
  /\ UNCHANGED <<late, req, lock, files, histories>>

-----------------------------------------------------------------------------
(* Time, and the life of the server.                                         *)

(* Nobody but a request that is still to read expires_at can tell.           *)
Expire(s) ==
  /\ "expiry" \in Env
  /\ Known(s) /\ s \notin late
  /\ \E r \in Reqs : req[r].pc \in {"new", "lock"}
  /\ late' = late \union {s}
  /\ UNCHANGED <<row, req, taskVars, lock, files, histories>>

(* Tasks, events and locks are gone; rows stay.                              *)
Restarts ==
  /\ stops < MaxStops
  /\ stops' = stops + 1
  /\ gen' = [g \in Reqs |-> IF Alive(g) THEN GenDone ELSE gen[g]]
  /\ tracked' = [s \in Reqs |-> None]
  /\ handle' = [s \in Reqs |-> None]
  /\ lock' = [s \in Reqs |-> 0]
  /\ stale' = {s \in Reqs : Live(s)}
  /\ UNCHANGED <<rowVars, tangled>>

(* cancel_all, once the requests are drained: no directory stays.            *)
Stop ==
  /\ "stop" \in Env /\ \A r \in Reqs : ~Active(r)
  /\ Restarts
  /\ files' = [s \in Reqs |-> None]
  /\ UNCHANGED req

Crash ==
  /\ "crash" \in Env
  /\ Restarts
  /\ req' = [r \in Reqs |-> IF Active(r) THEN At(req[r], "done") ELSE req[r]]
  /\ UNCHANGED files

Begin(r) ==
  \/ StartCheck(r)
  \/ \E s \in Reqs : StopRead(r, s) \/ StatusRead(r, s) \/ SeekBegin(r, s)

Handle(r) ==
  \/ StartAdd(r) \/ StartSpawn(r)
  \/ CleanFiles(r) \/ StopDelete(r)
  \/ SeekRead(r) \/ SeekRefetch(r) \/ SeekSpawn(r)
  \/ TransitionRead(r) \/ TransitionWrite(r)

(* What the event loop runs; when FFmpeg ends is up to FFmpeg.               *)
Generate(g) ==
  \/ GenRuns(g) \/ GenFetch(g) \/ GenTransitionRead(g) \/ GenTransitionWrite(g)
  \/ GenAnnounces(g) \/ GenUnwinds(g)

Ffmpeg(g) == GenEncoded(g) \/ GenFails(g)

Next ==
  \/ \E r \in Reqs : \/ Begin(r) \/ Handle(r) \/ AnnounceFails(r)
                     \/ Generate(r) \/ Ffmpeg(r) \/ GenAnnounceFails(r)
                     \/ Expire(r)
  \/ Stop \/ Crash

Fairness == \A r \in Reqs : WF_vars(Handle(r)) /\ WF_vars(Generate(r))

Spec == Init /\ [][Next]_vars /\ Fairness

-----------------------------------------------------------------------------
(* Properties.                                                               *)

(* Every variable keeps its range, and only a transition has a statement     *)
(* pending.                                                                  *)
TypeOK ==
  /\ row \in [Reqs -> Status \union {"absent"}]
  /\ late \subseteq Reqs
  /\ req \in [Reqs -> [pc : ReqPCs, kind : {"none", "start", "stop", "status", "seek"},
                       s : Reqs \union {None}, st : Status \union {"absent"},
                       pend : BOOLEAN, on : Reqs \union {None}, lk : Nat]]
  /\ gen \in [Reqs -> [pc : GenPCs, st : Status \union {"absent"}, pend : BOOLEAN,
                       told : BOOLEAN]]
  /\ tracked \in [Reqs -> Reqs \union {None}]
  /\ handle \in [Reqs -> Reqs \union {None}]
  /\ lock \in [Reqs -> Nat]
  /\ files \in [Reqs -> Reqs \union {None}]
  /\ \A r \in Reqs : /\ req[r].pend => Calling(r)
                     /\ gen[r].pend => gen[r].pc \in {"genReady", "genError", "cancelled"}
  /\ tangled \subseteq Reqs /\ stale \subseteq Reqs
  /\ stops \in 0 .. MaxStops

(* A generation that is still wanted can be stopped: it is the one task and  *)
(* the one event in the tables of its session, and the session has a row.    *)
(* Seeks may overlap at will; only a stop or an expiry that overlaps with a  *)
(* start or a seek of the same session leaves a generation nobody can stop.  *)
(* (And every row, request and task is well formed.)                         *)
LiveIsTracked ==
  /\ TypeOK
  /\ \A g \in Reqs :
       Alive(g) /\ gen[g].pc # "cancelled" /\ S(g) \notin tangled =>
         tracked[S(g)] = g /\ handle[S(g)] = g /\ Live(S(g))

(* A session that rests in READY has a complete set of segments, those of    *)
(* its last generation, unless the server has been restarted since.          *)
ReadyHasFiles ==
  \A s \in Reqs \ (tangled \union stale) :
    row[s] = "ready" /\ (\A r \in Reqs : Active(r) => req[r].s # s) => files[s] # None

(* stop "cancels generation and cleans up": after it nothing of the session  *)
(* is left, neither row nor segments nor task nor table entry.               *)
StopLeavesNothing ==
  \A r \in Reqs :
    req[r].kind = "stop" /\ req[r].pc = "done" /\ req[r].s \notin tangled \union stale =>
      /\ ~Live(req[r].s) /\ files[req[r].s] = None
      /\ tracked[req[r].s] = None /\ handle[req[r].s] = None
      /\ \A g \in Reqs : Alive(g) => S(g) # req[r].s

(* Every request is answered, although FFmpeg may hang for ever and seeks    *)
(* wait for each other's lock.  A request begins once, so that all are       *)
(* answered if from some time on none is under way.                          *)
RequestsAnswered == <>[](\A r \in Reqs : ~Active(r))

(* "409 INVALID_STATE_TRANSITION from seek: the session is in error or       *)
(* expired state" (docs/manual/ai-integration-patterns.md:534), and seek     *)
(* "starts new generation" (preview/manager.py:452): a session that says     *)
(* SEEKING has a request or a generation working on it.                      *)
SeekingIsServed ==
  \A s \in Reqs \ (tangled \union stale) :
    row[s] = "seeking" => \/ \E r \in Reqs : Active(r) /\ req[r].s = s
                          \/ \E g \in Reqs : Alive(g) /\ S(g) = s
=============================================================================
