---------------------------- MODULE PreviewProofs ---------------------------
(* Theorems about PreviewSessions, for any number of requests, sessions and  *)
(* restarts and every environment: a generation that is wanted can be        *)
(* stopped, a READY session has its segments, and stop leaves nothing.       *)
EXTENDS PreviewSessions, TLAPS

-----------------------------------------------------------------------------
(* Types, and the effects of the operators that the actions share.           *)

Statuses == Status \union {"absent"}

ReqRec == [pc : ReqPCs, kind : {"none", "start", "stop", "status", "seek"},
           s : Reqs \union {None}, st : Statuses, pend : BOOLEAN,
           on : Reqs \union {None}, lk : Nat]

GenRec == [pc : GenPCs, st : Statuses, pend : BOOLEAN, told : BOOLEAN]

TablesType ==
  /\ tracked \in [Reqs -> Reqs \union {None}]
  /\ handle \in [Reqs -> Reqs \union {None}]
  /\ lock \in [Reqs -> Nat]
  /\ files \in [Reqs -> Reqs \union {None}]

HistoryType == /\ late \subseteq Reqs /\ tangled \subseteq Reqs /\ stale \subseteq Reqs
               /\ stops \in 0 .. MaxStops

ReqType == /\ req \in [Reqs -> ReqRec]
           /\ \A r \in Reqs : req[r].pend => Calling(r)

GenType == /\ gen \in [Reqs -> GenRec]
           /\ \A g \in Reqs : gen[g].pend => gen[g].pc \in {"genReady", "genError", "cancelled"}

RowType == row \in [Reqs -> Statuses]

LEMMA TypeParts == TypeOK <=> RowType /\ ReqType /\ GenType /\ TablesType /\ HistoryType
BY DEF TypeOK, RowType, ReqType, GenType, TablesType, HistoryType, ReqRec, GenRec, Statuses

(* What Goes(r, pc) does.                                                    *)
Others(r) == \A q \in Reqs : q # r => req'[q] = req[q]

Keeps(r) == /\ req'[r].st = req[r].st /\ req'[r].pend = req[r].pend
            /\ req'[r].on = req[r].on /\ req'[r].lk = req[r].lk

Went(r, pc) ==
  /\ Others(r)
  /\ req'[r].pc = pc /\ req'[r].kind = req[r].kind /\ req'[r].s = req[r].s
  /\ IF pc = "done" THEN req'[r].st = "absent" /\ ~req'[r].pend ELSE Keeps(r)

LEMMA AtFacts ==
  ASSUME NEW q \in ReqRec, NEW pc \in ReqPCs
  PROVE  /\ At(q, pc) \in ReqRec
         /\ At(q, pc).pc = pc /\ At(q, pc).kind = q.kind /\ At(q, pc).s = q.s
         /\ pc = "done" => At(q, pc).st = "absent" /\ At(q, pc).pend = FALSE
         /\ pc # "done" => /\ At(q, pc).st = q.st /\ At(q, pc).pend = q.pend
                           /\ At(q, pc).on = q.on /\ At(q, pc).lk = q.lk
<1>1. CASE pc = "done"
  BY <1>1 DEF At, ReqRec, Statuses
<1>2. CASE pc # "done"
  BY <1>2 DEF At, ReqRec
<1> QED BY <1>1, <1>2

LEMMA GoesFacts ==
  ASSUME ReqType, NEW r \in Reqs, NEW pc \in ReqPCs, Goes(r, pc),
         req[r].pend => pc = "done"
  PROVE  Went(r, pc) /\ ReqType'
<1>1. req[r] \in ReqRec
  BY DEF ReqType
<1>2. req' = [req EXCEPT ![r] = At(req[r], pc)]
  BY DEF Goes
<1>3. req' \in [Reqs -> ReqRec] /\ req'[r] = At(req[r], pc) /\ Others(r)
  BY <1>1, <1>2, AtFacts DEF ReqType, Others
<1>4. Went(r, pc)
  <2> DEFINE n == At(req[r], pc)
  <2>1. /\ n.pc = pc /\ n.kind = req[r].kind /\ n.s = req[r].s
        /\ pc = "done" => n.st = "absent" /\ n.pend = FALSE
        /\ pc # "done" => /\ n.st = req[r].st /\ n.pend = req[r].pend
                          /\ n.on = req[r].on /\ n.lk = req[r].lk
    BY <1>1, AtFacts
  <2>2. req'[r] = n
    BY <1>3
  <2> HIDE DEF n
  <2> QED BY <2>1, <2>2, <1>3 DEF Went, Keeps
<1>5. ASSUME NEW q \in Reqs, req'[q].pend PROVE Calling(q)'
  <2>1. CASE q = r
    BY <2>1, <1>5, <1>4 DEF Went, Keeps
  <2>2. CASE q # r
    BY <2>2, <1>5, <1>3 DEF ReqType, Calling, Others
  <2> QED BY <2>1, <2>2
<1> QED BY <1>3, <1>4, <1>5 DEF ReqType

(* What Interrupts does: the task in the table, and nobody else, ends or is  *)
(* cancelled and awaited; whoever holds the event is told.                   *)
Same(h) == gen'[h].pc = gen[h].pc /\ (gen'[h].told <=> gen[h].told)

Becomes(r, kind, s, st, pc) ==
  /\ Others(r)
  /\ req'[r].pc = pc /\ req'[r].kind = kind /\ req'[r].s = s /\ req'[r].st = st
  /\ ~req'[r].pend /\ req'[r].lk = req[r].lk

Interrupted(r, s) ==
  /\ tracked' = [tracked EXCEPT ![s] = None] /\ handle' = handle
  /\ \A h \in Reqs : h # tracked[s] => /\ gen'[h].pc = gen[h].pc
                                       /\ h # handle[s] \/ ~Alive(h) => Same(h)
  /\ \A h \in Reqs : h = tracked[s] =>
       IF Alive(h) THEN /\ gen'[h].pc \in {"done", "cancelled"}
                        /\ req'[r].on = h
       ELSE gen'[h].pc = gen[h].pc

LEMMA InterruptsFacts ==
  ASSUME ReqType, GenType, TablesType, NEW r \in Reqs, NEW s \in Reqs,
         NEW kind \in {"stop", "status", "seek"}, NEW st \in Statuses,
         NEW pc \in {"clean", "seek"}, ~req[r].pend, Interrupts(r, s, kind, st, pc)
  PROVE  /\ ReqType' /\ GenType' /\ tracked' \in [Reqs -> Reqs \union {None}]
         /\ Becomes(r, kind, s, st, pc) /\ Interrupted(r, s)
<1> DEFINE g == tracked[s]
           waits == g # None /\ Alive(g)
           Told(h) == [gen[h] EXCEPT !.told = @ \/ (h = handle[s] /\ Alive(h))]
           on == IF waits THEN g ELSE None
<1>1. /\ tracked' = [tracked EXCEPT ![s] = None]
      /\ gen' = [h \in Reqs |-> IF ~waits \/ h # g THEN Told(h)
                                ELSE IF gen[h].pc = "queued" THEN GenDone
                                ELSE [Told(h) EXCEPT !.pc = "cancelled"]]
      /\ req' = [req EXCEPT ![r].pc = pc, ![r].kind = kind, ![r].s = s, ![r].st = st,
                            ![r].on = on]
      /\ handle' = handle
  BY Zenon DEF Interrupts
<1>2. g \in Reqs \union {None} /\ on \in Reqs \union {None} /\ None \notin Reqs
  BY DEF TablesType, None, Reqs
<1>3. \A h \in Reqs : /\ gen[h] \in GenRec /\ Told(h) \in GenRec
                      /\ Told(h).pc = gen[h].pc /\ Told(h).pend = gen[h].pend
                      /\ Told(h).told <=> gen[h].told \/ (h = handle[s] /\ Alive(h))
  BY DEF GenType, GenRec
<1>4. GenDone \in GenRec /\ GenDone.pc = "done" /\ GenDone.pend = FALSE
  BY DEF GenDone, GenRec, GenPCs, Statuses
<1>5. \A h \in Reqs : /\ [Told(h) EXCEPT !.pc = "cancelled"] \in GenRec
                      /\ [Told(h) EXCEPT !.pc = "cancelled"].pc = "cancelled"
  BY <1>3, ZenonT(40) DEF GenRec, GenPCs
<1> HIDE DEF Told
<1>6. ASSUME NEW h \in Reqs
      PROVE  /\ gen'[h] \in GenRec
             /\ ~waits \/ h # g => gen'[h] = Told(h)
             /\ waits /\ h = g => gen'[h].pc \in {"done", "cancelled"}
             /\ gen'[h].pend => gen'[h].pc \in {"genReady", "genError", "cancelled"}
  <2>1. CASE ~waits \/ h # g
    <3>1. gen'[h] = Told(h)
      BY <1>1, <2>1
    <3> QED BY <3>1, <2>1, <1>3 DEF GenType
  <2>2. CASE ~(~waits \/ h # g) /\ gen[h].pc = "queued"
    <3>1. gen'[h] = GenDone
      BY <1>1, <2>2
    <3> QED BY <3>1, <2>2, <1>4
  <2>3. CASE ~(~waits \/ h # g) /\ gen[h].pc # "queued"
    <3>1. gen'[h] = [Told(h) EXCEPT !.pc = "cancelled"]
      BY <1>1, <2>3
    <3> QED BY <3>1, <2>3, <1>5
  <2> QED BY <2>1, <2>2, <2>3
<1>7. GenType'
  <2>1. DOMAIN gen' = Reqs /\ gen' = [h \in Reqs |-> gen'[h]]
    BY <1>1
  <2> QED BY <2>1, <1>6 DEF GenType
<1>8. tracked' \in [Reqs -> Reqs \union {None}]
  BY <1>1 DEF TablesType
<1>9. req[r] \in ReqRec
  BY DEF ReqType
<1>10. /\ req' \in [Reqs -> ReqRec] /\ Others(r)
       /\ req'[r].pc = pc /\ req'[r].kind = kind /\ req'[r].s = s /\ req'[r].st = st
       /\ req'[r].pend = req[r].pend /\ req'[r].lk = req[r].lk /\ req'[r].on = on
  <2>1. pc \in ReqPCs
    BY DEF ReqPCs
  <2> HIDE DEF on
  <2>2. /\ req'[r] \in ReqRec
        /\ req'[r].pc = pc /\ req'[r].kind = kind /\ req'[r].s = s /\ req'[r].st = st
        /\ req'[r].pend = req[r].pend /\ req'[r].lk = req[r].lk /\ req'[r].on = on
    BY <1>1, <1>2, <1>9, <2>1 DEF ReqType, ReqRec
  <2>3. \A q \in Reqs : q # r => req'[q] = req[q]
    BY <1>1 DEF ReqType
  <2>4. DOMAIN req' = Reqs /\ req' = [q \in Reqs |-> req'[q]]
    BY <1>1 DEF ReqType
  <2> QED BY <2>2, <2>3, <2>4 DEF ReqType, Others
<1>11. ~req'[r].pend
  BY <1>10
<1>12. ReqType'
  BY <1>10, <1>11 DEF ReqType, Calling, Others
<1>13. Becomes(r, kind, s, st, pc)
  BY <1>10, <1>11 DEF Becomes
<1>14. Interrupted(r, s)
  <2>1. ASSUME NEW h \in Reqs, h # tracked[s]
        PROVE  /\ gen'[h].pc = gen[h].pc
               /\ h # handle[s] \/ ~Alive(h) => Same(h)
    BY <1>3, <1>6, <2>1 DEF Same
  <2>2. ASSUME NEW h \in Reqs, h = tracked[s], Alive(h)
        PROVE  gen'[h].pc \in {"done", "cancelled"} /\ req'[r].on = h
    <3>1. waits /\ on = h
      BY <1>2, <2>2
    <3> QED BY <1>6, <1>10, <2>2, <3>1
  <2>3. ASSUME NEW h \in Reqs, h = tracked[s], ~Alive(h)
        PROVE  gen'[h].pc = gen[h].pc
    BY <1>3, <1>6, <2>3
  <2> QED BY <1>1, <2>1, <2>2, <2>3 DEF Interrupted
<1> QED BY <1>7, <1>8, <1>12, <1>13, <1>14

(* What Registers does.                                                      *)
LEMMA RegistersFacts ==
  ASSUME ReqType, GenType, TablesType, NEW r \in Reqs, NEW s \in Reqs,
         gen[r].pc = "none", Registers(r, s)
  PROVE  /\ ReqType' /\ GenType' /\ TablesType' /\ Went(r, "done")
         /\ gen'[r].pc = "queued" /\ (gen'[r].told <=> gen[r].told)
         /\ \A h \in Reqs : h # r => gen'[h] = gen[h]
         /\ tracked' = [tracked EXCEPT ![s] = r] /\ handle' = [handle EXCEPT ![s] = r]
         /\ UNCHANGED <<rowVars, lock, files, histories>>
<1>1. Goes(r, "done") /\ gen' = [gen EXCEPT ![r].pc = "queued"]
      /\ tracked' = [tracked EXCEPT ![s] = r] /\ handle' = [handle EXCEPT ![s] = r]
      /\ UNCHANGED <<rowVars, lock, files, histories>>
  BY DEF Registers
<1>2. Went(r, "done") /\ ReqType'
  BY <1>1, GoesFacts DEF ReqPCs
<1>3. TablesType'
  BY <1>1 DEF TablesType, rowVars, histories
<1>4. gen[r] \in GenRec
  BY DEF GenType
<1>5. /\ gen' \in [Reqs -> GenRec] /\ gen'[r].pc = "queued" /\ gen'[r].told = gen[r].told
      /\ \A h \in Reqs : h # r => gen'[h] = gen[h]
  BY <1>1, <1>4 DEF GenType, GenRec, GenPCs
<1>6. GenType'
  <2>1. gen'[r].pend = gen[r].pend
    BY <1>1, <1>4 DEF GenType, GenRec
  <2> QED BY <1>5, <2>1 DEF GenType
<1> QED BY <1>1, <1>2, <1>3, <1>5, <1>6

(* What the actions of a generation do to the tables.                        *)
OtherGens(g) == \A h \in Reqs : h # g => gen'[h] = gen[h]

Moved(g, pc) == /\ OtherGens(g) /\ gen'[g].pc = pc /\ (gen'[g].told <=> gen[g].told)
                /\ tracked' = tracked /\ handle' = handle

LEMMA MovesFacts ==
  ASSUME GenType, NEW g \in Reqs, NEW pc \in GenPCs, Moves(g, pc), ~gen[g].pend
  PROVE  GenType' /\ Moved(g, pc)
<1>1. gen[g] \in GenRec
  BY DEF GenType
<1>2. /\ gen' \in [Reqs -> GenRec] /\ OtherGens(g) /\ gen'[g].pc = pc
      /\ gen'[g].told = gen[g].told /\ gen'[g].pend = gen[g].pend
      /\ tracked' = tracked /\ handle' = handle
  BY <1>1 DEF Moves, GenType, GenRec, OtherGens
<1> QED BY <1>2 DEF GenType, OtherGens, Moved

Ended(g) == /\ OtherGens(g) /\ gen'[g].pc = "done"
            /\ tracked' = [tracked EXCEPT ![S(g)] = None]
            /\ handle' = [handle EXCEPT ![S(g)] = None]

LEMMA EndsFacts ==
  ASSUME GenType, TablesType, NEW g \in Reqs, Ends(g)
  PROVE  /\ GenType' /\ Ended(g)
         /\ tracked' \in [Reqs -> Reqs \union {None}]
         /\ handle' \in [Reqs -> Reqs \union {None}]
<1>1. GenDone \in GenRec /\ GenDone.pc = "done" /\ GenDone.pend = FALSE
  BY DEF GenDone, GenRec, GenPCs, Statuses
<1>2. /\ gen' \in [Reqs -> GenRec] /\ OtherGens(g) /\ gen'[g] = GenDone
      /\ tracked' = [tracked EXCEPT ![S(g)] = None]
      /\ handle' = [handle EXCEPT ![S(g)] = None]
  BY <1>1 DEF Ends, GenType, OtherGens
<1>3. ~gen'[g].pend
  BY <1>1, <1>2
<1> QED BY <1>1, <1>2, <1>3 DEF GenType, OtherGens, Ended, TablesType

-----------------------------------------------------------------------------
(* The invariant.  First, of every session: who is who.                      *)

On(s) == {r \in Reqs : Active(r) /\ req[r].s = s}
Of(s) == {g \in Reqs : Alive(g) /\ S(g) = s}

Places == [none   |-> {"new"},
           start  |-> {"add", "toGenerating", "announceGenerating", "done"},
           stop   |-> {"clean", "toExpired", "delete", "done"},
           status |-> {"clean", "toExpired", "done"},
           seek   |-> {"lock", "clean", "toExpired", "seek", "toReady", "toSeeking",
                       "announceSeeking", "done"}]

Begun == {"announceGenerating", "done"}

RequestOK(r) ==
  /\ req[r].pc \in Places[req[r].kind]
  /\ req[r].kind # "none" => req[r].s \in Reqs
  /\ req[r].kind = "start" => req[r].s = r
  /\ req[r].kind \notin {"none", "start"} =>
       req[req[r].s].kind = "start" /\ req[req[r].s].pc \in Begun
  /\ req[r].pend => req[r].st = Want[req[r].pc]
  /\ Live(r) => req[r].kind = "start" /\ req[r].pc # "add"
  /\ IF gen[r].pc = "none" THEN ~gen[r].told ELSE req[r].pc = "done"

TableOK(s) ==
  /\ tracked[s] # None => gen[tracked[s]].pc # "none" /\ S(tracked[s]) = s
  /\ handle[s] # None => gen[handle[s]].pc # "none" /\ S(handle[s]) = s

(* A lock has one holder.                                                    *)
Turns ==
  \A q, r \in Reqs : Inside(q) /\ Inside(r) /\ req[q].s = req[r].s
                     /\ req[q].lk = req[r].lk => q = r

Origins == Turns /\ \A r \in Reqs : RequestOK(r) /\ TableOK(r)

(* Then, of a session that is not tangled.  Its requests: several only if    *)
(* they are seeks.                                                           *)
Apart(s) == \A q, r \in On(s) : q = r \/ (req[q].kind = "seek" /\ req[r].kind = "seek")

(* They all wait for the lock of the table; or the session has been cleaned  *)
(* up, and whoever holds an old lock finds only that.                        *)
Over(s) ==
  /\ s \in late /\ row[s] = "expired" /\ Of(s) = {}
  /\ \A r \in On(s) : /\ req[r].kind = "seek"
                      /\ req[r].pc = "lock" \/ (req[r].pc = "clean" /\ req[r].st = "expired")

OneLock(s) == Over(s) \/ \A r \in On(s) : req[r].kind = "seek" => req[r].lk = lock[s]

(* One generation, in both tables; or cancelled, and awaited by a request.   *)
(* Wherever a request neither waits for the lock nor for a generation, there *)
(* is none.                                                                  *)
OneTask(s) ==
  /\ \A g, h \in Of(s) : g = h
  /\ \A g \in Of(s) :
       /\ row[s] \notin {"expired", "absent"}
       /\ IF gen[g].pc = "cancelled"
          THEN /\ tracked[s] = None
               /\ \E r \in On(s) : req[r].pc \in {"clean", "seek"} /\ req[r].on = g
          ELSE tracked[s] = g /\ handle[s] = g /\ ~gen[g].told
       /\ \A r \in On(s) : \/ req[r].pc = "lock"
                           \/ /\ req[r].pc \in {"clean", "seek"} /\ req[r].on = g
                              /\ gen[g].pc = "cancelled"
  /\ tracked[s] # None => tracked[s] \in Of(s)

(* What a request has read still holds.                                      *)
StepOK(r, s) ==
  /\ req[r].pc # "add" => Live(s)
  /\ req[r].pc = "toReady" /\ ~req[r].pend => req[r].st = "generating" /\ row[s] = "generating"
  /\ req[r].pc = "toSeeking" /\ ~req[r].pend => req[r].st = row[s]
  /\ req[r].pc = "clean" => req[r].st # "absent" /\ (req[r].st = "expired" => row[s] = "expired")
  /\ req[r].pc = "toExpired" /\ ~req[r].pend => req[r].st \notin {"absent", "expired"}
  /\ req[r].pc \in {"clean", "toExpired"} /\ req[r].kind # "stop" => s \in late
  /\ req[r].pc \in {"announceGenerating", "announceSeeking"} =>
       row[s] \in {"generating", "seeking"}
  /\ req[r].pc \in {"toExpired", "delete"} => files[s] = None
  /\ req[r].pc = "delete" => handle[s] = None

(* The places from which a request goes on to another status than READY.     *)
Owing == {"clean", "seek", "toExpired", "toReady", "toSeeking", "delete"}

Stocked(s) ==
  /\ \A g \in Of(s) :
       /\ gen[g].pc \in {"queued", "encoding"} => row[s] # "ready"
       /\ gen[g].pc \in {"fetch", "genReady", "announceReady"} => files[s] = g
  /\ row[s] = "ready" /\ s \notin stale =>
       files[s] # None \/ \E r \in On(s) : req[r].pc \in Owing
  /\ ~Live(s) => files[s] = None /\ tracked[s] = None /\ handle[s] = None /\ Of(s) = {}

Calm(s) == /\ Apart(s) /\ OneLock(s) /\ OneTask(s) /\ Stocked(s)
           /\ \A r \in On(s) : StepOK(r, s)

Done(r) == req[r].kind = "stop" /\ req[r].pc = "done"

Gone(r) == Done(r) /\ req[r].s \notin tangled \union stale => ~Live(req[r].s)

PreviewInv == /\ TypeOK /\ Origins
              /\ \A s \in Reqs \ tangled : Calm(s)
              /\ \A r \in Reqs : Gone(r)

-----------------------------------------------------------------------------
(* A step of a request or generation r on session x leaves the others alone. *)

Frames(s) ==
  /\ row'[s] = row[s] /\ tracked'[s] = tracked[s] /\ handle'[s] = handle[s]
  /\ lock'[s] = lock[s] /\ files'[s] = files[s]

Only(r, x) ==
  /\ Others(r) /\ req'[r].s = x
  /\ req[r].pc # "new" => req'[r].s = req[r].s /\ req'[r].kind = req[r].kind
  /\ req[r].pc \in Begun => req'[r].pc \in Begun
  /\ req[r].pc = "done" => req'[r].pc = "done"
  /\ \A s \in Reqs : s # x => Frames(s)
  /\ \A h \in Reqs : S(h) # x => Same(h)
  /\ \A h \in Reqs : /\ gen[h].pc # "none" => gen'[h].pc # "none"
                     /\ gen[h].pc = "none" => h = r \/ Same(h)
  /\ Live(x)' => Live(x) \/ (x = r /\ req[r].pc \notin Begun)
  /\ tracked'[x] \in {None, tracked[x]} \/ (tracked'[x] = r /\ gen'[r].pc # "none")
  /\ handle'[x] \in {None, handle[x]} \/ (handle'[x] = r /\ gen'[r].pc # "none")
  /\ late' = late /\ stale' = stale /\ tangled \subseteq tangled'

LEMMA Frame ==
  ASSUME NEW s \in Reqs, Calm(s), Frames(s), s \in late => s \in late',
         s \in stale => s \in stale',
         On(s)' = On(s), \A r \in On(s) : req'[r] = req[r],
         Of(s)' = Of(s), \A g \in Of(s) : Same(g)
  PROVE  Calm(s)'
<1> USE DEF Frames
<1>1. Apart(s)'
  BY DEF Calm, Apart
<1>2. OneLock(s)'
  <2>1. CASE Over(s)
    <3>1. Over(s)'
      BY <2>1 DEF Over
    <3> QED BY <3>1 DEF OneLock
  <2>2. CASE ~Over(s)
    BY <2>2 DEF Calm, OneLock
  <2> QED BY <2>1, <2>2
<1>3. OneTask(s)'
  <2>1. \A g, h \in Of(s)' : g = h
    BY DEF Calm, OneTask
  <2>2. tracked'[s] # None => tracked'[s] \in Of(s)'
    BY DEF Calm, OneTask
  <2>3. ASSUME NEW g \in Of(s)
        PROVE  /\ row'[s] \notin {"expired", "absent"}
               /\ IF gen'[g].pc = "cancelled"
                  THEN /\ tracked'[s] = None
                       /\ \E r \in On(s)' : req'[r].pc \in {"clean", "seek"} /\ req'[r].on = g
                  ELSE tracked'[s] = g /\ handle'[s] = g /\ ~gen'[g].told
               /\ \A r \in On(s)' : \/ req'[r].pc = "lock"
                                    \/ /\ req'[r].pc \in {"clean", "seek"} /\ req'[r].on = g
                                       /\ gen'[g].pc = "cancelled"
    BY <2>3 DEF Calm, OneTask, Same
  <2> QED BY <2>1, <2>2, <2>3 DEF OneTask
<1>4. Stocked(s)'
  BY DEF Calm, Stocked, Same, Live
<1>5. \A r \in On(s)' : StepOK(r, s)'
  BY DEF Calm, StepOK, Live
<1> QED BY <1>1, <1>2, <1>3, <1>4, <1>5 DEF Calm

LEMMA Elsewhere ==
  ASSUME PreviewInv, NEW r \in Reqs, NEW x \in Reqs, Only(r, x)
  PROVE  /\ \A q \in Reqs : q # r => RequestOK(q)'
         /\ \A s \in Reqs : TableOK(s)'
         /\ \A s \in Reqs \ tangled' : s # x => Calm(s)'
         /\ \A q \in Reqs : q # r => Gone(q)'
<1> USE DEF Only
<1>0. None \notin Reqs
  BY DEF None, Reqs
<1>1. \A q \in Reqs : /\ req[q].pc \in Places[req[q].kind] /\ req[q].kind \in DOMAIN Places
                      /\ gen[q].pc # "none" => req[q].pc = "done"
                      /\ req[q].kind # "none" => req[q].s \in Reqs
  BY TypeParts DEF PreviewInv, Origins, RequestOK, ReqType, ReqRec, Places
<1>2. \A q \in Reqs : req[q].pc = "new" <=> req[q].kind = "none"
  BY <1>1 DEF Places
<1>3. ASSUME NEW q \in Reqs, q # r PROVE RequestOK(q)'
  <2>1. req'[q] = req[q] /\ RequestOK(q)
    BY <1>3 DEF Others, PreviewInv, Origins
  <2>2. req[q].kind # "none" => req[q].s \in Reqs
    BY <1>1
  <2>3. req[q].kind \notin {"none", "start"} =>
          req'[req'[q].s].kind = "start" /\ req'[req'[q].s].pc \in Begun
    <3>1. CASE req[q].s = r
      BY <3>1, <2>1, <1>2 DEF RequestOK, Begun
    <3>2. CASE req[q].s # r
      BY <3>2, <2>1, <2>2 DEF RequestOK, Others
    <3> QED BY <3>1, <3>2
  <2>4. Live(q)' => Live(q)
    BY <1>3 DEF Frames, Live
  <2>5. IF gen'[q].pc = "none" THEN ~gen'[q].told ELSE req'[q].pc = "done"
    BY <1>3, <2>1 DEF RequestOK, Same
  <2> QED BY <2>1, <2>3, <2>4, <2>5 DEF RequestOK
<1>4. \A h \in Reqs : gen[h].pc # "none" => gen'[h].pc # "none" /\ S(h)' = S(h)
  <2> SUFFICES ASSUME NEW h \in Reqs, gen[h].pc # "none" PROVE S(h)' = S(h)
    OBVIOUS
  <2>1. req[h].pc = "done"
    BY <1>1
  <2> QED BY <2>1 DEF Others, S
<1>5. ASSUME NEW s \in Reqs PROVE TableOK(s)'
  <2>1. TableOK(s) /\ tracked[s] \in Reqs \union {None} /\ handle[s] \in Reqs \union {None}
    BY TypeParts DEF PreviewInv, Origins, TablesType
  <2>2. CASE s # x
    BY <2>1, <2>2, <1>4 DEF Frames, TableOK
  <2>3. CASE s = x
    BY <2>1, <2>3, <1>4 DEF TableOK, S
  <2> QED BY <2>2, <2>3
<1>6. ASSUME NEW s \in Reqs \ tangled', s # x PROVE Calm(s)'
  <2>1. Calm(s)
    BY <1>6 DEF PreviewInv
  <2>2. \A q \in Reqs : Active(q) /\ req[q].s = s => q # r
    BY <1>6 DEF Active
  <2>3. On(s)' = On(s) /\ \A q \in On(s) : req'[q] = req[q]
    BY <2>2, <1>6 DEF On, Others, Active
  <2>4. \A h \in Reqs : Alive(h) /\ S(h) = s => S(h)' = s /\ Same(h)
    BY <1>4, <1>6 DEF Alive
  <2>5. \A h \in Reqs : S(h)' = s => h # r /\ S(h) = s /\ Same(h)
    BY <1>6 DEF S, Others
  <2>6. Of(s)' = Of(s) /\ \A g \in Of(s) : Same(g)
    BY <2>4, <2>5 DEF Of, Same, Alive
  <2> QED BY <2>1, <2>3, <2>6, <1>6, Frame
<1>7. ASSUME NEW q \in Reqs, q # r PROVE Gone(q)'
  <2>1. req'[q] = req[q] /\ Gone(q) /\ RequestOK(q)
    BY <1>7 DEF Others, PreviewInv, Origins
  <2>2. ASSUME Done(q), Live(req[q].s)' PROVE Live(req[q].s)
    <3>1. req[q].s \in Reqs /\ req[req[q].s].kind = "start" /\ req[req[q].s].pc \in Begun
      BY <2>1, <2>2 DEF Done, RequestOK
    <3>2. PICK s \in Reqs : s = req[q].s
      BY <3>1
    <3>3. row'[s] # "absent"
      BY <2>1, <2>2, <3>2 DEF Live
    <3>4. CASE s # x
      BY <3>2, <3>3, <3>4 DEF Frames, Live
    <3>5. CASE s = x
      BY <3>1, <3>2, <3>3, <3>5 DEF Live
    <3> QED BY <3>4, <3>5
  <2> QED BY <2>1, <2>2 DEF Gone, Done
<1> QED BY <1>3, <1>5, <1>6, <1>7

-----------------------------------------------------------------------------
(* What the invariant says of one request.                                   *)

LEMMA Rules ==
  ASSUME PreviewInv, NEW r \in Reqs
  PROVE  /\ req[r] \in ReqRec /\ gen[r] \in GenRec /\ None \notin Reqs
         /\ req[r].pc \in Places[req[r].kind] /\ req[r].kind \in DOMAIN Places
         /\ req[r].pc = "new" <=> req[r].kind = "none"
         /\ req[r].pc # "new" => req[r].s \in Reqs
         /\ gen[r].pc # "none" => req[r].pc = "done"
         /\ Active(r) => r \in On(req[r].s)
         /\ Alive(r) => S(r) \in Reqs /\ r \in Of(S(r))
         /\ req[r].pend => Calling(r) /\ req[r].st = Want[req[r].pc]
<1>1. /\ req[r] \in ReqRec /\ gen[r] \in GenRec /\ None \notin Reqs
      /\ req[r].pend => Calling(r)
  BY TypeParts DEF PreviewInv, ReqType, GenType, None, Reqs
<1>2. RequestOK(r) /\ req[r].kind \in DOMAIN Places
  BY <1>1 DEF PreviewInv, Origins, Places, ReqRec
<1>3. req[r].pc = "new" <=> req[r].kind = "none"
  BY <1>2 DEF RequestOK, Places
<1> QED BY <1>1, <1>2, <1>3 DEF RequestOK, Active, Alive, On, Of, S

(* Whoever shares a session with a request that holds a lock waits for it,   *)
(* unless nothing is left to do.                                             *)
LEMMA Company ==
  ASSUME PreviewInv, NEW x \in Reqs \ tangled, NEW r \in On(x), req[r].pc # "lock",
         NEW q \in On(x), q # r
  PROVE  /\ req[q].kind = "seek" /\ req[r].kind = "seek"
         /\ Over(x) \/ (req[q].pc = "lock" /\ req[q].lk = lock[x] /\ req[r].lk = lock[x])
<1>1. Apart(x) /\ OneLock(x) /\ Turns
  BY DEF PreviewInv, Calm, Origins
<1>2. req[q].kind = "seek" /\ req[r].kind = "seek"
  BY <1>1 DEF Apart
<1>3. ASSUME ~Over(x)
      PROVE  req[q].pc = "lock" /\ req[q].lk = lock[x] /\ req[r].lk = lock[x]
  <2>1. req[q].lk = lock[x] /\ req[r].lk = lock[x]
    BY <1>1, <1>2, <1>3 DEF OneLock
  <2>2. CASE req[q].pc # "lock"
    BY <1>1, <1>2, <2>1, <2>2 DEF Turns, Inside, On
  <2> QED BY <2>1, <2>2
<1> QED BY <1>2, <1>3

(* A request that waits for nothing works on a session without a generation. *)
LEMMA Idle ==
  ASSUME PreviewInv, NEW x \in Reqs \ tangled, NEW r \in On(x), req[r].pc # "lock",
         req[r].pc \in {"clean", "seek"} => Awaited(r)
  PROVE  Of(x) = {} /\ tracked[x] = None
<1>1. OneTask(x)
  BY DEF PreviewInv, Calm
<1>2. Of(x) = {}
  BY <1>1 DEF OneTask, Awaited, Of
<1> QED BY <1>1, <1>2 DEF OneTask

(* The parts of the invariant that a step must establish itself.             *)
LEMMA Locally ==
  ASSUME PreviewInv, NEW r \in Reqs, NEW x \in Reqs, Only(r, x),
         RowType', ReqType', GenType', TablesType', HistoryType',
         RequestOK(r)', Turns', x \notin tangled' => Calm(x)', Gone(r)'
  PROVE  PreviewInv'
<1>1. /\ \A q \in Reqs : RequestOK(q)' /\ TableOK(q)' /\ Gone(q)'
      /\ \A s \in Reqs \ tangled' : Calm(s)'
  BY Elsewhere
<1>2. TypeOK'
  BY DEF TypeOK, RowType, ReqType, GenType, TablesType, HistoryType, ReqRec, GenRec, Statuses
<1>3. Origins'
  BY <1>1 DEF Origins
<1> QED BY <1>1, <1>2, <1>3 DEF PreviewInv

LEMMA TurnsKept ==
  ASSUME Turns, \A q \in Reqs : Inside(q)' => /\ Inside(q) /\ req'[q].s = req[q].s
                                              /\ req'[q].lk = req[q].lk
  PROVE  Turns'
BY DEF Turns

(* A step of a request that is under way and touches no generation.          *)
Advances(r, pc) ==
  /\ Others(r)
  /\ req'[r].pc = pc /\ req'[r].kind = req[r].kind /\ req'[r].s = req[r].s
  /\ pc # "done" => req'[r].lk = req[r].lk

LEMMA WentAdvances ==
  ASSUME NEW r, NEW pc, Went(r, pc)
  PROVE  Advances(r, pc)
BY DEF Went, Advances, Keeps

(* What the step owes to the invariant of its session.                       *)
Owes(r, x, pc) ==
  /\ req[r].pc # "lock" /\ Of(x) = {}
  /\ Over(x) => row'[x] = "expired" /\ pc = "done"
  /\ \/ lock'[x] = lock[x]
     \/ x \in late /\ row'[x] = "expired" /\ pc = "done"
     \/ req[r].kind # "seek"
  /\ req[r].kind = "seek" => Live(x)'
  /\ pc # "done" => StepOK(r, x)'
  /\ row'[x] = "ready" /\ x \notin stale => files'[x] # None \/ pc \in Owing
  /\ ~Live(x)' => files'[x] = None /\ handle'[x] = None

LEMMA RequestStep ==
  ASSUME PreviewInv, NEW r \in Reqs, NEW x \in Reqs, Active(r), req[r].s = x,
         NEW pc \in ReqPCs, Advances(r, pc), pc \in Places[req[r].kind],
         pc \notin {"new", "add", "lock"}, pc # "done" => req[r].pc # "lock",
         req[r].pc = "announceGenerating" => pc = "done",
         req'[r].pend => req'[r].st = Want[pc],
         RowType', ReqType', TablesType',
         UNCHANGED <<gen, tracked, late, histories>>,
         \A s \in Reqs : s # x => Frames(s), handle'[x] \in {None, handle[x]},
         Live(x)' => Live(x) \/ req[r].pc = "add",
         req[r].kind = "stop" /\ pc = "done" /\ x \notin tangled \union stale => ~Live(x)',
         x \notin tangled => Owes(r, x, pc)
  PROVE  PreviewInv'
<1> USE DEF Advances, histories
<1>1. /\ RequestOK(r) /\ Turns /\ TypeOK
      /\ r \in On(x) /\ gen[r].pc = "none" /\ req[r].pc # "done" /\ req[r].kind # "none"
      /\ req[r].pc = "add" => req[r].kind = "start"
  <2>1. req[r].pc = "add" => req[r].kind = "start"
    BY Rules DEF Places
  <2> QED BY Rules, <2>1 DEF PreviewInv, Origins, Active
<1>2. Only(r, x)
  <2>1. /\ req[r].pc \in Begun => req'[r].pc \in Begun
        /\ req[r].pc = "done" => req'[r].pc = "done"
    BY <1>1 DEF Begun
  <2>2. /\ \A h \in Reqs : Same(h)
        /\ \A h \in Reqs : /\ gen[h].pc # "none" => gen'[h].pc # "none"
                           /\ gen[h].pc = "none" => h = r \/ Same(h)
    BY DEF Same
  <2>3. Live(x)' => Live(x) \/ (x = r /\ req[r].pc \notin Begun)
    BY <1>1 DEF RequestOK, Begun
  <2>4. tracked'[x] = tracked[x]
    OBVIOUS
  <2> QED BY <2>1, <2>2, <2>3, <2>4 DEF Only
<1>3. RequestOK(r)'
  <2>1. x # r => row'[r] = row[r]
    BY DEF Frames
  <2>2. Live(r)' => req[r].kind = "start" /\ pc # "add"
    BY <1>1, <2>1 DEF RequestOK, Live
  <2>3. req[r].kind \notin {"none", "start"} => req'[x].kind = "start" /\ req'[x].pc \in Begun
    BY <1>1 DEF RequestOK, Others
  <2> QED BY <1>1, <2>2, <2>3 DEF RequestOK, S
<1>4. Turns'
  <2>1. \A q \in Reqs : Inside(q)' => Inside(q) /\ req'[q].s = req[q].s /\ req'[q].lk = req[q].lk
    BY DEF Inside, Others, Active
  <2> QED BY <1>1, <2>1, TurnsKept
<1>5. GenType' /\ HistoryType'
  BY <1>1, TypeParts DEF GenType, HistoryType
<1>6. Gone(r)'
  BY DEF Gone, Done
<1>7. ASSUME x \notin tangled PROVE Calm(x)'
  <2>1. Owes(r, x, pc) /\ Calm(x) /\ tracked[x] = None
    <3>1. Owes(r, x, pc) /\ Calm(x)
      BY <1>7 DEF PreviewInv
    <3> QED BY <3>1 DEF Owes, Calm, OneTask
  <2>2. /\ On(x)' \subseteq On(x) /\ \A q \in On(x) : q # r => req'[q] = req[q] /\ q \in On(x)'
        /\ r \in On(x)' <=> pc # "done"
        /\ \A q \in On(x) : q \in Reqs /\ req'[q].kind = req[q].kind
    <3>1. req'[r].s = x /\ req'[r].kind = req[r].kind /\ (Active(r)' <=> pc # "done")
      BY DEF Active, ReqPCs
    <3>2. \A q \in Reqs : q # r => req'[q] = req[q] /\ (Active(q)' <=> Active(q))
      BY DEF Others, Active
    <3> QED BY <1>1, <3>1, <3>2 DEF On
  <2>3. Of(x)' = {}
    <3>1. \A h \in Reqs : Alive(h) => h # r
      BY <1>1 DEF Alive
    <3> QED BY <2>1, <3>1 DEF Of, Others, S, Alive, Owes
  <2>4. \A q \in On(x) : q # r =>
          /\ req[q].kind = "seek" /\ req[r].kind = "seek"
          /\ Over(x) \/ (req[q].pc = "lock" /\ req[q].lk = lock[x] /\ req[r].lk = lock[x])
    BY <1>1, <1>7, <2>1, Company DEF Owes
  <2>5. Apart(x)'
    BY <2>1, <2>2 DEF Calm, Apart
  <2>6. OneLock(x)'
    <3>1. CASE lock'[x] = lock[x]
      <4>1. CASE Over(x)
        <5>1. Over(x)'
          BY <2>1, <2>2, <2>3, <4>1 DEF Over, Owes
        <5> QED BY <5>1 DEF OneLock
      <4>2. CASE ~Over(x)
        BY <2>1, <2>2, <3>1, <4>2 DEF Calm, OneLock
      <4> QED BY <4>1, <4>2
    <3>2. CASE x \in late /\ row'[x] = "expired" /\ pc = "done"
      <4>1. Over(x)'
        BY <2>2, <2>3, <2>4, <3>2 DEF Over
      <4> QED BY <4>1 DEF OneLock
    <3>3. CASE req[r].kind # "seek"
      BY <2>2, <2>4, <3>3 DEF OneLock
    <3> QED BY <2>1, <3>1, <3>2, <3>3 DEF Owes
  <2>7. OneTask(x)'
    BY <2>1, <2>3 DEF OneTask
  <2>8. Stocked(x)'
    <3>1. row'[x] = "ready" /\ x \notin stale' =>
            files'[x] # None \/ \E q \in On(x)' : req'[q].pc \in Owing
      BY <2>1, <2>2 DEF Owes, Owing
    <3> QED BY <2>1, <2>3, <3>1 DEF Stocked, Owes
  <2>9. ASSUME NEW q \in On(x)' PROVE StepOK(q, x)'
    <3>1. CASE q = r
      BY <2>1, <2>2, <2>9, <3>1 DEF Owes
    <3>2. CASE q # r
      <4>1. req'[q] = req[q] /\ q \in On(x) /\ Live(x)'
        BY <2>1, <2>2, <2>4, <2>9, <3>2 DEF Owes
      <4>2. CASE Over(x)
        <5>1. /\ x \in late' /\ row'[x] = "expired"
              /\ req[q].pc = "lock" \/ (req[q].pc = "clean" /\ req[q].st = "expired")
          BY <2>1, <4>1, <4>2 DEF Over, Owes
        <5> QED BY <4>1, <5>1 DEF StepOK
      <4>3. CASE ~Over(x)
        BY <2>4, <3>2, <4>1, <4>3 DEF StepOK
      <4> QED BY <4>2, <4>3
    <3> QED BY <3>1, <3>2
  <2> QED BY <2>5, <2>6, <2>7, <2>8, <2>9 DEF Calm
<1> QED BY <1>2, <1>3, <1>4, <1>5, <1>6, <1>7, Locally

-----------------------------------------------------------------------------
(* The steps of requests that touch no generation.                           *)

LEMMA StartAddKeeps ==
  ASSUME PreviewInv, NEW r \in Reqs, StartAdd(r)
  PROVE  PreviewInv'
<1>1. /\ req[r].pc = "add" /\ row' = [row EXCEPT ![r] = "initializing"]
      /\ req' = [req EXCEPT ![r].pc = "toGenerating", ![r].st = "initializing"]
      /\ UNCHANGED <<late, gen, tracked, handle, lock, files, tangled, stale, stops>>
  BY DEF StartAdd, taskVars, histories
<1>2. /\ TypeOK /\ req[r] \in ReqRec /\ RequestOK(r) /\ ~req[r].pend /\ Active(r)
      /\ RowType /\ ReqType /\ TablesType /\ r \in On(req[r].s)
  BY <1>1, Rules, TypeParts DEF PreviewInv, Origins, Active, Calling, Want
<1>3. req[r].kind = "start" /\ req[r].s = r
  BY <1>1, <1>2, Rules DEF RequestOK, Places
<1>4. /\ req' \in [Reqs -> ReqRec] /\ Others(r) /\ req'[r].pc = "toGenerating"
      /\ req'[r].kind = req[r].kind /\ req'[r].s = req[r].s /\ req'[r].lk = req[r].lk
      /\ req'[r].pend = req[r].pend
  BY <1>1, <1>2 DEF ReqType, ReqRec, ReqPCs, Statuses, Status, Others
<1>5. ~req'[r].pend /\ ReqType' /\ Advances(r, "toGenerating")
  BY <1>2, <1>4 DEF ReqType, Calling, Others, Advances
<1>6. RowType' /\ TablesType' /\ row'[r] = "initializing"
  BY <1>1, <1>2 DEF RowType, TablesType, Statuses, Status
<1>7. \A s \in Reqs : s # r => Frames(s)
  BY <1>1, <1>2 DEF Frames, RowType
<1>8. ASSUME r \notin tangled PROVE Owes(r, r, "toGenerating")
  <2>1. Of(r) = {}
    BY <1>1, <1>2, <1>3, <1>8, Idle
  <2>2. ~Over(r)
    BY <1>2, <1>3 DEF Over
  <2>3. Live(r)' /\ StepOK(r, r)'
    BY <1>4, <1>6 DEF Live, StepOK
  <2> QED BY <1>1, <1>6, <2>1, <2>2, <2>3 DEF Owes
<1>9. "toGenerating" \in ReqPCs /\ "toGenerating" \in Places[req[r].kind]
  BY <1>3 DEF ReqPCs, Places
<1> QED BY <1>1, <1>2, <1>3, <1>5, <1>6, <1>7, <1>8, <1>9, RequestStep DEF histories

(* A request that gives up where it owes nothing.                            *)
LEMMA LeavesKeeps ==
  ASSUME PreviewInv, NEW r \in Reqs, NEW x \in Reqs, Active(r), req[r].s = x,
         Went(r, "done"), ReqType',
         UNCHANGED <<row, late, gen, tracked, handle, lock, files, tangled, stale, stops>>,
         x \notin tangled => /\ req[r].pc \notin (Owing \ {"toSeeking"}) \union {"lock", "add"}
                             /\ req[r].pc = "toSeeking" => row[x] # "ready"
  PROVE  PreviewInv'
<1>1. /\ TypeOK /\ req[r] \in ReqRec /\ RequestOK(r) /\ r \in On(x)
      /\ RowType /\ TablesType /\ req[r].pc \in Places[req[r].kind] /\ req[r].kind # "none"
      /\ req[r].kind \in DOMAIN Places
  BY Rules, TypeParts DEF PreviewInv, Origins, Active
<1>2. /\ RowType' /\ TablesType' /\ "done" \in ReqPCs /\ "done" \in Places[req[r].kind]
      /\ ~req'[r].pend
  BY <1>1 DEF RowType, TablesType, ReqPCs, Places, Went
<1>3. /\ \A s \in Reqs : Frames(s)
      /\ Live(x)' <=> Live(x)
  BY DEF Frames, Live
<1>4. ASSUME x \notin tangled PROVE Owes(r, x, "done") /\ req[r].kind # "stop"
  <2>1. Of(x) = {} /\ Calm(x)
    BY <1>1, <1>4, Idle DEF PreviewInv, Owing
  <2>2. Live(x) /\ req[r].kind # "stop"
    <3>1. req[r].kind # "stop"
      BY <1>1, <1>4 DEF Owing, Places, Active
    <3> QED BY <1>1, <1>4, <2>1, <3>1 DEF Calm, StepOK
  <2>3. row[x] = "ready" /\ x \notin stale => files[x] # None
    <3> SUFFICES ASSUME row[x] = "ready", x \notin stale, files[x] = None PROVE FALSE
      OBVIOUS
    <3>1. PICK q \in On(x) : req[q].pc \in Owing
      BY <2>1 DEF Calm, Stocked
    <3>2. CASE Over(x)
      BY <3>2 DEF Over
    <3>3. CASE ~Over(x)
      BY <1>1, <1>4, <3>1, <3>3, Company DEF Owing
    <3> QED BY <3>2, <3>3
  <2>4. ~Over(x)
    BY <1>1, <1>4 DEF Over, Owing
  <2> QED BY <1>1, <1>3, <1>4, <2>1, <2>2, <2>3, <2>4 DEF Owes, Owing
<1>5. Advances(r, "done")
  BY WentAdvances
<1>6. req[r].kind = "stop" /\ x \notin tangled => FALSE
  BY <1>4
<1> QED BY <1>1, <1>2, <1>3, <1>4, <1>5, <1>6, RequestStep DEF histories

LEMMA AnnounceFailsKeeps ==
  ASSUME PreviewInv, NEW r \in Reqs, AnnounceFails(r)
  PROVE  PreviewInv'
<1>1. /\ req[r].pc \in {"announceGenerating", "announceSeeking"} /\ Goes(r, "done")
      /\ UNCHANGED <<row, late, gen, tracked, handle, lock, files, tangled, stale, stops>>
  BY DEF AnnounceFails, rowVars, taskVars, histories
<1>2. Active(r) /\ req[r].s \in Reqs /\ ReqType
  BY <1>1, Rules, TypeParts DEF Active, PreviewInv
<1>3. Went(r, "done") /\ ReqType'
  BY <1>1, <1>2, GoesFacts DEF ReqPCs
<1> QED BY <1>1, <1>2, <1>3, LeavesKeeps DEF Owing

(* The facts about a request that the next lemmas begin with.                *)
LEMMA Starts ==
  ASSUME PreviewInv, NEW r \in Reqs, Active(r), ~req[r].pend
  PROVE  /\ req[r].s \in Reqs /\ r \in On(req[r].s) /\ RequestOK(r) /\ req[r] \in ReqRec
         /\ RowType /\ ReqType /\ GenType /\ TablesType /\ HistoryType
         /\ \A pc \in ReqPCs : Goes(r, pc) => Went(r, pc) /\ Advances(r, pc) /\ ReqType'
         /\ req[r].s \notin tangled => Calm(req[r].s) /\ StepOK(r, req[r].s)
<1>1. /\ req[r].s \in Reqs /\ r \in On(req[r].s) /\ RequestOK(r) /\ req[r] \in ReqRec
      /\ RowType /\ ReqType /\ GenType /\ TablesType /\ HistoryType
  BY Rules, TypeParts DEF PreviewInv, Origins, Active
<1>2. \A pc \in ReqPCs : Goes(r, pc) => Went(r, pc) /\ ReqType'
  BY <1>1, GoesFacts
<1>3. req[r].s \notin tangled => Calm(req[r].s) /\ StepOK(r, req[r].s)
  BY <1>1 DEF PreviewInv, Calm
<1> QED BY <1>1, <1>2, <1>3, WentAdvances

LEMMA CleanFilesKeeps ==
  ASSUME PreviewInv, NEW r \in Reqs, CleanFiles(r)
  PROVE  PreviewInv'
<1>1. PICK x : x = req[r].s
  OBVIOUS
<1>2. PICK pc \in {"toExpired", "delete", "done"} :
        pc = IF req[r].st # "expired" THEN "toExpired"
             ELSE IF req[r].kind = "stop" THEN "delete" ELSE "done"
  OBVIOUS
<1>3. /\ req[r].pc = "clean" /\ Awaited(r) /\ files' = [files EXCEPT ![x] = None]
      /\ Goes(r, pc)
      /\ UNCHANGED <<row, late, gen, tracked, tangled, stale, stops>>
      /\ IF pc = "toExpired" THEN UNCHANGED <<handle, lock>>
         ELSE /\ handle' = [handle EXCEPT ![x] = None]
              /\ lock' = [lock EXCEPT ![x] = @ + 1]
  BY <1>1, <1>2 DEF CleanFiles, Forgets, rowVars, histories
<1>4. Active(r) /\ ~req[r].pend
  BY <1>3, Rules DEF Active, Calling, Want
<1>5. /\ x \in Reqs /\ r \in On(x) /\ RequestOK(r) /\ req[r] \in ReqRec
      /\ RowType /\ TablesType /\ Went(r, pc) /\ Advances(r, pc) /\ ReqType'
      /\ x \notin tangled => Calm(x) /\ StepOK(r, x)
  BY <1>1, <1>3, <1>4, Starts DEF ReqPCs
<1>6. RowType' /\ TablesType'
  BY <1>3, <1>5 DEF RowType, TablesType
<1>7. /\ req[r].kind \in {"stop", "status", "seek"} /\ pc \in Places[req[r].kind]
      /\ req[r].kind = "stop" => pc # "done"
  BY <1>2, <1>3, <1>4, Rules DEF Places
<1>8. ~req'[r].pend /\ req'[r].pc = pc /\ (pc # "done" => req'[r].st = req[r].st)
  BY <1>4, <1>5 DEF Went, Keeps
<1>9. /\ \A s \in Reqs : s # x => Frames(s)
      /\ handle'[x] \in {None, handle[x]} /\ files'[x] = None
      /\ Live(x)' <=> Live(x)
      /\ pc = "delete" => handle'[x] = None
  BY <1>3, <1>5 DEF Frames, Live, TablesType
<1>10. ASSUME x \notin tangled PROVE Owes(r, x, pc)
  <2>1. Of(x) = {} /\ Live(x) /\ req[r].st # "absent"
        /\ (req[r].st = "expired" => row[x] = "expired")
        /\ (req[r].kind # "stop" => x \in late')
    BY <1>3, <1>5, <1>10, Idle DEF StepOK
  <2>2. Over(x) => row'[x] = "expired" /\ pc = "done"
    <3>1. Over(x) => req[r].kind = "seek" /\ req[r].st = "expired" /\ row[x] = "expired"
      BY <1>3, <1>5 DEF Over
    <3> QED BY <1>2, <1>3, <3>1
  <2>3. pc # "done" => StepOK(r, x)'
    BY <1>2, <1>5, <1>8, <1>9, <2>1 DEF StepOK, Advances
  <2>4. pc = "done" => row'[x] = "expired"
    BY <1>2, <1>3, <2>1
  <2>5. \/ lock'[x] = lock[x]
        \/ x \in late /\ row'[x] = "expired" /\ pc = "done"
        \/ req[r].kind # "seek"
    <3>1. CASE pc = "toExpired"
      BY <1>3, <3>1
    <3>2. CASE pc = "delete"
      BY <1>2, <3>2
    <3>3. CASE pc = "done" /\ req[r].kind = "seek"
      <4>1. x \in late
        BY <1>3, <1>5, <1>7, <1>10, <3>3 DEF StepOK
      <4> QED BY <2>4, <3>3, <4>1
    <3> QED BY <1>2, <1>7, <3>1, <3>2, <3>3
  <2> QED BY <1>2, <1>3, <1>9, <2>1, <2>2, <2>3, <2>4, <2>5 DEF Owes, Owing
<1> QED BY <1>1, <1>2, <1>3, <1>4, <1>5, <1>6, <1>7, <1>8, <1>9, <1>10, RequestStep
        DEF histories, ReqPCs

LEMMA StopDeleteKeeps ==
  ASSUME PreviewInv, NEW r \in Reqs, StopDelete(r)
  PROVE  PreviewInv'
<1>1. PICK x : x = req[r].s
  OBVIOUS
<1>2. /\ req[r].pc = "delete" /\ row' = [row EXCEPT ![x] = "absent"] /\ Goes(r, "done")
      /\ UNCHANGED <<late, gen, tracked, handle, lock, files, tangled, stale, stops>>
  BY <1>1 DEF StopDelete, taskVars, histories
<1>3. Active(r) /\ ~req[r].pend /\ req[r].kind = "stop"
  BY <1>2, Rules DEF Active, Calling, Want, Places
<1>4. /\ x \in Reqs /\ r \in On(x) /\ RequestOK(r) /\ req[r] \in ReqRec
      /\ RowType /\ TablesType /\ Went(r, "done") /\ Advances(r, "done") /\ ReqType'
      /\ x \notin tangled => Calm(x) /\ StepOK(r, x)
  BY <1>1, <1>2, <1>3, Starts DEF ReqPCs
<1>5. RowType' /\ TablesType' /\ ~req'[r].pend /\ row'[x] = "absent"
  BY <1>2, <1>4 DEF RowType, TablesType, Statuses, Went
<1>6. \A s \in Reqs : s # x => Frames(s)
  BY <1>2, <1>4 DEF Frames, RowType
<1>7. ~Live(x)'
  BY <1>5 DEF Live
<1>8. ASSUME x \notin tangled PROVE Owes(r, x, "done")
  <2>1. Of(x) = {} /\ files[x] = None /\ handle[x] = None
    BY <1>2, <1>4, <1>8, Idle DEF StepOK
  <2>2. ~Over(x)
    BY <1>3, <1>4 DEF Over
  <2> QED BY <1>2, <1>3, <1>5, <1>7, <2>1, <2>2 DEF Owes
<1>9. "done" \in ReqPCs /\ "done" \in Places[req[r].kind]
  BY <1>3 DEF ReqPCs, Places
<1> QED BY <1>1, <1>2, <1>3, <1>4, <1>5, <1>6, <1>7, <1>8, <1>9, RequestStep DEF histories

LEMMA SeekRefetchKeeps ==
  ASSUME PreviewInv, NEW r \in Reqs, SeekRefetch(r)
  PROVE  PreviewInv'
<1>1. PICK x : x = req[r].s
  OBVIOUS
<1>2. /\ req[r].pc = "seek" /\ Awaited(r)
      /\ UNCHANGED <<row, late, gen, tracked, handle, lock, tangled, stale, stops>>
  BY DEF SeekRefetch, rowVars, taskVars, histories
<1>3. Active(r) /\ ~req[r].pend /\ req[r].kind = "seek"
  BY <1>2, Rules DEF Active, Calling, Want, Places
<1>4. /\ x \in Reqs /\ r \in On(x) /\ RequestOK(r) /\ req[r] \in ReqRec
      /\ RowType /\ TablesType /\ ReqType
      /\ Goes(r, "done") => Went(r, "done") /\ ReqType'
      /\ x \notin tangled => Calm(x) /\ StepOK(r, x)
  BY <1>1, <1>2, <1>3, Starts DEF ReqPCs
<1>5. CASE ~Live(x)
  <2>1. Went(r, "done") /\ ReqType' /\ files' = files
    BY <1>1, <1>4, <1>5, Zenon DEF SeekRefetch
  <2>2. x \notin tangled => FALSE
    BY <1>2, <1>4, <1>5 DEF StepOK
  <2> QED BY <1>1, <1>2, <1>3, <1>4, <2>1, <2>2, LeavesKeeps
<1>6. CASE Live(x)
  <2>1. PICK pc \in {"toReady", "toSeeking"} :
          pc = IF row[x] = "generating" THEN "toReady" ELSE "toSeeking"
    OBVIOUS
  <2>2. files' = [files EXCEPT ![x] = None]
        /\ req' = [req EXCEPT ![r].st = row[x], ![r].pc = pc]
    BY <1>1, <1>6, <2>1 DEF SeekRefetch
  <2>3. /\ req' \in [Reqs -> ReqRec] /\ Others(r) /\ req'[r].pc = pc
        /\ req'[r].kind = req[r].kind /\ req'[r].s = req[r].s /\ req'[r].lk = req[r].lk
        /\ req'[r].pend = req[r].pend /\ req'[r].st = row[x]
    BY <1>4, <2>2 DEF ReqType, RowType, ReqRec, ReqPCs, Others
  <2>4. ~req'[r].pend /\ ReqType' /\ Advances(r, pc)
    BY <1>3, <1>4, <2>3 DEF ReqType, Calling, Others, Advances
  <2>5. RowType' /\ TablesType' /\ files'[x] = None
    BY <1>2, <1>4, <2>2 DEF RowType, TablesType
  <2>6. (\A s \in Reqs : s # x => Frames(s)) /\ (Live(x)' <=> Live(x))
    BY <1>2, <1>4, <2>2 DEF Frames, TablesType, Live
  <2>7. ASSUME x \notin tangled PROVE Owes(r, x, pc)
    <3>1. Of(x) = {}
      BY <1>2, <1>4, <2>7, Idle
    <3>2. ~Over(x)
      BY <1>2, <1>4 DEF Over
    <3>3. StepOK(r, x)'
      BY <1>2, <2>1, <2>3, <2>4, <2>6, <1>6 DEF StepOK
    <3> QED BY <1>2, <1>6, <2>1, <2>5, <2>6, <3>1, <3>2, <3>3 DEF Owes, Owing
  <2>8. pc \in ReqPCs /\ pc \in Places[req[r].kind]
    BY <1>3, <2>1 DEF ReqPCs, Places
  <2> QED BY <1>1, <1>2, <1>3, <1>4, <2>1, <2>4, <2>5, <2>6, <2>7, <2>8, RequestStep
          DEF histories
<1> QED BY <1>5, <1>6

LEMMA TransitionReadKeeps ==
  ASSUME PreviewInv, NEW r \in Reqs, TransitionRead(r)
  PROVE  PreviewInv'
<1>1. PICK x : x = req[r].s
  OBVIOUS
<1>2. PICK pc : pc = req[r].pc
  OBVIOUS
<1>3. /\ Calling(r) /\ ~req[r].pend
      /\ UNCHANGED <<row, late, gen, tracked, handle, lock, files, tangled, stale, stops>>
  BY DEF TransitionRead, rowVars, taskVars, histories
<1>4. Active(r) /\ pc \in {"toGenerating", "toExpired", "toReady", "toSeeking"}
  BY <1>2, <1>3, Rules DEF Active, Calling, Want, Places
<1>5. /\ x \in Reqs /\ r \in On(x) /\ RequestOK(r) /\ req[r] \in ReqRec
      /\ RowType /\ TablesType /\ ReqType
      /\ Goes(r, "done") => Went(r, "done") /\ ReqType'
      /\ x \notin tangled => Calm(x) /\ StepOK(r, x)
  BY <1>1, <1>3, <1>4, Starts DEF ReqPCs
<1>6. CASE ~Valid(req[r].st, x, Want[pc])
  <2>1. Went(r, "done") /\ ReqType'
    BY <1>1, <1>2, <1>5, <1>6, Zenon DEF TransitionRead
  <2>2. ASSUME x \notin tangled
        PROVE  pc \in {"toGenerating", "toSeeking"} /\ (pc = "toSeeking" => row[x] # "ready")
    <3>1. Live(x) /\ row[x] \in Status
      BY <1>2, <1>4, <1>5, <2>2 DEF StepOK, Live, RowType, Statuses
    <3>2. pc # "toReady"
      BY <1>2, <1>3, <1>5, <1>6, <2>2, <3>1 DEF StepOK, Valid, Want, Allowed
    <3>3. pc = "toSeeking" => row[x] # "ready"
      BY <1>2, <1>3, <1>5, <1>6, <2>2, <3>1 DEF StepOK, Valid, Want, Allowed
    <3>4. pc # "toExpired"
      <4> SUFFICES ASSUME pc = "toExpired" PROVE FALSE
        OBVIOUS
      <4>1. req[r].st \in Status \ {"expired"}
        BY <1>2, <1>3, <1>5, <2>2 DEF StepOK, ReqRec, Statuses
      <4>2. "expired" \in Allowed[req[r].st]
        BY <4>1 DEF Allowed, Status
      <4>3. row[x] = "expired" \/ "expired" \in Allowed[row[x]]
        BY <3>1 DEF Allowed, Status
      <4> QED BY <1>6, <3>1, <4>2, <4>3 DEF Valid, Want
    <3> QED BY <1>4, <3>2, <3>3, <3>4
  <2> QED BY <1>1, <1>2, <1>3, <1>4, <1>5, <2>1, <2>2, LeavesKeeps DEF Owing
<1>7. CASE Valid(req[r].st, x, Want[pc])
  <2>1. req' = [req EXCEPT ![r].pend = TRUE, ![r].st = Want[pc]]
    BY <1>1, <1>2, <1>7 DEF TransitionRead
  <2>2. Want[pc] \in Statuses
    BY <1>4 DEF Want, Statuses, Status
  <2>3. /\ req' \in [Reqs -> ReqRec] /\ Others(r) /\ req'[r].pc = pc
        /\ req'[r].kind = req[r].kind /\ req'[r].s = req[r].s /\ req'[r].lk = req[r].lk
        /\ req'[r].pend = TRUE /\ req'[r].st = Want[pc]
    BY <1>2, <1>5, <2>1, <2>2 DEF ReqType, ReqRec, Others
  <2>4. req'[r].pend /\ ReqType' /\ Advances(r, pc)
    BY <1>2, <1>3, <1>5, <2>3 DEF ReqType, Calling, Others, Advances
  <2>5. RowType' /\ TablesType'
    BY <1>3, <1>5 DEF RowType, TablesType
  <2>6. (\A s \in Reqs : Frames(s)) /\ (Live(x)' <=> Live(x))
    BY <1>3 DEF Frames, Live
  <2>7. ASSUME x \notin tangled PROVE Owes(r, x, pc)
    <3>1. Of(x) = {}
      BY <1>2, <1>4, <1>5, <2>7, Idle
    <3>2. ~Over(x)
      BY <1>2, <1>4, <1>5 DEF Over
    <3>3. Live(x)
      BY <1>2, <1>4, <1>5, <2>7 DEF StepOK
    <3>4. StepOK(r, x)'
      BY <1>2, <1>3, <1>4, <1>5, <2>3, <2>4, <2>6, <2>7, <3>3 DEF StepOK
    <3>5. row[x] = "ready" /\ x \notin stale => files[x] # None \/ pc \in Owing
      <4>1. CASE pc \in Owing
        BY <4>1
      <4>2. CASE pc = "toGenerating"
        <5>1. row[x] = "ready" /\ x \notin stale => files[x] # None \/ \E q \in On(x) : req[q].pc \in Owing
          BY <1>5, <2>7 DEF Calm, Stocked
        <5>2. \A q \in On(x) : req[q].pc \notin Owing
          BY <1>2, <1>5, <2>7, <3>2, <4>2, Company DEF Owing
        <5> QED BY <5>1, <5>2
      <4> QED BY <1>4, <4>1, <4>2 DEF Owing
    <3> QED BY <1>2, <1>3, <1>4, <2>6, <3>1, <3>2, <3>3, <3>4, <3>5 DEF Owes
  <2>8. pc \in ReqPCs /\ pc \in Places[req[r].kind]
    BY <1>2, <1>5 DEF ReqRec, RequestOK
  <2> QED BY <1>1, <1>2, <1>3, <1>4, <1>5, <2>3, <2>4, <2>5, <2>6, <2>7, <2>8, RequestStep
          DEF histories
<1> QED BY <1>6, <1>7

LEMMA TransitionWriteKeeps ==
  ASSUME PreviewInv, NEW r \in Reqs, TransitionWrite(r)
  PROVE  PreviewInv'
<1>1. PICK x : x = req[r].s
  OBVIOUS
<1>2. Active(r) /\ req[r].pc \in {"toGenerating", "toExpired", "toReady", "toSeeking"}
      /\ req[r].pend /\ req[r].st = Want[req[r].pc]
  BY Rules DEF TransitionWrite, Active, Calling, Want, Places
<1>3. PICK want \in Status : want = Want[req[r].pc]
  BY <1>2 DEF Want, Status
<1>4. PICK pc : pc = [toGenerating |-> "announceGenerating", toReady |-> "toSeeking",
                      toSeeking |-> "announceSeeking",
                      toExpired |-> IF req[r].kind = "stop" THEN "delete" ELSE "done"][req[r].pc]
  OBVIOUS
<1>5. /\ req[r].pc = "toGenerating" => pc = "announceGenerating" /\ want = "generating"
      /\ req[r].pc = "toReady" => pc = "toSeeking" /\ want = "ready"
      /\ req[r].pc = "toSeeking" => pc = "announceSeeking" /\ want = "seeking"
      /\ req[r].pc = "toExpired" =>
           /\ pc = (IF req[r].kind = "stop" THEN "delete" ELSE "done")
           /\ want = "expired"
      /\ pc \in ReqPCs \ {"new", "add", "lock"}
  BY <1>2, <1>3, <1>4 DEF Want, ReqPCs
<1>6. /\ row' = Written(x, want)
      /\ req' = [req EXCEPT ![r] = At([@ EXCEPT !.pend = FALSE], pc)]
      /\ UNCHANGED <<late, gen, tracked, files, tangled, stale, stops>>
      /\ IF req[r].pc = "toExpired"
         THEN /\ handle' = [handle EXCEPT ![x] = None]
              /\ lock' = [lock EXCEPT ![x] = @ + 1]
         ELSE UNCHANGED <<handle, lock>>
  <2>1. /\ row' = Written(x, want)
        /\ UNCHANGED <<late, gen, tracked, files, tangled, stale, stops>>
        /\ IF req[r].pc = "toExpired"
           THEN /\ handle' = [handle EXCEPT ![x] = None]
                /\ lock' = [lock EXCEPT ![x] = @ + 1]
           ELSE UNCHANGED <<handle, lock>>
    BY <1>1, <1>3 DEF TransitionWrite, histories
  <2>2. req' = [req EXCEPT ![r] = At([@ EXCEPT !.pend = FALSE], pc)]
    BY <1>4 DEF TransitionWrite
  <2> QED BY <2>1, <2>2
<1>7. /\ x \in Reqs /\ r \in On(x) /\ RequestOK(r) /\ req[r] \in ReqRec
      /\ RowType /\ TablesType /\ ReqType
      /\ x \notin tangled => Calm(x) /\ StepOK(r, x)
  BY <1>1, <1>2, Rules, TypeParts DEF PreviewInv, Origins, Active, Calm
<1>8. /\ req' \in [Reqs -> ReqRec] /\ Others(r) /\ req'[r].pc = pc
      /\ req'[r].kind = req[r].kind /\ req'[r].s = req[r].s /\ req'[r].pend = FALSE
      /\ pc # "done" => req'[r].lk = req[r].lk /\ req'[r].st = want
  <2> DEFINE q == [req[r] EXCEPT !.pend = FALSE]
             n == At(q, pc)
  <2>1. /\ q \in ReqRec /\ q.kind = req[r].kind /\ q.s = req[r].s /\ q.pend = FALSE
        /\ q.lk = req[r].lk /\ q.st = want
    BY <1>2, <1>3, <1>7 DEF ReqRec
  <2> HIDE DEF q
  <2>2. /\ n \in ReqRec /\ n.pc = pc /\ n.kind = q.kind /\ n.s = q.s /\ n.pend = FALSE
        /\ pc # "done" => n.lk = q.lk /\ n.st = q.st
    BY <1>5, <2>1, AtFacts
  <2>3. req' = [req EXCEPT ![r] = n]
    BY <1>6 DEF q
  <2> HIDE DEF n
  <2> QED BY <1>7, <2>1, <2>2, <2>3 DEF ReqType, Others
<1>9. ~req'[r].pend /\ ReqType' /\ Advances(r, pc)
  BY <1>7, <1>8 DEF ReqType, Calling, Others, Advances
<1>10. /\ RowType' /\ TablesType' /\ handle'[x] \in {None, handle[x]}
       /\ row'[x] = IF Live(x) THEN want ELSE row[x]
       /\ \A s \in Reqs : s # x => Frames(s)
       /\ files' = files /\ (Live(x)' <=> Live(x))
       /\ req[r].pc = "toExpired" => handle'[x] = None
  <2>1. /\ row' \in [Reqs -> Statuses] /\ row'[x] = (IF Live(x) THEN want ELSE row[x])
        /\ \A s \in Reqs : s # x => row'[s] = row[s]
    BY <1>6, <1>7 DEF Written, RowType, Statuses, Live
  <2>2. want # "absent"
    BY DEF Status
  <2> QED BY <1>6, <1>7, <2>1, <2>2 DEF RowType, TablesType, Frames, Live
<1>11. ASSUME x \notin tangled PROVE Owes(r, x, pc) /\ (req[r].kind = "stop" => pc # "done")
  <2>1. Of(x) = {} /\ Live(x)
    BY <1>2, <1>7, <1>11, Idle DEF StepOK
  <2>2. ~Over(x)
    BY <1>2, <1>7 DEF Over
  <2>3. row'[x] = want
    BY <1>10, <2>1
  <2>4. pc # "done" => StepOK(r, x)'
    <3>1. req[r].pc = "toExpired" => files[x] = None
      BY <1>7, <1>11 DEF StepOK
    <3> QED BY <1>2, <1>5, <1>8, <1>9, <1>10, <2>1, <2>3, <3>1 DEF StepOK
  <2>5. \/ lock'[x] = lock[x]
        \/ x \in late /\ row'[x] = "expired" /\ pc = "done"
        \/ req[r].kind # "seek"
    BY <1>2, <1>5, <1>6, <1>7, <1>11, <2>3 DEF StepOK
  <2>6. row'[x] = "ready" => pc \in Owing
    BY <1>2, <1>5, <2>3 DEF Owing
  <2> QED BY <1>2, <1>5, <1>10, <2>1, <2>2, <2>4, <2>5, <2>6 DEF Owes
<1>12. pc \in Places[req[r].kind]
  BY <1>2, <1>5, Rules DEF Places
<1> QED BY <1>1, <1>2, <1>5, <1>6, <1>7, <1>9, <1>10, <1>11, <1>12, RequestStep
        DEF histories

-----------------------------------------------------------------------------
(* Requests that begin.                                                      *)

LEMMA Unborn ==
  ASSUME PreviewInv, NEW r \in Reqs, req[r].pc = "new"
  PROVE  /\ On(r) = {} /\ Of(r) = {} /\ ~Live(r) /\ gen[r].pc = "none" /\ ~gen[r].told
         /\ r \notin tangled => tracked[r] = None /\ files[r] = None
<1>1. ASSUME NEW q \in Reqs, req[q].pc # "new" PROVE req[q].s # r
  <2>1. RequestOK(q) /\ req[q].kind # "none"
    BY <1>1, Rules DEF PreviewInv, Origins
  <2> QED BY <1>1, <2>1 DEF RequestOK, Begun
<1>2. On(r) = {}
  BY <1>1 DEF On, Active
<1>3. Of(r) = {}
  <2>1. \A h \in Reqs : Alive(h) => req[h].pc = "done"
    BY Rules DEF Alive
  <2> QED BY <1>1, <2>1 DEF Of, S
<1>4. ~Live(r) /\ gen[r].pc = "none" /\ ~gen[r].told
  BY Rules DEF PreviewInv, Origins, RequestOK
<1>5. r \notin tangled => tracked[r] = None /\ files[r] = None
  BY <1>4 DEF PreviewInv, Calm, Stocked
<1> QED BY <1>2, <1>3, <1>4, <1>5

LEMMA StartCheckKeeps ==
  ASSUME PreviewInv, NEW r \in Reqs, StartCheck(r)
  PROVE  PreviewInv'
<1>1. /\ req[r].pc = "new"
      /\ req' = [req EXCEPT ![r].pc = "add", ![r].kind = "start", ![r].s = r]
      /\ UNCHANGED <<row, late, gen, tracked, handle, lock, files, tangled, stale, stops>>
  BY DEF StartCheck, Fresh, rowVars, taskVars, histories
<1>2. /\ RowType /\ ReqType /\ GenType /\ TablesType /\ HistoryType
      /\ RequestOK(r) /\ req[r] \in ReqRec /\ Turns /\ None \notin Reqs
  BY Rules, TypeParts DEF PreviewInv, Origins
<1>3. /\ On(r) = {} /\ Of(r) = {} /\ ~Live(r) /\ gen[r].pc = "none" /\ ~gen[r].told
      /\ r \notin tangled => Calm(r) /\ tracked[r] = None
  BY <1>1, Unborn DEF PreviewInv
<1>4. ~req[r].pend
  BY <1>1, <1>2 DEF ReqType, Calling, Want
<1>5. /\ req' \in [Reqs -> ReqRec] /\ Others(r) /\ req'[r].pc = "add"
      /\ req'[r].kind = "start" /\ req'[r].s = r /\ req'[r].pend = req[r].pend
  BY <1>1, <1>2 DEF ReqType, ReqRec, ReqPCs, Others
<1>6. ~req'[r].pend /\ ReqType'
  BY <1>2, <1>4, <1>5 DEF ReqType, Calling, Others
<1>7. RowType' /\ GenType' /\ TablesType' /\ HistoryType'
  BY <1>1, <1>2 DEF RowType, GenType, TablesType, HistoryType
<1>8. Only(r, r)
  BY <1>1, <1>5 DEF Only, Begun, Frames, Same, Live
<1>9. RequestOK(r)'
  <2>1. gen' = gen /\ row' = row
    BY <1>1
  <2> QED BY <1>3, <1>5, <1>6, <2>1 DEF RequestOK, Places, Live
<1>10. Turns'
  <2>1. \A q \in Reqs : Inside(q)' => Inside(q) /\ req'[q].s = req[q].s /\ req'[q].lk = req[q].lk
    BY <1>5 DEF Inside, Others, Active
  <2> QED BY <1>2, <2>1, TurnsKept
<1>11. ASSUME r \notin tangled' PROVE Calm(r)'
  <2>1. r \notin tangled
    BY <1>1, <1>11
  <2>2. On(r)' = {r} /\ Of(r)' = {}
    <3>1. \A q \in Reqs : q # r => (Active(q)' <=> Active(q)) /\ req'[q].s = req[q].s
      BY <1>5 DEF Others, Active
    <3>2. \A h \in Reqs : (Alive(h)' <=> Alive(h)) /\ ~(Alive(h) /\ h = r)
      BY <1>1, <1>3 DEF Alive
    <3>3. Active(r)'
      BY <1>5 DEF Active
    <3>4. On(r)' = {r}
      BY <1>3, <1>5, <3>1, <3>3 DEF On
    <3>5. Of(r)' = {}
      BY <1>3, <3>1, <3>2 DEF Of, S
    <3> QED BY <3>4, <3>5
  <2>3. Apart(r)' /\ OneLock(r)' /\ OneTask(r)'
    BY <1>1, <1>3, <1>5, <2>1, <2>2 DEF Apart, OneLock, OneTask
  <2>4. Stocked(r)'
    BY <1>1, <1>3, <2>1, <2>2 DEF Stocked, Calm, Live
  <2>5. \A q \in On(r)' : StepOK(q, r)'
    BY <1>5, <2>2 DEF StepOK
  <2> QED BY <2>3, <2>4, <2>5 DEF Calm
<1>12. Gone(r)'
  BY <1>5 DEF Gone, Done
<1> QED BY <1>6, <1>7, <1>8, <1>9, <1>10, <1>11, <1>12, Locally

(* What Tangles says when the session stays untangled.                       *)
LEMMA TanglesFacts ==
  ASSUME PreviewInv, NEW r \in Reqs, NEW s \in Reqs, NEW kind, req[r].pc = "new",
         Tangles(r, s, kind)
  PROVE  /\ tangled \subseteq tangled' /\ tangled' \subseteq Reqs
         /\ s \notin tangled' => \A q \in On(s) : kind = "seek" /\ req[q].kind = "seek"
<1>1. tangled \subseteq Reqs
  BY TypeParts DEF PreviewInv, HistoryType
<1>2. \A q \in On(s) : q \in Reqs \ {r} /\ Active(q) /\ req[q].s = s
  BY DEF On, Active
<1> QED BY <1>1, <1>2 DEF Tangles

LEMMA SeekBeginKeeps ==
  ASSUME PreviewInv, NEW r \in Reqs, NEW x \in Reqs, SeekBegin(r, x)
  PROVE  PreviewInv'
<1>1. /\ req[r].pc = "new" /\ Live(x) /\ req[x].pc \in Begun /\ Tangles(r, x, "seek")
      /\ req' = [req EXCEPT ![r].pc = "lock", ![r].kind = "seek", ![r].s = x,
                            ![r].lk = lock[x]]
      /\ UNCHANGED <<row, late, gen, tracked, handle, lock, files, stale, stops>>
  BY DEF SeekBegin, Fresh, Known, Begun, rowVars, taskVars
<1>2. /\ RowType /\ ReqType /\ GenType /\ TablesType /\ HistoryType
      /\ RequestOK(r) /\ RequestOK(x) /\ req[r] \in ReqRec /\ Turns /\ None \notin Reqs
  BY Rules, TypeParts DEF PreviewInv, Origins
<1>3. /\ gen[r].pc = "none" /\ ~gen[r].told /\ ~Live(r) /\ x # r
      /\ tangled \subseteq tangled' /\ tangled' \subseteq Reqs
      /\ x \notin tangled' => \A q \in On(x) : req[q].kind = "seek"
  BY <1>1, Unborn, TanglesFacts
<1>4. ~req[r].pend
  BY <1>1, <1>2 DEF ReqType, Calling, Want
<1>5. /\ req' \in [Reqs -> ReqRec] /\ Others(r) /\ req'[r].pc = "lock"
      /\ req'[r].kind = "seek" /\ req'[r].s = x /\ req'[r].pend = req[r].pend
      /\ req'[r].lk = lock[x]
  BY <1>1, <1>2 DEF ReqType, ReqRec, ReqPCs, Others, TablesType
<1>6. ~req'[r].pend /\ ReqType'
  BY <1>2, <1>4, <1>5 DEF ReqType, Calling, Others
<1>7. RowType' /\ GenType' /\ TablesType' /\ HistoryType'
  BY <1>1, <1>2, <1>3 DEF RowType, GenType, TablesType, HistoryType
<1>8. Only(r, x)
  BY <1>1, <1>3, <1>5 DEF Only, Begun, Frames, Same, Live
<1>9. RequestOK(r)'
  <2>1. req'[x].kind = "start" /\ req'[x].pc \in Begun
    BY <1>1, <1>2, <1>3, <1>5 DEF RequestOK, Others
  <2>2. gen' = gen /\ row' = row
    BY <1>1
  <2> QED BY <1>3, <1>5, <1>6, <2>1, <2>2 DEF RequestOK, Places, Live
<1>10. Turns'
  <2>1. \A q \in Reqs : Inside(q)' => Inside(q) /\ req'[q].s = req[q].s /\ req'[q].lk = req[q].lk
    BY <1>5 DEF Inside, Others, Active
  <2> QED BY <1>2, <2>1, TurnsKept
<1>11. ASSUME x \notin tangled' PROVE Calm(x)'
  <2>1. Calm(x) /\ \A q \in On(x) : req[q].kind = "seek"
    BY <1>3, <1>11 DEF PreviewInv
  <2>2. /\ On(x)' = On(x) \union {r} /\ r \notin On(x)
        /\ \A q \in On(x) : req'[q] = req[q]
        /\ Of(x)' = Of(x)
    <3>1. \A q \in Reqs : q # r => (Active(q)' <=> Active(q)) /\ req'[q] = req[q]
      BY <1>5 DEF Others, Active
    <3>2. \A h \in Reqs : (Alive(h)' <=> Alive(h)) /\ ~(Alive(h) /\ h = r)
      BY <1>1, <1>3 DEF Alive
    <3>3. Active(r)' /\ ~Active(r)
      BY <1>1, <1>5 DEF Active
    <3>4. On(x)' = On(x) \union {r} /\ r \notin On(x)
      BY <1>5, <3>1, <3>3 DEF On
    <3>5. Of(x)' = Of(x)
      BY <3>1, <3>2 DEF Of, S
    <3>6. \A q \in On(x) : req'[q] = req[q]
      BY <3>1, <3>4 DEF On
    <3> QED BY <3>4, <3>5, <3>6
  <2>a. /\ \A q \in On(x)' : q = r \/ (q \in On(x) /\ req'[q] = req[q])
        /\ \A q \in On(x) : q \in On(x)' /\ req'[q] = req[q]
    BY <2>2
  <2>3. Apart(x)'
    BY <1>5, <2>1, <2>2 DEF Apart
  <2>4. OneLock(x)'
    <3>1. CASE Over(x)
      <4>1. Over(x)'
        <5>1. x \in late' /\ row'[x] = "expired" /\ Of(x)' = {}
          BY <1>1, <2>2, <3>1 DEF Over
        <5>2. ASSUME NEW q \in On(x)'
              PROVE  /\ req'[q].kind = "seek"
                     /\ req'[q].pc = "lock" \/ (req'[q].pc = "clean" /\ req'[q].st = "expired")
          BY <1>5, <2>a, <3>1, <5>2 DEF Over
        <5> QED BY <5>1, <5>2 DEF Over
      <4> QED BY <4>1 DEF OneLock
    <3>2. CASE ~Over(x)
      BY <1>1, <1>5, <2>1, <2>2, <3>2, ZenonT(40) DEF OneLock, Calm
    <3> QED BY <3>1, <3>2
  <2>5. OneTask(x)'
    <3>1. OneTask(x)
      BY <2>1 DEF Calm
    <3>2. \A g \in Of(x) : gen[g].pc = "cancelled" =>
            \E q \in On(x)' : req'[q].pc \in {"clean", "seek"} /\ req'[q].on = g
      BY <2>a, <3>1 DEF OneTask
    <3>3. \A g \in Of(x), q \in On(x)' :
            \/ req'[q].pc = "lock"
            \/ /\ req'[q].pc \in {"clean", "seek"} /\ req'[q].on = g
               /\ gen[g].pc = "cancelled"
      BY <1>5, <2>a, <3>1 DEF OneTask
    <3>4. ASSUME NEW g \in Of(x)
          PROVE  /\ row'[x] \notin {"expired", "absent"}
                 /\ IF gen'[g].pc = "cancelled"
                    THEN /\ tracked'[x] = None
                         /\ \E q \in On(x)' : req'[q].pc \in {"clean", "seek"} /\ req'[q].on = g
                    ELSE tracked'[x] = g /\ handle'[x] = g /\ ~gen'[g].told
      BY <1>1, <3>1, <3>2, <3>4, ZenonT(40) DEF OneTask
    <3>5. /\ \A g, h \in Of(x)' : g = h
          /\ tracked'[x] # None => tracked'[x] \in Of(x)'
          /\ gen' = gen
      BY <1>1, <2>2, <3>1 DEF OneTask
    <3> QED BY <2>2, <3>3, <3>4, <3>5 DEF OneTask
  <2>6. Stocked(x)'
    BY <1>1, <1>5, <2>1, <2>2, ZenonT(40) DEF Stocked, Calm, Live
  <2>7. \A q \in On(x)' : StepOK(q, x)'
    <3>1. StepOK(r, x)'
      BY <1>1, <1>5 DEF StepOK, Live
    <3>2. ASSUME NEW q \in On(x) PROVE StepOK(q, x)'
      <4>1. StepOK(q, x) /\ req'[q] = req[q]
        BY <2>1, <2>a, <3>2 DEF Calm
      <4> QED BY <1>1, <4>1 DEF StepOK, Live
    <3> QED BY <2>a, <3>1, <3>2
  <2> QED BY <2>3, <2>4, <2>5, <2>6, <2>7 DEF Calm
<1>12. Gone(r)'
  BY <1>5 DEF Gone, Done
<1> QED BY <1>6, <1>7, <1>8, <1>9, <1>10, <1>11, <1>12, Locally

-----------------------------------------------------------------------------
(* Requests that interrupt a generation.                                     *)

LEMMA InterruptStep ==
  ASSUME PreviewInv, NEW r \in Reqs, NEW x \in Reqs,
         NEW kind \in {"stop", "status", "seek"}, NEW pc \in {"clean", "seek"},
         Interrupts(r, x, kind, row[x], pc), Live(x), req[x].pc \in Begun,
         req[r].pc = "new" \/ (req[r].pc = "lock" /\ kind = "seek" /\ req[r].s = x),
         kind = "seek" => LockFree(r) /\ req[r].pc = "lock",
         pc = "seek" <=> kind = "seek" /\ x \notin late, kind = "status" => x \in late,
         UNCHANGED <<row, late, lock, files, stale, stops>>,
         tangled \subseteq tangled', tangled' \subseteq Reqs,
         x \notin tangled' /\ kind # "seek" => On(x) = {}
  PROVE  PreviewInv'
<1>1. /\ RowType /\ ReqType /\ GenType /\ TablesType /\ HistoryType
      /\ RequestOK(r) /\ RequestOK(x) /\ TableOK(x) /\ Turns /\ None \notin Reqs
      /\ gen[r].pc = "none"
      /\ req[r].pc = "new" <=> req[r].kind = "none"
      /\ req[r].pc = "lock" => req[r].kind = "seek" /\ r \in On(x)
  <2>1. gen[r].pc = "none" /\ (req[r].pc = "lock" => req[r].kind = "seek" /\ r \in On(x))
    BY Rules DEF Places, Active
  <2> QED BY <2>1, Rules, TypeParts DEF PreviewInv, Origins
<1>2. ~req[r].pend /\ row[x] \in Statuses
  BY <1>1 DEF ReqType, Calling, Want, RowType
<1>3. /\ ReqType' /\ GenType' /\ tracked' \in [Reqs -> Reqs \union {None}]
      /\ Becomes(r, kind, x, row[x], pc) /\ Interrupted(r, x)
  BY <1>1, <1>2, InterruptsFacts
<1>4. RowType' /\ TablesType' /\ HistoryType'
  BY <1>1, <1>3 DEF RowType, TablesType, HistoryType, Interrupted
<1>5. x # r /\ ~Live(r)
  <2>1. req[x].pc # "new" /\ req[x].pc # "lock"
    BY DEF Begun
  <2>2. ~Live(r)
    BY <1>1 DEF RequestOK
  <2> QED BY <2>1, <2>2
<1>6. /\ Others(r) /\ req'[r].pc = pc /\ req'[r].kind = kind /\ req'[r].s = x
      /\ req'[r].st = row[x] /\ ~req'[r].pend /\ req'[r].lk = req[r].lk
  BY <1>3 DEF Becomes
<1>7. /\ tracked'[x] = None /\ handle' = handle
      /\ \A s \in Reqs : s # x => tracked'[s] = tracked[s]
      /\ \A h \in Reqs : /\ S(h) # x => Same(h)
                         /\ gen[h].pc # "none" => gen'[h].pc # "none"
                         /\ gen[h].pc = "none" => Same(h)
  <2>1. /\ tracked'[x] = None /\ handle' = handle
        /\ \A s \in Reqs : s # x => tracked'[s] = tracked[s]
    BY <1>1, <1>3 DEF Interrupted, TablesType
  <2>2. ASSUME NEW h \in Reqs
        PROVE  /\ S(h) # x => Same(h)
               /\ gen[h].pc # "none" => gen'[h].pc # "none"
               /\ gen[h].pc = "none" => Same(h)
    <3>1. CASE h = tracked[x]
      BY <1>1, <1>3, <3>1 DEF Interrupted, TableOK, Alive
    <3>2. CASE h # tracked[x]
      BY <1>1, <1>3, <3>2 DEF Interrupted, TableOK
    <3> QED BY <3>1, <3>2
  <2> QED BY <2>1, <2>2
<1>8. Only(r, x)
  <2>1. /\ req[r].pc # "new" => req'[r].s = req[r].s /\ req'[r].kind = req[r].kind
        /\ req[r].pc \notin Begun
    BY <1>1, <1>6 DEF Begun
  <2>2. \A s \in Reqs : s # x => Frames(s)
    BY <1>7 DEF Frames
  <2> QED BY <1>6, <1>7, <2>1, <2>2 DEF Only, Live, Begun
<1>9. RequestOK(r)'
  <2>1. req'[x].kind = "start" /\ req'[x].pc \in Begun
    BY <1>1, <1>5, <1>6 DEF RequestOK, Others
  <2>2. pc \in Places[kind]
    BY DEF Places
  <2>3. gen'[r].pc = "none" /\ ~gen'[r].told
    BY <1>1, <1>7 DEF RequestOK, Same
  <2>4. ~Live(r)'
    BY <1>5 DEF Live
  <2> QED BY <1>6, <2>1, <2>2, <2>3, <2>4 DEF RequestOK
<1>10. Turns'
  <2>1. \A q \in Reqs : q # r => (Inside(q)' <=> Inside(q)) /\ req'[q] = req[q]
    BY <1>6 DEF Others, Inside, Active
  <2>2. Inside(r)' => kind = "seek" /\ req[r].s = x
    BY <1>6 DEF Inside
  <2>3. kind = "seek" => \A q \in Reqs : Inside(q) => req[q].s # x \/ req[q].lk # req[r].lk
    BY DEF LockFree
  <2> QED BY <1>1, <1>6, <2>1, <2>2, <2>3 DEF Turns
<1>11. ASSUME x \notin tangled' PROVE Calm(x)'
  <2>1. /\ Calm(x) /\ Apart(x) /\ OneLock(x) /\ OneTask(x) /\ Stocked(x)
        /\ x \in Reqs \ tangled
    BY <1>11 DEF PreviewInv, Calm
  <2>2. \A q \in On(x) : q # r =>
          /\ q \in Reqs /\ req'[q] = req[q] /\ req[q].kind = "seek" /\ kind = "seek"
          /\ Over(x) \/ (req[q].pc = "lock" /\ req[q].lk = lock[x] /\ req[r].lk = lock[x])
    <3> SUFFICES ASSUME NEW q \in On(x), q # r
                 PROVE  /\ req[q].kind = "seek" /\ kind = "seek"
                        /\ ~Over(x) => /\ req[q].pc = "lock" /\ req[q].lk = lock[x]
                                       /\ req[r].lk = lock[x]
      BY <1>6 DEF Others, On
    <3>1. kind = "seek" /\ req[r].pc = "lock" /\ r \in On(x) /\ req[r].kind = "seek"
      BY <1>1, <1>11
    <3>2. req[q].kind = "seek"
      BY <2>1, <3>1 DEF Apart
    <3>3. ASSUME ~Over(x)
          PROVE  req[q].pc = "lock" /\ req[q].lk = lock[x] /\ req[r].lk = lock[x]
      <4>1. req[q].lk = lock[x] /\ req[r].lk = lock[x]
        BY <2>1, <3>1, <3>2, <3>3 DEF OneLock
      <4>2. LockFree(r) /\ req[r].s = x
        BY <3>1 DEF On
      <4> QED BY <3>2, <4>1, <4>2 DEF LockFree, Inside, On
    <3> QED BY <3>1, <3>2, <3>3
  <2>3. /\ r \in On(x)' /\ \A q \in On(x)' : q = r \/ q \in On(x)
        /\ \A q \in On(x) : q \in On(x)'
    <3>1. Active(r)' /\ \A q \in Reqs : q # r => (Active(q)' <=> Active(q)) /\ req'[q] = req[q]
      BY <1>6 DEF Others, Active
    <3> QED BY <1>6, <3>1 DEF On
  <2>4. ASSUME NEW g \in Of(x)'
        PROVE  g \in Of(x) /\ g = tracked[x] /\ gen'[g].pc = "cancelled" /\ req'[r].on = g
    <3>1. g \in Reqs /\ g # r /\ S(g) = x /\ Alive(g)'
      <4>1. g \in Reqs /\ Alive(g)' /\ S(g)' = x
        BY <2>4 DEF Of
      <4>2. g # r
        <5>1. gen'[r].pc = "none"
          BY <1>1, <1>7 DEF Same
        <5> QED BY <4>1, <5>1 DEF Alive
      <4> QED BY <1>6, <4>1, <4>2 DEF S, Others
    <3>2. Alive(g)
      BY <1>3, <3>1 DEF Interrupted, Alive
    <3>3. g \in Of(x)
      BY <3>1, <3>2 DEF Of
    <3>4. gen[g].pc # "cancelled"
      <4> SUFFICES ASSUME gen[g].pc = "cancelled" PROVE FALSE
        OBVIOUS
      <4>1. PICK q \in On(x) : req[q].pc \in {"clean", "seek"} /\ req[q].on = g
        BY <2>1, <3>3 DEF OneTask
      <4>2. q # r /\ ~Over(x)
        BY <3>3, <4>1 DEF Over
      <4> QED BY <2>2, <4>1, <4>2
    <3>5. g = tracked[x]
      BY <2>1, <3>3, <3>4 DEF OneTask
    <3> QED BY <1>3, <3>1, <3>2, <3>3, <3>5 DEF Interrupted, Alive
  <2>5. Apart(x)'
    BY <1>6, <2>2, <2>3 DEF Apart
  <2>6. OneLock(x)'
    <3>1. CASE Over(x) /\ kind = "seek"
      <4>1. Of(x)' = {} /\ x \in late' /\ row'[x] = "expired" /\ pc = "clean"
        BY <2>4, <3>1 DEF Over
      <4>2. ASSUME NEW q \in On(x)'
            PROVE  /\ req'[q].kind = "seek"
                   /\ req'[q].pc = "lock" \/ (req'[q].pc = "clean" /\ req'[q].st = "expired")
        <5>1. CASE q = r
          BY <1>6, <3>1, <4>1, <5>1
        <5>2. CASE q # r
          BY <2>2, <2>3, <3>1, <5>2 DEF Over
        <5> QED BY <5>1, <5>2
      <4>3. Over(x)'
        BY <4>1, <4>2 DEF Over
      <4> QED BY <4>3 DEF OneLock
    <3>2. CASE kind # "seek"
      BY <1>6, <2>2, <2>3, <3>2 DEF OneLock
    <3>3. CASE ~Over(x) /\ kind = "seek"
      <4>1. req[r].lk = lock[x]
        BY <1>1, <2>1, <3>3 DEF OneLock
      <4> QED BY <1>6, <2>2, <2>3, <3>3, <4>1 DEF OneLock
    <3> QED BY <3>1, <3>2, <3>3
  <2>7. OneTask(x)'
    <3>1. \A g, h \in Of(x)' : g = h
      BY <2>4
    <3>2. ASSUME NEW g \in Of(x)'
          PROVE  /\ row'[x] \notin {"expired", "absent"}
                 /\ gen'[g].pc = "cancelled" /\ tracked'[x] = None
                 /\ \E q \in On(x)' : req'[q].pc \in {"clean", "seek"} /\ req'[q].on = g
                 /\ \A q \in On(x)' : \/ req'[q].pc = "lock"
                                      \/ req'[q].pc \in {"clean", "seek"} /\ req'[q].on = g
      <4>1. g \in Of(x) /\ gen'[g].pc = "cancelled" /\ req'[r].on = g /\ ~Over(x)
        BY <2>4, <3>2 DEF Over
      <4>2. row'[x] \notin {"expired", "absent"}
        BY <2>1, <4>1 DEF OneTask
      <4>3. \A q \in On(x)' : q # r => req'[q].pc = "lock"
        BY <2>2, <2>3, <4>1
      <4> QED BY <1>6, <1>7, <2>3, <4>1, <4>2, <4>3
    <3> QED BY <1>7, <3>1, <3>2 DEF OneTask
  <2>8. Stocked(x)'
    <3>1. \A g \in Of(x)' : gen'[g].pc = "cancelled"
      BY <2>4
    <3>2. \E q \in On(x)' : req'[q].pc \in Owing
      BY <1>6, <2>3 DEF Owing
    <3> QED BY <3>1, <3>2 DEF Stocked, Live
  <2>9. ASSUME NEW q \in On(x)' PROVE StepOK(q, x)'
    <3>1. CASE q = r
      BY <1>2, <1>6, <3>1 DEF StepOK, Live
    <3>2. CASE q # r
      <4>1. StepOK(q, x) /\ req'[q] = req[q]
        BY <2>1, <2>2, <2>3, <3>2 DEF Calm
      <4> QED BY <1>7, <4>1 DEF StepOK, Live
    <3> QED BY <3>1, <3>2
  <2> QED BY <2>5, <2>6, <2>7, <2>8, <2>9 DEF Calm
<1>12. Gone(r)'
  BY <1>6 DEF Gone, Done
<1> QED BY <1>3, <1>4, <1>8, <1>9, <1>10, <1>11, <1>12, Locally

LEMMA ReadsKeep ==
  ASSUME PreviewInv, NEW r \in Reqs, NEW x \in Reqs, StopRead(r, x) \/ StatusRead(r, x)
  PROVE  PreviewInv'
<1>1. PICK kind \in {"stop", "status"} :
        /\ req[r].pc = "new" /\ Live(x) /\ req[x].pc \in Begun
        /\ Interrupts(r, x, kind, row[x], "clean") /\ Tangles(r, x, kind)
        /\ kind = "status" => x \in late
        /\ UNCHANGED <<row, late, lock, files, stale, stops>>
  BY DEF StopRead, StatusRead, Fresh, Known, Begun, rowVars
<1>2. /\ tangled \subseteq tangled' /\ tangled' \subseteq Reqs
      /\ x \notin tangled' => On(x) = {}
  BY <1>1, TanglesFacts
<1> QED BY <1>1, <1>2, InterruptStep

LEMMA SeekReadKeeps ==
  ASSUME PreviewInv, NEW r \in Reqs, SeekRead(r)
  PROVE  PreviewInv'
<1>1. PICK x : x = req[r].s
  OBVIOUS
<1>2. /\ req[r].pc = "lock" /\ LockFree(r)
      /\ UNCHANGED <<row, late, lock, files, tangled, stale, stops>>
  BY DEF SeekRead, rowVars, histories
<1>3. Active(r) /\ ~req[r].pend /\ req[r].kind = "seek"
  BY <1>2, Rules DEF Active, Calling, Want, Places
<1>4. /\ x \in Reqs /\ r \in On(x) /\ RequestOK(r) /\ HistoryType
      /\ Goes(r, "done") => Went(r, "done") /\ ReqType'
      /\ x \notin tangled => Calm(x) /\ StepOK(r, x)
  BY <1>1, <1>2, <1>3, Starts DEF ReqPCs
<1>5. CASE ~Live(x)
  <2>1. Went(r, "done") /\ ReqType' /\ UNCHANGED <<gen, tracked, handle>>
    BY <1>1, <1>4, <1>5, Zenon DEF SeekRead, taskVars
  <2>2. x \notin tangled => FALSE
    BY <1>2, <1>4, <1>5 DEF StepOK
  <2> QED BY <1>1, <1>2, <1>3, <1>4, <2>1, <2>2, LeavesKeeps
<1>6. CASE Live(x)
  <2>1. PICK pc \in {"clean", "seek"} : pc = IF x \in late THEN "clean" ELSE "seek"
    OBVIOUS
  <2>2. Interrupts(r, x, "seek", row[x], pc)
    BY <1>1, <1>6, <2>1 DEF SeekRead
  <2>3. req[x].pc \in Begun
    BY <1>1, <1>3, <1>4 DEF RequestOK
  <2>4. pc = "seek" <=> x \notin late
    BY <2>1
  <2> QED BY <1>1, <1>2, <1>3, <1>4, <1>6, <2>2, <2>3, <2>4, InterruptStep DEF HistoryType
<1> QED BY <1>5, <1>6

-----------------------------------------------------------------------------
(* Requests that end by creating a generation.                               *)

LEMMA SpawnStep ==
  ASSUME PreviewInv, NEW r \in Reqs, NEW x \in Reqs, req[r].s = x,
         req[r].pc \in {"announceGenerating", "announceSeeking"}, Registers(r, x)
  PROVE  PreviewInv'
<1>1. /\ RowType /\ ReqType /\ GenType /\ TablesType /\ HistoryType
      /\ RequestOK(r) /\ Turns /\ None \notin Reqs
      /\ gen[r].pc = "none" /\ ~gen[r].told
      /\ r \in On(x) /\ req[r].kind \in {"start", "seek"}
  <2>1. gen[r].pc = "none" /\ r \in On(x) /\ req[r].kind \in {"start", "seek"}
    BY Rules DEF Places, Active
  <2> QED BY <2>1, Rules, TypeParts DEF PreviewInv, Origins, RequestOK
<1>2. /\ ReqType' /\ GenType' /\ TablesType' /\ Went(r, "done")
      /\ gen'[r].pc = "queued" /\ ~gen'[r].told
      /\ \A h \in Reqs : h # r => gen'[h] = gen[h]
      /\ tracked' = [tracked EXCEPT ![x] = r] /\ handle' = [handle EXCEPT ![x] = r]
      /\ UNCHANGED <<row, late, lock, files, tangled, stale, stops>>
  BY <1>1, RegistersFacts DEF rowVars, histories
<1>3. RowType' /\ HistoryType'
  BY <1>1, <1>2 DEF RowType, HistoryType
<1>4. /\ Others(r) /\ req'[r].pc = "done" /\ req'[r].kind = req[r].kind
      /\ req'[r].s = x /\ ~req'[r].pend
  BY <1>2 DEF Went
<1>5. /\ tracked'[x] = r /\ handle'[x] = r
      /\ \A s \in Reqs : s # x => Frames(s)
  BY <1>1, <1>2 DEF TablesType, Frames
<1>6. Only(r, x)
  <2>1. \A h \in Reqs : /\ S(h) # x => Same(h)
                        /\ gen[h].pc # "none" => gen'[h].pc # "none"
                        /\ gen[h].pc = "none" => h = r \/ Same(h)
    <3>1. S(r) = x
      BY DEF S
    <3> QED BY <1>2, <3>1 DEF Same
  <2>2. Live(x)' <=> Live(x)
    BY <1>2 DEF Live
  <2>3. /\ tracked'[x] = r /\ handle'[x] = r /\ gen'[r].pc # "none"
        /\ late' = late /\ stale' = stale /\ tangled \subseteq tangled'
    BY <1>2, <1>5
  <2>4. req[r].pc # "done" /\ req'[r].pc \in Begun
    BY <1>4 DEF Begun
  <2> QED BY <1>4, <1>5, <2>1, <2>2, <2>3, <2>4 DEF Only
<1>7. RequestOK(r)'
  <2>1. req[r].kind = "seek" => req'[x].kind = "start" /\ req'[x].pc \in Begun
    BY <1>1, <1>4 DEF RequestOK, Others
  <2>2. "done" \in Places[req[r].kind]
    BY <1>1 DEF Places
  <2> QED BY <1>1, <1>2, <1>4, <2>1, <2>2 DEF RequestOK, Live
<1>8. Turns'
  <2>1. \A q \in Reqs : Inside(q)' => Inside(q) /\ req'[q].s = req[q].s /\ req'[q].lk = req[q].lk
    BY <1>4 DEF Inside, Others, Active
  <2> QED BY <1>1, <2>1, TurnsKept
<1>9. ASSUME x \notin tangled' PROVE Calm(x)'
  <2>1. /\ Calm(x) /\ x \in Reqs \ tangled /\ StepOK(r, x) /\ Of(x) = {}
    <3>1. x \in Reqs \ tangled
      BY <1>2, <1>9
    <3> QED BY <1>1, <3>1, Idle DEF PreviewInv, Calm
  <2>2. ~Over(x) /\ Live(x) /\ row[x] \in {"generating", "seeking"}
    BY <1>1, <2>1 DEF Over, StepOK
  <2>3. \A q \in On(x)' : /\ q \in On(x) /\ q # r /\ req'[q] = req[q]
                           /\ req[q].kind = "seek" /\ req[q].pc = "lock" /\ req[q].lk = lock[x]
    <3>1. \A q \in On(x)' : q \in On(x) /\ q # r /\ req'[q] = req[q]
      BY <1>4 DEF On, Others, Active
    <3> QED BY <1>1, <2>1, <2>2, <3>1, Company
  <2>4. Of(x)' = {r}
    <3>1. \A h \in Reqs : h # r => (Alive(h)' <=> Alive(h)) /\ S(h)' = S(h)
      BY <1>2, <1>4 DEF Alive, S, Others
    <3>2. Alive(r)' /\ S(r)' = x
      BY <1>2, <1>4 DEF Alive, S
    <3> QED BY <2>1, <3>1, <3>2 DEF Of
  <2>5. Apart(x)' /\ OneLock(x)'
    BY <1>2, <2>3 DEF Apart, OneLock
  <2>6. OneTask(x)'
    BY <1>2, <1>5, <2>2, <2>3, <2>4 DEF OneTask
  <2>7. Stocked(x)'
    BY <1>2, <2>2, <2>4 DEF Stocked, Live
  <2>8. \A q \in On(x)' : StepOK(q, x)'
    BY <1>2, <2>2, <2>3 DEF StepOK, Live
  <2> QED BY <2>5, <2>6, <2>7, <2>8 DEF Calm
<1>10. Gone(r)'
  BY <1>1, <1>4 DEF Gone, Done
<1> QED BY <1>2, <1>3, <1>6, <1>7, <1>8, <1>9, <1>10, Locally

LEMMA SpawnsKeep ==
  ASSUME PreviewInv, NEW r \in Reqs, StartSpawn(r) \/ SeekSpawn(r)
  PROVE  PreviewInv'
<1>1. PICK x : x = req[r].s
  OBVIOUS
<1>2. req[r].pc \in {"announceGenerating", "announceSeeking"}
  BY DEF StartSpawn, SeekSpawn
<1>3. Active(r) /\ ~req[r].pend
  BY <1>2, Rules DEF Active, Calling, Want
<1>4. x \in Reqs /\ (Goes(r, "done") => Went(r, "done") /\ ReqType')
  BY <1>1, <1>3, Starts DEF ReqPCs
<1>5. CASE Registers(r, x)
  BY <1>1, <1>2, <1>4, <1>5, SpawnStep
<1>6. CASE ~Registers(r, x)
  <2>1. /\ Goes(r, "done")
        /\ UNCHANGED <<row, late, gen, tracked, handle, lock, files, tangled, stale, stops>>
    BY <1>1, <1>6 DEF StartSpawn, SeekSpawn, rowVars, taskVars, histories
  <2> QED BY <1>1, <1>2, <1>3, <1>4, <2>1, LeavesKeeps DEF Owing
<1> QED BY <1>5, <1>6

-----------------------------------------------------------------------------
(* The steps of a generation.                                                *)

Going == GenPCs \ {"none", "done", "cancelled"}

(* What a step of g owes to the invariant of its session x.                  *)
Supplies(g, x) ==
  /\ row'[x] # "expired"
  /\ Ended(g) \/ \E pc \in Going :
       /\ Moved(g, pc) /\ gen[g].pc # "cancelled"
       /\ pc \in {"queued", "encoding"} => row'[x] # "ready"
       /\ pc \in {"fetch", "genReady", "announceReady"} => files'[x] = g
  /\ row'[x] = "ready" /\ x \notin stale =>
       files'[x] # None \/ \E r \in On(x) : req[r].pc \in Owing

LEMMA GenStep ==
  ASSUME PreviewInv, NEW g \in Reqs, NEW x \in Reqs, Alive(g), S(g) = x,
         UNCHANGED <<req, late, lock, tangled, stale, stops>>,
         RowType', GenType', TablesType',
         Ended(g) \/ \E pc \in Going : Moved(g, pc),
         \A s \in Reqs : s # x => row'[s] = row[s] /\ files'[s] = files[s],
         Live(x)' <=> Live(x),
         x \notin tangled => Supplies(g, x)
  PROVE  PreviewInv'
<1>1. /\ RequestOK(g) /\ Turns /\ ReqType /\ HistoryType /\ TablesType /\ None \notin Reqs
      /\ req[g].s = x /\ gen[g].pc # "none" /\ req[g].pc = "done"
  BY Rules, TypeParts DEF PreviewInv, Origins, S, Alive
<1>2. /\ OtherGens(g) /\ gen'[g].pc # "none"
      /\ \A s \in Reqs : s # x => tracked'[s] = tracked[s] /\ handle'[s] = handle[s]
      /\ tracked'[x] \in {None, tracked[x]} /\ handle'[x] \in {None, handle[x]}
  <2>1. CASE Ended(g)
    BY <1>1, <2>1 DEF Ended, TablesType
  <2>2. CASE \E pc \in Going : Moved(g, pc)
    BY <2>2 DEF Moved, Going
  <2> QED BY <2>1, <2>2
<1>3. ReqType' /\ HistoryType'
  BY <1>1 DEF ReqType, HistoryType, Calling
<1>4. Only(g, x)
  <2>1. \A h \in Reqs : /\ S(h) # x => Same(h)
                        /\ gen[h].pc # "none" => gen'[h].pc # "none"
                        /\ gen[h].pc = "none" => h = g \/ Same(h)
    BY <1>2 DEF OtherGens, Same
  <2>2. \A s \in Reqs : s # x => Frames(s)
    BY <1>2 DEF Frames
  <2>3. /\ Others(g) /\ req' = req /\ late' = late /\ stale' = stale /\ tangled \subseteq tangled'
        /\ Live(x)' => Live(x)
    BY DEF Others
  <2> QED BY <1>1, <1>2, <2>1, <2>2, <2>3 DEF Only
<1>5. RequestOK(g)'
  <2>1. Live(g)' => Live(g)
    BY DEF Live
  <2> QED BY <1>1, <1>2, <2>1 DEF RequestOK
<1>6. Turns'
  BY <1>1 DEF Turns, Inside, Active
<1>7. Gone(g)'
  <2>1. Gone(g) /\ Live(req[g].s)' = Live(x)'
    BY <1>1 DEF PreviewInv, Live
  <2> QED BY <1>1, <2>1 DEF Gone, Done
<1>8. ASSUME x \notin tangled' PROVE Calm(x)'
  <2>1. /\ Calm(x) /\ Apart(x) /\ OneLock(x) /\ OneTask(x) /\ Supplies(g, x) /\ g \in Of(x)
        /\ Live(x) /\ row[x] # "expired"
    <3>1. Calm(x) /\ Supplies(g, x)
      BY <1>8 DEF PreviewInv
    <3>2. g \in Of(x)
      BY DEF Of
    <3> QED BY <3>1, <3>2 DEF Calm, OneTask, Live
  <2>2. /\ On(x)' = On(x) /\ \A q \in On(x) : req'[q] = req[q]
        /\ Of(x)' \subseteq {g}
        /\ Ended(g) => Of(x)' = {}
    <3>1. On(x)' = On(x)
      BY DEF On, Active
    <3>2. \A h \in Of(x)' : h = g
      BY <1>2, <2>1 DEF Of, OtherGens, OneTask, Alive, S
    <3>3. Ended(g) => g \notin Of(x)'
      BY DEF Ended, Of, Alive
    <3> QED BY <3>1, <3>2, <3>3
  <2>3. Apart(x)'
    BY <2>1, <2>2 DEF Apart
  <2>4. OneLock(x)'
    <3>1. ~Over(x)
      BY <2>1 DEF Over
    <3> QED BY <2>1, <2>2, <3>1 DEF OneLock
  <2>5. OneTask(x)' /\ Stocked(x)'
    <3>1. row'[x] \notin {"expired", "absent"} /\ Live(x)'
      BY <2>1 DEF Supplies, Live
    <3>2. row'[x] = "ready" /\ x \notin stale' =>
            files'[x] # None \/ \E q \in On(x)' : req'[q].pc \in Owing
      BY <2>1, <2>2 DEF Supplies
    <3>3. CASE Ended(g)
      <4>1. tracked'[x] = None /\ Of(x)' = {}
        BY <1>1, <2>2, <3>3 DEF Ended, TablesType
      <4> QED BY <3>1, <3>2, <4>1 DEF OneTask, Stocked
    <3>4. CASE ~Ended(g)
      <4>1. PICK pc \in Going :
              /\ Moved(g, pc) /\ gen[g].pc # "cancelled"
              /\ pc \in {"queued", "encoding"} => row'[x] # "ready"
              /\ pc \in {"fetch", "genReady", "announceReady"} => files'[x] = g
        BY <2>1, <3>4 DEF Supplies
      <4>2. /\ gen'[g].pc = pc /\ pc # "cancelled" /\ ~gen'[g].told
            /\ tracked'[x] = g /\ handle'[x] = g
            /\ \A q \in On(x) : req[q].pc = "lock"
            /\ Of(x)' = {g}
        <5>1. /\ gen'[g].pc = pc /\ pc \notin {"none", "done", "cancelled"}
              /\ gen'[g].told <=> gen[g].told
              /\ tracked' = tracked /\ handle' = handle
          BY <4>1 DEF Moved, Going
        <5>2. g \in Of(x)'
          BY <5>1, <1>1 DEF Of, Alive, S
        <5> QED BY <2>1, <2>2, <4>1, <5>1, <5>2 DEF OneTask
      <4>3. OneTask(x)'
        BY <2>2, <3>1, <4>2 DEF OneTask
      <4>4. Stocked(x)'
        BY <2>2, <3>1, <3>2, <4>1, <4>2 DEF Stocked
      <4> QED BY <4>3, <4>4
    <3> QED BY <3>3, <3>4
  <2>6. ASSUME NEW q \in On(x)' PROVE StepOK(q, x)'
    <3>1. /\ q \in On(x) /\ req'[q] = req[q] /\ req[q].pc \in {"lock", "clean", "seek"}
          /\ StepOK(q, x)
      BY <2>1, <2>2, <2>6 DEF OneTask, Calm
    <3> QED BY <2>1, <3>1 DEF StepOK
  <2> QED BY <2>3, <2>4, <2>5, <2>6 DEF Calm
<1> QED BY <1>3, <1>4, <1>5, <1>6, <1>7, <1>8, Locally

LEMMA GenStarts ==
  ASSUME PreviewInv, NEW g \in Reqs, Alive(g)
  PROVE  /\ S(g) \in Reqs /\ gen[g] \in GenRec /\ None \notin Reqs
         /\ RowType /\ GenType /\ TablesType
         /\ S(g) \notin tangled =>
              /\ g \in Of(S(g)) /\ OneTask(S(g)) /\ Stocked(S(g)) /\ Live(S(g))
              /\ row[S(g)] # "expired"
              /\ gen[g].told => gen[g].pc = "cancelled"
<1>1. /\ S(g) \in Reqs /\ gen[g] \in GenRec /\ g \in Of(S(g)) /\ None \notin Reqs
      /\ RowType /\ GenType /\ TablesType
  BY Rules, TypeParts DEF PreviewInv
<1>2. ASSUME S(g) \notin tangled
      PROVE  /\ OneTask(S(g)) /\ Stocked(S(g)) /\ Live(S(g)) /\ row[S(g)] # "expired"
             /\ gen[g].told => gen[g].pc = "cancelled"
  <2>1. OneTask(S(g)) /\ Stocked(S(g))
    BY <1>1, <1>2 DEF PreviewInv, Calm
  <2> QED BY <1>1, <2>1 DEF OneTask, Live
<1> QED BY <1>1, <1>2

LEMMA ErrsFacts ==
  ASSUME GenType, TablesType, NEW g \in Reqs, Errs(g), ~gen[g].pend
  PROVE  /\ GenType' /\ tracked' \in [Reqs -> Reqs \union {None}]
         /\ handle' \in [Reqs -> Reqs \union {None}]
         /\ Ended(g) \/ (Moved(g, "fetchError") /\ ~gen[g].told)
<1>1. CASE gen[g].told
  BY <1>1, EndsFacts DEF Errs
<1>2. CASE ~gen[g].told
  <2>1. Moves(g, "fetchError") /\ "fetchError" \in GenPCs
    BY <1>2 DEF Errs, GenPCs
  <2>2. GenType' /\ Moved(g, "fetchError")
    BY <2>1, MovesFacts
  <2> QED BY <1>2, <2>2 DEF Moved, TablesType
<1> QED BY <1>1, <1>2

(* Steps that write neither the row nor the files.                           *)
LEMMA GenQuietStep ==
  ASSUME PreviewInv, NEW g \in Reqs, Alive(g),
         UNCHANGED <<row, late, req, lock, files, tangled, stale, stops>>,
         GenType', tracked' \in [Reqs -> Reqs \union {None}],
         handle' \in [Reqs -> Reqs \union {None}],
         Ended(g) \/ \E pc \in Going :
           /\ Moved(g, pc) /\ gen[g].pc # "cancelled"
           /\ pc \in {"queued", "encoding"} => gen[g].pc \in {"queued", "encoding"}
           /\ pc \in {"fetch", "genReady", "announceReady"} =>
                gen[g].pc \in {"fetch", "genReady", "announceReady"}
  PROVE  PreviewInv'
<1>1. PICK x : x = S(g)
  OBVIOUS
<1>2. /\ x \in Reqs /\ RowType /\ TablesType
      /\ x \notin tangled => g \in Of(x) /\ Stocked(x) /\ Live(x) /\ row[x] # "expired"
  BY <1>1, GenStarts
<1>3. RowType' /\ TablesType'
  BY <1>2 DEF RowType, TablesType
<1>4. ASSUME x \notin tangled PROVE Supplies(g, x)
  BY <1>2, <1>4 DEF Supplies, Stocked
<1>5. Live(x)' <=> Live(x)
  BY DEF Live
<1> QED BY <1>1, <1>2, <1>3, <1>4, <1>5, GenStep

LEMMA GenRunsKeeps ==
  ASSUME PreviewInv, NEW g \in Reqs, GenRuns(g)
  PROVE  PreviewInv'
<1>1. /\ gen[g].pc = "queued" /\ Moves(g, "encoding")
      /\ UNCHANGED <<row, late, req, lock, files, tangled, stale, stops>>
  BY DEF GenRuns, rowVars, histories
<1>2. Alive(g) /\ "encoding" \in GenPCs /\ "encoding" \in Going
  BY <1>1 DEF Alive, GenPCs, Going
<1>3. GenType /\ TablesType /\ ~gen[g].pend
  BY <1>1, <1>2, GenStarts DEF GenType
<1>4. GenType' /\ Moved(g, "encoding")
  BY <1>1, <1>2, <1>3, MovesFacts
<1>5. tracked' \in [Reqs -> Reqs \union {None}] /\ handle' \in [Reqs -> Reqs \union {None}]
  BY <1>3, <1>4 DEF Moved, TablesType
<1> QED BY <1>1, <1>2, <1>4, <1>5, GenQuietStep

LEMMA GenFetchKeeps ==
  ASSUME PreviewInv, NEW g \in Reqs, GenFetch(g)
  PROVE  PreviewInv'
<1>1. /\ gen[g].pc \in {"fetch", "fetchError"}
      /\ UNCHANGED <<row, late, req, lock, files, tangled, stale, stops>>
  BY DEF GenFetch, rowVars, histories
<1>2. Alive(g)
  BY <1>1 DEF Alive
<1>3. RowType /\ GenType /\ TablesType /\ gen[g] \in GenRec /\ ~gen[g].pend /\ S(g) \in Reqs
  BY <1>1, <1>2, GenStarts DEF GenType
<1>4. CASE ~Live(S(g))
  <2>1. Ends(g)
    BY <1>4 DEF GenFetch
  <2> QED BY <1>1, <1>2, <1>3, <2>1, EndsFacts, GenQuietStep
<1>5. CASE Live(S(g))
  <2>1. PICK pc \in Going : /\ pc = IF gen[g].pc = "fetch" THEN "genReady" ELSE "genError"
                            /\ pc \in GenPCs /\ pc \in {"genReady", "genError"}
    BY DEF Going, GenPCs
  <2>2. /\ gen' = [gen EXCEPT ![g].pc = pc, ![g].st = row[S(g)]]
        /\ UNCHANGED <<tracked, handle>>
    BY <1>5, <2>1 DEF GenFetch
  <2>3. row[S(g)] \in Statuses
    BY <1>3 DEF RowType
  <2>4. /\ gen' \in [Reqs -> GenRec] /\ OtherGens(g) /\ gen'[g].pc = pc
        /\ gen'[g].told = gen[g].told
    BY <1>3, <2>1, <2>2, <2>3 DEF GenType, GenRec, OtherGens
  <2>5. GenType' /\ Moved(g, pc)
    BY <1>3, <2>1, <2>2, <2>4 DEF GenType, Moved, OtherGens
  <2>6. tracked' \in [Reqs -> Reqs \union {None}] /\ handle' \in [Reqs -> Reqs \union {None}]
    BY <1>3, <2>2 DEF TablesType
  <2> QED BY <1>1, <1>2, <2>1, <2>5, <2>6, GenQuietStep
<1> QED BY <1>4, <1>5

LEMMA GenTransitionReadKeeps ==
  ASSUME PreviewInv, NEW g \in Reqs, GenTransitionRead(g)
  PROVE  PreviewInv'
<1>1. /\ gen[g].pc \in {"genReady", "genError"} /\ ~gen[g].pend
      /\ UNCHANGED <<row, late, req, lock, files, tangled, stale, stops>>
  BY DEF GenTransitionRead, rowVars, histories
<1>2. Alive(g)
  BY <1>1 DEF Alive
<1>3. GenType /\ TablesType /\ gen[g] \in GenRec
  BY <1>2, GenStarts
<1>4. CASE Ends(g)
  BY <1>1, <1>2, <1>3, <1>4, EndsFacts, GenQuietStep
<1>5. CASE Errs(g)
  <2>1. /\ GenType' /\ tracked' \in [Reqs -> Reqs \union {None}]
        /\ handle' \in [Reqs -> Reqs \union {None}]
        /\ Ended(g) \/ Moved(g, "fetchError")
    BY <1>1, <1>3, <1>5, ErrsFacts
  <2>2. "fetchError" \in Going
    BY DEF Going, GenPCs
  <2> QED BY <1>1, <1>2, <2>1, <2>2, GenQuietStep
<1>6. CASE gen' = [gen EXCEPT ![g].pend = TRUE] /\ UNCHANGED <<tracked, handle>>
  <2>1. /\ gen' \in [Reqs -> GenRec] /\ OtherGens(g) /\ gen'[g].pc = gen[g].pc
        /\ gen'[g].told = gen[g].told
    BY <1>3, <1>6 DEF GenType, GenRec, OtherGens
  <2>2. GenType' /\ Moved(g, gen[g].pc)
    BY <1>1, <1>3, <1>6, <2>1 DEF GenType, Moved, OtherGens
  <2>3. tracked' \in [Reqs -> Reqs \union {None}] /\ handle' \in [Reqs -> Reqs \union {None}]
    BY <1>3, <1>6 DEF TablesType
  <2>4. gen[g].pc \in Going
    BY <1>1 DEF Going, GenPCs
  <2> QED BY <1>1, <1>2, <2>2, <2>3, <2>4, GenQuietStep
<1> QED BY <1>4, <1>5, <1>6 DEF GenTransitionRead

LEMMA GenAnnouncesKeep ==
  ASSUME PreviewInv, NEW g \in Reqs, GenAnnounces(g) \/ GenAnnounceFails(g)
  PROVE  PreviewInv'
<1>1. /\ gen[g].pc \in {"announceReady", "announceError"} /\ (Ends(g) \/ Errs(g))
      /\ UNCHANGED <<row, late, req, lock, files, tangled, stale, stops>>
  BY DEF GenAnnounces, GenAnnounceFails, rowVars, histories
<1>2. Alive(g)
  BY <1>1 DEF Alive
<1>3. GenType /\ TablesType /\ ~gen[g].pend
  BY <1>1, <1>2, GenStarts DEF GenType
<1>4. /\ GenType' /\ tracked' \in [Reqs -> Reqs \union {None}]
      /\ handle' \in [Reqs -> Reqs \union {None}]
      /\ Ended(g) \/ Moved(g, "fetchError")
  BY <1>1, <1>3, EndsFacts, ErrsFacts
<1>5. "fetchError" \in Going
  BY DEF Going, GenPCs
<1> QED BY <1>1, <1>2, <1>4, <1>5, GenQuietStep

(* FFmpeg ends, well or not.                                                 *)
LEMMA FfmpegKeeps ==
  ASSUME PreviewInv, NEW g \in Reqs, Ffmpeg(g)
  PROVE  PreviewInv'
<1>1. PICK x : x = S(g)
  OBVIOUS
<1>2. /\ gen[g].pc = "encoding"
      /\ UNCHANGED <<row, late, req, lock, tangled, stale, stops>>
  BY DEF Ffmpeg, GenEncoded, GenFails, rowVars, histories
<1>3. Alive(g)
  BY <1>2 DEF Alive
<1>4. /\ x \in Reqs /\ RowType /\ GenType /\ TablesType /\ ~gen[g].pend /\ None \notin Reqs
      /\ x \notin tangled => /\ g \in Of(x) /\ Stocked(x) /\ Live(x) /\ row[x] # "expired"
                             /\ ~gen[g].told
  BY <1>1, <1>2, <1>3, GenStarts DEF GenType
<1>5. PICK f \in {g, None} :
        /\ files' = [files EXCEPT ![x] = f]
        /\ f = g => ~gen[g].told /\ Moves(g, "fetch")
        /\ f = None => Errs(g)
  <2>1. CASE GenEncoded(g) /\ ~gen[g].told
    <3>1. files' = [files EXCEPT ![x] = g] /\ Moves(g, "fetch")
      BY <1>1, <2>1 DEF GenEncoded
    <3> QED BY <1>4, <2>1, <3>1
  <2>2. CASE GenFails(g) \/ (GenEncoded(g) /\ gen[g].told)
    <3>1. files' = [files EXCEPT ![x] = None] /\ Errs(g)
      BY <1>1, <2>2 DEF GenEncoded, GenFails, Errs
    <3> QED BY <1>4, <3>1
  <2> QED BY <2>1, <2>2 DEF Ffmpeg
<1>6. /\ "fetch" \in Going /\ "fetch" \in GenPCs /\ "fetchError" \in Going
  BY DEF Going, GenPCs
<1>7. /\ GenType' /\ tracked' \in [Reqs -> Reqs \union {None}]
      /\ handle' \in [Reqs -> Reqs \union {None}]
      /\ f = g => Moved(g, "fetch")
      /\ f = None => Ended(g) \/ Moved(g, "fetchError")
  <2>1. CASE f = g
    <3>1. GenType' /\ Moved(g, "fetch")
      BY <1>4, <1>5, <1>6, <2>1, MovesFacts
    <3> QED BY <1>4, <2>1, <3>1 DEF Moved, TablesType
  <2>2. CASE f = None
    BY <1>4, <1>5, <2>2, ErrsFacts
  <2> QED BY <2>1, <2>2
<1>8. RowType' /\ TablesType' /\ files'[x] = f
  BY <1>2, <1>4, <1>5, <1>7 DEF RowType, TablesType
<1>9. \A s \in Reqs : s # x => row'[s] = row[s] /\ files'[s] = files[s]
  BY <1>2, <1>4, <1>5 DEF TablesType
<1>10. ASSUME x \notin tangled PROVE Supplies(g, x)
  <2>1. row'[x] # "expired" /\ row'[x] # "ready"
    BY <1>2, <1>4, <1>10 DEF Stocked
  <2>2. Ended(g) \/ \E pc \in Going : Moved(g, pc) /\ pc \in {"fetch", "fetchError"}
                                      /\ (pc = "fetch" => files'[x] = g)
    BY <1>5, <1>6, <1>7, <1>8
  <2> QED BY <1>2, <2>1, <2>2 DEF Supplies
<1>11. Live(x)' <=> Live(x)
  BY <1>2 DEF Live
<1>12. Ended(g) \/ \E pc \in Going : Moved(g, pc)
  BY <1>5, <1>6, <1>7
<1> QED BY <1>1, <1>2, <1>3, <1>4, <1>7, <1>8, <1>9, <1>10, <1>11, <1>12, GenStep

LEMMA WrittenFacts ==
  ASSUME RowType, NEW x \in Reqs, NEW want \in Status, row' = Written(x, want)
  PROVE  /\ RowType' /\ (Live(x)' <=> Live(x))
         /\ Live(x) => row'[x] = want
         /\ \A s \in Reqs : s # x => row'[s] = row[s]
<1>1. want # "absent"
  BY DEF Status
<1> QED BY <1>1 DEF Written, RowType, Statuses, Live

LEMMA GenTransitionWriteKeeps ==
  ASSUME PreviewInv, NEW g \in Reqs, GenTransitionWrite(g)
  PROVE  PreviewInv'
<1>1. PICK x : x = S(g)
  OBVIOUS
<1>2. /\ gen[g].pc \in {"genReady", "genError"}
      /\ UNCHANGED <<late, req, tracked, handle, lock, files, tangled, stale, stops>>
  BY DEF GenTransitionWrite, histories
<1>3. Alive(g)
  BY <1>2 DEF Alive
<1>4. /\ x \in Reqs /\ RowType /\ GenType /\ TablesType /\ gen[g] \in GenRec /\ None \notin Reqs
      /\ x \notin tangled => g \in Of(x) /\ Stocked(x) /\ Live(x)
  BY <1>1, <1>3, GenStarts
<1>5. PICK want \in Status : want = Want[gen[g].pc]
  BY <1>2 DEF Want, Status
<1>6. PICK pc \in Going : /\ pc = IF gen[g].pc = "genReady" THEN "announceReady" ELSE "announceError"
                          /\ pc \in GenPCs
  BY DEF Going, GenPCs
<1>7. /\ row' = Written(x, want)
      /\ gen' = [gen EXCEPT ![g].pend = FALSE, ![g].pc = pc]
  BY <1>1, <1>5, <1>6 DEF GenTransitionWrite
<1>8. /\ RowType' /\ (Live(x)' <=> Live(x)) /\ (Live(x) => row'[x] = want)
      /\ \A s \in Reqs : s # x => row'[s] = row[s]
  BY <1>4, <1>7, WrittenFacts
<1>9. /\ gen' \in [Reqs -> GenRec] /\ OtherGens(g) /\ gen'[g].pc = pc
      /\ gen'[g].told = gen[g].told /\ gen'[g].pend = FALSE
  BY <1>4, <1>6, <1>7 DEF GenType, GenRec, OtherGens
<1>10. GenType' /\ Moved(g, pc)
  <2>1. ~gen'[g].pend
    BY <1>9
  <2> QED BY <1>2, <1>4, <1>9, <2>1 DEF GenType, Moved, OtherGens
<1>11. TablesType' /\ (\A s \in Reqs : files'[s] = files[s])
  BY <1>2, <1>4 DEF TablesType
<1>12. ASSUME x \notin tangled PROVE Supplies(g, x)
  <2>1. /\ row'[x] = want /\ want \in {"ready", "error"}
        /\ want = "ready" => gen[g].pc = "genReady"
        /\ gen[g].pc = "genReady" => pc = "announceReady"
        /\ gen[g].pc = "genError" => pc = "announceError"
    BY <1>2, <1>4, <1>5, <1>6, <1>8, <1>12 DEF Want
  <2>2. gen[g].pc = "genReady" => files'[x] = g
    BY <1>2, <1>4, <1>12 DEF Stocked
  <2> QED BY <1>2, <1>4, <1>10, <2>1, <2>2 DEF Supplies
<1> QED BY <1>1, <1>2, <1>3, <1>4, <1>8, <1>10, <1>11, <1>12, GenStep

LEMMA GenUnwindsKeeps ==
  ASSUME PreviewInv, NEW g \in Reqs, GenUnwinds(g)
  PROVE  PreviewInv'
<1>1. PICK x : x = S(g)
  OBVIOUS
<1>2. /\ gen[g].pc = "cancelled" /\ Ends(g)
      /\ UNCHANGED <<late, req, lock, files, tangled, stale, stops>>
      /\ row' = row \/ \E want \in {"ready", "error"} : row' = Written(x, want)
  BY <1>1 DEF GenUnwinds, histories
<1>3. Alive(g)
  BY <1>2 DEF Alive
<1>4. /\ x \in Reqs /\ RowType /\ GenType /\ TablesType
      /\ x \notin tangled => g \in Of(x) /\ OneTask(x) /\ Live(x) /\ row[x] # "expired"
  BY <1>1, <1>3, GenStarts
<1>5. /\ RowType' /\ (Live(x)' <=> Live(x))
      /\ \A s \in Reqs : s # x => row'[s] = row[s]
      /\ row'[x] = row[x] \/ (Live(x) => row'[x] \in {"ready", "error"})
  <2>1. CASE row' = row
    BY <1>4, <2>1 DEF RowType, Live
  <2>2. ASSUME NEW want \in {"ready", "error"}, row' = Written(x, want) 
      PROVE  /\ RowType' /\ (Live(x)' <=> Live(x))
             /\ \A s \in Reqs : s # x => row'[s] = row[s]
             /\ Live(x) => row'[x] \in {"ready", "error"}
    <3>1. want \in Status
      BY DEF Status
    <3> QED BY <1>4, <2>2, <3>1, WrittenFacts
  <2> QED BY <1>2, <2>1, <2>2
<1>6. /\ GenType' /\ Ended(g)
      /\ tracked' \in [Reqs -> Reqs \union {None}] /\ handle' \in [Reqs -> Reqs \union {None}]
  BY <1>2, <1>4, EndsFacts
<1>7. TablesType' /\ (\A s \in Reqs : files'[s] = files[s])
  BY <1>2, <1>4, <1>6 DEF TablesType
<1>8. ASSUME x \notin tangled PROVE Supplies(g, x)
  <2>1. \E r \in On(x) : req[r].pc \in Owing
    BY <1>2, <1>4, <1>8 DEF OneTask, Owing
  <2>2. row'[x] # "expired"
    BY <1>4, <1>5, <1>8
  <2> QED BY <1>6, <2>1, <2>2 DEF Supplies
<1> QED BY <1>1, <1>2, <1>3, <1>4, <1>5, <1>6, <1>7, <1>8, GenStep

-----------------------------------------------------------------------------
(* Time, and the life of the server.                                         *)

LEMMA ExpireKeeps ==
  ASSUME PreviewInv, NEW x \in Reqs, Expire(x)
  PROVE  PreviewInv'
<1>1. /\ late' = late \union {x}
      /\ UNCHANGED <<row, req, gen, tracked, handle, lock, files, tangled, stale, stops>>
  BY DEF Expire, taskVars, histories
<1>2. TypeOK'
  BY <1>1 DEF PreviewInv, TypeOK, Calling
<1>3. Origins'
  BY <1>1 DEF PreviewInv, Origins, Turns, Inside, Active, RequestOK, TableOK, Live, S
<1>4. ASSUME NEW s \in Reqs \ tangled' PROVE Calm(s)'
  <2>1. Calm(s) /\ Frames(s) /\ (s \in late => s \in late')
    BY <1>1, <1>4 DEF PreviewInv, Frames
  <2>2. On(s)' = On(s) /\ Of(s)' = Of(s) /\ \A g \in Of(s) : Same(g)
    BY <1>1 DEF On, Of, Active, Alive, S, Same
  <2> QED BY <1>1, <2>1, <2>2, Frame
<1>5. \A r \in Reqs : Gone(r)'
  BY <1>1 DEF PreviewInv, Gone, Done, Live
<1> QED BY <1>2, <1>3, <1>4, <1>5 DEF PreviewInv

LEMMA RestartKeeps ==
  ASSUME PreviewInv, Stop \/ Crash
  PROVE  PreviewInv'
<1>1. /\ stops' = stops + 1 /\ stops < MaxStops
      /\ gen' = [g \in Reqs |-> IF Alive(g) THEN GenDone ELSE gen[g]]
      /\ tracked' = [s \in Reqs |-> None] /\ handle' = [s \in Reqs |-> None]
      /\ lock' = [s \in Reqs |-> 0] /\ stale' = {s \in Reqs : Live(s)}
      /\ UNCHANGED <<row, late, tangled>>
  BY DEF Stop, Crash, Restarts, rowVars
<1>2. /\ RowType /\ ReqType /\ GenType /\ TablesType /\ HistoryType
      /\ \A r \in Reqs : RequestOK(r) /\ Gone(r) /\ req[r] \in ReqRec
  BY TypeParts DEF PreviewInv, Origins, ReqType
<1>3. /\ \A r \in Reqs : req'[r] = IF Active(r) THEN At(req[r], "done") ELSE req[r]
      /\ req' \in [Reqs -> ReqRec]
      /\ files' \in [Reqs -> Reqs \union {None}]
      /\ \A s \in Reqs : files'[s] \in {None, files[s]}
  <2>1. CASE Stop
    <3>1. /\ \A r \in Reqs : ~Active(r)
          /\ req' = req /\ files' = [s \in Reqs |-> None]
      BY <2>1 DEF Stop
    <3> QED BY <1>2, <3>1 DEF ReqType
  <2>2. CASE Crash
    <3>1. /\ req' = [r \in Reqs |-> IF Active(r) THEN At(req[r], "done") ELSE req[r]]
          /\ files' = files
      BY <2>2 DEF Crash
    <3>2. \A r \in Reqs : At(req[r], "done") \in ReqRec
      BY <1>2, AtFacts DEF ReqPCs
    <3> QED BY <1>2, <3>1, <3>2 DEF ReqType, TablesType
  <2> QED BY <2>1, <2>2
<1>4. \A r \in Reqs :
        /\ req'[r].kind = req[r].kind /\ req'[r].s = req[r].s
        /\ req'[r].pc = IF req[r].pc = "new" THEN "new" ELSE "done"
        /\ req'[r].pend => req[r].pend /\ req'[r] = req[r]
  <2> SUFFICES ASSUME NEW r \in Reqs
               PROVE  /\ req'[r].kind = req[r].kind /\ req'[r].s = req[r].s
                      /\ req'[r].pc = IF req[r].pc = "new" THEN "new" ELSE "done"
                      /\ req'[r].pend => req[r].pend /\ req'[r] = req[r]
    OBVIOUS
  <2> DEFINE n == At(req[r], "done")
  <2>1. n.kind = req[r].kind /\ n.s = req[r].s /\ n.pc = "done" /\ n.pend = FALSE
    BY <1>2, AtFacts DEF ReqPCs
  <2>2. Active(r) => req'[r] = n
    BY <1>3
  <2> HIDE DEF n
  <2>3. Active(r) => ~req'[r].pend
    BY <2>1, <2>2
  <2> QED BY <1>3, <2>1, <2>2, <2>3 DEF Active
<1>5. \A r \in Reqs : ~Active(r)' /\ ~req'[r].pend
  <2>1. \A r \in Reqs : req[r].pend => Active(r)
    BY <1>2 DEF ReqType, Calling, Active, Want
  <2> QED BY <1>4, <2>1 DEF Active
<1>6. /\ \A g \in Reqs : ~Alive(g)' /\ ~gen'[g].pend
      /\ \A g \in Reqs : /\ gen'[g].pc = "none" => gen[g].pc = "none" /\ gen'[g] = gen[g]
                         /\ gen[g].pc = "none" => gen'[g].pc = "none"
      /\ gen' \in [Reqs -> GenRec]
  <2>1. GenDone \in GenRec /\ GenDone.pc = "done" /\ GenDone.pend = FALSE
    BY DEF GenDone, GenRec, GenPCs, Statuses
  <2>2. \A g \in Reqs : gen'[g] = IF Alive(g) THEN GenDone ELSE gen[g]
    BY <1>1
  <2>3. gen' \in [Reqs -> GenRec]
    BY <1>1, <1>2, <2>1 DEF GenType
  <2>4. \A g \in Reqs : ~Alive(g) => ~gen[g].pend
    BY <1>2 DEF GenType, Alive
  <2>5. ASSUME NEW g \in Reqs
        PROVE  /\ ~Alive(g)' /\ ~gen'[g].pend
               /\ gen'[g].pc = "none" => gen[g].pc = "none" /\ gen'[g] = gen[g]
               /\ gen[g].pc = "none" => gen'[g].pc = "none"
    <3>1. CASE Alive(g)
      <4>1. gen'[g] = GenDone
        BY <2>2, <3>1
      <4>2. gen'[g].pc = "done" /\ ~gen'[g].pend
        BY <2>1, <4>1
      <4> QED BY <3>1, <4>2 DEF Alive
    <3>2. CASE ~Alive(g)
      BY <2>2, <2>4, <3>2 DEF Alive
    <3> QED BY <3>1, <3>2
  <2> QED BY <2>3, <2>5
<1>7. TypeOK'
  <2>1. RowType' /\ ReqType' /\ GenType'
    BY <1>1, <1>2, <1>3, <1>5, <1>6 DEF RowType, ReqType, GenType
  <2>2. TablesType'
    BY <1>1, <1>3 DEF TablesType
  <2>3. HistoryType'
    BY <1>1, <1>2, PreviewAssumption DEF HistoryType
  <2> QED BY <2>1, <2>2, <2>3
      DEF TypeOK, RowType, ReqType, GenType, TablesType, HistoryType, ReqRec, GenRec, Statuses
<1>8. ASSUME NEW r \in Reqs PROVE RequestOK(r)'
  <2>1. /\ RequestOK(r) /\ req[r].pc \in Places[req[r].kind]
        /\ req[r].pc = "new" <=> req[r].kind = "none"
        /\ req[r].kind \in DOMAIN Places
    BY <1>2, Rules
  <2>2. req'[r].pc \in Places[req'[r].kind]
    BY <1>4, <2>1 DEF Places
  <2>3. req[r].kind \notin {"none", "start"} =>
          req'[req'[r].s].kind = "start" /\ req'[req'[r].s].pc \in Begun
    BY <1>4, <2>1 DEF RequestOK, Begun
  <2>4. Live(r)' => req'[r].kind = "start" /\ req'[r].pc # "add"
    BY <1>1, <1>4, <2>1 DEF RequestOK, Live
  <2>5. IF gen'[r].pc = "none" THEN ~gen'[r].told ELSE req'[r].pc = "done"
    BY <1>4, <1>6, <2>1 DEF RequestOK
  <2> QED BY <1>4, <1>5, <2>1, <2>2, <2>3, <2>4, <2>5 DEF RequestOK
<1>9. Turns' /\ \A s \in Reqs : TableOK(s)'
  BY <1>1, <1>5 DEF Turns, Inside, TableOK
<1>10. ASSUME NEW s \in Reqs \ tangled' PROVE Calm(s)'
  <2>1. On(s)' = {} /\ Of(s)' = {} /\ tracked'[s] = None /\ handle'[s] = None
    BY <1>1, <1>5, <1>6 DEF On, Of
  <2>2. Stocked(s)
    BY <1>1, <1>10 DEF PreviewInv, Calm
  <2>3. Stocked(s)'
    <3>1. ~Live(s)' => files'[s] = None
      BY <1>1, <1>3, <2>2 DEF Stocked, Live
    <3>2. row'[s] = "ready" => s \in stale'
      BY <1>1 DEF Live
    <3> QED BY <2>1, <3>1, <3>2 DEF Stocked
  <2> QED BY <2>1, <2>3 DEF Calm, Apart, OneLock, OneTask
<1>11. ASSUME NEW r \in Reqs PROVE Gone(r)'
  <2> SUFFICES ASSUME Done(r)', req'[r].s \notin stale' PROVE ~Live(req[r].s)'
    BY <1>4 DEF Gone, Live
  <2>1. req[r].s \in Reqs /\ req'[r].s = req[r].s
    BY <1>2, <1>4 DEF Done, RequestOK
  <2> QED BY <1>1, <1>4, <2>1 DEF Live
<1> QED BY <1>7, <1>8, <1>9, <1>10, <1>11 DEF PreviewInv, Origins

-----------------------------------------------------------------------------
(* The theorems.                                                             *)

LEMMA PreviewInit == Init => PreviewInv
<1> SUFFICES ASSUME Init PROVE PreviewInv
  OBVIOUS
<1>1. /\ row = [s \in Reqs |-> "absent"] /\ late = {} /\ tangled = {} /\ stale = {} /\ stops = 0
      /\ tracked = [s \in Reqs |-> None] /\ handle = [s \in Reqs |-> None]
      /\ lock = [s \in Reqs |-> 0] /\ files = [s \in Reqs |-> None]
  BY DEF Init
<1>2. /\ req \in [Reqs -> ReqRec]
      /\ \A r \in Reqs : req[r].pc = "new" /\ req[r].kind = "none" /\ ~req[r].pend
  BY DEF Init, ReqRec, ReqPCs, Statuses
<1>3. /\ gen \in [Reqs -> GenRec]
      /\ \A r \in Reqs : gen[r].pc = "none" /\ ~gen[r].told /\ ~gen[r].pend
  BY DEF Init, GenRec, GenPCs, Statuses
<1>4. TypeOK
  <2>1. RowType /\ TablesType /\ HistoryType
    BY <1>1, PreviewAssumption DEF RowType, TablesType, HistoryType, Statuses
  <2> QED BY <1>2, <1>3, <2>1, TypeParts DEF ReqType, GenType
<1>5. Origins
  BY <1>1, <1>2, <1>3 DEF Origins, Turns, Inside, Active, RequestOK, TableOK, Places, Live
<1>6. ASSUME NEW s \in Reqs PROVE Calm(s)
  <2>1. On(s) = {} /\ Of(s) = {}
    BY <1>2, <1>3 DEF On, Of, Active, Alive
  <2> QED BY <1>1, <2>1 DEF Calm, Apart, OneLock, OneTask, Stocked, Live
<1> QED BY <1>2, <1>4, <1>5, <1>6 DEF PreviewInv, Gone, Done

LEMMA PreviewInductive == PreviewInv /\ [Next]_vars => PreviewInv'
<1> SUFFICES ASSUME PreviewInv, [Next]_vars PROVE PreviewInv'
  OBVIOUS
<1>1. ASSUME NEW r \in Reqs, Begin(r) PROVE PreviewInv'
  BY <1>1, StartCheckKeeps, ReadsKeep, SeekBeginKeeps DEF Begin
<1>2. ASSUME NEW r \in Reqs, Handle(r) PROVE PreviewInv'
  BY <1>2, StartAddKeeps, SpawnsKeep, CleanFilesKeeps, StopDeleteKeeps, SeekReadKeeps,
     SeekRefetchKeeps, TransitionReadKeeps, TransitionWriteKeeps DEF Handle
<1>3. ASSUME NEW g \in Reqs, Generate(g) PROVE PreviewInv'
  BY <1>3, GenRunsKeeps, GenFetchKeeps, GenTransitionReadKeeps, GenTransitionWriteKeeps,
     GenAnnouncesKeep, GenUnwindsKeeps DEF Generate
<1>4. CASE UNCHANGED vars
  <2>1. /\ UNCHANGED <<row, late, req, gen, tracked, handle>>
        /\ UNCHANGED <<lock, files, tangled, stale, stops>>
    BY <1>4 DEF vars
  <2>2. TypeOK'
    BY <2>1 DEF PreviewInv, TypeOK, Calling
  <2>3. Origins'
    BY <2>1 DEF PreviewInv, Origins, Turns, Inside, Active, RequestOK, TableOK, Live, S
  <2>4. ASSUME NEW s \in Reqs \ tangled' PROVE Calm(s)'
    <3>1. Calm(s) /\ Frames(s)
      BY <2>1, <2>4 DEF PreviewInv, Frames
    <3>2. On(s)' = On(s) /\ Of(s)' = Of(s) /\ \A g \in Of(s) : Same(g)
      BY <2>1 DEF On, Of, Active, Alive, S, Same
    <3> QED BY <2>1, <3>1, <3>2, Frame
  <2>5. \A r \in Reqs : Gone(r)'
    BY <2>1 DEF PreviewInv, Gone, Done, Live
  <2> QED BY <2>2, <2>3, <2>4, <2>5 DEF PreviewInv
<1>5. ASSUME NEW r \in Reqs, AnnounceFails(r) \/ GenAnnounceFails(r) \/ Ffmpeg(r) \/ Expire(r)
      PROVE  PreviewInv'
  BY <1>5, AnnounceFailsKeeps, GenAnnouncesKeep, FfmpegKeeps, ExpireKeeps
<1>6. CASE Stop \/ Crash
  BY <1>6, RestartKeeps
<1> QED BY <1>1, <1>2, <1>3, <1>4, <1>5, <1>6 DEF Next

(* A generation that nobody has cancelled is in both tables of its session,  *)
(* so that stop, an expiry and the next seek find it.                        *)
THEOREM Stoppable == Spec => []LiveIsTracked
<1>1. PreviewInv => LiveIsTracked
  <2> SUFFICES ASSUME PreviewInv PROVE LiveIsTracked
    OBVIOUS
  <2>1. ASSUME NEW g \in Reqs, Alive(g), gen[g].pc # "cancelled", S(g) \notin tangled
        PROVE  tracked[S(g)] = g /\ handle[S(g)] = g /\ Live(S(g))
    BY <2>1, GenStarts DEF OneTask
  <2> QED BY <2>1 DEF LiveIsTracked, PreviewInv
<1> QED BY <1>1, PreviewInit, PreviewInductive, PTL DEF Spec

(* A session at rest in READY has the segments of its last generation.       *)
THEOREM Segments == Spec => []ReadyHasFiles
<1>1. PreviewInv => ReadyHasFiles
  <2> SUFFICES ASSUME PreviewInv, NEW s \in Reqs \ (tangled \union stale), row[s] = "ready",
                      \A r \in Reqs : Active(r) => req[r].s # s
               PROVE  files[s] # None
    BY DEF ReadyHasFiles
  <2>1. On(s) = {}
    BY DEF On
  <2>2. Stocked(s)
    BY DEF PreviewInv, Calm
  <2> QED BY <2>1, <2>2 DEF Stocked
<1> QED BY <1>1, PreviewInit, PreviewInductive, PTL DEF Spec

(* A stop that has been answered leaves neither row nor files nor task.      *)
THEOREM CleanStops == Spec => []StopLeavesNothing
<1>1. PreviewInv => StopLeavesNothing
  <2> SUFFICES ASSUME PreviewInv, NEW r \in Reqs, req[r].kind = "stop", req[r].pc = "done",
                      req[r].s \notin tangled \union stale
               PROVE  /\ ~Live(req[r].s) /\ files[req[r].s] = None
                      /\ tracked[req[r].s] = None /\ handle[req[r].s] = None
                      /\ \A g \in Reqs : Alive(g) => S(g) # req[r].s
    BY DEF StopLeavesNothing
  <2>1. PICK s \in Reqs : s = req[r].s
    BY Rules
  <2>2. ~Live(s)
    BY <2>1 DEF PreviewInv, Gone, Done
  <2>3. Stocked(s)
    BY <2>1 DEF PreviewInv, Calm
  <2>4. files[s] = None /\ tracked[s] = None /\ handle[s] = None /\ Of(s) = {}
    BY <2>2, <2>3 DEF Stocked
  <2> QED BY <2>1, <2>2, <2>4 DEF Of
<1> QED BY <1>1, PreviewInit, PreviewInductive, PTL DEF Spec

=============================================================================
