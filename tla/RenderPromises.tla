--------------------------- MODULE RenderPromises ---------------------------
(* Theorems about what RenderLifecycle promises its clients: a completed job *)
(* has its output, and, where update_status is atomic, attempts stay within  *)
(* the budget, announcements hold, and the server implements RenderJobSpec.  *)
EXTENDS RenderProofs, FiniteSetTheorems

-----------------------------------------------------------------------------
(* The invariants.                                                           *)

Home(S, j) == task["worker"].job = j /\ task["worker"].pc \in S

(* A job appears once: until its INSERT it has no row, no encode, no event   *)
(* and no task, and a deleted one has nothing left of its row.               *)
Unsubmitted ==
  \A j \in Jobs :
    /\ row[j].st = "none" => row[j] = NoRow
    /\ sub[j] # "done" => /\ row[j].st = "none" /\ attempts[j] = 0 /\ sent[j] = {}
                          /\ \A t \in Tasks : task[t].job # j

(* A row says COMPLETED only after the worker has seen the file and stored   *)
(* the evidence, and the worker does not encode that job again.              *)
Whole(j) == out[j] # "absent" /\ row[j].evid = attempts[j]
Encoding == {"fetch", "prepare", "exec", "persist", "complete"}
Kept ==
  \A j \in Jobs :
    /\ row[j].st = "completed" => Whole(j) /\ ~Home(Encoding, j)
    /\ Home({"complete"}, j) => row[j].st = "none" \/ Whole(j)

Outcome == Owned /\ Unsubmitted /\ Kept

-----------------------------------------------------------------------------
(* The effects of the steps, as far as the invariants need them.             *)

LEMMA GoesTo ==
  ASSUME TypeOK, NEW t \in Tasks, NEW pc, Goes(t, pc)
  PROVE  /\ task'[t].pc = pc
         /\ task'[t].job = IF pc \in {"idle", "dead"} THEN NoJob ELSE task[t].job
         /\ task'[t].pend = NoRead
         /\ \A u \in Tasks \ {t} : task'[u] = task[u]
<1>1. task \in [Tasks -> [pc : WorkerPCs \union RequestPCs \union SweeperPCs,
                          job : Jobs \union {NoJob}, pend : Nat \union {NoRead}]]
  BY DEF TypeOK, TaskOK
<1> QED BY <1>1 DEF Goes, Rest, On, Task

LEMMA WrittenRow ==
  ASSUME NEW r \in Rows, NEW s \in Status, NEW n \in Nat
  PROVE  /\ r.st = "none" => Written(r, s, n) = r
         /\ r.st # "none" => /\ Written(r, s, n).st = s /\ Written(r, s, n).retry = n
                             /\ Written(r, s, n).evid = r.evid
BY DEF Written, RowOf, Rows

(* A call of update_status: it is refused, or reads, or writes.              *)
LEMMA UpdateEffect ==
  ASSUME TypeOK, NEW t \in Tasks, Update(t)
  PROVE  LET c == task[t].pc
             j == task[t].job
         IN /\ c \in DOMAIN Target /\ c \in PCs[t] /\ j \in Jobs /\ row[j] \in Rows
            /\ app # "down"
            /\ Target[c] \in Status \ {"none"}
            /\ UNCHANGED <<sub, ok, proc, out, sent, attempts, app, stops>>
            /\ \A k \in Jobs \ {j} : row'[k] = row[k]
            /\ \A u \in Tasks \ {t} : task'[u] = task[u]
            /\ \/ /\ row' = row /\ ~Accepts(row[j], Target[c])
                  /\ task'[t].pc = Raised(c)
                  /\ task'[t].job = IF Raised(c) \in {"idle", "dead"} THEN NoJob ELSE j
               \/ ~AtomicRepo /\ row' = row /\ task'[t].pc = c /\ task'[t].job = j
               \/ /\ \E n \in Nat : /\ row'[j] = Written(row[j], Target[c], n)
                                    /\ task[t].pend = NoRead => /\ Accepts(row[j], Target[c])
                                                                /\ n = RetryFor(row[j], Target[c])
                  /\ task'[t].pc = After[c]
                  /\ task'[t].job = IF After[c] \in {"idle", "dead"} THEN NoJob ELSE j
<1> DEFINE c == task[t].pc
           j == task[t].job
<1>1. c \in DOMAIN Target /\ c \in PCs[t]
  BY DEF Update, UpdateRefused, UpdateRead, UpdateWrite, UpdateAtomic, Calling, TypeOK, TaskOK
<1>2. /\ j \in Jobs /\ task[t].pend \in Nat \union {NoRead} /\ row \in [Jobs -> Rows] /\ row[j] \in Rows
      /\ task \in [Tasks -> [pc : WorkerPCs \union RequestPCs \union SweeperPCs,
                             job : Jobs \union {NoJob}, pend : Nat \union {NoRead}]]
  BY <1>1, Tables DEF TypeOK, TaskOK
<1>3. Target[c] \in Status \ {"none"}
  BY <1>1, Tables
<1>4. RetryFor(row[j], Target[c]) \in Nat
  BY <1>2, <1>3, RowOps
<1>5. app # "down" /\ UNCHANGED <<sub, ok, proc, out, sent, attempts, app, stops>>
  BY DEF Update, UpdateRefused, UpdateRead, UpdateWrite, UpdateAtomic, Calling
<1>6. CASE UpdateRefused(t)
  BY <1>1, <1>2, <1>3, <1>5, <1>6, GoesTo DEF UpdateRefused
<1>7. CASE UpdateRead(t)
  BY <1>1, <1>2, <1>3, <1>5, <1>7 DEF UpdateRead, Task
<1>8. CASE UpdateWrite(t)
  <2>1. task[t].pend \in Nat /\ row' = [row EXCEPT ![j] = Written(row[j], Target[c], task[t].pend)]
    BY <1>2, <1>8 DEF UpdateWrite
  <2> HIDE DEF j, c
  <2>2. row'[j] = Written(row[j], Target[c], task[t].pend) /\ \A k \in Jobs \ {j} : row'[k] = row[k]
    BY <1>2, <2>1
  <2>3. task[t].pend # NoRead
    BY <1>8 DEF UpdateWrite
  <2>4. Goes(t, After[c])
    BY <1>8 DEF UpdateWrite, c
  <2> QED BY <1>1, <1>2, <1>3, <1>5, <2>1, <2>2, <2>3, <2>4, GoesTo DEF j, c
<1>9. CASE UpdateAtomic(t)
  <2> DEFINE n == RetryFor(row[j], Target[c])
  <2>1. row' = [row EXCEPT ![j] = Written(row[j], Target[c], n)] /\ Accepts(row[j], Target[c])
    BY <1>2, <1>9 DEF UpdateAtomic
  <2>2. Goes(t, After[c])
    BY <1>9 DEF UpdateAtomic
  <2> HIDE DEF n
  <2>3. row'[j] = Written(row[j], Target[c], n) /\ \A k \in Jobs \ {j} : row'[k] = row[k]
    BY <1>2, <2>1
  <2>4. n \in Nat
    BY <1>4 DEF n
  <2> QED BY <1>1, <1>2, <1>3, <1>5, <2>1, <2>2, <2>3, <2>4, GoesTo DEF n
<1> QED BY <1>6, <1>7, <1>8, <1>9 DEF Update

(* The worker's other steps.                                                 *)
LEMMA WorkerEffect ==
  ASSUME TypeOK,
         \/ Announce("worker") \/ AnnounceFails("worker")
         \/ Look \/ Fetch \/ PrepareFails \/ Spawn \/ Notice \/ Timeout
         \/ Persist \/ HandleDrop \/ HandleFail
  PROVE  LET p == task["worker"].pc
             q == task'["worker"].pc
             j == task["worker"].job
         IN /\ app # "down" /\ UNCHANGED <<sub, app, stops>>
            /\ \A k \in Jobs : task'["request"].job = k => task["request"].job = k
            /\ task'["sweeper"] = task["sweeper"]
            /\ p # "idle" => j \in Jobs /\ task'["worker"].job \in {j, NoJob}
            /\ \A k \in Jobs : k # j => out'[k] = out[k] /\ row'[k] = row[k] /\ attempts'[k] = attempts[k]
            /\ p # "prepare" => UNCHANGED <<out, attempts>>
            /\ p # "persist" => UNCHANGED row
            /\ \A k \in Jobs : k # j => sent'[k] = sent[k]
            /\ \/ /\ p = "idle" /\ q = "claim"
                  /\ \E k \in With("queued") : task'["worker"].job = k
               \/ p = "fetch" /\ q \in {"idle", "prepare"}
               \/ p = "prepare" /\ q = "handle" /\ UNCHANGED <<out, attempts>>
               \/ /\ p = "prepare" /\ q = "exec"
                  /\ attempts'[j] \in {attempts[j], attempts[j] + 1}
               \/ p = "exec" /\ q = "persist"
               \/ /\ p = "persist" /\ row'[j] = WithEvidence(row[j], attempts[j])
                  /\ q = "handle" \/ (q = "complete" /\ out[j] # "absent")
               \/ p = "handle" /\ q = "idle"
               \/ p = "handle" /\ q = "fail" /\ row[j].retry < MaxRetries
               \/ p = "handle" /\ q = "final"
               \/ p = "announceDone" /\ q \in {"qc", "idle", "handle"}
               \/ p = "announceFail" /\ q \in {"idle", "fallback", "handle"}
<1> DEFINE p == task["worker"].pc
           j == task["worker"].job
<1>0. /\ task \in [Tasks -> [pc : WorkerPCs \union RequestPCs \union SweeperPCs,
                             job : Jobs \union {NoJob}, pend : Nat \union {NoRead}]]
      /\ {"worker", "request", "sweeper"} \subseteq Tasks
      /\ p \in WorkerPCs
      /\ p \notin {"idle", "dead"} => j \in Jobs
  BY DEF TypeOK, TaskOK, Tasks, PCs
<1>1. row \in [Jobs -> Rows] /\ out \in [Jobs -> {"absent", "partial", "whole"}]
      /\ attempts \in [Jobs -> 0 .. Cap]
      /\ sent \in [Jobs -> SUBSET {"completed", "failed", "cancelled"}]
  BY DEF TypeOK
<1>2. ASSUME NEW q, Goes("worker", q)
      PROVE  /\ task'["worker"].pc = q
             /\ task'["worker"].job \in {j, NoJob}
             /\ task'["request"] = task["request"] /\ task'["sweeper"] = task["sweeper"]
  BY <1>0, <1>2, GoesTo
<1>3. CASE Announce("worker") \/ AnnounceFails("worker")
  <2>1. p \in {"announceDone", "announceFail"}
    BY <1>0, <1>3, Tables DEF Announce, AnnounceFails, WorkerPCs
  <2>2. PICK q : Goes("worker", q) /\ q \in {"qc", "idle", Raised(p)} /\ (q = "qc" => p = "announceDone")
    <3>1. CASE Announce("worker")
      <4>1. PICK q \in IF p = "announceDone" THEN {"qc", "idle"} ELSE {"idle"} : Goes("worker", q)
        BY <3>1 DEF Announce
      <4> QED BY <4>1
    <3>2. CASE AnnounceFails("worker")
      <4>1. Goes("worker", Raised(p)) /\ Raised(p) # "qc"
        BY <3>2 DEF AnnounceFails, Raised
      <4> QED BY <4>1
    <3> QED BY <1>3, <3>1, <3>2
  <2>3. Raised(p) \in {"fallback", "handle"} /\ (p = "announceDone" => Raised(p) = "handle")
    BY <2>1 DEF Raised, Failing
  <2>4. app # "down" /\ UNCHANGED <<row, sub, out, attempts, app, stops>>
    BY <1>3 DEF Announce, AnnounceFails
  <2>5. PICK s : sent' = [sent EXCEPT ![j] = s]
    BY <1>3 DEF Announce, AnnounceFails
  <2>6. \A k \in Jobs : k # j => sent'[k] = sent[k]
    BY <1>1, <2>5
  <2> QED BY <1>0, <1>2, <2>1, <2>2, <2>3, <2>4, <2>6, Tables
<1>4. CASE Look
  <2>1. PICK k \in With("queued") : task' = [task EXCEPT !["worker"] = On("claim", k)]
    BY <1>4 DEF Look
  <2>2. task'["worker"].pc = "claim" /\ task'["worker"].job = k
        /\ task'["request"] = task["request"] /\ task'["sweeper"] = task["sweeper"]
    BY <1>0, <2>1 DEF On, Task
  <2> QED BY <1>4, <2>2, Tables DEF Look, At
<1>5. CASE Fetch
  BY <1>0, <1>2, <1>5, Tables DEF Fetch, At
<1>6. CASE PrepareFails
  BY <1>0, <1>2, <1>6, Tables DEF PrepareFails, At
<1>7. CASE Spawn
  BY <1>0, <1>1, <1>2, <1>7, Tables DEF Spawn, At
<1>8. CASE Notice
  BY <1>0, <1>2, <1>8, Tables DEF Notice, At
<1>9. CASE Timeout
  <2>1. /\ task'["worker"].pc = "persist" /\ task'["worker"].job = j
        /\ task'["request"].job = task["request"].job /\ task'["sweeper"] = task["sweeper"]
    BY <1>0, <1>9 DEF Timeout, At, On, Task
  <2> QED BY <1>0, <1>9, <2>1, Tables DEF Timeout, At
<1>10. CASE Persist
  BY <1>0, <1>1, <1>2, <1>10, Tables DEF Persist, At
<1>11. CASE HandleDrop
  BY <1>0, <1>2, <1>11, Tables DEF HandleDrop, At
<1>12. CASE HandleFail
  BY <1>0, <1>2, <1>12, Tables DEF HandleFail, At
<1> QED BY <1>3, <1>4, <1>5, <1>6, <1>7, <1>8, <1>9, <1>10, <1>11, <1>12

(* Request, sweeper, FFmpeg and the lifespan leave the worker where it is,   *)
(* or stop it, and an output changes only while the worker waits for its     *)
(* encode.                                                                   *)
LEMMA OtherEffect ==
  ASSUME Owned,
         \/ \E t \in {"request", "sweeper"} : Announce(t) \/ AnnounceFails(t)
         \/ RequestKill \/ RequestMark \/ Lifespan \/ Stop \/ Crash
         \/ \E j \in Jobs : SubmitCheck(j) \/ Ffmpeg(j) \/ RequestCancel(j) \/ Sweep(j)
  PROVE  /\ UNCHANGED attempts
         /\ \A k \in Jobs : \/ row'[k] = row[k] \/ (app = "down" /\ row'[k] = Recovered(row[k]))
                            \/ row'[k] = WithPartial(row[k], out[k] # "absent")
         /\ \/ task'["worker"] = task["worker"]
            \/ task'["worker"] = Rest("idle")
         /\ \A k \in Jobs : out'[k] # out[k] => Home({"exec"}, k)
         /\ \A k \in Jobs : sub'[k] = sub[k] \/ sub'[k] \in {"insert", "done"}
         /\ \A k \in Jobs : sub'[k] # "done" =>
              /\ sub[k] # "done"
              /\ \A t \in {"request", "sweeper"} : task'[t].job = k
                   => task[t].job = k \/ row[k].st # "none"
              /\ sent'[k] = sent[k] \/ \E t \in Tasks : task[t].job = k
<1>0. /\ task \in [Tasks -> [pc : WorkerPCs \union RequestPCs \union SweeperPCs,
                             job : Jobs \union {NoJob}, pend : Nat \union {NoRead}]]
      /\ {"worker", "request", "sweeper"} = Tasks
      /\ row \in [Jobs -> Rows] /\ out \in [Jobs -> {"absent", "partial", "whole"}]
      /\ sub \in [Jobs -> {"new", "insert", "done"}] /\ NoJob \notin Jobs
      /\ sent \in [Jobs -> SUBSET {"completed", "failed", "cancelled"}]
  BY JobFacts DEF Owned, TypeOK, TaskOK, Tasks
<1>1. ASSUME NEW t \in {"request", "sweeper"}, Announce(t) \/ AnnounceFails(t)
      PROVE  /\ UNCHANGED <<attempts, row, out, sub>> /\ task'["worker"] = task["worker"]
             /\ \A u \in {"request", "sweeper"} : task'[u].job \in {task[u].job, NoJob}
             /\ \A k \in Jobs : k # task[t].job => sent'[k] = sent[k]
  <2>1. PICK q : Goes(t, q)
    BY <1>1 DEF Announce, AnnounceFails
  <2>2. /\ task'["worker"] = task["worker"]
        /\ \A u \in {"request", "sweeper"} : task'[u].job \in {task[u].job, NoJob}
    BY <1>0, <2>1, GoesTo DEF Owned
  <2>3. PICK s : sent' = [sent EXCEPT ![task[t].job] = s]
    BY <1>1 DEF Announce, AnnounceFails
  <2> QED BY <1>0, <1>1, <2>2, <2>3 DEF Announce, AnnounceFails
<1>2. CASE \E t \in {"request", "sweeper"} : Announce(t) \/ AnnounceFails(t)
  BY <1>0, <1>1, <1>2
<1>3. CASE RequestKill \/ RequestMark
  <2>1. PICK q : Goes("request", q)
    BY <1>3 DEF RequestKill, RequestMark
  <2>2. /\ task'["worker"] = task["worker"]
        /\ \A u \in {"request", "sweeper"} : task'[u].job \in {task[u].job, NoJob}
    BY <1>0, <2>1, GoesTo DEF Owned
  <2>3. \A k \in Jobs : row'[k] = row[k] \/ row'[k] = WithPartial(row[k], out[k] # "absent")
    BY <1>0, <1>3 DEF RequestKill, RequestMark
  <2> QED BY <1>0, <1>3, <2>2, <2>3 DEF RequestKill, RequestMark
<1>4. ASSUME NEW j \in Jobs, SubmitCheck(j) \/ RequestCancel(j) \/ Sweep(j)
      PROVE  /\ UNCHANGED <<attempts, row, out, sent>> /\ task'["worker"] = task["worker"]
             /\ \A u \in {"request", "sweeper"} :
                  task'[u].job = task[u].job \/ (task'[u].job = j /\ row[j].st # "none")
             /\ sub' = sub \/ (sub[j] = "new" /\ sub' = [sub EXCEPT ![j] = "insert"])
  BY <1>0, <1>4 DEF SubmitCheck, RequestCancel, Sweep, On, Task
<1>5. CASE \E j \in Jobs : SubmitCheck(j) \/ RequestCancel(j) \/ Sweep(j)
  BY <1>0, <1>4, <1>5
<1>6. ASSUME NEW j \in Jobs, Ffmpeg(j)
      PROVE  /\ UNCHANGED <<attempts, row, sub, sent>> /\ task'["worker"] = task["worker"]
             /\ \A u \in {"request", "sweeper"} : task'[u].job = task[u].job
             /\ \A k \in Jobs : out'[k] # out[k] => k = j /\ Home({"exec"}, j)
  <2>1. PICK rc, f : FfmpegExit(j, rc, f)
    BY <1>6 DEF Ffmpeg, FfmpegDone, FfmpegQuits, FfmpegFails
  <2>2. Home({"exec"}, j)
    BY <2>1 DEF FfmpegExit, Owned, EncodeIsAwaited, Home
  <2> QED BY <1>0, <2>1, <2>2 DEF FfmpegExit, On, Task
<1>7. CASE \E j \in Jobs : Ffmpeg(j)
  BY <1>0, <1>6, <1>7
<1>8. CASE KillRemaining \/ Stop
  BY <1>0, <1>8 DEF KillRemaining, Stop
<1>9. CASE CancelTasks \/ Crash
  <2>1. ProcessDies
    BY <1>9 DEF CancelTasks, Crash
  <2>2. \A t \in Tasks : task'[t] = Rest("idle") /\ Rest("idle").job = NoJob
    BY <2>1 DEF ProcessDies, Rest, Task
  <2> QED BY <1>0, <2>1, <2>2 DEF ProcessDies
<1>10. CASE Restart
  BY <1>0, <1>10 DEF Restart
<1> QED BY <1>2, <1>3, <1>5, <1>7, <1>8, <1>9, <1>10 DEF Lifespan

-----------------------------------------------------------------------------
(* What COMPLETED promises.                                                  *)

LEMMA OutcomeInit == Init => Outcome
<1> SUFFICES ASSUME Init PROVE Unsubmitted /\ Kept
  BY OwnedInit DEF Outcome
<1>1. \A t \in Tasks : task[t].job = NoJob
  BY DEF Init, Rest, Task
<1>2. \A j \in Jobs : row[j] = NoRow /\ NoRow.st = "none" /\ attempts[j] = 0 /\ sent[j] = {}
  BY DEF Init, NoRow, RowOf
<1> QED BY <1>1, <1>2, JobFacts DEF Unsubmitted, Kept, Home, Tasks

LEMMA OutcomeUpdate ==
  ASSUME Outcome, NEW t \in Tasks, Update(t)
  PROVE  Unsubmitted' /\ Kept'
<1>0. TypeOK /\ "worker" \in Tasks
  BY DEF Outcome, Owned, Tasks
<1>c. PICK c : c = task[t].pc
  OBVIOUS
<1>j. PICK j : j = task[t].job
  OBVIOUS
<1>1. /\ c \in DOMAIN Target /\ c \in PCs[t] /\ j \in Jobs /\ row[j] \in Rows
      /\ Target[c] \in Status \ {"none"}
      /\ UNCHANGED <<sub, ok, proc, out, sent, attempts, app, stops>>
      /\ \A k \in Jobs \ {j} : row'[k] = row[k]
      /\ \A u \in Tasks \ {t} : task'[u] = task[u]
  BY <1>0, <1>c, <1>j, UpdateEffect
<1>2. /\ task'[t].job \in {j, NoJob}
      /\ \/ row'[j] = row[j]
         \/ row[j].st # "none" /\ row'[j].st = Target[c] /\ row'[j].evid = row[j].evid
      /\ \/ task'[t].pc = c /\ row'[j] = row[j]
         \/ task'[t].pc \in {After[c], Raised(c)}
      /\ task'[t].pc = After[c] \/ row'[j] = row[j]
      /\ task'[t].pc \in {c, Raised(c)} \/ row[j].st = "none" \/ row'[j].st = Target[c]
  BY <1>0, <1>c, <1>j, <1>1, UpdateEffect, WrittenRow
<1>3. Unsubmitted'
  BY <1>0, <1>j, <1>1, <1>2, JobFacts DEF Outcome, Unsubmitted
<1>4. ASSUME NEW k \in Jobs, k # j
      PROVE  /\ row'[k] = row[k] /\ (Whole(k)' <=> Whole(k))
             /\ \A S : Home(S, k)' => Home(S, k)
  <2>1. row'[k] = row[k] /\ (Whole(k)' <=> Whole(k))
    BY <1>1, <1>4 DEF Whole
  <2>2. task'["worker"] = task["worker"] \/ task'["worker"].job # k
    BY <1>0, <1>j, <1>1, <1>2, <1>4, JobFacts
  <2> QED BY <2>1, <2>2 DEF Home
<1>5. /\ After[c] \notin Encoding \/ Target[c] = "running"
      /\ Raised(c) \notin Encoding
      /\ After[c] # "complete" /\ Raised(c) # "complete"
      /\ t = "worker" /\ Target[c] = "completed" => c = "complete"
      /\ t # "worker" => Target[c] # "completed"
      /\ c = "claim" \/ After[c] \notin Encoding
  BY <1>1, Tables DEF After, Raised, Failing, Encoding, Target, PCs, RequestPCs, SweeperPCs, Tasks
<1>6. Whole(j) => Whole(j)'
  BY <1>1, <1>2 DEF Whole
<1>7. ASSUME row'[j].st = "completed" PROVE Whole(j)' /\ ~Home(Encoding, j)'
  <2>1. CASE row'[j] = row[j]
    <3>1. row[j].st = "completed" /\ Whole(j) /\ ~Home(Encoding, j)
      BY <1>1, <1>7, <2>1 DEF Outcome, Kept
    <3>2. CASE t # "worker"
      BY <1>0, <1>1, <1>6, <3>1, <3>2 DEF Home
    <3>3. CASE t = "worker"
      <4>1. c \notin Encoding
        BY <1>c, <1>j, <3>1, <3>3 DEF Home
      <4>2. task'["worker"].pc \notin Encoding
        BY <1>2, <1>5, <1>7, <3>1, <3>3, <4>1
      <4> QED BY <1>6, <3>1, <4>2 DEF Home
    <3> QED BY <3>2, <3>3
  <2>2. CASE row'[j] # row[j]
    <3>1. row[j].st # "none" /\ t = "worker" /\ c = "complete" /\ task'[t].pc = After[c]
      BY <1>2, <1>5, <1>7, <2>2
    <3>2. Whole(j)
      BY <1>c, <1>j, <1>1, <3>1 DEF Outcome, Kept, Home
    <3>3. task'["worker"].pc \notin Encoding
      BY <1>5, <3>1
    <3> QED BY <1>6, <3>2, <3>3 DEF Home
  <2> QED BY <2>1, <2>2
<1>8. ASSUME Home({"complete"}, j)' PROVE row'[j].st = "none" \/ Whole(j)'
  <2>1. Home({"complete"}, j)
    BY <1>c, <1>j, <1>0, <1>1, <1>2, <1>5, <1>8 DEF Home
  <2>2. row[j].st = "none" \/ Whole(j)
    BY <1>1, <2>1 DEF Outcome, Kept
  <2> QED BY <1>2, <1>6, <2>2
<1>9. Kept'
  BY <1>4, <1>7, <1>8 DEF Outcome, Kept
<1> QED BY <1>3, <1>9

LEMMA OutcomeWorker ==
  ASSUME Outcome, Worker
  PROVE  Unsubmitted' /\ Kept'
<1>0. /\ TypeOK /\ Tasks = {"worker", "request", "sweeper"}
      /\ row \in [Jobs -> Rows] /\ attempts \in [Jobs -> 0 .. Cap] /\ NoJob \notin Jobs
  BY JobFacts DEF Outcome, Owned, TypeOK, Tasks
<1>1. CASE Update("worker")
  BY <1>0, <1>1, OutcomeUpdate
<1> SUFFICES ASSUME ~Update("worker") PROVE Unsubmitted' /\ Kept'
  BY <1>1
<1>p. PICK p : p = task["worker"].pc
  OBVIOUS
<1>q. PICK q : q = task'["worker"].pc
  OBVIOUS
<1>j. PICK j : j = task["worker"].job
  OBVIOUS
<1>2. \/ Announce("worker") \/ AnnounceFails("worker")
      \/ Look \/ Fetch \/ PrepareFails \/ Spawn \/ Notice \/ Timeout
      \/ Persist \/ HandleDrop \/ HandleFail
  BY DEF Worker
<1>3. /\ UNCHANGED <<sub, app, stops>>
      /\ \A k \in Jobs : task'["request"].job = k => task["request"].job = k
      /\ task'["sweeper"] = task["sweeper"]
      /\ p # "idle" => j \in Jobs /\ task'["worker"].job \in {j, NoJob}
      /\ \A k \in Jobs : k # j => out'[k] = out[k] /\ row'[k] = row[k] /\ attempts'[k] = attempts[k]
      /\ p # "prepare" => UNCHANGED <<out, attempts>>
      /\ p # "persist" => UNCHANGED row
      /\ \A k \in Jobs : k # j => sent'[k] = sent[k]
  BY <1>0, <1>2, <1>p, <1>j, WorkerEffect
<1>4. \/ /\ p = "idle" /\ q = "claim"
         /\ \E k \in With("queued") : task'["worker"].job = k
      \/ p = "fetch" /\ q \in {"idle", "prepare"}
      \/ p = "prepare" /\ q = "handle" /\ UNCHANGED <<out, attempts>>
      \/ p = "prepare" /\ q = "exec"
      \/ p = "exec" /\ q = "persist"
      \/ /\ p = "persist" /\ row'[j] = WithEvidence(row[j], attempts[j])
         /\ q = "handle" \/ (q = "complete" /\ out[j] # "absent")
      \/ p = "handle" /\ q \in {"idle", "fail", "final"}
      \/ p = "announceDone" /\ q \in {"qc", "idle", "handle"}
      \/ p = "announceFail" /\ q \in {"idle", "fallback", "handle"}
  BY <1>0, <1>2, <1>p, <1>q, <1>j, WorkerEffect
<1>5. p = "persist" =>
        /\ row'[j].st = row[j].st
        /\ row[j].st = "none" => row'[j] = row[j]
        /\ row[j].st # "none" => row'[j].evid = attempts[j]
  <2>1. SUFFICES ASSUME p = "persist"
                 PROVE  LET r == WithEvidence(row[j], attempts[j])
                        IN /\ r.st = row[j].st
                           /\ row[j].st = "none" => r = row[j]
                           /\ row[j].st # "none" => r.evid = attempts[j]
    BY <1>4
  <2> QED BY DEF WithEvidence, RowOf
<1>6. Unsubmitted'
  <2>1. ASSUME NEW k \in Jobs, row'[k].st = "none" PROVE row'[k] = NoRow
    BY <1>3, <1>5, <2>1 DEF Outcome, Unsubmitted
  <2>2. ASSUME NEW k \in Jobs, sub'[k] # "done"
        PROVE  /\ row'[k].st = "none" /\ attempts'[k] = 0 /\ sent'[k] = {}
               /\ \A t \in Tasks : task'[t].job # k
    <3>1. /\ row[k].st = "none" /\ attempts[k] = 0 /\ sent[k] = {}
          /\ \A t \in Tasks : task[t].job # k
      BY <1>3, <2>2 DEF Outcome, Unsubmitted
    <3>2. k # j
      BY <1>0, <1>j, <3>1
    <3>3. task'["worker"].job # k
      BY <1>0, <1>3, <1>4, <3>1, <3>2 DEF With
    <3> QED BY <1>0, <1>3, <3>1, <3>2, <3>3
  <2> QED BY <2>1, <2>2 DEF Unsubmitted
<1>7. ASSUME NEW k \in Jobs, row'[k].st = "completed" PROVE Whole(k)' /\ ~Home(Encoding, k)'
  <2>1. row[k].st = "completed"
    BY <1>3, <1>5, <1>7
  <2>2. Whole(k) /\ ~Home(Encoding, k)
    BY <2>1 DEF Outcome, Kept
  <2>3. CASE k # j
    <3>1. Whole(k)'
      BY <1>3, <2>2, <2>3 DEF Whole
    <3>2. p = "idle" => q \notin Encoding
      BY <1>4 DEF Encoding
    <3>3. ~Home(Encoding, k)'
      BY <1>0, <1>3, <1>q, <2>3, <3>2 DEF Home
    <3> QED BY <3>1, <3>3
  <2>4. CASE k = j
    <3>1. p \notin Encoding
      BY <1>p, <1>j, <2>2, <2>4 DEF Home
    <3>2. Whole(k)' /\ q \notin Encoding
      BY <1>3, <1>4, <2>2, <3>1 DEF Whole, Encoding
    <3> QED BY <1>q, <3>2 DEF Home
  <2> QED BY <2>3, <2>4
<1>8. ASSUME NEW k \in Jobs, Home({"complete"}, k)' PROVE row'[k].st = "none" \/ Whole(k)'
  <2>1. p = "persist" /\ out[j] # "absent"
    BY <1>4, <1>8, <1>q DEF Home
  <2>2. k = j
    BY <1>0, <1>3, <1>8, <2>1 DEF Home
  <2> QED BY <1>3, <1>5, <2>1, <2>2 DEF Whole
<1> QED BY <1>6, <1>7, <1>8 DEF Kept

(* Recovery and the mark leave the evidence and a final word of a row alone. *)
LEMMA RowKept ==
  ASSUME NEW r \in Rows, NEW b \in BOOLEAN,
         NEW s, s = r \/ s = Recovered(r) \/ s = WithPartial(r, b)
  PROVE  /\ s.evid = r.evid /\ s.retry = r.retry
         /\ r.st = "none" => s = r
         /\ s.st = "none" => r.st = "none"
         /\ s.st = r.st \/ (r.st = "running" /\ s.st = "failed")
BY DEF Recovered, WithPartial, Written, RetryFor, RowOf, Rows

LEMMA OutcomeOthers ==
  ASSUME Outcome,
         \/ \E t \in {"request", "sweeper"} : Announce(t) \/ AnnounceFails(t)
         \/ RequestKill \/ RequestMark \/ Lifespan \/ Stop \/ Crash
         \/ \E j \in Jobs : SubmitCheck(j) \/ Ffmpeg(j) \/ RequestCancel(j) \/ Sweep(j)
  PROVE  Unsubmitted' /\ Kept'
<1>0. Owned /\ NoJob \notin Jobs /\ Tasks = {"worker", "request", "sweeper"}
  BY JobFacts DEF Outcome, Tasks
<1>1. /\ UNCHANGED attempts
      /\ \A k \in Jobs : \/ row'[k] = row[k] \/ (app = "down" /\ row'[k] = Recovered(row[k]))
                         \/ row'[k] = WithPartial(row[k], out[k] # "absent")
      /\ \/ task'["worker"] = task["worker"]
         \/ task'["worker"] = Rest("idle")
      /\ \A k \in Jobs : out'[k] # out[k] => Home({"exec"}, k)
      /\ \A k \in Jobs : sub'[k] # "done" =>
           /\ sub[k] # "done"
           /\ \A t \in {"request", "sweeper"} : task'[t].job = k
                => task[t].job = k \/ row[k].st # "none"
           /\ sent'[k] = sent[k] \/ \E t \in Tasks : task[t].job = k
  BY <1>0, OtherEffect
<1>2. Rest("idle").job = NoJob /\ Rest("idle").pc = "idle"
  BY DEF Rest, Task
<1>3. ASSUME NEW k \in Jobs
      PROVE  /\ row'[k].evid = row[k].evid
             /\ row[k].st = "none" => row'[k] = row[k]
             /\ row'[k].st = "none" => row[k].st = "none"
             /\ row'[k].st = row[k].st \/ (row[k].st = "running" /\ row'[k].st = "failed")
  <2>1. row[k] \in Rows
    BY <1>0 DEF Owned, TypeOK
  <2>2. PICK b \in BOOLEAN : b = (out[k] # "absent")
    OBVIOUS
  <2>3. row'[k] = row[k] \/ row'[k] = Recovered(row[k]) \/ row'[k] = WithPartial(row[k], b)
    BY <1>1, <2>2
  <2> QED BY <2>1, <2>3, RowKept
<1>4. ASSUME NEW k \in Jobs, sub'[k] # "done"
      PROVE  /\ row'[k].st = "none" /\ attempts'[k] = 0 /\ sent'[k] = {}
             /\ \A t \in Tasks : task'[t].job # k
  <2>1. /\ row[k].st = "none" /\ attempts[k] = 0 /\ sent[k] = {}
        /\ \A t \in Tasks : task[t].job # k
    BY <1>1, <1>4 DEF Outcome, Unsubmitted
  <2> QED BY <1>0, <1>1, <1>2, <1>3, <1>4, <2>1
<1>5. Unsubmitted'
  BY <1>3, <1>4 DEF Outcome, Unsubmitted
<1>6. ASSUME NEW k \in Jobs, row'[k].st = "completed" PROVE Whole(k)' /\ ~Home(Encoding, k)'
  <2>1. Whole(k) /\ ~Home(Encoding, k)
    BY <1>3, <1>6 DEF Outcome, Kept
  <2>2. out'[k] = out[k]
    BY <1>1, <2>1 DEF Home, Encoding
  <2>3. ~Home(Encoding, k)'
    BY <1>0, <1>1, <1>2, <2>1 DEF Home
  <2> QED BY <1>1, <1>3, <2>1, <2>2, <2>3 DEF Whole
<1>7. ASSUME NEW k \in Jobs, Home({"complete"}, k)' PROVE row'[k].st = "none" \/ Whole(k)'
  <2>1. Home({"complete"}, k) /\ out'[k] = out[k]
    BY <1>1, <1>2, <1>7 DEF Home
  <2>2. row[k].st = "none" \/ Whole(k)
    BY <2>1 DEF Outcome, Kept
  <2> QED BY <1>1, <1>3, <2>1, <2>2 DEF Whole
<1> QED BY <1>5, <1>6, <1>7 DEF Kept

(* A row appears, goes away, or is queued again by the route.                *)
LEMMA OutcomeRows ==
  ASSUME Outcome, NEW j \in Jobs, SubmitInsert(j) \/ RequestDelete(j) \/ RequestRetry(j)
  PROVE  Unsubmitted' /\ Kept'
<1>0. /\ row \in [Jobs -> Rows] /\ sub \in [Jobs -> {"new", "insert", "done"}]
      /\ task \in [Tasks -> [pc : WorkerPCs \union RequestPCs \union SweeperPCs,
                             job : Jobs \union {NoJob}, pend : Nat \union {NoRead}]]
      /\ {"worker", "request"} \subseteq Tasks
  BY DEF Outcome, Owned, TypeOK, TaskOK, Tasks
<1>1. UNCHANGED <<out, sent, attempts>> /\ task'["worker"] = task["worker"]
  BY <1>0 DEF SubmitInsert, RequestDelete, RequestRetry
<1>2. \A k \in Jobs \ {j} : row'[k] = row[k] /\ sub'[k] = sub[k]
  BY <1>0 DEF SubmitInsert, RequestDelete, RequestRetry
<1>3. /\ row'[j].st # "completed"
      /\ row'[j].st = "none" => row'[j] = NoRow
      /\ row'[j].evid = row[j].evid \/ row'[j].st = "none" \/ task["worker"].job # j
      /\ sub'[j] # "done" => row'[j].st = "none"
  <2>1. CASE SubmitInsert(j)
    BY <1>0, <2>1 DEF SubmitInsert, NewRow, RowOf, Outcome, Unsubmitted
  <2>2. CASE RequestDelete(j)
    BY <1>0, <2>2 DEF RequestDelete, NoRow, RowOf
  <2>3. CASE RequestRetry(j)
    <3>1. row[j].st = "failed" /\ (row' = row \/ row' = [row EXCEPT ![j] =
                                       Written(row[j], "queued", RetryFor(row[j], "queued"))])
      BY <2>3 DEF RequestRetry
    <3>2. sub[j] = "done" /\ sub' = sub
      BY <2>3, <3>1 DEF RequestRetry, Outcome, Unsubmitted
    <3> QED BY <1>0, <3>1, <3>2 DEF Written, RowOf
  <2> QED BY <2>1, <2>2, <2>3
<1>4. \A t \in Tasks : task'[t].job = task[t].job \/ (task'[t].job = j /\ sub'[j] = "done")
  <2>1. CASE task' = task
    BY <2>1
  <2>2. CASE task' # task
    <3>1. RequestRetry(j) /\ row[j].st = "failed"
      BY <2>2 DEF SubmitInsert, RequestDelete, RequestRetry
    <3>2. sub'[j] = "done"
      BY <3>1 DEF RequestRetry, Outcome, Unsubmitted
    <3>3. task' = [task EXCEPT !["request"] = Task("retry", j, RetryFor(row[j], "queued"))]
      BY <2>2, <3>1 DEF RequestRetry
    <3> QED BY <1>0, <3>2, <3>3 DEF Task
  <2> QED BY <2>1, <2>2
<1>5. \A k \in Jobs : sub'[k] # "done" => sub[k] # "done"
  BY <1>0, <1>2 DEF SubmitInsert, RequestDelete, RequestRetry
<1>6. Unsubmitted'
  <2>1. ASSUME NEW k \in Jobs, row'[k].st = "none" PROVE row'[k] = NoRow
    BY <1>2, <1>3, <2>1 DEF Outcome, Unsubmitted
  <2>2. ASSUME NEW k \in Jobs, sub'[k] # "done"
        PROVE  /\ row'[k].st = "none" /\ attempts'[k] = 0 /\ sent'[k] = {}
               /\ \A t \in Tasks : task'[t].job # k
    BY <1>1, <1>2, <1>3, <1>4, <1>5, <2>2 DEF Outcome, Unsubmitted
  <2> QED BY <2>1, <2>2 DEF Unsubmitted
<1>7. ASSUME NEW k \in Jobs, row'[k].st = "completed" PROVE Whole(k)' /\ ~Home(Encoding, k)'
  BY <1>1, <1>2, <1>3, <1>7 DEF Outcome, Kept, Whole, Home
<1>8. ASSUME NEW k \in Jobs, Home({"complete"}, k)' PROVE row'[k].st = "none" \/ Whole(k)'
  <2>1. Home({"complete"}, k)
    BY <1>1, <1>8 DEF Home
  <2>2. row[k].st = "none" \/ Whole(k)
    BY <2>1 DEF Outcome, Kept
  <2>3. CASE k # j
    BY <1>1, <1>2, <2>2, <2>3 DEF Whole
  <2>4. CASE k = j
    <3>1. task["worker"].job = j
      BY <2>1, <2>4 DEF Home
    <3>2. row[j].st = "none" => row'[j].st = "none"
      BY <1>0, <3>1 DEF SubmitInsert, RequestDelete, RequestRetry, Outcome, Unsubmitted
    <3> QED BY <1>1, <1>3, <2>2, <2>4, <3>1, <3>2 DEF Whole
  <2> QED BY <2>3, <2>4
<1> QED BY <1>6, <1>7, <1>8 DEF Kept

LEMMA OutcomeNext == Outcome /\ [Next]_vars => Outcome'
<1> SUFFICES ASSUME Outcome, [Next]_vars PROVE Outcome'
  OBVIOUS
<1>0. Owned'
  BY OwnedNext DEF Outcome
<1> SUFFICES Unsubmitted' /\ Kept'
  BY <1>0 DEF Outcome
<1>1. CASE Worker
  BY <1>1, OutcomeWorker
<1>2. CASE Update("request") \/ Update("sweeper")
  BY <1>2, OutcomeUpdate DEF Tasks
<1>3. CASE \/ \E t \in {"request", "sweeper"} : Announce(t) \/ AnnounceFails(t)
           \/ RequestKill \/ RequestMark \/ Lifespan \/ Stop \/ Crash
           \/ \E j \in Jobs : SubmitCheck(j) \/ Ffmpeg(j) \/ RequestCancel(j) \/ Sweep(j)
  BY <1>3, OutcomeOthers
<1>4. CASE \E j \in Jobs : SubmitInsert(j) \/ RequestDelete(j) \/ RequestRetry(j)
  BY <1>4, OutcomeRows
<1>5. CASE UNCHANGED vars
  BY <1>5 DEF vars, Outcome, Unsubmitted, Kept, Whole, Home
<1> QED BY <1>1, <1>2, <1>3, <1>4, <1>5 DEF Next, Request, Sweeper

(* A COMPLETED row has its output and the evidence of the attempt that made  *)
(* it, with either repository: the late UPDATE of another task may turn a    *)
(* row COMPLETED into something else, but none turns it into COMPLETED, and  *)
(* the worker does so only once file and evidence are there.                 *)
THEOREM Outputs == Spec => []CompletedHasOutput
<1>1. Spec => []Outcome
  BY OutcomeInit, OutcomeNext, PTL DEF Spec
<1>2. Outcome => CompletedHasOutput
  BY DEF Outcome, Kept, Whole, CompletedHasOutput
<1> QED BY <1>1, <1>2, PTL

-----------------------------------------------------------------------------
(* Where update_status is atomic.                                            *)

(* The retry route is one step, and a server that is down has no tasks.      *)
Quiet ==
  /\ task["request"].pc # "retry"
  /\ app = "down" => \A t \in Tasks : task[t] = Rest("idle")

(* What may still be encoded for j: an encode about to start, and a row that *)
(* waits in the queue.                                                       *)
Owed(j) == (IF Home({"fetch", "prepare"}, j) THEN 1 ELSE 0)
             + (IF row[j].st = "queued" THEN 1 ELSE 0)

(* Encodes done and owed stay within the times j was queued; who is about to *)
(* queue it again has seen room for that, and still has it.                  *)
Within(j) ==
  row[j].st # "none" =>
    /\ attempts[j] + Owed(j) <= row[j].retry + 1
    /\ row[j].retry <= MaxRetries
    /\ row[j].st = "running" /\ Home({"fail"}, j) => row[j].retry < MaxRetries
    /\ row[j].st = "failed" /\ Home({"requeue"}, j) => row[j].retry < MaxRetries

Budget == \A j \in Jobs : Within(j)

Ledger == Outcome /\ Calm /\ Quiet /\ Budget

LEMMA CalmNext ==
  ASSUME AtomicRepo, Calm, [Next]_vars
  PROVE  Calm' /\ \A j \in Jobs : Stays(j)
<1>1. TypeOK'
  BY TypeNext DEF Calm
<1>2. NothingPending' /\ Inserted' /\ \A j \in Jobs : Stays(j)
  BY CalmUpdate, CalmTasks, CalmOthers DEF Next, Worker, Request, Sweeper, Tasks
<1> QED BY <1>1, <1>2 DEF Calm

LEMMA QuietNext ==
  ASSUME AtomicRepo, Calm, Quiet, [Next]_vars
  PROVE  Quiet'
<1>0. /\ TypeOK /\ Tasks = {"worker", "request", "sweeper"}
      /\ task \in [Tasks -> [pc : WorkerPCs \union RequestPCs \union SweeperPCs,
                             job : Jobs \union {NoJob}, pend : Nat \union {NoRead}]]
  BY DEF Calm, TypeOK, TaskOK, Tasks
<1>1. ASSUME app # "down", UNCHANGED app, task'["request"].pc # "retry" PROVE Quiet'
  BY <1>1 DEF Quiet
<1>2. ASSUME NEW t \in Tasks, NEW pc, Goes(t, pc), t = "request" => pc # "retry"
      PROVE  task'["request"].pc # "retry"
  BY <1>0, <1>2, GoesTo DEF Quiet
<1>3. ASSUME NEW t \in Tasks, Update(t) PROVE Quiet'
  <2>1. /\ task[t].pc \in DOMAIN Target /\ app # "down" /\ UNCHANGED app
        /\ \A u \in Tasks \ {t} : task'[u] = task[u]
        /\ task'[t].pc \in {task[t].pc, After[task[t].pc], Raised(task[t].pc)}
    BY <1>0, <1>3, UpdateEffect
  <2>2. After[task[t].pc] # "retry" /\ Raised(task[t].pc) # "retry"
    BY <2>1, Tables DEF After, Raised
  <2> QED BY <1>0, <1>1, <2>1, <2>2 DEF Quiet
<1>4. ASSUME NEW t \in Tasks, Announce(t) \/ AnnounceFails(t) PROVE Quiet'
  <2>1. PICK pc : Goes(t, pc) /\ pc # "retry"
    BY <1>4 DEF Announce, AnnounceFails, Raised
  <2> QED BY <1>1, <1>2, <1>4, <2>1 DEF Announce, AnnounceFails
<1>5. CASE \/ Fetch \/ PrepareFails \/ Spawn \/ Notice \/ Persist \/ HandleDrop \/ HandleFail
           \/ RequestKill \/ RequestMark
  <2>0. PICK t \in Tasks : \E pc : Goes(t, pc) /\ pc # "retry"
    BY <1>0, <1>5 DEF Fetch, PrepareFails, Spawn, Notice, Persist, HandleDrop, HandleFail,
                      RequestKill, RequestMark
  <2>1. PICK pc : Goes(t, pc) /\ pc # "retry"
    BY <2>0
  <2>2. app # "down" /\ UNCHANGED app
    BY <1>5 DEF Fetch, PrepareFails, Spawn, Notice, Persist, HandleDrop, HandleFail,
                RequestKill, RequestMark, At
  <2> QED BY <1>1, <1>2, <2>1, <2>2
<1>6. CASE Look \/ Timeout \/ \E j \in Jobs : Ffmpeg(j) \/ RequestCancel(j) \/ Sweep(j)
  <2>1. task'["request"].pc \in {task["request"].pc, "cancel", "wait"}
    BY <1>0, <1>6 DEF Look, Timeout, Ffmpeg, FfmpegDone, FfmpegQuits, FfmpegFails, FfmpegExit,
                      RequestCancel, Sweep, On, Task
  <2>2. app # "down" /\ UNCHANGED app
    BY <1>6 DEF Look, Timeout, Ffmpeg, FfmpegDone, FfmpegQuits, FfmpegFails, FfmpegExit,
                RequestCancel, RequestFree, Sweep, At
  <2> QED BY <1>1, <2>1, <2>2 DEF Quiet
<1>7. CASE \E j \in Jobs : SubmitCheck(j) \/ SubmitInsert(j) \/ RequestRetry(j) \/ RequestDelete(j)
  <2>1. task' = task /\ app # "down" /\ UNCHANGED app
    BY <1>7 DEF SubmitCheck, SubmitInsert, RequestRetry, RequestFree, RequestDelete
  <2> QED BY <1>1, <2>1 DEF Quiet
<1>8. CASE KillRemaining \/ Stop \/ Restart \/ UNCHANGED vars
  <2>1. task' = task /\ (app' = "down" => app = "down")
    BY <1>8 DEF KillRemaining, Stop, Restart, vars
  <2> QED BY <2>1 DEF Quiet
<1>9. CASE CancelTasks \/ Crash
  BY <1>0, <1>9 DEF CancelTasks, Crash, ProcessDies, Quiet, Rest, Task
<1> QED BY <1>0, <1>3, <1>4, <1>5, <1>6, <1>7, <1>8, <1>9
        DEF Next, Worker, Request, Sweeper, Lifespan

(* A call of update_status when no update is half done.                      *)
LEMMA AtomicUpdate ==
  ASSUME AtomicRepo, Calm, NEW t \in Tasks, Update(t)
  PROVE  LET c == task[t].pc
             j == task[t].job
         IN /\ c \in DOMAIN Target /\ c \in PCs[t] /\ j \in Jobs /\ app # "down"
            /\ UNCHANGED <<sub, out, sent, attempts, app>>
            /\ \A k \in Jobs \ {j} : row'[k] = row[k]
            /\ \A u \in Tasks \ {t} : task'[u] = task[u]
            /\ \/ /\ row' = row /\ task'[t].pc = Raised(c)
                  /\ task'[t].job = IF Raised(c) \in {"idle", "dead"} THEN NoJob ELSE j
               \/ /\ Accepts(row[j], Target[c]) /\ row[j].st # "none"
                  /\ row'[j].st = Target[c] /\ row'[j].retry = RetryFor(row[j], Target[c])
                  /\ task'[t].pc = After[c]
                  /\ task'[t].job = IF After[c] \in {"idle", "dead"} THEN NoJob ELSE j
<1>j. PICK j : j = task[t].job
  OBVIOUS
<1>c. PICK c : c = task[t].pc
  OBVIOUS
<1>1. /\ c \in DOMAIN Target /\ c \in PCs[t] /\ j \in Jobs /\ row[j] \in Rows
      /\ app # "down" /\ Target[c] \in Status \ {"none"}
      /\ UNCHANGED <<sub, ok, proc, out, sent, attempts, app, stops>>
      /\ \A k \in Jobs \ {j} : row'[k] = row[k]
      /\ \A u \in Tasks \ {t} : task'[u] = task[u]
      /\ \/ /\ row' = row /\ ~Accepts(row[j], Target[c])
            /\ task'[t].pc = Raised(c)
            /\ task'[t].job = IF Raised(c) \in {"idle", "dead"} THEN NoJob ELSE j
         \/ /\ \E n \in Nat : /\ row'[j] = Written(row[j], Target[c], n)
                              /\ Accepts(row[j], Target[c]) /\ n = RetryFor(row[j], Target[c])
            /\ task'[t].pc = After[c]
            /\ task'[t].job = IF After[c] \in {"idle", "dead"} THEN NoJob ELSE j
  BY <1>j, <1>c, UpdateEffect DEF Calm, NothingPending
<1>2. Accepts(row[j], Target[c]) => row[j].st # "none"
  BY <1>1, FinalRow
<1>3. ASSUME NEW n \in Nat, row'[j] = Written(row[j], Target[c], n), row[j].st # "none"
      PROVE  row'[j].st = Target[c] /\ row'[j].retry = n
  BY <1>1, <1>3, WrittenRow
<1> QED BY <1>j, <1>c, <1>1, <1>2, <1>3

(* Steps that neither encode nor queue.                                      *)
LEMMA WithinKept ==
  ASSUME TypeOK, NEW k \in Jobs, Within(k),
         row'[k].st # "none" => row[k].st # "none" /\ row'[k].retry = row[k].retry,
         attempts'[k] = attempts[k],
         Home({"fetch", "prepare"}, k)' => Home({"fetch", "prepare"}, k),
         row'[k].st = "queued" => row[k].st = "queued",
         row'[k].st = "running" /\ Home({"fail"}, k)' => row[k].retry < MaxRetries,
         row'[k].st = "failed" /\ Home({"requeue"}, k)' => row[k].retry < MaxRetries
  PROVE  Within(k)'
<1>1. attempts[k] \in Nat /\ row[k].retry \in Nat /\ MaxRetries \in Nat
  <2>1. row[k] \in Rows /\ attempts[k] \in 0 .. Cap /\ Cap \in Nat
    BY JobFacts DEF TypeOK
  <2> QED BY <2>1, RenderAssumption DEF Rows, RenderAssumption
<1> SUFFICES ASSUME row'[k].st # "none"
             PROVE  /\ attempts'[k] + Owed(k)' <= row'[k].retry + 1
                    /\ row'[k].retry <= MaxRetries
                    /\ row'[k].st = "running" /\ Home({"fail"}, k)' => row'[k].retry < MaxRetries
                    /\ row'[k].st = "failed" /\ Home({"requeue"}, k)' => row'[k].retry < MaxRetries
  BY DEF Within
<1>2. attempts[k] + Owed(k) <= row[k].retry + 1 /\ row[k].retry <= MaxRetries
  BY DEF Within
<1>3. Owed(k)' <= Owed(k) /\ Owed(k)' \in Nat /\ Owed(k) \in Nat
  BY DEF Owed
<1> QED BY <1>1, <1>2, <1>3

(* What Home says after a step of the worker.                                *)
LEMMA HomeNext ==
  ASSUME NEW S, NEW k \in Jobs, NEW q, NEW j, task'["worker"].pc = q,
         task'["worker"].job \in {j, NoJob}
  PROVE  Home(S, k)' => k = j /\ q \in S
BY JobFacts DEF Home

LEMMA BudgetUpdate ==
  ASSUME AtomicRepo, Ledger, NEW t \in Tasks, Update(t)
  PROVE  Budget'
<1>0. TypeOK /\ "worker" \in Tasks /\ row \in [Jobs -> Rows] /\ attempts \in [Jobs -> 0 .. Cap]
  BY DEF Ledger, Calm, TypeOK, Tasks
<1>j. PICK j : j = task[t].job
  OBVIOUS
<1>c. PICK c : c = task[t].pc
  OBVIOUS
<1>1. /\ c \in DOMAIN Target /\ c \in PCs[t] /\ j \in Jobs /\ app # "down"
      /\ UNCHANGED <<sub, out, sent, attempts, app>>
      /\ \A k \in Jobs \ {j} : row'[k] = row[k]
      /\ \A u \in Tasks \ {t} : task'[u] = task[u]
      /\ \/ /\ row' = row /\ task'[t].pc = Raised(c)
            /\ task'[t].job = IF Raised(c) \in {"idle", "dead"} THEN NoJob ELSE j
         \/ /\ Accepts(row[j], Target[c]) /\ row[j].st # "none"
            /\ row'[j].st = Target[c] /\ row'[j].retry = RetryFor(row[j], Target[c])
            /\ task'[t].pc = After[c]
            /\ task'[t].job = IF After[c] \in {"idle", "dead"} THEN NoJob ELSE j
  BY <1>j, <1>c, AtomicUpdate DEF Ledger
<1>2. Within(j) /\ \A k \in Jobs : Within(k)
  BY <1>1 DEF Ledger, Budget
<1>3. /\ task'[t].pc \in {After[c], Raised(c)} /\ task'[t].job \in {j, NoJob}
  BY <1>1
<1>4. ASSUME NEW k \in Jobs, NEW S PROVE Home(S, k)' => Home(S, k) \/ (k = j /\ t = "worker")
  BY <1>0, <1>1, <1>3, JobFacts, <1>4 DEF Home
<1>5. ASSUME NEW k \in Jobs, k # j PROVE Within(k)'
  <2>1. /\ row'[k] = row[k] /\ attempts'[k] = attempts[k]
        /\ \A S : Home(S, k)' => Home(S, k)
    BY <1>1, <1>4, <1>5
  <2> QED BY <1>0, <1>2, <2>1, WithinKept DEF Within
<1>6. Raised(c) \notin {"fetch", "prepare", "fail", "requeue"}
  BY <1>1, Tables DEF Raised
<1>7. CASE row' = row
  <2>1. ASSUME t = "worker", NEW S \in SUBSET {"fetch", "prepare", "fail", "requeue"},
               Home(S, j)'
        PROVE  FALSE
    <3>1. CASE task'[t].pc = Raised(c)
      BY <1>6, <2>1, <3>1 DEF Home
    <3>2. CASE task'[t].pc # Raised(c)
      <4>1. Target[c] \in ValidTransitions[row[j].st] /\ row[j].st = Target[c]
        BY <1>1, <1>7, <2>1, <3>2 DEF Accepts
      <4>2. \A s \in Status : s \notin ValidTransitions[s]
        BY DEF ValidTransitions, Status
      <4> QED BY <1>1, <4>1, <4>2, Tables
    <3> QED BY <3>1, <3>2
  <2>2. \A S \in SUBSET {"fetch", "prepare", "fail", "requeue"} : Home(S, j)' => Home(S, j)
    BY <1>1, <1>4, <2>1
  <2>3. /\ Home({"fetch", "prepare"}, j)' => Home({"fetch", "prepare"}, j)
        /\ Home({"fail"}, j)' => Home({"fail"}, j)
        /\ Home({"requeue"}, j)' => Home({"requeue"}, j)
    BY <2>2
  <2> QED BY <1>0, <1>1, <1>2, <1>5, <1>7, <2>3, WithinKept DEF Within, Budget
<1>8. CASE row' # row
  <2>1. /\ Accepts(row[j], Target[c]) /\ row[j].st # "none"
        /\ row'[j].st = Target[c] /\ row'[j].retry = RetryFor(row[j], Target[c])
        /\ task'[t].pc = After[c] /\ task'[t].job \in {j, NoJob}
    BY <1>1, <1>8
  <2>2. t = "worker" => Home({c}, j)
    BY <1>j, <1>c DEF Home
  <2>3. CASE c = "claim"
    <3>1. t = "worker" /\ After[c] = "fetch" /\ Target[c] = "running"
      BY <1>1, <2>3 DEF PCs, RequestPCs, SweeperPCs, Tasks, After, Target
    <3>2. row[j].st = "queued" /\ row'[j].retry = row[j].retry
      BY <1>0, <1>1, <2>1, <3>1 DEF Accepts, ValidTransitions, Rows, Status, RetryFor
    <3>3. Owed(j) = 1 /\ Owed(j)' \in {0, 1} /\ ~Home({"fail"}, j)'
      <4>1. /\ ~Home({"fetch", "prepare"}, j) /\ ~Home({"fail"}, j)'
        BY <1>j, <1>c, <2>1, <2>3, <3>1 DEF Home
      <4>2. Owed(j) = 1
        BY <3>2, <4>1 DEF Owed
      <4>3. row'[j].st # "queued"
        BY <2>1, <3>1
      <4>4. Owed(j)' \in {0, 1}
        BY <4>3 DEF Owed
      <4> QED BY <4>1, <4>2, <4>4
    <3>4. attempts[j] \in Nat /\ row[j].retry \in Nat
      BY <1>0, <1>1, JobFacts DEF Rows
    <3>5. Within(j)'
      BY <1>1, <1>2, <2>1, <3>1, <3>2, <3>3, <3>4 DEF Within
    <3> QED BY <1>5, <3>5 DEF Budget
  <2>4. CASE c = "requeue"
    <3>1. t = "worker" /\ After[c] = "idle" /\ Target[c] = "queued"
      BY <1>1, <2>4 DEF PCs, RequestPCs, SweeperPCs, Tasks, After, Target
    <3>2. row[j].st = "failed" /\ row'[j].retry = row[j].retry + 1
      BY <1>0, <1>1, <2>1, <3>1 DEF Accepts, ValidTransitions, Rows, Status, RetryFor
    <3>3. Owed(j) = 0 /\ Owed(j)' = 1
      <4>1. /\ ~Home({"fetch", "prepare"}, j) /\ ~Home({"fetch", "prepare"}, j)'
        BY <1>j, <1>c, <2>1, <2>4, <3>1 DEF Home
      <4>2. row[j].st # "queued" /\ row'[j].st = "queued"
        BY <2>1, <3>1, <3>2
      <4> QED BY <4>1, <4>2 DEF Owed
    <3>4. attempts[j] \in Nat /\ row[j].retry \in Nat /\ MaxRetries \in Nat
      BY <1>0, <1>1, JobFacts, RenderAssumption DEF Rows, RenderAssumption
    <3>5. row[j].retry < MaxRetries /\ attempts[j] + 0 <= row[j].retry + 1
      BY <1>2, <2>2, <2>4, <3>1, <3>2, <3>3 DEF Within
    <3>6. Within(j)'
      BY <1>1, <2>1, <3>1, <3>2, <3>3, <3>4, <3>5 DEF Within
    <3> QED BY <1>5, <3>6 DEF Budget
  <2>5. CASE c \notin {"claim", "requeue"}
    <3>1. c # "retry"
      BY <1>c, <1>1 DEF Ledger, Quiet, Tasks, PCs, WorkerPCs, SweeperPCs
    <3>2. Target[c] \notin {"queued", "running", "none"}
          /\ After[c] \notin {"fetch", "prepare", "fail"}
          /\ (After[c] = "requeue" => c = "fail" /\ t = "worker")
      BY <1>1, <2>5, <3>1, Tables DEF After, Target, PCs, RequestPCs, SweeperPCs, Tasks
    <3>3. row'[j].retry = row[j].retry
      BY <2>1, <3>2 DEF RetryFor
    <3>4. Home({"fetch", "prepare"}, j)' => Home({"fetch", "prepare"}, j)
      BY <1>4, <1>1, <2>1, <3>2 DEF Home
    <3>5. ASSUME row'[j].st = "failed", Home({"requeue"}, j)'
          PROVE  row[j].retry < MaxRetries
      <4>1. row[j].st = "running"
        BY <1>0, <1>1, <2>1, <3>5 DEF Accepts, ValidTransitions, Rows, Status
      <4>2. task["worker"].job = j /\ task["worker"].pc \in Owning
        BY <1>1, <4>1 DEF Ledger, Outcome, Owned, RunningIsOwned
      <4>3. t = "worker"
        <5>1. ~Home({"requeue"}, j)
          BY <4>2 DEF Home, Owning
        <5> QED BY <1>1, <1>4, <3>5, <5>1
      <4>4. c = "fail"
        BY <2>1, <3>2, <3>5, <4>3 DEF Home
      <4> QED BY <1>2, <2>2, <4>1, <4>3, <4>4 DEF Within
    <3>6. Within(j)'
      BY <1>0, <1>1, <1>2, <2>1, <3>2, <3>3, <3>4, <3>5, WithinKept
    <3> QED BY <1>5, <3>6 DEF Budget
  <2> QED BY <2>3, <2>4, <2>5
<1> QED BY <1>7, <1>8

LEMMA BudgetWorker ==
  ASSUME AtomicRepo, Ledger, Worker
  PROVE  Budget'
<1>0. /\ TypeOK /\ row \in [Jobs -> Rows] /\ attempts \in [Jobs -> 0 .. Cap] /\ NoJob \notin Jobs
  BY JobFacts DEF Ledger, Calm, TypeOK
<1>1. CASE Update("worker")
  BY <1>1, BudgetUpdate DEF Tasks
<1> SUFFICES ASSUME ~Update("worker"), NEW k \in Jobs PROVE Within(k)'
  BY <1>1 DEF Budget
<1>p. PICK p : p = task["worker"].pc
  OBVIOUS
<1>q. PICK q : q = task'["worker"].pc
  OBVIOUS
<1>j. PICK j : j = task["worker"].job
  OBVIOUS
<1>2. \/ Announce("worker") \/ AnnounceFails("worker")
      \/ Look \/ Fetch \/ PrepareFails \/ Spawn \/ Notice \/ Timeout
      \/ Persist \/ HandleDrop \/ HandleFail
  BY DEF Worker
<1>3. /\ p # "idle" => j \in Jobs /\ task'["worker"].job \in {j, NoJob}
      /\ \A i \in Jobs : i # j => row'[i] = row[i] /\ attempts'[i] = attempts[i]
      /\ p # "prepare" => UNCHANGED <<out, attempts>>
      /\ p # "persist" => UNCHANGED row
  BY <1>0, <1>2, <1>p, <1>j, WorkerEffect
<1>4. \/ p = "idle" /\ q = "claim"
      \/ p = "fetch" /\ q \in {"idle", "prepare"}
      \/ p = "prepare" /\ q = "handle" /\ UNCHANGED <<out, attempts>>
      \/ /\ p = "prepare" /\ q = "exec"
         /\ attempts'[j] \in {attempts[j], attempts[j] + 1}
      \/ p = "exec" /\ q = "persist"
      \/ /\ p = "persist" /\ row'[j] = WithEvidence(row[j], attempts[j])
         /\ q \in {"handle", "complete"}
      \/ p = "handle" /\ q \in {"idle", "final"}
      \/ p = "handle" /\ q = "fail" /\ row[j].retry < MaxRetries
      \/ p = "announceDone" /\ q \in {"qc", "idle", "handle"}
      \/ p = "announceFail" /\ q \in {"idle", "fallback", "handle"}
  BY <1>0, <1>2, <1>p, <1>q, <1>j, WorkerEffect
<1>5. Within(k)
  BY DEF Ledger, Budget
<1>6. row'[k].st = row[k].st /\ row'[k].retry = row[k].retry
  <2>1. CASE p = "persist" /\ k = j
    <3>1. \A n : WithEvidence(row[k], n).st = row[k].st /\ WithEvidence(row[k], n).retry = row[k].retry
      BY DEF WithEvidence, RowOf
    <3> QED BY <1>4, <2>1, <3>1
  <2>2. CASE ~(p = "persist" /\ k = j)
    BY <1>3, <2>2
  <2> QED BY <2>1, <2>2
<1>7. /\ Home({"fetch", "prepare"}, k)' => k = j /\ p = "fetch" /\ Home({"fetch", "prepare"}, k)
      /\ Home({"fail"}, k)' => row[k].retry < MaxRetries
      /\ ~Home({"requeue"}, k)'
  <2>1. \A S : Home(S, k)' => q \in S /\ (p = "idle" \/ k = j)
    BY <1>0, <1>3, <1>q DEF Home
  <2>2. Home({"fetch", "prepare"}, k)' => k = j /\ p = "fetch" /\ Home({"fetch", "prepare"}, k)
    <3> SUFFICES ASSUME Home({"fetch", "prepare"}, k)'
                 PROVE  k = j /\ p = "fetch" /\ Home({"fetch", "prepare"}, k)
      OBVIOUS
    <3>1. q \in {"fetch", "prepare"} /\ (p = "idle" \/ k = j)
      BY <2>1
    <3> QED BY <1>4, <1>p, <1>j, <3>1 DEF Home
  <2>3. Home({"fail"}, k)' => row[k].retry < MaxRetries
    <3> SUFFICES ASSUME Home({"fail"}, k)' PROVE row[k].retry < MaxRetries
      OBVIOUS
    <3>1. q = "fail" /\ (p = "idle" \/ k = j)
      BY <2>1
    <3> QED BY <1>4, <3>1
  <2>4. ~Home({"requeue"}, k)'
    BY <1>4, <1>q DEF Home
  <2> QED BY <2>2, <2>3, <2>4
<1>8. CASE attempts'[k] = attempts[k]
  BY <1>0, <1>5, <1>6, <1>7, <1>8, WithinKept
<1>9. CASE attempts'[k] # attempts[k]
  <2>1. /\ p = "prepare" /\ q = "exec" /\ k = j /\ attempts'[k] = attempts[k] + 1
    BY <1>3, <1>4, <1>9
  <2>2. Home({"fetch", "prepare"}, k) /\ ~Home({"fetch", "prepare"}, k)'
    BY <1>p, <1>j, <1>7, <2>1 DEF Home
  <2>3. Owed(k) = Owed(k)' + 1 /\ Owed(k)' \in {0, 1}
    BY <1>6, <2>2 DEF Owed
  <2>4. attempts[k] \in Nat /\ row[k].retry \in Nat
    BY <1>0, JobFacts DEF Rows
  <2>5. ~Home({"fail"}, k)'
    BY <1>q, <2>1 DEF Home
  <2> QED BY <1>5, <1>6, <1>7, <2>1, <2>3, <2>4, <2>5 DEF Within
<1> QED BY <1>8, <1>9

LEMMA BudgetOthers ==
  ASSUME AtomicRepo, Ledger,
         \/ \E t \in {"request", "sweeper"} : Announce(t) \/ AnnounceFails(t)
         \/ RequestKill \/ RequestMark \/ Lifespan \/ Stop \/ Crash
         \/ \E j \in Jobs : SubmitCheck(j) \/ Ffmpeg(j) \/ RequestCancel(j) \/ Sweep(j)
  PROVE  Budget'
<1>0. TypeOK /\ Owned /\ NoJob \notin Jobs /\ Tasks = {"worker", "request", "sweeper"}
  BY JobFacts DEF Ledger, Outcome, Calm, Tasks
<1>1. /\ UNCHANGED attempts
      /\ \A k \in Jobs : \/ row'[k] = row[k] \/ (app = "down" /\ row'[k] = Recovered(row[k]))
                         \/ row'[k] = WithPartial(row[k], out[k] # "absent")
      /\ \/ task'["worker"] = task["worker"]
         \/ task'["worker"] = Rest("idle")
  BY <1>0, OtherEffect
<1>2. ASSUME NEW k \in Jobs, NEW S PROVE Home(S, k)' => Home(S, k) /\ app # "down"
  BY <1>0, <1>1, <1>2 DEF Ledger, Quiet, Home, Rest, Task
<1>3. ASSUME NEW k \in Jobs
      PROVE  /\ row'[k].retry = row[k].retry
             /\ row'[k].st = row[k].st \/ (app = "down" /\ row[k].st = "running" /\ row'[k].st = "failed")
  <2>1. row[k] \in Rows
    BY <1>0 DEF TypeOK
  <2>2. PICK b \in BOOLEAN : b = (out[k] # "absent")
    OBVIOUS
  <2>3. WithPartial(row[k], b).st = row[k].st
    BY <2>1, PartialOp
  <2>4. row'[k] = row[k] \/ (app = "down" /\ row'[k] = Recovered(row[k]))
        \/ row'[k] = WithPartial(row[k], b)
    BY <1>1, <2>2
  <2> QED BY <2>1, <2>3, <2>4, RowKept
<1>4. ASSUME NEW k \in Jobs PROVE Within(k)'
  <2>1. Within(k)
    BY DEF Ledger, Budget
  <2>2. /\ Home({"fetch", "prepare"}, k)' => Home({"fetch", "prepare"}, k)
        /\ row'[k].st = "running" /\ Home({"fail"}, k)' => row[k].retry < MaxRetries
        /\ row'[k].st = "failed" /\ Home({"requeue"}, k)' => row[k].retry < MaxRetries
    BY <1>2, <1>3, <2>1 DEF Within
  <2> QED BY <1>0, <1>1, <1>3, <2>1, <2>2, WithinKept
<1> QED BY <1>4 DEF Budget

LEMMA BudgetRows ==
  ASSUME AtomicRepo, Ledger, NEW j \in Jobs, SubmitInsert(j) \/ RequestDelete(j) \/ RequestRetry(j)
  PROVE  Budget'
<1>0. /\ row \in [Jobs -> Rows] /\ attempts \in [Jobs -> 0 .. Cap] /\ "worker" \in Tasks
      /\ MaxRetries \in Nat /\ row[j].retry \in Nat /\ attempts[j] \in Nat
  BY JobFacts, RenderAssumption DEF Ledger, Calm, TypeOK, RenderAssumption, Rows, Tasks
<1>1. UNCHANGED <<task, attempts>> /\ \A k \in Jobs \ {j} : row'[k] = row[k]
  BY <1>0 DEF SubmitInsert, RequestDelete, RequestRetry
<1>2. ASSUME NEW k \in Jobs, k # j PROVE Within(k)'
  BY <1>1, <1>2 DEF Ledger, Budget, Within, Owed, Home
<1>3. \A S : Home(S, j)' <=> Home(S, j)
  BY <1>1 DEF Home
<1>4. Within(j)'
  <2>1. CASE SubmitInsert(j)
    <3>1. row'[j].st = "queued" /\ row'[j].retry = 0
      BY <1>0, <2>1 DEF SubmitInsert, NewRow, RowOf
    <3>2. attempts'[j] = 0 /\ ~Home({"fetch", "prepare"}, j)'
      BY <1>0, <1>1, <1>3, <2>1 DEF SubmitInsert, Ledger, Outcome, Unsubmitted, Home
    <3>3. Owed(j)' = 1
      BY <3>1, <3>2 DEF Owed
    <3> QED BY <1>0, <3>1, <3>2, <3>3 DEF Within
  <2>2. CASE RequestDelete(j)
    BY <1>0, <2>2 DEF RequestDelete, NoRow, RowOf, Within
  <2>3. CASE RequestRetry(j)
    <3>1. /\ row[j].st = "failed" /\ row[j].retry < MaxRetries
          /\ row' = [row EXCEPT ![j] = Written(row[j], "queued", RetryFor(row[j], "queued"))]
      BY <2>3 DEF RequestRetry
    <3>2. row'[j].st = "queued" /\ row'[j].retry = row[j].retry + 1
      BY <1>0, <3>1 DEF Written, RowOf, RetryFor
    <3>3. Within(j)
      BY DEF Ledger, Budget
    <3>4. Owed(j) \in {0, 1} /\ Owed(j)' = Owed(j) + 1
      BY <1>3, <3>1, <3>2 DEF Owed
    <3> QED BY <1>0, <1>1, <3>1, <3>2, <3>3, <3>4 DEF Within
  <2> QED BY <2>1, <2>2, <2>3
<1> QED BY <1>2, <1>4 DEF Budget

LEMMA LedgerNext == ASSUME AtomicRepo PROVE Ledger /\ [Next]_vars => Ledger'
<1> SUFFICES ASSUME Ledger, [Next]_vars PROVE Ledger'
  OBVIOUS
<1>0. Outcome' /\ Calm' /\ Quiet'
  BY OutcomeNext, CalmNext, QuietNext DEF Ledger
<1> SUFFICES Budget'
  BY <1>0 DEF Ledger
<1>1. CASE Worker
  BY <1>1, BudgetWorker
<1>2. CASE Update("request") \/ Update("sweeper")
  BY <1>2, BudgetUpdate DEF Tasks
<1>3. CASE \/ \E t \in {"request", "sweeper"} : Announce(t) \/ AnnounceFails(t)
           \/ RequestKill \/ RequestMark \/ Lifespan \/ Stop \/ Crash
           \/ \E j \in Jobs : SubmitCheck(j) \/ Ffmpeg(j) \/ RequestCancel(j) \/ Sweep(j)
  BY <1>3, BudgetOthers
<1>4. CASE \E j \in Jobs : SubmitInsert(j) \/ RequestDelete(j) \/ RequestRetry(j)
  BY <1>4, BudgetRows
<1>5. CASE UNCHANGED vars
  BY <1>5 DEF vars, Ledger, Budget, Within, Owed, Home
<1> QED BY <1>1, <1>2, <1>3, <1>4, <1>5 DEF Next, Request, Sweeper

LEMMA LedgerInit == Init => Ledger
<1> SUFFICES ASSUME Init PROVE Ledger
  OBVIOUS
<1>1. Outcome /\ TypeOK
  BY OutcomeInit DEF Outcome, Owned
<1>2. NothingPending /\ Inserted /\ Quiet
  BY DEF Init, NothingPending, Inserted, Quiet, Rest, Task, NoRow, RowOf, Tasks
<1>3. Budget
  BY DEF Init, Budget, Within, NoRow, RowOf
<1> QED BY <1>1, <1>2, <1>3 DEF Ledger, Calm

(* A job is encoded at most once per time it was queued, and queued again    *)
(* within the budget that the worker and the retry route share.              *)
THEOREM Attempts == ASSUME AtomicRepo PROVE Spec => []AttemptsBounded
<1>1. Spec => []Ledger
  BY LedgerInit, LedgerNext, PTL DEF Spec
<1>2. Ledger => AttemptsBounded
  <2> SUFFICES ASSUME Ledger, NEW j \in Jobs, row[j].st # "none"
               PROVE  attempts[j] <= row[j].retry + 1 /\ row[j].retry <= MaxRetries
    BY DEF AttemptsBounded
  <2>1. Within(j) /\ row[j].retry \in Nat /\ attempts[j] \in Nat
    BY JobFacts DEF Ledger, Budget, Calm, TypeOK, Rows
  <2>2. Owed(j) \in Nat
    BY DEF Owed
  <2> QED BY <2>1, <2>2 DEF Within
<1> QED BY <1>1, <1>2, PTL

-----------------------------------------------------------------------------
(* Announcements.  Whoever is about to broadcast that a job completed or was *)
(* cancelled finds the row saying so, and no step takes that back.           *)

Saying ==
  \A j \in Jobs :
    /\ task["request"].job = j /\ task["request"].pc \in {"mark", "announceCancel"}
         => row[j].st \in {"cancelled", "none"}
    /\ Home({"announceDone"}, j) => row[j].st \in {"completed", "qc_failed", "none"}

Promise == Ledger /\ Saying /\ AnnouncementsHold

(* The steps that are calls of update_status, and those that are not, as the *)
(* lemmas about their effects take them.                                     *)
LEMMA StepCases ==
  ASSUME [Next]_vars
  PROVE  \/ \E t \in Tasks : Update(t)
         \/ \/ Announce("worker") \/ AnnounceFails("worker")
            \/ Look \/ Fetch \/ PrepareFails \/ Spawn \/ Notice \/ Timeout
            \/ Persist \/ HandleDrop \/ HandleFail
         \/ \/ \E t \in {"request", "sweeper"} : Announce(t) \/ AnnounceFails(t)
            \/ RequestKill \/ RequestMark \/ Lifespan \/ Stop \/ Crash
            \/ \E j \in Jobs : SubmitCheck(j) \/ Ffmpeg(j) \/ RequestCancel(j) \/ Sweep(j)
         \/ \E j \in Jobs : SubmitInsert(j) \/ RequestDelete(j) \/ RequestRetry(j)
         \/ UNCHANGED vars
BY DEF Next, Worker, Request, Sweeper, Tasks

(* The worker's other steps and everybody else's leave the statuses alone,   *)
(* recovery excepted.                                                        *)
LEMMA WorkerRow ==
  ASSUME TypeOK, NEW k \in Jobs,
         \/ Announce("worker") \/ AnnounceFails("worker")
         \/ Look \/ Fetch \/ PrepareFails \/ Spawn \/ Notice \/ Timeout
         \/ Persist \/ HandleDrop \/ HandleFail
  PROVE  row'[k].st = row[k].st /\ row'[k].retry = row[k].retry /\ UNCHANGED sub
<1>p. PICK p : p = task["worker"].pc
  OBVIOUS
<1>q. PICK q : q = task'["worker"].pc
  OBVIOUS
<1>j. PICK j : j = task["worker"].job
  OBVIOUS
<1>1. /\ UNCHANGED sub
      /\ \A i \in Jobs : i # j => row'[i] = row[i]
      /\ p # "persist" => UNCHANGED row
      /\ p = "persist" => row'[j] = WithEvidence(row[j], attempts[j])
  BY <1>p, <1>q, <1>j, WorkerEffect
<1>2. \A r, n : WithEvidence(r, n).st = r.st /\ WithEvidence(r, n).retry = r.retry
  BY DEF WithEvidence, RowOf
<1> QED BY <1>1, <1>2

LEMMA OtherRow ==
  ASSUME Owned, NEW k \in Jobs,
         \/ \E t \in {"request", "sweeper"} : Announce(t) \/ AnnounceFails(t)
         \/ RequestKill \/ RequestMark \/ Lifespan \/ Stop \/ Crash
         \/ \E j \in Jobs : SubmitCheck(j) \/ Ffmpeg(j) \/ RequestCancel(j) \/ Sweep(j)
  PROVE  /\ row'[k].retry = row[k].retry
         /\ row'[k].st = row[k].st \/ (row[k].st = "running" /\ row'[k].st = "failed")
         /\ sub[k] = "done" => sub'[k] = "done"
<1>1. row[k] \in Rows
  BY DEF Owned, TypeOK
<1>2. PICK b \in BOOLEAN : b = (out[k] # "absent")
  OBVIOUS
<1>3. /\ row'[k] = row[k] \/ row'[k] = Recovered(row[k]) \/ row'[k] = WithPartial(row[k], b)
      /\ sub[k] = "done" => sub'[k] = "done"
  BY <1>2, OtherEffect
<1> QED BY <1>1, <1>3, RowKept

(* What a row says of a job that is over stays true.                         *)
Over == {{"cancelled", "none"}, {"completed", "qc_failed", "none"}}

LEMMA OverStays ==
  ASSUME AtomicRepo, Calm, Owned, [Next]_vars, NEW k \in Jobs, NEW S \in Over,
         sub[k] = "done", row[k].st \in S
  PROVE  sub'[k] = "done" /\ row'[k].st \in S
<1>0. row \in [Jobs -> Rows] /\ row[k] \in Rows
  BY DEF Calm, TypeOK
<1>1. CASE \E t \in Tasks : Update(t)
  <2>1. PICK t \in Tasks : Update(t)
    BY <1>1
  <2>2. /\ UNCHANGED sub
        /\ \/ row'[k] = row[k]
           \/ \E c \in DOMAIN Target : Accepts(row[k], Target[c]) /\ row'[k].st = Target[c]
    BY <2>1, AtomicUpdate
  <2>3. \A s : Accepts(row[k], s) => row[k].st = "completed" /\ s = "qc_failed"
    BY <1>0 DEF Accepts, ValidTransitions, Over, Rows, Status
  <2> QED BY <2>2, <2>3 DEF Over
<1>2. CASE \/ Announce("worker") \/ AnnounceFails("worker")
           \/ Look \/ Fetch \/ PrepareFails \/ Spawn \/ Notice \/ Timeout
           \/ Persist \/ HandleDrop \/ HandleFail
  BY <1>2, WorkerRow DEF Calm
<1>3. CASE \/ \E t \in {"request", "sweeper"} : Announce(t) \/ AnnounceFails(t)
           \/ RequestKill \/ RequestMark \/ Lifespan \/ Stop \/ Crash
           \/ \E j \in Jobs : SubmitCheck(j) \/ Ffmpeg(j) \/ RequestCancel(j) \/ Sweep(j)
  BY <1>3, OtherRow DEF Over
<1>4. CASE \E j \in Jobs : SubmitInsert(j) \/ RequestDelete(j) \/ RequestRetry(j)
  <2>1. PICK j \in Jobs : SubmitInsert(j) \/ RequestDelete(j) \/ RequestRetry(j)
    BY <1>4
  <2>2. CASE SubmitInsert(j)
    BY <1>0, <2>2 DEF SubmitInsert, Calm, TypeOK
  <2>3. CASE RequestDelete(j)
    BY <1>0, <2>3 DEF RequestDelete, NoRow, RowOf, Over
  <2>4. CASE RequestRetry(j)
    <3>1. row[j].st = "failed" /\ UNCHANGED sub /\ \A i \in Jobs \ {j} : row'[i] = row[i]
      BY <1>0, <2>4 DEF RequestRetry
    <3> QED BY <3>1 DEF Over
  <2> QED BY <2>1, <2>2, <2>3, <2>4
<1>5. CASE UNCHANGED vars
  BY <1>5 DEF vars
<1> QED BY <1>1, <1>2, <1>3, <1>4, <1>5, StepCases

(* A task gets to the place of an announcement only with the update of the   *)
(* row that it announces.                                                    *)
Speaks(k) == task["request"].job = k /\ task["request"].pc \in {"mark", "announceCancel"}

LEMMA SpeakerNext ==
  ASSUME AtomicRepo, Calm, Owned, [Next]_vars, NEW k \in Jobs
  PROVE  /\ Speaks(k)' => Speaks(k) \/ row'[k].st = "cancelled"
         /\ Home({"announceDone"}, k)' => Home({"announceDone"}, k) \/ row'[k].st = "completed"
<1>0. /\ TypeOK /\ Tasks = {"worker", "request", "sweeper"} /\ NoJob \notin Jobs
      /\ task \in [Tasks -> [pc : WorkerPCs \union RequestPCs \union SweeperPCs,
                             job : Jobs \union {NoJob}, pend : Nat \union {NoRead}]]
  BY JobFacts DEF Calm, TypeOK, TaskOK, Tasks
<1>1. CASE \E t \in Tasks : Update(t)
  <2>1. PICK t \in Tasks : Update(t)
    BY <1>1
  <2>c. PICK c : c = task[t].pc
    OBVIOUS
  <2>j. PICK j : j = task[t].job
    OBVIOUS
  <2>2. /\ c \in DOMAIN Target /\ c \in PCs[t] /\ j \in Jobs
        /\ \A u \in Tasks \ {t} : task'[u] = task[u]
        /\ \/ task'[t].pc = Raised(c)
           \/ row'[j].st = Target[c] /\ task'[t].pc = After[c]
        /\ task'[t].job \in {j, NoJob}
    BY <2>1, <2>c, <2>j, AtomicUpdate
  <2>3. /\ Raised(c) \notin {"mark", "announceCancel", "announceDone"}
        /\ After[c] \in {"mark", "announceCancel"} => Target[c] = "cancelled"
        /\ After[c] = "announceDone" => Target[c] = "completed"
    BY <2>2, Tables DEF Raised, After, Target
  <2>4. ASSUME Speaks(k)' PROVE Speaks(k) \/ row'[k].st = "cancelled"
    BY <1>0, <2>2, <2>3, <2>4 DEF Speaks
  <2>5. ASSUME Home({"announceDone"}, k)'
        PROVE  Home({"announceDone"}, k) \/ row'[k].st = "completed"
    BY <1>0, <2>2, <2>3, <2>5 DEF Home
  <2> QED BY <2>4, <2>5
<1>2. CASE \/ Announce("worker") \/ AnnounceFails("worker")
           \/ Look \/ Fetch \/ PrepareFails \/ Spawn \/ Notice \/ Timeout
           \/ Persist \/ HandleDrop \/ HandleFail
  <2>1. task'["worker"].pc # "announceDone"
    BY <1>0, <1>2, WorkerEffect
  <2>2. task'["request"] = task["request"] \/ task'["request"].pc = "cancel"
    <3>1. CASE Announce("worker") \/ AnnounceFails("worker")
      <4>1. PICK pc : Goes("worker", pc)
        BY <3>1 DEF Announce, AnnounceFails
      <4> QED BY <1>0, <4>1, GoesTo
    <3>2. CASE Fetch \/ PrepareFails \/ Spawn \/ Notice \/ Persist \/ HandleDrop \/ HandleFail
      <4>1. PICK pc : Goes("worker", pc)
        BY <3>2 DEF Fetch, PrepareFails, Spawn, Notice, Persist, HandleDrop, HandleFail
      <4> QED BY <1>0, <4>1, GoesTo
    <3>3. CASE Look \/ Timeout
      BY <1>0, <3>3 DEF Look, Timeout, On, Task
    <3> QED BY <1>2, <3>1, <3>2, <3>3
  <2> QED BY <2>1, <2>2 DEF Speaks, Home
<1>3. CASE \/ \E t \in {"request", "sweeper"} : Announce(t) \/ AnnounceFails(t)
           \/ RequestKill \/ RequestMark \/ Lifespan \/ Stop \/ Crash
           \/ \E j \in Jobs : SubmitCheck(j) \/ Ffmpeg(j) \/ RequestCancel(j) \/ Sweep(j)
  <2>1. Home({"announceDone"}, k)' => Home({"announceDone"}, k)
    BY <1>3, OtherEffect DEF Home, Rest, Task
  <2>2. Speaks(k)' => Speaks(k)
    <3>1. CASE \E t \in {"request", "sweeper"} : Announce(t) \/ AnnounceFails(t)
      <4>0. PICK t \in {"request", "sweeper"} :
              \E pc : Goes(t, pc) /\ pc \notin {"mark", "announceCancel"}
        BY <3>1 DEF Announce, AnnounceFails, Raised
      <4>1. PICK pc : Goes(t, pc) /\ pc \notin {"mark", "announceCancel"}
        BY <4>0
      <4> QED BY <1>0, <4>1, GoesTo DEF Speaks
    <3>2. CASE RequestKill
      <4>1. Goes("request", "cancel")
        BY <3>2 DEF RequestKill
      <4> QED BY <1>0, <4>1, GoesTo DEF Speaks
    <3>3. CASE RequestMark
      <4>1. task["request"].pc = "mark"
        BY <3>3 DEF RequestMark, At
      <4>2. PICK pc : Goes("request", pc)
        BY <3>3 DEF RequestMark
      <4>3. task'["request"].job \in {task["request"].job, NoJob}
        BY <1>0, <4>2, GoesTo
      <4> QED BY <1>0, <4>1, <4>3 DEF Speaks
    <3>4. CASE KillRemaining \/ Restart \/ Stop
      BY <3>4 DEF KillRemaining, Restart, Stop, Speaks
    <3>5. CASE CancelTasks \/ Crash
      BY <1>0, <3>5 DEF CancelTasks, Crash, ProcessDies, Rest, Task, Speaks
    <3>6. CASE \E j \in Jobs : SubmitCheck(j) \/ Ffmpeg(j) \/ RequestCancel(j) \/ Sweep(j)
      <4>1. task'["request"] = task["request"] \/ task'["request"].pc \in {"cancel", "wait"}
        BY <1>0, <3>6 DEF SubmitCheck, Ffmpeg, FfmpegDone, FfmpegQuits, FfmpegFails, FfmpegExit,
                          RequestCancel, Sweep, On, Task
      <4> QED BY <4>1 DEF Speaks
    <3> QED BY <1>3, <3>1, <3>2, <3>3, <3>4, <3>5, <3>6 DEF Lifespan
  <2> QED BY <2>1, <2>2
<1>4. CASE \E j \in Jobs : SubmitInsert(j) \/ RequestDelete(j) \/ RequestRetry(j)
  BY <1>4 DEF SubmitInsert, RequestDelete, RequestRetry, Speaks, Home
<1>5. CASE UNCHANGED vars
  BY <1>5 DEF vars, Speaks, Home
<1> QED BY <1>1, <1>2, <1>3, <1>4, <1>5, StepCases

(* An event is new to the clients only when its speaker announces it.        *)
LEMMA SentNext ==
  ASSUME TypeOK, [Next]_vars
  PROVE  \/ UNCHANGED sent
         \/ \E t \in Tasks : \E told \in SUBSET {Event[task[t].pc]} :
              /\ task[t].pc \in DOMAIN Event /\ task[t].job \in Jobs
              /\ task[t].pc \in PCs[t] /\ UNCHANGED row
              /\ sent' = [sent EXCEPT ![task[t].job] = @ \union told]
<1>1. ASSUME NEW t \in Tasks, Announce(t) \/ AnnounceFails(t)
      PROVE  \E told \in SUBSET {Event[task[t].pc]} :
              /\ task[t].pc \in DOMAIN Event /\ task[t].job \in Jobs
              /\ task[t].pc \in PCs[t] /\ UNCHANGED row
              /\ sent' = [sent EXCEPT ![task[t].job] = @ \union told]
  <2>1. task[t].pc \in DOMAIN Event /\ UNCHANGED row
    BY <1>1 DEF Announce, AnnounceFails
  <2>2. task[t].job \in Jobs /\ task[t].pc \in PCs[t]
    BY <2>1, Tables DEF TypeOK, TaskOK
  <2>3. \E told \in SUBSET {Event[task[t].pc]} :
          sent' = [sent EXCEPT ![task[t].job] = @ \union told]
    <3>1. CASE Announce(t)
      BY <3>1 DEF Announce
    <3>2. CASE AnnounceFails(t)
      BY <3>2 DEF AnnounceFails
    <3> QED BY <1>1, <3>1, <3>2
  <2> QED BY <2>1, <2>2, <2>3
<1>2. CASE \E t \in Tasks : Announce(t) \/ AnnounceFails(t)
  BY <1>1, <1>2
<1>3. CASE ~\E t \in Tasks : Announce(t) \/ AnnounceFails(t)
  <2>1. CASE \E t \in Tasks : Update(t)
    BY <2>1 DEF Update, UpdateRefused, UpdateRead, UpdateWrite, UpdateAtomic
  <2>2. CASE Look \/ Fetch \/ PrepareFails \/ Spawn \/ Notice \/ Timeout \/ Persist \/ HandleDrop
             \/ HandleFail \/ RequestKill \/ RequestMark
    BY <2>2 DEF Look, Fetch, PrepareFails, Spawn, Notice, Timeout, Persist, HandleDrop,
                HandleFail, RequestKill, RequestMark
  <2>3. CASE Lifespan \/ Stop \/ Crash \/ UNCHANGED vars
    BY <2>3 DEF Lifespan, KillRemaining, CancelTasks, Restart, Stop, Crash, ProcessDies, vars
  <2>4. CASE \E j \in Jobs : SubmitCheck(j) \/ SubmitInsert(j) \/ Ffmpeg(j) \/ RequestCancel(j)
                             \/ RequestRetry(j) \/ RequestDelete(j) \/ Sweep(j)
    BY <2>4 DEF SubmitCheck, SubmitInsert, Ffmpeg, FfmpegDone, FfmpegQuits, FfmpegFails, FfmpegExit,
                RequestCancel, RequestRetry, RequestDelete, Sweep
  <2> QED BY <1>3, <2>1, <2>2, <2>3, <2>4 DEF Next, Worker, Request, Sweeper, Tasks
<1> QED BY <1>2, <1>3

LEMMA PromiseNext == ASSUME AtomicRepo PROVE Promise /\ [Next]_vars => Promise'
<1> SUFFICES ASSUME Promise, [Next]_vars PROVE Promise'
  OBVIOUS
<1>0. /\ Ledger /\ Calm /\ Owned /\ TypeOK /\ Unsubmitted
      /\ sent \in [Jobs -> SUBSET {"completed", "failed", "cancelled"}]
      /\ Tasks = {"worker", "request", "sweeper"}
  BY DEF Promise, Ledger, Outcome, Calm, TypeOK, Tasks
<1>1. Ledger'
  BY <1>0, LedgerNext
<1>2. ASSUME NEW k \in Jobs, sub[k] = "done", row[k].st \in {"cancelled", "none"}
      PROVE  row'[k].st \in {"cancelled", "none"}
  BY <1>0, <1>2, OverStays DEF Over
<1>3. ASSUME NEW k \in Jobs, sub[k] = "done", row[k].st \in {"completed", "qc_failed", "none"}
      PROVE  row'[k].st \in {"completed", "qc_failed", "none"}
  BY <1>0, <1>3, OverStays DEF Over
<1>4. \A k \in Jobs : sent[k] # {} \/ (\E t \in Tasks : task[t].job = k) => sub[k] = "done"
  BY <1>0 DEF Unsubmitted
<1>5. ASSUME NEW k \in Jobs, Speaks(k)' PROVE row'[k].st \in {"cancelled", "none"}
  <2>1. Speaks(k) \/ row'[k].st = "cancelled"
    BY <1>0, <1>5, SpeakerNext
  <2>2. Speaks(k) => sub[k] = "done" /\ row[k].st \in {"cancelled", "none"}
    BY <1>0, <1>4 DEF Promise, Saying, Speaks
  <2> QED BY <1>2, <2>1, <2>2
<1>6. ASSUME NEW k \in Jobs, Home({"announceDone"}, k)'
      PROVE  row'[k].st \in {"completed", "qc_failed", "none"}
  <2>1. Home({"announceDone"}, k) \/ row'[k].st = "completed"
    BY <1>0, <1>6, SpeakerNext
  <2>2. Home({"announceDone"}, k) => sub[k] = "done" /\ row[k].st \in {"completed", "qc_failed", "none"}
    BY <1>0, <1>4 DEF Promise, Saying, Home
  <2> QED BY <1>3, <2>1, <2>2
<1>7. Saying'
  BY <1>5, <1>6 DEF Saying, Speaks
<1>8. ASSUME NEW k \in Jobs
      PROVE  /\ "cancelled" \in sent'[k] => "cancelled" \in sent[k] \/ Speaks(k)
             /\ "completed" \in sent'[k] => "completed" \in sent[k] \/ Home({"announceDone"}, k)
  <2>1. CASE UNCHANGED sent
    BY <2>1
  <2>2. CASE \E t \in Tasks : \E told \in SUBSET {Event[task[t].pc]} :
               /\ task[t].pc \in DOMAIN Event /\ task[t].job \in Jobs
               /\ task[t].pc \in PCs[t] /\ UNCHANGED row
               /\ sent' = [sent EXCEPT ![task[t].job] = @ \union told]
    <3>1. PICK t \in Tasks : \E told \in SUBSET {Event[task[t].pc]} :
               /\ task[t].pc \in DOMAIN Event /\ task[t].job \in Jobs
               /\ task[t].pc \in PCs[t]
               /\ sent' = [sent EXCEPT ![task[t].job] = @ \union told]
      BY <2>2
    <3>c. PICK c : c = task[t].pc
      OBVIOUS
    <3>j. PICK j : j = task[t].job
      OBVIOUS
    <3>2. PICK told \in SUBSET {Event[c]} :
               /\ c \in DOMAIN Event /\ j \in Jobs /\ c \in PCs[t]
               /\ sent' = [sent EXCEPT ![j] = @ \union told]
      BY <3>1, <3>c, <3>j
    <3>3. sent'[k] = IF k = j THEN sent[k] \union told ELSE sent[k]
      BY <1>0, <3>2
    <3>4. /\ Event[c] = "cancelled" => c = "announceCancel" /\ t = "request"
          /\ Event[c] = "completed" => c = "announceDone" /\ t = "worker"
      BY <1>0, <3>2, Tables DEF Event, PCs, WorkerPCs, RequestPCs, SweeperPCs
    <3> QED BY <3>c, <3>j, <3>2, <3>3, <3>4 DEF Speaks, Home
  <2> QED BY <1>0, <2>1, <2>2, SentNext
<1>9. ASSUME NEW k \in Jobs, "cancelled" \in sent'[k] PROVE row'[k].st \in {"cancelled", "none"}
  <2>1. sub[k] = "done"
    BY <1>0, <1>4, <1>8, <1>9 DEF Speaks
  <2>2. row[k].st \in {"cancelled", "none"}
    BY <1>8, <1>9 DEF Promise, Saying, AnnouncementsHold, Speaks
  <2> QED BY <1>2, <2>1, <2>2
<1>10. ASSUME NEW k \in Jobs, "completed" \in sent'[k]
       PROVE  row'[k].st \in {"completed", "qc_failed", "none"}
  <2>1. sub[k] = "done"
    BY <1>0, <1>4, <1>8, <1>10 DEF Home
  <2>2. row[k].st \in {"completed", "qc_failed", "none"}
    BY <1>8, <1>10 DEF Promise, Saying, AnnouncementsHold
  <2> QED BY <1>3, <2>1, <2>2
<1> QED BY <1>1, <1>7, <1>9, <1>10 DEF Promise, AnnouncementsHold

LEMMA PromiseInit == Init => Promise
<1> SUFFICES ASSUME Init PROVE Saying /\ AnnouncementsHold
  BY LedgerInit DEF Promise
<1>1. Saying
  BY DEF Init, Saying, Home, Rest, Task, Tasks
<1>2. AnnouncementsHold
  BY DEF Init, AnnouncementsHold
<1> QED BY <1>1, <1>2

(* No client is told of a completion or of a cancellation that does not      *)
(* stand, whatever the order in which the worker, the routes, the sweeper,   *)
(* stops and restarts write and announce.                                    *)
THEOREM Announcements == ASSUME AtomicRepo PROVE Spec => []AnnouncementsHold
<1>1. Spec => []Promise
  BY PromiseInit, PromiseNext, PTL DEF Spec
<1>2. Promise => AnnouncementsHold
  BY DEF Promise
<1> QED BY <1>1, <1>2, PTL

-----------------------------------------------------------------------------
(* The refinement.                                                           *)

LEMMA AbstractRow ==
  ASSUME TypeOK, NEW j \in Jobs, NEW s, NEW n,
         row'[j].st = s, row'[j].retry = n, \A k \in Jobs \ {j} : row'[k] = row[k]
  PROVE  /\ [k \in Jobs |-> row'[k].st] = [[k \in Jobs |-> row[k].st] EXCEPT ![j] = s]
         /\ [k \in Jobs |-> row'[k].retry] = [[k \in Jobs |-> row[k].retry] EXCEPT ![j] = n]
OBVIOUS

LEMMA AbstractStutter ==
  ASSUME UNCHANGED sent, \A k \in Jobs : row'[k].st = row[k].st /\ row'[k].retry = row[k].retry
  PROVE  UNCHANGED Abstract!vars
BY DEF Abstract!vars

(* A call of update_status takes one of the transitions of the abstract      *)
(* state machine, or does nothing.                                           *)
LEMMA RefineUpdate ==
  ASSUME AtomicRepo, Promise, NEW t \in Tasks, Update(t)
  PROVE  Abstract!Next \/ UNCHANGED Abstract!vars
<1>0. /\ Ledger /\ Calm /\ Owned /\ TypeOK /\ row \in [Jobs -> Rows]
      /\ Tasks = {"worker", "request", "sweeper"}
  BY DEF Promise, Ledger, Outcome, Calm, TypeOK, Tasks
<1>j. PICK j : j = task[t].job
  OBVIOUS
<1>c. PICK c : c = task[t].pc
  OBVIOUS
<1>1. /\ c \in DOMAIN Target /\ c \in PCs[t] /\ j \in Jobs /\ app # "down"
      /\ UNCHANGED sent /\ row[j] \in Rows
      /\ \A k \in Jobs \ {j} : row'[k] = row[k]
      /\ \/ row' = row
         \/ /\ Accepts(row[j], Target[c]) /\ row[j].st # "none"
            /\ row'[j].st = Target[c] /\ row'[j].retry = RetryFor(row[j], Target[c])
  BY <1>0, <1>j, <1>c, AtomicUpdate
<1>2. CASE row' = row
  BY <1>1, <1>2, AbstractStutter
<1> SUFFICES ASSUME row' # row PROVE Abstract!Next
  BY <1>2
<1>3. /\ Accepts(row[j], Target[c])
      /\ row'[j].st = Target[c] /\ row'[j].retry = RetryFor(row[j], Target[c])
  BY <1>1
<1>4. c # "retry"
  BY <1>0, <1>1, <1>c DEF Ledger, Quiet, PCs, WorkerPCs, SweeperPCs
<1>5. Target[c] \in ValidTransitions[row[j].st] /\ row[j].st \in Status
  BY <1>1, <1>3 DEF Accepts, Rows
<1>6. CASE c # "requeue"
  <2>1. Target[c] # "queued" /\ Target[c] \in Status \ {"none"}
    BY <1>1, <1>4, <1>6, Tables DEF Target
  <2>2. row'[j].retry = row[j].retry
    BY <1>3, <2>1 DEF RetryFor
  <2>3. Abstract!Becomes(j, Target[c])
    BY <1>0, <1>1, <1>3, <2>2, AbstractRow DEF Abstract!Becomes
  <2>4. CASE c = "claim"
    <3>1. Target[c] = "running" /\ row[j].st = "queued"
      BY <1>5, <2>4 DEF Target, ValidTransitions, Status
    <3>2. t = "worker"
      BY <1>0, <1>1, <2>4 DEF PCs, RequestPCs, SweeperPCs
    <3>3. \A k \in Jobs : row[k].st # "running"
      BY <1>0, <1>1, <1>c, <2>4, <3>2 DEF Owned, RunningIsOwned, Owning
    <3>4. Abstract!Running = {}
      BY <3>3 DEF Abstract!Running
    <3>5. Cardinality(Abstract!Running) < MaxConcurrent
      BY <3>4, FS_EmptySet, RenderAssumption DEF RenderAssumption
    <3>7. Abstract!Cardinality(Abstract!Running) = Cardinality(Abstract!Running)
      BY DEF Abstract!Cardinality, Cardinality
    <3>6. Abstract!Claim(j)
      BY <1>1, <2>3, <2>4, <3>1, <3>5, <3>7 DEF Abstract!Claim
    <3> QED BY <1>1, <3>6 DEF Abstract!Next
  <2>5. CASE Target[c] \in {"completed", "failed"}
    <3>1. row[j].st = "running"
      BY <1>5, <2>5 DEF ValidTransitions, Status
    <3>2. Abstract!Finish(j)
      BY <1>1, <2>3, <2>5, <3>1 DEF Abstract!Finish
    <3> QED BY <1>1, <3>2 DEF Abstract!Next
  <2>6. CASE c = "qc"
    <3>1. Target[c] = "qc_failed" /\ row[j].st \in {"running", "completed"}
      BY <1>5, <2>6 DEF Target, ValidTransitions, Status
    <3>2. t = "worker"
      BY <1>0, <1>1, <2>6 DEF PCs, RequestPCs, SweeperPCs
    <3>3. row[j].st # "running"
      BY <1>0, <1>1, <1>c, <2>6, <3>2 DEF Owned, RunningIsOwned, Owning
    <3>4. Abstract!RejectByQC(j)
      BY <1>1, <2>3, <3>1, <3>3 DEF Abstract!RejectByQC
    <3> QED BY <1>1, <3>4 DEF Abstract!Next
  <2>7. CASE c = "cancel"
    <3>1. Target[c] = "cancelled" /\ row[j].st \in {"queued", "running"}
      BY <1>5, <2>7 DEF Target, ValidTransitions, Status
    <3>2. Abstract!Cancel(j)
      BY <1>1, <2>3, <3>1 DEF Abstract!Cancel
    <3> QED BY <1>1, <3>2 DEF Abstract!Next
  <2>8. Target[c] \in {"completed", "failed"} \/ c \in {"claim", "qc", "cancel"}
    BY <1>1, <1>4, <1>6, Tables DEF Target
  <2> QED BY <2>4, <2>5, <2>6, <2>7, <2>8
<1>7. CASE c = "requeue"
  <2>1. Target[c] = "queued" /\ row[j].st = "failed"
    BY <1>5, <1>7 DEF Target, ValidTransitions, Status
  <2>2. row'[j].st = "queued" /\ row'[j].retry = row[j].retry + 1
    BY <1>3, <2>1 DEF RetryFor
  <2>3. t = "worker"
    BY <1>0, <1>1, <1>7 DEF PCs, RequestPCs, SweeperPCs
  <2>4. row[j].retry < MaxRetries
    BY <1>0, <1>1, <1>c, <1>j, <1>7, <2>1, <2>3 DEF Ledger, Budget, Within, Home
  <2>5. Abstract!Requeue(j)
    BY <1>0, <1>1, <2>1, <2>2, <2>4, AbstractRow DEF Abstract!Requeue
  <2> QED BY <1>1, <2>5 DEF Abstract!Next
<1> QED BY <1>6, <1>7

(* Broadcasts tell; submission, deletion, the retry route and recovery are   *)
(* steps of their own; the rest does not show.                               *)
LEMMA RefineTell ==
  ASSUME Promise, [Next]_vars, sent' # sent
  PROVE  Abstract!Next
<1>0. TypeOK /\ Tasks = {"worker", "request", "sweeper"} /\ row \in [Jobs -> Rows]
  BY DEF Promise, Ledger, Calm, TypeOK, Tasks
<1>1. PICK t \in Tasks : \E told \in SUBSET {Event[task[t].pc]} :
           /\ task[t].pc \in DOMAIN Event /\ task[t].job \in Jobs
           /\ task[t].pc \in PCs[t] /\ UNCHANGED row
           /\ sent' = [sent EXCEPT ![task[t].job] = @ \union told]
  BY <1>0, SentNext
<1>c. PICK c : c = task[t].pc
  OBVIOUS
<1>j. PICK j : j = task[t].job
  OBVIOUS
<1>2. PICK told \in SUBSET {Event[c]} :
           /\ c \in DOMAIN Event /\ j \in Jobs /\ c \in PCs[t] /\ UNCHANGED row
           /\ sent' = [sent EXCEPT ![j] = @ \union told]
  BY <1>1, <1>c, <1>j
<1>3. told = {Event[c]}
  <2>1. sent \in [Jobs -> SUBSET {"completed", "failed", "cancelled"}]
    BY <1>0 DEF TypeOK
  <2>2. told # {}
    BY <1>2, <2>1
  <2> QED BY <1>2, <2>2
<1>4. Event[c] \in {"completed", "cancelled", "failed"}
  BY <1>2, Tables
<1>5. row[j].st \in Abstract!Truth(Event[c])
  <2>1. CASE Event[c] = "completed"
    <3>1. c = "announceDone" /\ t = "worker"
      BY <1>0, <1>2, <2>1, Tables DEF Event, PCs, RequestPCs, SweeperPCs
    <3>2. row[j].st \in {"completed", "qc_failed", "none"}
      BY <1>2, <1>c, <1>j, <3>1 DEF Promise, Saying, Home
    <3> QED BY <2>1, <3>2 DEF Abstract!Truth
  <2>2. CASE Event[c] = "cancelled"
    <3>1. c = "announceCancel" /\ t = "request"
      BY <1>0, <1>2, <2>2, Tables DEF Event, PCs, WorkerPCs, SweeperPCs
    <3>2. row[j].st \in {"cancelled", "none"}
      BY <1>2, <1>c, <1>j, <3>1 DEF Promise, Saying
    <3> QED BY <2>2, <3>2 DEF Abstract!Truth
  <2>3. CASE Event[c] = "failed"
    <3>1. row[j].st \in Status
      BY <1>0, <1>2 DEF Rows
    <3> QED BY <2>3, <3>1 DEF Abstract!Truth, Abstract!Status, Status
  <2> QED BY <1>4, <2>1, <2>2, <2>3
<1>6. Abstract!Tell(j, Event[c])
  BY <1>2, <1>3, <1>5 DEF Abstract!Tell
<1> QED BY <1>2, <1>4, <1>6 DEF Abstract!Next

LEMMA RefineRows ==
  ASSUME AtomicRepo, Promise, NEW j \in Jobs, SubmitInsert(j) \/ RequestDelete(j) \/ RequestRetry(j)
  PROVE  Abstract!Next
<1>0. row \in [Jobs -> Rows] /\ UNCHANGED sent /\ \A k \in Jobs \ {j} : row'[k] = row[k]
  BY DEF Promise, Ledger, Calm, TypeOK, SubmitInsert, RequestDelete, RequestRetry
<1>1. CASE SubmitInsert(j)
  <2>1. row[j].st = "none" /\ row[j].retry = 0
    <3>1. row[j].st = "none" /\ row[j] = NoRow
      BY <1>1 DEF SubmitInsert, Promise, Ledger, Outcome, Unsubmitted
    <3> QED BY <3>1 DEF NoRow, RowOf
  <2>2. row'[j].st = "queued" /\ row'[j].retry = 0
    BY <1>0, <1>1 DEF SubmitInsert, NewRow, RowOf
  <2>3. Abstract!Submit(j)
    <3>1. /\ [k \in Jobs |-> row'[k].st] = [[k \in Jobs |-> row[k].st] EXCEPT ![j] = "queued"]
          /\ [k \in Jobs |-> row'[k].retry] = [[k \in Jobs |-> row[k].retry] EXCEPT ![j] = 0]
      BY <1>0, <2>2, AbstractRow DEF Promise, Ledger, Calm
    <3>2. [[k \in Jobs |-> row[k].retry] EXCEPT ![j] = 0] = [k \in Jobs |-> row[k].retry]
      BY <2>1
    <3> QED BY <1>0, <2>1, <3>1, <3>2 DEF Abstract!Submit, Abstract!Becomes
  <2> QED BY <2>3 DEF Abstract!Next
<1>2. CASE RequestDelete(j)
  <2>1. row[j].st # "none" /\ row'[j].st = "none" /\ row'[j].retry = 0
    BY <1>0, <1>2 DEF RequestDelete, NoRow, RowOf
  <2>2. Abstract!Delete(j)
    BY <1>0, <2>1, AbstractRow DEF Abstract!Delete, Promise, Ledger, Calm
  <2> QED BY <2>2 DEF Abstract!Next
<1>3. CASE RequestRetry(j)
  <2>1. /\ row[j].st = "failed" /\ row[j].retry < MaxRetries
        /\ row' = [row EXCEPT ![j] = Written(row[j], "queued", RetryFor(row[j], "queued"))]
    BY <1>3 DEF RequestRetry
  <2>2. row'[j].st = "queued" /\ row'[j].retry = row[j].retry + 1
    BY <1>0, <2>1 DEF Written, RowOf, RetryFor
  <2>3. Abstract!Requeue(j)
    BY <1>0, <2>1, <2>2, AbstractRow DEF Abstract!Requeue, Promise, Ledger, Calm
  <2> QED BY <2>3 DEF Abstract!Next
<1> QED BY <1>1, <1>2, <1>3

LEMMA RefineRestart ==
  ASSUME TypeOK, Restart
  PROVE  Abstract!Next
<1>1. ASSUME NEW k \in Jobs
      PROVE  /\ row'[k].retry = row[k].retry
             /\ row'[k].st = IF row[k].st = "running" THEN "failed" ELSE row[k].st
  <2>1. row'[k] = Recovered(row[k]) /\ row[k] \in Rows
    BY DEF Restart, TypeOK
  <2> QED BY <2>1 DEF Recovered, Written, RetryFor, RowOf, Rows
<1>2. UNCHANGED sent
  BY DEF Restart
<1>3. [k \in Jobs |-> row'[k].st]
        = [k \in Jobs |-> IF row[k].st = "running" THEN "failed" ELSE row[k].st]
  BY <1>1
<1>4. [k \in Jobs |-> row'[k].retry] = [k \in Jobs |-> row[k].retry]
  BY <1>1
<1>5. Abstract!Recover
  BY <1>2, <1>3, <1>4 DEF Abstract!Recover
<1> QED BY <1>5 DEF Abstract!Next

LEMMA RefineNext ==
  ASSUME AtomicRepo, Promise, [Next]_vars
  PROVE  Abstract!Next \/ UNCHANGED Abstract!vars
<1>0. TypeOK /\ Owned
  BY DEF Promise, Ledger, Outcome, Calm
<1>1. CASE \E t \in Tasks : Update(t)
  BY <1>1, RefineUpdate
<1>2. CASE sent' # sent
  BY <1>2, RefineTell
<1>3. CASE \E j \in Jobs : SubmitInsert(j) \/ RequestDelete(j) \/ RequestRetry(j)
  BY <1>3, RefineRows
<1>4. CASE Restart
  BY <1>0, <1>4, RefineRestart
<1> SUFFICES ASSUME UNCHANGED sent, ~Restart, NEW k \in Jobs,
                    ~\E t \in Tasks : Update(t),
                    ~\E j \in Jobs : SubmitInsert(j) \/ RequestDelete(j) \/ RequestRetry(j)
             PROVE  row'[k].st = row[k].st /\ row'[k].retry = row[k].retry
  BY <1>1, <1>2, <1>3, <1>4, AbstractStutter
<1>5. CASE \/ Announce("worker") \/ AnnounceFails("worker")
           \/ Look \/ Fetch \/ PrepareFails \/ Spawn \/ Notice \/ Timeout
           \/ Persist \/ HandleDrop \/ HandleFail
  BY <1>0, <1>5, WorkerRow
<1>6. CASE RequestMark
  <2>j. PICK j : j = task["request"].job
    OBVIOUS
  <2>b. PICK b : b = (out[j] # "absent")
    OBVIOUS
  <2>1. row' = row \/ row' = [row EXCEPT ![j] = WithPartial(@, b)]
    BY <1>6, <2>j, <2>b DEF RequestMark
  <2>2. row'[k] = row[k] \/ row'[k] = WithPartial(row[k], b)
    BY <1>0, <2>1 DEF TypeOK
  <2>3. WithPartial(row[k], b).st = row[k].st /\ WithPartial(row[k], b).retry = row[k].retry
    BY DEF WithPartial, RowOf
  <2> QED BY <2>2, <2>3
<1>7. CASE \/ \E t \in {"request", "sweeper"} : Announce(t) \/ AnnounceFails(t)
           \/ RequestKill \/ KillRemaining \/ CancelTasks \/ Stop \/ Crash
           \/ \E j \in Jobs : SubmitCheck(j) \/ Ffmpeg(j) \/ RequestCancel(j) \/ Sweep(j)
  <2>1. UNCHANGED row
    BY <1>7 DEF Announce, AnnounceFails, RequestKill, KillRemaining, CancelTasks, Stop, Crash,
                ProcessDies, SubmitCheck, Ffmpeg, FfmpegDone, FfmpegQuits, FfmpegFails, FfmpegExit,
                RequestCancel, Sweep
  <2> QED BY <2>1
<1>8. CASE UNCHANGED vars
  BY <1>8 DEF vars
<1> QED BY <1>5, <1>6, <1>7, <1>8, StepCases DEF Lifespan

LEMMA RefineInit == Init => Abstract!Init
BY DEF Init, Abstract!Init, NoRow, RowOf

(* With a repository whose update_status checks and writes in one step, the  *)
(* server implements RenderJobSpec: for any number of jobs and any limits,   *)
(* each step moves one row along the documented transitions within the       *)
(* limits, or tells clients something that stands, or recovers.              *)
THEOREM Refinement == ASSUME AtomicRepo PROVE Spec => Implements
<1>1. Spec => []Promise
  BY PromiseInit, PromiseNext, PTL DEF Spec
<1>2. Promise /\ [Next]_vars => [Abstract!Next]_(Abstract!vars)
  BY RefineNext
<1> QED BY <1>1, <1>2, RefineInit, PTL DEF Spec, Implements, Abstract!Spec
=============================================================================
