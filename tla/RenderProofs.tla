---------------------------- MODULE RenderProofs ----------------------------
(* Theorems about RenderLifecycle, for every number of jobs, every limit and *)
(* every environment, with either repository unless they say otherwise.      *)
EXTENDS RenderProps, TLAPS

-----------------------------------------------------------------------------
(* The tables.                                                               *)

LEMMA Tables ==
  /\ DOMAIN Target = {"claim", "complete", "qc", "fail", "final", "requeue",
                      "fallback", "cancel", "retry", "sweep"}
  /\ \A c \in DOMAIN Target : Target[c] \in Status \ {"none"}
  /\ DOMAIN Event = {"announceDone", "announceFail", "announceCancel", "announceStale"}
  /\ \A c \in DOMAIN Event : Event[c] \in {"completed", "failed", "cancelled"}
BY DEF Target, Event, Status

(* The worker, the request and the sweeper each stay within their own        *)
(* program counters when update_status returns or raises.                    *)
LEMMA CallsStayHome ==
  ASSUME NEW t \in Tasks, NEW c \in DOMAIN Target, c \in PCs[t]
  PROVE  After[c] \in PCs[t] /\ Raised(c) \in PCs[t]
BY DEF Tasks, PCs, WorkerPCs, RequestPCs, SweeperPCs, Target, After, Raised, Failing

LEMMA RowOps ==
  ASSUME NEW r \in Rows, NEW s \in Status \ {"none"}, NEW n \in Nat
  PROVE  /\ RetryFor(r, s) \in Nat
         /\ Written(r, s, n) \in Rows
         /\ Written(r, s, n).st \in {s, "none"}
<1>1. RetryFor(r, s) \in Nat
  BY DEF Rows, RetryFor
<1>2. Written(r, s, n) \in Rows /\ Written(r, s, n).st \in {s, "none"}
  BY DEF Rows, Written, RowOf, Status
<1> QED
  BY <1>1, <1>2

LEMMA RecoveredRow ==
  ASSUME NEW r \in Rows
  PROVE  Recovered(r) \in Rows /\ Recovered(r).st # "running"
BY DEF Rows, Recovered, Written, RowOf, RetryFor, Status

LEMMA EvidenceOp ==
  ASSUME NEW r \in Rows, NEW n \in Nat
  PROVE  WithEvidence(r, n) \in Rows /\ WithEvidence(r, n).st = r.st
BY DEF Rows, WithEvidence, RowOf, Status

LEMMA PartialOp ==
  ASSUME NEW r \in Rows, NEW b \in BOOLEAN
  PROVE  WithPartial(r, b) \in Rows /\ WithPartial(r, b).st = r.st
BY DEF Rows, WithPartial, RowOf, Status

-----------------------------------------------------------------------------
(* Type correctness.                                                         *)

LEMMA JobFacts == Jobs \subseteq Nat /\ NoJob \notin Jobs /\ NoRead \notin Nat /\ Cap \in Nat
BY RenderAssumption DEF RenderAssumption, Jobs, NoJob, NoRead, Cap

(* A task that moves within its own places keeps TaskOK.                     *)
LEMMA TaskMoves ==
  ASSUME TaskOK, NEW t \in Tasks, NEW pc \in PCs[t], NEW j \in Jobs \union {NoJob},
         NEW n \in Nat \union {NoRead}, pc \notin {"idle", "dead"} => j \in Jobs,
         task' = [task EXCEPT ![t] = Task(pc, j, n)]
  PROVE  TaskOK'
BY DEF TaskOK, Task, Tasks, PCs, WorkerPCs, RequestPCs, SweeperPCs

LEMMA TaskGoes ==
  ASSUME TaskOK, NEW t \in Tasks, NEW pc \in PCs[t], task[t].job \in Jobs, Goes(t, pc)
  PROVE  TaskOK'
<1>1. CASE pc \in {"idle", "dead"}
  BY <1>1, TaskMoves DEF Goes, Rest, NoJob
<1>2. CASE pc \notin {"idle", "dead"}
  BY <1>2, TaskMoves DEF Goes, On, Task
<1> QED
  BY <1>1, <1>2

(* So does losing every task when the process goes.                          *)
LEMMA AllAtRest ==
  ASSUME task' = [t \in Tasks |-> Rest("idle")]
  PROVE  TaskOK'
BY DEF TaskOK, Rest, Task, Tasks, PCs, WorkerPCs, RequestPCs, SweeperPCs, NoJob, NoRead

LEMMA TypeInit == Init => TypeOK
<1> SUFFICES ASSUME Init PROVE TypeOK
  OBVIOUS
<1>1. row \in [Jobs -> Rows]
  BY DEF Init, NoRow, RowOf, Rows, Status
<1>2. TaskOK
  BY DEF Init, TaskOK, Rest, Task, Tasks, PCs, WorkerPCs, RequestPCs, SweeperPCs, NoJob, NoRead
<1>3. sent \in [Jobs -> SUBSET {"completed", "failed", "cancelled"}]
  BY DEF Init
<1>4. attempts \in [Jobs -> 0 .. Cap] /\ stops \in 0 .. MaxStops
  BY JobFacts, RenderAssumption DEF Init, RenderAssumption
<1> QED
  BY <1>1, <1>2, <1>3, <1>4 DEF Init, TypeOK

(* A call of update_status.                                                  *)
LEMMA TypeUpdate ==
  ASSUME TypeOK, NEW t \in Tasks, Update(t)
  PROVE  TypeOK'
<1> DEFINE c == task[t].pc
           j == task[t].job
<1>1. c \in DOMAIN Target /\ c \in PCs[t]
  BY DEF Update, UpdateRefused, UpdateRead, UpdateWrite, UpdateAtomic, Calling, TypeOK, TaskOK
<1>2. j \in Jobs /\ task[t].pend \in Nat \union {NoRead} /\ row[j] \in Rows
  BY <1>1, Tables DEF TypeOK, TaskOK
<1>3. Target[c] \in Status \ {"none"} /\ After[c] \in PCs[t] /\ Raised(c) \in PCs[t]
  BY <1>1, Tables, CallsStayHome
<1>4. RetryFor(row[j], Target[c]) \in Nat
  BY <1>2, <1>3, RowOps
<1>5. CASE UpdateRefused(t)
  <2>1. TaskOK'
    BY <1>2, <1>3, <1>5, TaskGoes DEF UpdateRefused, TypeOK
  <2> QED
    BY <1>5, <2>1 DEF UpdateRefused, ErrAfter, TypeOK
<1>6. CASE UpdateRead(t)
  <2>1. TaskOK'
    BY <1>1, <1>2, <1>4, <1>6, TaskMoves DEF UpdateRead, TypeOK
  <2> QED
    BY <1>6, <2>1 DEF UpdateRead, TypeOK
<1>7. CASE UpdateWrite(t)
  <2>1. TaskOK'
    BY <1>2, <1>3, <1>7, TaskGoes DEF UpdateWrite, TypeOK
  <2>2. row' \in [Jobs -> Rows]
    BY <1>2, <1>3, <1>7, RowOps DEF UpdateWrite, TypeOK
  <2> QED
    BY <1>7, <2>1, <2>2 DEF UpdateWrite, ErrAfter, TypeOK
<1>8. CASE UpdateAtomic(t)
  <2>1. TaskOK'
    BY <1>2, <1>3, <1>8, TaskGoes DEF UpdateAtomic, TypeOK
  <2>2. row' \in [Jobs -> Rows]
    BY <1>2, <1>3, <1>4, <1>8, RowOps DEF UpdateAtomic, TypeOK
  <2> QED
    BY <1>8, <2>1, <2>2 DEF UpdateAtomic, ErrAfter, TypeOK
<1> QED
  BY <1>5, <1>6, <1>7, <1>8 DEF Update

LEMMA TypeAnnounce ==
  ASSUME TypeOK, NEW t \in Tasks, Announce(t)
  PROVE  TypeOK'
<1>1. task[t].pc \in DOMAIN Event /\ task[t].job \in Jobs /\ {"idle"} \subseteq PCs[t]
  BY Tables DEF Announce, TypeOK, TaskOK, Tasks, PCs, WorkerPCs, RequestPCs, SweeperPCs
<1>2. task[t].pc = "announceDone" => t = "worker"
  BY DEF TypeOK, TaskOK, Tasks, PCs, WorkerPCs, RequestPCs, SweeperPCs
<1>3. PICK next \in {"qc", "idle"} :
        Goes(t, next) /\ ErrAfter(t, next) /\ (next = "qc" => t = "worker")
  BY <1>2 DEF Announce
<1>4. TaskOK'
  BY <1>1, <1>3, TaskGoes DEF TypeOK, PCs, WorkerPCs
<1>5. sent' \in [Jobs -> SUBSET {"completed", "failed", "cancelled"}]
  BY <1>1, Tables DEF Announce, TypeOK
<1> QED
  BY <1>3, <1>4, <1>5 DEF Announce, ErrAfter, TypeOK

LEMMA TypeAnnounceFails ==
  ASSUME TypeOK, NEW t \in Tasks, AnnounceFails(t)
  PROVE  TypeOK'
<1> DEFINE c == task[t].pc
<1>1. c \in DOMAIN Event /\ c \in PCs[t] /\ task[t].job \in Jobs
  BY Tables DEF AnnounceFails, TypeOK, TaskOK
<1>2. Raised(c) \in PCs[t]
  BY <1>1, Tables DEF Tasks, PCs, WorkerPCs, RequestPCs, SweeperPCs, Raised, Failing
<1>3. TaskOK'
  BY <1>1, <1>2, TaskGoes DEF AnnounceFails, TypeOK
<1>4. sent' \in [Jobs -> SUBSET {"completed", "failed", "cancelled"}]
  BY <1>1, Tables DEF AnnounceFails, TypeOK
<1> QED
  BY <1>3, <1>4 DEF AnnounceFails, ErrAfter, TypeOK

(* The worker's own steps.                                                   *)
LEMMA TypeWorker ==
  ASSUME TypeOK, Worker
  PROVE  TypeOK'
<1> DEFINE j == task["worker"].job
<1>0. "worker" \in Tasks /\ {"idle", "claim", "prepare", "exec", "persist", "complete",
                            "handle", "fail", "final"} \subseteq PCs["worker"]
  BY DEF Tasks, PCs, WorkerPCs
<1>1. task["worker"].pc \notin {"idle", "dead"} => j \in Jobs /\ row[j] \in Rows
  BY <1>0 DEF TypeOK, TaskOK
<1>2. CASE Update("worker") \/ Announce("worker") \/ AnnounceFails("worker")
  BY <1>0, <1>2, TypeUpdate, TypeAnnounce, TypeAnnounceFails
<1>3. CASE Look
  <2>1. PICK k \in Jobs : task' = [task EXCEPT !["worker"] = On("claim", k)]
    BY <1>3 DEF Look, With
  <2>2. TaskOK'
    BY <1>0, <2>1, TaskMoves DEF On, TypeOK
  <2> QED
    BY <1>3, <2>2 DEF Look, TypeOK
<1>4. CASE Fetch
  <2>1. TaskOK'
    BY <1>0, <1>1, <1>4, TaskGoes DEF Fetch, At, TypeOK
  <2> QED
    BY <1>4, <2>1 DEF Fetch, TypeOK
<1>5. CASE PrepareFails
  <2>1. TaskOK'
    BY <1>0, <1>1, <1>5, TaskGoes DEF PrepareFails, At, TypeOK
  <2> QED
    BY <1>5, <2>1 DEF PrepareFails, TypeOK
<1>6. CASE Spawn
  <2>1. TaskOK'
    BY <1>0, <1>1, <1>6, TaskGoes DEF Spawn, At, TypeOK
  <2>2. attempts' \in [Jobs -> 0 .. Cap]
    <3>1. j \in Jobs
      BY <1>1, <1>6 DEF Spawn, At
    <3>2. attempts[j] \in 0 .. Cap
      BY <3>1 DEF TypeOK
    <3>3. (IF attempts[j] < Cap THEN attempts[j] + 1 ELSE attempts[j]) \in 0 .. Cap
      BY <3>2, JobFacts
    <3> QED
      BY <1>6, <3>1, <3>3 DEF Spawn, TypeOK
  <2>3. out' \in [Jobs -> {"absent", "partial", "whole"}]
    BY <1>1, <1>6 DEF Spawn, At, TypeOK
  <2> QED
    BY <1>6, <2>1, <2>2, <2>3 DEF Spawn, TypeOK
<1>7. CASE Notice
  <2>1. TaskOK'
    BY <1>0, <1>1, <1>7, TaskGoes DEF Notice, At, TypeOK
  <2> QED
    BY <1>7, <2>1 DEF Notice, TypeOK
<1>8. CASE Timeout
  <2>1. TaskOK'
    BY <1>0, <1>1, <1>8 DEF Timeout, At, On, Task, TypeOK, TaskOK, Tasks, PCs, WorkerPCs,
                            RequestPCs, SweeperPCs
  <2> QED
    BY <1>8, <2>1 DEF Timeout, TypeOK
<1>9. CASE Persist
  <2>1. TaskOK'
    BY <1>0, <1>1, <1>9, TaskGoes DEF Persist, At, TypeOK
  <2>2. j \in Jobs /\ row[j] \in Rows
    BY <1>1, <1>9 DEF Persist, At
  <2>3. attempts[j] \in 0 .. Cap
    BY <2>2 DEF TypeOK
  <2>4. WithEvidence(row[j], attempts[j]) \in Rows
    BY <2>2, <2>3, EvidenceOp, JobFacts
  <2> QED
    BY <1>9, <2>1, <2>2, <2>4 DEF Persist, TypeOK
<1>10. CASE HandleDrop
  <2>1. TaskOK'
    BY <1>0, <1>1, <1>10, TaskGoes DEF HandleDrop, At, TypeOK
  <2> QED
    BY <1>10, <2>1 DEF HandleDrop, ErrAfter, TypeOK
<1>11. CASE HandleFail
  <2>1. TaskOK'
    BY <1>0, <1>1, <1>11, TaskGoes DEF HandleFail, At, TypeOK
  <2> QED
    BY <1>11, <2>1 DEF HandleFail, TypeOK
<1> QED
  BY <1>2, <1>3, <1>4, <1>5, <1>6, <1>7, <1>8, <1>9, <1>10, <1>11 DEF Worker
LEMMA TypeFfmpeg ==
  ASSUME TypeOK, NEW j \in Jobs, Ffmpeg(j)
  PROVE  TypeOK'
<1>1. PICK rc \in {"ok", "err"}, f \in {"absent", "partial", "whole"} : FfmpegExit(j, rc, f)
  BY DEF Ffmpeg, FfmpegDone, FfmpegQuits, FfmpegFails, TypeOK
<1>2. TaskOK'
  BY <1>1 DEF FfmpegExit, On, Task, TypeOK, TaskOK, Tasks, PCs, WorkerPCs, RequestPCs, SweeperPCs
<1> QED
  BY <1>1, <1>2 DEF FfmpegExit, TypeOK

LEMMA TypeRequest ==
  ASSUME TypeOK, Request
  PROVE  TypeOK'
<1> DEFINE j == task["request"].job
<1>0. "request" \in Tasks /\ {"idle", "cancel", "announceCancel"} \subseteq PCs["request"]
  BY DEF Tasks, PCs, RequestPCs
<1>1. task["request"].pc \notin {"idle", "dead"} => j \in Jobs /\ row[j] \in Rows
  BY <1>0 DEF TypeOK, TaskOK
<1>2. CASE Update("request") \/ Announce("request") \/ AnnounceFails("request")
  BY <1>0, <1>2, TypeUpdate, TypeAnnounce, TypeAnnounceFails
<1>3. CASE RequestKill
  <2>1. TaskOK'
    BY <1>0, <1>1, <1>3, TaskGoes DEF RequestKill, At, TypeOK
  <2> QED
    BY <1>3, <2>1 DEF RequestKill, TypeOK
<1>4. CASE RequestMark
  <2>1. j \in Jobs /\ row[j] \in Rows
    BY <1>1, <1>4 DEF RequestMark, At
  <2>2. TaskOK'
    BY <1>0, <2>1, <1>4, TaskGoes DEF RequestMark, At, TypeOK
  <2>3. WithPartial(row[j], out[j] # "absent") \in Rows
    BY <2>1, PartialOp
  <2>4. row' \in [Jobs -> Rows]
    BY <1>4, <2>1, <2>3 DEF RequestMark, TypeOK
  <2> QED
    BY <1>4, <2>2, <2>4 DEF RequestMark, TypeOK
<1> QED
  BY <1>2, <1>3, <1>4 DEF Request

LEMMA TypeRoutes ==
  ASSUME TypeOK, NEW j \in Jobs,
         SubmitCheck(j) \/ SubmitInsert(j) \/ RequestCancel(j) \/ RequestRetry(j)
           \/ RequestDelete(j) \/ Sweep(j)
  PROVE  TypeOK'
<1>0. row[j] \in Rows /\ "request" \in Tasks /\ "sweeper" \in Tasks
      /\ {"wait", "cancel", "retry"} \subseteq PCs["request"] /\ "sweep" \in PCs["sweeper"]
  BY DEF TypeOK, Tasks, PCs, RequestPCs, SweeperPCs
<1>1. CASE SubmitCheck(j)
  BY <1>1 DEF SubmitCheck, TypeOK, TaskOK
<1>2. CASE SubmitInsert(j)
  <2>1. NewRow \in Rows
    BY DEF NewRow, RowOf, Rows, Status
  <2> QED
    BY <1>2, <2>1 DEF SubmitInsert, TypeOK, TaskOK
<1>3. CASE RequestCancel(j)
  <2>1. PICK pc \in {"wait", "cancel"} : task' = [task EXCEPT !["request"] = On(pc, j)]
    BY <1>3 DEF RequestCancel
  <2>2. TaskOK'
    BY <1>0, <2>1, TaskMoves DEF On, TypeOK
  <2>3. proc' \in [Jobs -> {"none", "running", "quitting", "ok", "err"}]
    BY <1>3 DEF RequestCancel, TypeOK
  <2> QED
    BY <1>3, <2>2, <2>3 DEF RequestCancel, TypeOK
<1>4. CASE RequestRetry(j)
  <2>1. RetryFor(row[j], "queued") \in Nat
    BY <1>0, RowOps DEF Status
  <2>2. Written(row[j], "queued", RetryFor(row[j], "queued")) \in Rows
    BY <1>0, <2>1, RowOps DEF Status
  <2>3. row' \in [Jobs -> Rows]
    BY <1>4, <2>2 DEF RequestRetry, TypeOK
  <2>4. ASSUME UNCHANGED task PROVE TaskOK'
    BY <2>4 DEF TypeOK, TaskOK
  <2>5. ASSUME task' = [task EXCEPT !["request"] =
                          Task("retry", j, RetryFor(row[j], "queued"))]
        PROVE  TaskOK'
    BY <1>0, <2>1, <2>5, TaskMoves DEF TypeOK
  <2>6. TaskOK'
    BY <1>4, <2>4, <2>5 DEF RequestRetry
  <2> QED
    BY <1>4, <2>3, <2>6 DEF RequestRetry, TypeOK
<1>5. CASE RequestDelete(j)
  <2>1. NoRow \in Rows
    BY DEF NoRow, RowOf, Rows, Status
  <2> QED
    BY <1>5, <2>1 DEF RequestDelete, TypeOK, TaskOK
<1>6. CASE Sweep(j)
  <2>1. TaskOK'
    BY <1>0, <1>6, TaskMoves DEF Sweep, On, TypeOK
  <2> QED
    BY <1>6, <2>1 DEF Sweep, TypeOK
<1> QED
  BY <1>1, <1>2, <1>3, <1>4, <1>5, <1>6

LEMMA TypeProcess ==
  ASSUME TypeOK, Lifespan \/ Stop \/ Crash
  PROVE  TypeOK'
<1>1. CASE KillRemaining
  BY <1>1 DEF KillRemaining, TypeOK, TaskOK
<1>2. CASE Stop
  <2>1. stops' \in 0 .. MaxStops
    BY <1>2, RenderAssumption DEF Stop, TypeOK, RenderAssumption
  <2>2. proc' \in [Jobs -> {"none", "running", "quitting", "ok", "err"}]
    BY <1>2 DEF Stop, TypeOK
  <2> QED
    BY <1>2, <2>1, <2>2 DEF Stop, TypeOK, TaskOK
<1>3. CASE Restart
  <2>1. row' \in [Jobs -> Rows]
    BY <1>3, RecoveredRow DEF Restart, TypeOK
  <2> QED
    BY <1>3, <2>1 DEF Restart, TypeOK, TaskOK
<1>4. ProcessDies => TaskOK'
  BY AllAtRest DEF ProcessDies
<1>5. CASE CancelTasks
  BY <1>4, <1>5 DEF CancelTasks, ProcessDies, TypeOK
<1>6. CASE Crash
  <2>1. stops' \in 0 .. MaxStops
    BY <1>6, RenderAssumption DEF Crash, TypeOK, RenderAssumption
  <2> QED
    BY <1>4, <1>6, <2>1 DEF Crash, ProcessDies, TypeOK
<1> QED
  BY <1>1, <1>2, <1>3, <1>5, <1>6 DEF Lifespan

LEMMA TypeNext == TypeOK /\ [Next]_vars => TypeOK'
<1> SUFFICES ASSUME TypeOK, [Next]_vars PROVE TypeOK'
  OBVIOUS
<1>1. CASE Worker \/ Request
  BY <1>1, TypeWorker, TypeRequest
<1>2. CASE Sweeper
  BY <1>2, TypeUpdate, TypeAnnounce, TypeAnnounceFails DEF Sweeper, Tasks
<1>3. CASE Lifespan \/ Stop \/ Crash
  BY <1>3, TypeProcess
<1>4. ASSUME NEW j \in Jobs,
             SubmitCheck(j) \/ SubmitInsert(j) \/ RequestCancel(j) \/ RequestRetry(j)
               \/ RequestDelete(j) \/ Sweep(j) \/ Ffmpeg(j)
      PROVE  TypeOK'
  BY <1>4, TypeRoutes, TypeFfmpeg
<1>5. CASE UNCHANGED vars
  BY <1>5 DEF vars, TypeOK, TaskOK
<1> QED
  BY <1>1, <1>2, <1>3, <1>4, <1>5 DEF Next

(* The variables of the model stay within their types.                       *)
THEOREM Typing == Spec => []TypeOK
<1> QED
  BY TypeInit, TypeNext, PTL DEF Spec
-----------------------------------------------------------------------------
(* Ownership: RUNNING rows and FFmpeg processes belong to the worker.  Both  *)
(* invariants are inductive once the types are known, with either            *)
(* repository: the argument is that only the worker's claim writes RUNNING,  *)
(* and that each way out of the owning places either has written another     *)
(* status or has just been refused because the row no longer says RUNNING.   *)

Owned == TypeOK /\ RunningIsOwned /\ EncodeIsAwaited

LEMMA OwnedInit == Init => Owned
<1> SUFFICES ASSUME Init PROVE Owned
  OBVIOUS
<1>1. RunningIsOwned /\ EncodeIsAwaited
  BY DEF Init, RunningIsOwned, EncodeIsAwaited, Live, NoRow, RowOf
<1> QED
  BY <1>1, TypeInit DEF Owned

(* A call of update_status by any of the three tasks.                        *)
LEMMA OwnedUpdate ==
  ASSUME Owned, NEW t \in Tasks, Update(t)
  PROVE  RunningIsOwned' /\ EncodeIsAwaited'
<1> DEFINE c == task[t].pc
           j == task[t].job
<1>1. c \in DOMAIN Target /\ c \in PCs[t] /\ app # "down"
  BY DEF Update, UpdateRefused, UpdateRead, UpdateWrite, UpdateAtomic, Calling, Owned, TypeOK,
         TaskOK
<1>2. j \in Jobs /\ task[t].pend \in Nat \union {NoRead} /\ row[j] \in Rows
  BY <1>1, Tables DEF Owned, TypeOK, TaskOK
<1>3. UNCHANGED <<proc, app>>
  BY DEF Update, UpdateRefused, UpdateRead, UpdateWrite, UpdateAtomic
<1>4. task'["worker"] = task["worker"] \/ (t = "worker" /\ c # "exec")
  BY <1>1, Tables DEF Update, UpdateRefused, UpdateRead, UpdateWrite, UpdateAtomic, Goes, Owned,
     TypeOK, TaskOK, Tasks
<1>5. EncodeIsAwaited'
  BY <1>3, <1>4 DEF Owned, EncodeIsAwaited, Live
<1> SUFFICES RunningIsOwned'
  BY <1>5
<1>6. CASE UpdateRefused(t)
  <2>0. row' = row
    BY <1>6 DEF UpdateRefused
  <2>1. CASE t # "worker"
    <3>1. task'["worker"] = task["worker"] /\ app' = app
      BY <1>3, <1>4, <2>1
    <3> QED
      BY <2>0, <3>1 DEF Owned, RunningIsOwned
  <2>2. CASE t = "worker"
    <3>1. ASSUME NEW k \in Jobs, row[k].st = "running" PROVE FALSE
      <4>1. k = j /\ c \in {"complete", "fail", "final"}
        BY <1>1, <2>2, <3>1, Tables DEF Owned, RunningIsOwned, Owning
      <4> QED
        BY <1>6, <3>1, <4>1 DEF UpdateRefused, Accepts, ValidTransitions, Target
    <3> QED
      BY <1>6, <3>1 DEF UpdateRefused, RunningIsOwned
  <2> QED
    BY <2>1, <2>2
<1>7. CASE UpdateRead(t)
  <2>1. task'["worker"].pc = task["worker"].pc /\ task'["worker"].job = task["worker"].job
    BY <1>7 DEF UpdateRead, Task, Owned, TypeOK, TaskOK, Tasks
  <2> QED
    BY <1>3, <1>7, <2>1 DEF UpdateRead, Owned, RunningIsOwned
<1>8. ASSUME NEW n \in Nat, row' = [row EXCEPT ![j] = Written(@, Target[c], n)],
             Goes(t, After[c])
      PROVE  RunningIsOwned'
  <2>1. row'[j].st \in {Target[c], "none"} /\ \A k \in Jobs \ {j} : row'[k] = row[k]
    <3>1. Written(row[j], Target[c], n).st \in {Target[c], "none"}
      BY <1>1, <1>2, <1>8, Tables, RowOps
    <3> QED
      BY <1>2, <1>8, <3>1 DEF Owned, TypeOK
  <2>2. CASE t # "worker"
    <3>1. Target[c] # "running"
      BY <1>1, <2>2 DEF Tasks, PCs, RequestPCs, SweeperPCs, Target
    <3> QED
      BY <1>1, <1>2, <1>3, <1>4, <2>1, <2>2, <3>1 DEF Owned, RunningIsOwned
  <2>3. CASE t = "worker" /\ c = "claim"
    <3>1. \A k \in Jobs : row[k].st # "running"
      BY <1>1, <2>3 DEF Owned, RunningIsOwned, Owning
    <3>2. task'["worker"].pc = "fetch" /\ task'["worker"].job = j
      BY <1>8, <2>3 DEF Goes, After, On, Task, Owned, TypeOK, TaskOK, Tasks
    <3> QED
      BY <2>1, <3>1, <3>2 DEF RunningIsOwned, Owning
  <2>4. CASE t = "worker" /\ c # "claim"
    <3>1. Target[c] # "running"
      BY <1>1, <2>4, Tables DEF Target
    <3>2. \A k \in Jobs \ {j} : row[k].st # "running"
      BY <1>1, <2>4 DEF Owned, RunningIsOwned
    <3> QED
      BY <1>2, <2>1, <3>1, <3>2 DEF RunningIsOwned
  <2> QED
    BY <2>2, <2>3, <2>4
<1>9. CASE UpdateWrite(t)
  BY <1>2, <1>8, <1>9 DEF UpdateWrite
<1>10. CASE UpdateAtomic(t)
  <2>1. RetryFor(row[j], Target[c]) \in Nat
    BY <1>1, <1>2, Tables, RowOps
  <2> QED
    BY <1>8, <1>10, <2>1 DEF UpdateAtomic
<1> QED
  BY <1>6, <1>7, <1>9, <1>10 DEF Update

LEMMA OwnedWorker ==
  ASSUME Owned, Worker
  PROVE  RunningIsOwned' /\ EncodeIsAwaited'
<1> DEFINE j == task["worker"].job
<1> USE DEF Owned
<1>0. "worker" \in Tasks /\ task \in [Tasks -> [pc : WorkerPCs \union RequestPCs \union SweeperPCs,
          job : Jobs \union {NoJob}, pend : Nat \union {NoRead}]]
  BY DEF TypeOK, TaskOK, Tasks
<1>1. task["worker"].pc \notin {"idle", "dead"} => j \in Jobs /\ row[j] \in Rows
  BY <1>0 DEF TypeOK, TaskOK
<1>2. CASE Update("worker")
  BY <1>0, <1>2, OwnedUpdate
<1>3. CASE Announce("worker") \/ AnnounceFails("worker")
  <2>1. task["worker"].pc \in DOMAIN Event /\ task["worker"].pc \notin Owning
        /\ task["worker"].pc # "exec"
    BY <1>3, Tables DEF Announce, AnnounceFails, Owning
  <2> QED
    BY <1>3, <2>1 DEF Announce, AnnounceFails, RunningIsOwned, EncodeIsAwaited, Live
<1>4. CASE Look
  BY <1>4 DEF Look, At, RunningIsOwned, EncodeIsAwaited, Live, Owning
<1>5. CASE Fetch
  <2>1. (task'["worker"].pc = "prepare" /\ task'["worker"].job = j) \/ row[j].st = "none"
    BY <1>0, <1>5 DEF Fetch, Goes, On, Task
  <2> QED
    BY <1>0, <1>1, <1>5, <2>1 DEF Fetch, At, RunningIsOwned, EncodeIsAwaited, Live, Owning
<1>6. CASE PrepareFails
  <2>1. task'["worker"].pc = "handle" /\ task'["worker"].job = j
    BY <1>0, <1>6 DEF PrepareFails, Goes, On, Task
  <2> QED
    BY <1>6, <2>1 DEF PrepareFails, At, RunningIsOwned, EncodeIsAwaited, Live, Owning
<1>7. CASE Spawn
  <2>1. task'["worker"].pc = "exec" /\ task'["worker"].job = j
    BY <1>0, <1>7 DEF Spawn, Goes, On, Task
  <2> QED
    BY <1>7, <2>1 DEF Spawn, At, RunningIsOwned, EncodeIsAwaited, Live, Owning, TypeOK
<1>8. CASE Notice
  <2>1. task'["worker"].pc = "persist" /\ task'["worker"].job = j
    BY <1>0, <1>8 DEF Notice, Goes, On, Task
  <2> QED
    BY <1>8, <2>1 DEF Notice, At, RunningIsOwned, EncodeIsAwaited, Live, Owning, TypeOK
<1>9. CASE Timeout
  <2>1. task'["worker"].pc = "persist" /\ task'["worker"].job = j
    BY <1>0, <1>9 DEF Timeout, On, Task, Tasks
  <2> QED
    BY <1>9, <2>1 DEF Timeout, At, RunningIsOwned, EncodeIsAwaited, Live, Owning, TypeOK
<1>10. CASE Persist
  <2>1. task'["worker"].pc \in {"complete", "handle"} /\ task'["worker"].job = j
    BY <1>0, <1>10 DEF Persist, Goes, On, Task
  <2>2. j \in Jobs /\ row[j] \in Rows /\ attempts[j] \in 0 .. Cap
    BY <1>1, <1>10 DEF Persist, At, TypeOK
  <2>3. \A k \in Jobs : row'[k].st = row[k].st
    <3>1. WithEvidence(row[j], attempts[j]).st = row[j].st
      BY <2>2 DEF WithEvidence, RowOf
    <3> QED
      BY <1>10, <2>2, <3>1 DEF Persist, TypeOK
  <2> QED
    BY <1>10, <2>1, <2>3 DEF Persist, At, RunningIsOwned, EncodeIsAwaited, Live, Owning
<1>11. CASE HandleDrop
  BY <1>11 DEF HandleDrop, At, RunningIsOwned, EncodeIsAwaited, Live
<1>12. CASE HandleFail
  <2>1. task'["worker"].pc \in {"fail", "final"} /\ task'["worker"].job = j
    BY <1>0, <1>12 DEF HandleFail, Goes, On, Task
  <2> QED
    BY <1>12, <2>1 DEF HandleFail, At, RunningIsOwned, EncodeIsAwaited, Live, Owning
<1> QED
  BY <1>2, <1>3, <1>4, <1>5, <1>6, <1>7, <1>8, <1>9, <1>10, <1>11, <1>12 DEF Worker

(* The other steps leave the worker where it is, start no process, and write *)
(* no RUNNING row; or they end the process, and recovery leaves none.        *)
LEMMA OwnedOthers ==
  ASSUME Owned, NEW j \in Jobs,
         \/ Request \/ Sweeper \/ Lifespan \/ Stop \/ Crash
         \/ SubmitCheck(j) \/ SubmitInsert(j) \/ Ffmpeg(j)
         \/ RequestCancel(j) \/ RequestRetry(j) \/ RequestDelete(j) \/ Sweep(j)
  PROVE  RunningIsOwned' /\ EncodeIsAwaited'
<1> USE DEF Owned
<1>0. task \in [Tasks -> [pc : WorkerPCs \union RequestPCs \union SweeperPCs,
                        job : Jobs \union {NoJob}, pend : Nat \union {NoRead}]]
      /\ row \in [Jobs -> Rows] /\ proc \in [Jobs -> {"none", "running", "quitting", "ok", "err"}]
  BY DEF TypeOK, TaskOK
<1>1. ASSUME task'["worker"] = task["worker"], app' # "down" => app # "down",
             \A k \in Jobs : row'[k].st = "running" => row[k].st = "running",
             \A k \in Jobs : Live(k)' => Live(k)
      PROVE  RunningIsOwned' /\ EncodeIsAwaited'
  BY <1>1 DEF RunningIsOwned, EncodeIsAwaited
<1>2. CASE Update("request") \/ Update("sweeper")
  BY <1>2, OwnedUpdate DEF Tasks
<1>3. CASE \/ Announce("request") \/ Announce("sweeper")
           \/ AnnounceFails("request") \/ AnnounceFails("sweeper")
  <2>1. task'["worker"] = task["worker"]
    BY <1>0, <1>3 DEF Announce, AnnounceFails, Goes, Tasks
  <2> QED
    BY <1>1, <1>3, <2>1 DEF Announce, AnnounceFails, Live
<1>4. CASE RequestKill
  <2>1. task'["worker"] = task["worker"]
    BY <1>0, <1>4 DEF RequestKill, Goes, Tasks
  <2> QED
    BY <1>0, <1>1, <1>4, <2>1 DEF RequestKill, Live
<1>5. CASE RequestMark
  <2>1. task'["worker"] = task["worker"] /\ UNCHANGED <<app, proc>>
    BY <1>0, <1>5 DEF RequestMark, Goes, Tasks
  <2>2. \A k \in Jobs : row'[k].st = row[k].st
    <3>1. CASE UNCHANGED row
      BY <3>1
    <3>2. CASE row' = [row EXCEPT ![task["request"].job] =
                         WithPartial(@, out[task["request"].job] # "absent")]
      BY <1>0, <3>2, PartialOp
    <3> QED
      BY <1>5, <3>1, <3>2 DEF RequestMark
  <2> QED
    BY <1>1, <2>1, <2>2 DEF Live
<1>6. CASE SubmitCheck(j) \/ SubmitInsert(j) \/ RequestDelete(j)
  BY <1>0, <1>1, <1>6 DEF SubmitCheck, SubmitInsert, RequestDelete, Live, NewRow, NoRow, RowOf
<1>7. CASE RequestCancel(j) \/ Sweep(j)
  <2>1. task'["worker"] = task["worker"]
    BY <1>0, <1>7 DEF RequestCancel, Sweep, Tasks
  <2> QED
    BY <1>0, <1>1, <1>7, <2>1 DEF RequestCancel, Sweep, Live
<1>8. CASE RequestRetry(j)
  <2>1. task'["worker"] = task["worker"]
    BY <1>0, <1>8 DEF RequestRetry, Tasks
  <2>2. Written(row[j], "queued", RetryFor(row[j], "queued")).st # "running"
    BY <1>8 DEF RequestRetry, Written, RowOf
  <2> QED
    BY <1>0, <1>1, <1>8, <2>1, <2>2 DEF RequestRetry, Live
<1>9. CASE Ffmpeg(j)
  <2>1. PICK rc \in {"ok", "err"}, f \in {"absent", "partial", "whole"} : FfmpegExit(j, rc, f)
    BY <1>9 DEF Ffmpeg, FfmpegDone, FfmpegQuits, FfmpegFails, TypeOK
  <2>2. task'["worker"] = task["worker"]
    BY <1>0, <2>1 DEF FfmpegExit, Tasks
  <2> QED
    BY <1>0, <1>1, <2>1, <2>2 DEF FfmpegExit, Live
<1>10. CASE KillRemaining \/ Stop
  BY <1>0, <1>1, <1>10 DEF KillRemaining, Stop, Live
<1>11. CASE CancelTasks \/ Crash
  BY <1>11 DEF CancelTasks, Crash, ProcessDies, RunningIsOwned, EncodeIsAwaited, Live
<1>12. CASE Restart
  <2>1. \A k \in Jobs : row'[k].st # "running"
    BY <1>0, <1>12, RecoveredRow DEF Restart
  <2> QED
    BY <1>12, <2>1 DEF Restart, RunningIsOwned, EncodeIsAwaited, Live
<1> QED
  BY <1>2, <1>3, <1>4, <1>5, <1>6, <1>7, <1>8, <1>9, <1>10, <1>11, <1>12
     DEF Lifespan, Request, Sweeper

LEMMA OwnedNext == Owned /\ [Next]_vars => Owned'
<1> SUFFICES ASSUME Owned, [Next]_vars PROVE Owned'
  OBVIOUS
<1>1. TypeOK'
  BY TypeNext DEF Owned
<1> SUFFICES RunningIsOwned' /\ EncodeIsAwaited'
  BY <1>1 DEF Owned
<1>2. CASE Worker
  BY <1>2, OwnedWorker
<1>3. CASE Jobs = {}
  BY <1>3 DEF RunningIsOwned, EncodeIsAwaited
<1>4. CASE Jobs # {} /\ (Request \/ Sweeper \/ Lifespan \/ Stop \/ Crash)
  BY <1>4, OwnedOthers
<1>5. ASSUME NEW j \in Jobs,
             SubmitCheck(j) \/ SubmitInsert(j) \/ Ffmpeg(j) \/ RequestCancel(j)
               \/ RequestRetry(j) \/ RequestDelete(j) \/ Sweep(j)
      PROVE  RunningIsOwned' /\ EncodeIsAwaited'
  BY <1>5, OwnedOthers
<1>6. CASE UNCHANGED vars
  BY <1>6 DEF vars, Owned, RunningIsOwned, EncodeIsAwaited, Live
<1> QED
  BY <1>2, <1>3, <1>4, <1>5, <1>6 DEF Next

(* A RUNNING row always has the worker behind it, and so does an FFmpeg      *)
(* process: for any number of jobs, with either repository, and through      *)
(* cancels, retries, deletes, sweeps, stops, crashes and restarts.           *)
THEOREM Ownership == Spec => [](RunningIsOwned /\ EncodeIsAwaited)
<1>1. Spec => []Owned
  BY OwnedInit, OwnedNext, PTL DEF Spec
<1>2. Owned => RunningIsOwned /\ EncodeIsAwaited
  BY DEF Owned
<1> QED
  BY <1>1, <1>2, PTL

(* Every FFmpeg process in _active_processes is the one the worker waits for.*)
THEOREM EncodeAwaited == Spec => []EncodeIsAwaited
BY Ownership, PTL

(* With one worker the limit of concurrent renders is never the one that     *)
(* binds: two RUNNING rows would both have to be the worker's job.           *)
OneRunning == app # "down" => \A j, k \in With("running") : j = k

THEOREM AtMostOneRunning == Spec => []OneRunning
<1>1. RunningIsOwned /\ EncodeIsAwaited => OneRunning
  BY DEF RunningIsOwned, OneRunning, With
<1> QED
  BY <1>1, Ownership, PTL

-----------------------------------------------------------------------------
(* Finality, where update_status is atomic: the transition table is all that *)
(* stands between a final row and a late writer, so it must be looked at in  *)
(* the step that writes.  Besides the types the proof needs that no update   *)
(* is half done, and that a row appears once, for a job that had none.       *)

NothingPending == \A t \in Tasks : task[t].pend = NoRead
Inserted == \A j \in Jobs : sub[j] # "done" => row[j].st = "none"
Calm == TypeOK /\ NothingPending /\ Inserted

Final(s) == s \in {"cancelled", "qc_failed"}
Stays(j) == Final(row[j].st) => row'[j].st \in {row[j].st, "none"}

(* A final row accepts nothing, and none of the other writes changes the     *)
(* status of a row, or gives one to a missing row.                           *)
LEMMA FinalRow ==
  ASSUME NEW r \in Rows
  PROVE  /\ Final(r.st) => \A s \in Status : ~Accepts(r, s)
         /\ Final(r.st) => Recovered(r).st = r.st
         /\ r.st = "none" => \A s \in Status : ~Accepts(r, s)
         /\ r.st = "none" => Recovered(r).st = "none"
BY DEF Final, Accepts, ValidTransitions, Recovered, Rows, Status

LEMMA CalmUpdate ==
  ASSUME AtomicRepo, Calm, NEW t \in Tasks, Update(t)
  PROVE  NothingPending' /\ Inserted' /\ \A k \in Jobs : Stays(k)
<1> DEFINE c == task[t].pc
           j == task[t].job
<1>1. /\ j \in Jobs /\ row \in [Jobs -> Rows] /\ row[j] \in Rows /\ Target[c] \in Status
      /\ task[t].pend = NoRead
  BY Tables DEF Update, UpdateRefused, UpdateRead, UpdateWrite, UpdateAtomic, Calling,
                Calm, TypeOK, TaskOK, NothingPending
<1>2. ASSUME NEW pc, Goes(t, pc) PROVE NothingPending'
  BY <1>2 DEF Goes, Rest, On, Task, Calm, NothingPending, TypeOK, TaskOK, Tasks
<1>3. CASE UpdateRefused(t)
  BY <1>2, <1>3 DEF UpdateRefused, Calm, Inserted, Stays
<1>4. CASE UpdateAtomic(t)
  <2>1. NothingPending'
    BY <1>2, <1>4 DEF UpdateAtomic
  <2>2. ~Final(row[j].st) /\ row[j].st # "none"
    BY <1>1, <1>4, FinalRow DEF UpdateAtomic
  <2>3. \A k \in Jobs \ {j} : row'[k] = row[k]
    BY <1>1, <1>4 DEF UpdateAtomic
  <2>4. sub' = sub
    BY <1>4 DEF UpdateAtomic
  <2>5. Inserted'
    BY <2>2, <2>3, <2>4 DEF Calm, Inserted
  <2>6. \A k \in Jobs : Stays(k)
    BY <2>2, <2>3 DEF Stays
  <2> QED
    BY <2>1, <2>5, <2>6
<1> QED
  BY <1>1, <1>3, <1>4 DEF Update, UpdateRead, UpdateWrite

(* The other steps of the three tasks: at most they write a column that is   *)
(* not the status.                                                           *)
LEMMA CalmTasks ==
  ASSUME Calm,
         \/ \E t \in Tasks : Announce(t) \/ AnnounceFails(t)
         \/ Look \/ Fetch \/ PrepareFails \/ Spawn \/ Notice \/ Timeout \/ Persist
         \/ HandleDrop \/ HandleFail \/ RequestKill \/ RequestMark
  PROVE  NothingPending' /\ Inserted' /\ \A k \in Jobs : Stays(k)
<1> USE DEF Calm
<1>1. ASSUME NEW t \in Tasks, NEW pc, Goes(t, pc) PROVE NothingPending'
  BY <1>1 DEF Goes, Rest, On, Task, NothingPending, TypeOK, TaskOK, Tasks
<1>2. ASSUME row' = row, sub' = sub PROVE Inserted' /\ \A k \in Jobs : Stays(k)
  BY <1>2 DEF Inserted, Stays
<1>3. {"worker", "request"} \subseteq Tasks
  BY DEF Tasks
<1>4. ASSUME NEW t \in Tasks, Announce(t) \/ AnnounceFails(t)
      PROVE  NothingPending' /\ Inserted' /\ \A k \in Jobs : Stays(k)
  BY <1>1, <1>2, <1>4 DEF Announce, AnnounceFails
<1>5. CASE Fetch \/ PrepareFails \/ Spawn \/ Notice \/ HandleDrop \/ HandleFail \/ RequestKill
  BY <1>1, <1>2, <1>3, <1>5
  DEF Fetch, PrepareFails, Spawn, Notice, HandleDrop, HandleFail, RequestKill
<1>6. CASE Look \/ Timeout
  <2>1. NothingPending'
    BY <1>6 DEF Look, Timeout, On, Task, NothingPending, TypeOK, TaskOK, Tasks
  <2> QED
    BY <1>2, <1>6, <2>1 DEF Look, Timeout
<1>7. CASE Persist \/ RequestMark
  <2>1. NothingPending'
    BY <1>1, <1>3, <1>7 DEF Persist, RequestMark
  <2>2. \A k \in Jobs : row'[k].st = row[k].st
    <3>1. ASSUME NEW j \in Jobs, NEW n \in Nat, NEW b \in BOOLEAN
          PROVE  WithEvidence(row[j], n).st = row[j].st /\ WithPartial(row[j], b).st = row[j].st
      BY EvidenceOp, PartialOp DEF TypeOK
    <3>2. CASE Persist
      <4>0. task["worker"].job \in Jobs
        BY <3>2 DEF Persist, At, TypeOK, TaskOK, Tasks
      <4>1. attempts[task["worker"].job] \in Nat
        <5>1. attempts[task["worker"].job] \in 0 .. Cap
          BY <4>0 DEF TypeOK
        <5> QED
          BY <5>1, JobFacts
      <4> DEFINE j == task["worker"].job
                 r == WithEvidence(row[j], attempts[j])
      <4>2. row' = [row EXCEPT ![j] = r]
        BY <3>2 DEF Persist
      <4>3. r.st = row[j].st
        BY <3>1, <4>0, <4>1
      <4> HIDE DEF r
      <4> QED
        BY <4>0, <4>2, <4>3 DEF TypeOK
    <3>3. CASE RequestMark
      <4>1. task["request"].job \in Jobs
        BY <3>3 DEF RequestMark, At, TypeOK, TaskOK, Tasks
      <4> QED
        BY <3>1, <3>3, <4>1 DEF RequestMark, TypeOK
    <3> QED
      BY <1>7, <3>2, <3>3
  <2>3. sub' = sub
    BY <1>7 DEF Persist, RequestMark
  <2> QED
    BY <2>1, <2>2, <2>3 DEF Inserted, Stays
<1> QED
  BY <1>4, <1>5, <1>6, <1>7

(* Routes, FFmpeg and the lifespan.                                          *)
LEMMA CalmOthers ==
  ASSUME AtomicRepo, Calm,
         \/ Lifespan \/ Stop \/ Crash \/ UNCHANGED vars
         \/ \E j \in Jobs : \/ SubmitCheck(j) \/ SubmitInsert(j) \/ Ffmpeg(j)
                            \/ RequestCancel(j) \/ RequestRetry(j) \/ RequestDelete(j)
                            \/ Sweep(j)
  PROVE  NothingPending' /\ Inserted' /\ \A k \in Jobs : Stays(k)
<1> USE DEF Calm
<1>1. ASSUME row' = row, sub' = sub PROVE Inserted' /\ \A k \in Jobs : Stays(k)
  BY <1>1 DEF Inserted, Stays
<1>2. ASSUME task' = task PROVE NothingPending'
  BY <1>2 DEF NothingPending
<1>3. ASSUME NEW j \in Jobs, SubmitCheck(j) PROVE Inserted' /\ \A k \in Jobs : Stays(k)
  BY <1>3 DEF SubmitCheck, Inserted, Stays, TypeOK
<1>4. ASSUME NEW j \in Jobs, SubmitInsert(j) PROVE Inserted' /\ \A k \in Jobs : Stays(k)
  BY <1>4 DEF SubmitInsert, Inserted, Stays, TypeOK, Final, NewRow, RowOf
<1>5. ASSUME NEW j \in Jobs, RequestDelete(j) PROVE Inserted' /\ \A k \in Jobs : Stays(k)
  BY <1>5 DEF RequestDelete, Inserted, Stays, TypeOK, NoRow, RowOf
<1>6. ASSUME NEW j \in Jobs, RequestRetry(j) PROVE Inserted' /\ \A k \in Jobs : Stays(k)
  <2>1. /\ row[j].st = "failed" /\ sub' = sub
        /\ \A k \in Jobs \ {j} : row'[k] = row[k]
    BY <1>6 DEF RequestRetry, TypeOK
  <2> QED
    BY <2>1 DEF Inserted, Stays, Final
<1>7. ASSUME NEW j \in Jobs,
             SubmitCheck(j) \/ SubmitInsert(j) \/ RequestDelete(j) \/ RequestRetry(j)
      PROVE  NothingPending'
  BY <1>2, <1>7 DEF SubmitCheck, SubmitInsert, RequestDelete, RequestRetry
<1>8. ASSUME NEW j \in Jobs, Ffmpeg(j) \/ RequestCancel(j) \/ Sweep(j)
      PROVE  NothingPending' /\ Inserted' /\ \A k \in Jobs : Stays(k)
  <2>1. NothingPending'
    BY <1>8 DEF Ffmpeg, FfmpegDone, FfmpegQuits, FfmpegFails, FfmpegExit, RequestCancel, Sweep,
                On, Task, NothingPending, TypeOK, TaskOK, Tasks
  <2>2. row' = row /\ sub' = sub
    BY <1>8 DEF Ffmpeg, FfmpegDone, FfmpegQuits, FfmpegFails, FfmpegExit, RequestCancel, Sweep
  <2> QED
    BY <1>1, <2>1, <2>2
<1>9. CASE KillRemaining \/ Stop \/ UNCHANGED vars
  BY <1>1, <1>2, <1>9 DEF KillRemaining, Stop, vars
<1>10. CASE CancelTasks \/ Crash
  <2>1. /\ task' = [t \in Tasks |-> Rest("idle")] /\ row' = row
        /\ sub' = [j \in Jobs |-> IF sub[j] = "insert" THEN "done" ELSE sub[j]]
    BY <1>10 DEF CancelTasks, Crash, ProcessDies
  <2> QED
    BY <2>1 DEF NothingPending, Rest, Task, Inserted, Stays
<1>11. CASE Restart
  <2>1. task' = task /\ sub' = sub /\ \A k \in Jobs : row'[k] = Recovered(row[k])
    BY <1>11 DEF Restart
  <2>2. \A k \in Jobs : row[k] \in Rows
    BY DEF TypeOK
  <2> QED
    BY <1>2, <2>1, <2>2, FinalRow DEF Inserted, Stays
<1> QED
  BY <1>3, <1>4, <1>5, <1>6, <1>7, <1>8, <1>9, <1>10, <1>11 DEF Lifespan

(* "cancelled and qc_failed are terminal": with a repository whose           *)
(* update_status checks and writes in one step, no interleaving of worker,   *)
(* routes, sweeper, stop and restart ever moves a row out of them.           *)
THEOREM Finality == ASSUME AtomicRepo PROVE Spec => FinalIsFinal
<1>1. Init => Calm
  BY TypeInit DEF Init, Calm, NothingPending, Inserted, Rest, Task, NoRow, RowOf
<1>2. ASSUME Calm, [Next]_vars PROVE Calm' /\ \A j \in Jobs : Stays(j)
  <2>1. TypeOK'
    BY <1>2, TypeNext DEF Calm
  <2>2. NothingPending' /\ Inserted' /\ \A j \in Jobs : Stays(j)
    BY <1>2, CalmUpdate, CalmTasks, CalmOthers
    DEF Next, Worker, Request, Sweeper, Tasks
  <2> QED
    BY <2>1, <2>2 DEF Calm
<1>3. ASSUME Calm, [Next]_vars
      PROVE  [\A j \in Jobs : row[j].st \in {"cancelled", "qc_failed"} =>
                row'[j].st \in {row[j].st, "none"}]_vars
  BY <1>2, <1>3 DEF Stays, Final
<1> QED
  BY <1>1, <1>2, <1>3, PTL DEF Spec, FinalIsFinal
=============================================================================
