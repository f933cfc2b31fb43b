-------------------------- MODULE RenderLifecycle ---------------------------
(* The life of render jobs in the FastAPI process: RenderQueue, the single   *)
(* RenderWorkerLoop with RenderService and RenderExecutor under it, the      *)
(* StaleRenderSweeper, the submit / cancel / retry / delete routes, the      *)
(* shutdown sequence, crashes, and recovery at the next start.               *)
(*                                                                           *)
(* The process is one asyncio loop, so a step is what one task does between  *)
(* two awaits that really suspend.  Three tasks call update_status: the      *)
(* worker, the request that holds _state_transition_lock (cancel or retry),  *)
(* and the sweeper.  Each is a member of Tasks with a program counter.       *)
EXTENDS RenderJobs, Integers, FiniteSets

CONSTANTS
  NumJobs,        \* jobs 1 .. NumJobs, in the order of created_at
  MaxRetries,     \* settings.render_retry_count
  MaxConcurrent,  \* settings.render_max_concurrent
  MaxDepth,       \* settings.render_max_queue_depth
  MaxStops,       \* bound: how many times the process stops or crashes
  AtomicRepo,     \* TRUE: InMemoryRenderRepository, whose update_status has
                  \* no await; FALSE: the SQLite one, which reads, validates,
                  \* and in a later statement updates whatever is there then
  Env             \* what the environment of this instance does

EnvEvents == {"cancel", "retry", "delete", "sweep", "stop", "crash", "fault"}

ASSUME RenderAssumption ==
  /\ NumJobs \in Nat
  /\ MaxRetries \in Nat
  /\ MaxConcurrent \in Nat \ {0}
  /\ MaxDepth \in Nat
  /\ MaxStops \in Nat
  /\ AtomicRepo \in BOOLEAN
  /\ Env \subseteq EnvEvents

Jobs   == 1 .. NumJobs
NoJob  == 0
NoRead == -1
Cap    == MaxRetries + 2    \* bound: attempts are counted up to here

Tasks == {"worker", "request", "sweeper"}

VARIABLES
  row,       \* row[j]: the row of job j in render_jobs
  sub,       \* sub[j]: where the POST /render of j is
  task,      \* task[t]: program counter, job, and pending update of task t
  ok,        \* what RenderExecutor.execute last returned
  err,       \* the worker is inside _handle_job_error
  proc,      \* proc[j]: the FFmpeg process of j in _active_processes
  out,       \* out[j]: the file at output_path
  sent,      \* sent[j]: the terminal events broadcast for j so far
  attempts,  \* attempts[j]: encodes started for j
  app,       \* the phase of the server process
  stops      \* how often the process has stopped

vars == <<row, sub, task, ok, err, proc, out, sent, attempts, app, stops>>

WorkerPCs  == {"idle", "claim", "fetch", "prepare", "exec", "persist",
               "complete", "announceDone", "qc", "handle", "fail", "final",
               "requeue", "announceFail", "fallback", "dead"}
RequestPCs == {"idle", "wait", "cancel", "retry", "mark", "announceCancel"}
SweeperPCs == {"idle", "sweep", "announceStale"}
PCs == [worker |-> WorkerPCs, request |-> RequestPCs, sweeper |-> SweeperPCs]

(* The places where a task calls update_status: the status it asks for, and  *)
(* where it goes when the call returns.                                      *)
Target == [claim |-> "running",    complete |-> "completed",
           qc |-> "qc_failed",     fail |-> "failed",
           final |-> "failed",     requeue |-> "queued",
           fallback |-> "failed",  cancel |-> "cancelled",
           retry |-> "queued",     sweep |-> "failed"]
After  == [claim |-> "fetch",      complete |-> "announceDone",
           qc |-> "idle",          fail |-> "requeue",
           final |-> "announceFail", requeue |-> "idle",
           fallback |-> "idle",    cancel |-> "mark",
           retry |-> "idle",       sweep |-> "announceStale"]

(* Mutated: the request asks again until it is accepted; the request takes no*)
(* notice.                                                                   *)
RaisedAgain(pc)     == IF pc = "claim" THEN "dead" ELSE pc
RaisedIgnored(pc)   == IF pc = "cancel" THEN "mark" ELSE "idle"

(* Where a task goes when its call of update_status or broadcast raises.  An *)
(* error out of dequeue is caught by nobody; one out of run_job goes to      *)
(* _handle_job_error; one inside _handle_job_error to its direct update, and *)
(* then is swallowed.  A request answers 409 or 500; the sweeper goes on.    *)
Failing == {"fail", "final", "requeue", "announceFail"}
Raised(pc) ==
  IF pc = "claim" THEN "dead"
  ELSE IF pc \in Failing /\ err THEN "fallback"
  ELSE IF pc \in Failing \union {"complete", "announceDone"} THEN "handle"
  ELSE "idle"

(* The places where a task broadcasts a terminal event, and the event.       *)
Event == [announceDone |-> "completed", announceFail |-> "failed",
          announceCancel |-> "cancelled", announceStale |-> "failed"]

Live(j)    == proc[j] \in {"running", "quitting"}
With(s)    == {j \in Jobs : row[j].st = s}
Task(pc, j, pend) == [pc |-> pc, job |-> j, pend |-> pend]
On(pc, j)  == Task(pc, j, NoRead)
Rest(pc)   == Task(pc, NoJob, NoRead)

(* Task t continues at pc with the job it has; at rest it has none.          *)
Goes(t, pc) ==
  task' = [task EXCEPT ![t] =
             IF pc \in {"idle", "dead"} THEN Rest(pc) ELSE On(pc, @.job)]

At(t, pc) == app # "down" /\ task[t].pc = pc

Init ==
  /\ row = [j \in Jobs |-> NoRow]
  /\ sub = [j \in Jobs |-> "new"]
  /\ task = [t \in Tasks |-> Rest("idle")]
  /\ ok = FALSE
  /\ err = FALSE
  /\ proc = [j \in Jobs |-> "none"]
  /\ out = [j \in Jobs |-> "absent"]
  /\ sent = [j \in Jobs |-> {}]
  /\ attempts = [j \in Jobs |-> 0]
  /\ app = "up"
  /\ stops = 0

-----------------------------------------------------------------------------
(* update_status, as each task calls it.                                     *)

Calling(t) == app # "down" /\ task[t].pc \in DOMAIN Target

(* The error flag after the worker moves from pc to next.                    *)
ErrAfter(t, next) ==
  err' = IF t = "worker" /\ next = "idle" THEN FALSE
         ELSE IF t = "worker" /\ next = "handle" THEN TRUE
         ELSE err

(* The check fails: ValueError.                                              *)
UpdateRefused(t) ==
  /\ Calling(t) /\ task[t].pend = NoRead
  /\ ~Accepts(row[task[t].job], Target[task[t].pc])
  /\ Goes(t, Raised(task[t].pc))
  /\ ErrAfter(t, Raised(task[t].pc))
  /\ UNCHANGED <<row, sub, ok, proc, out, sent, attempts, app, stops>>

(* SQLite: the SELECT and the check; the UPDATE is a later statement.        *)
UpdateRead(t) ==
  /\ ~AtomicRepo
  /\ Calling(t) /\ task[t].pend = NoRead
  /\ Accepts(row[task[t].job], Target[task[t].pc])
  /\ task' = [task EXCEPT ![t] =
                Task(@.pc, @.job, RetryFor(row[@.job], Target[@.pc]))]
  /\ UNCHANGED <<row, sub, ok, err, proc, out, sent, attempts, app, stops>>

(* SQLite: the UPDATE, with the retry count of the row that was read.        *)
UpdateWrite(t) ==
  /\ Calling(t) /\ task[t].pend # NoRead
  /\ row' = [row EXCEPT ![task[t].job] =
               Written(@, Target[task[t].pc], task[t].pend)]
  /\ Goes(t, After[task[t].pc])
  /\ ErrAfter(t, After[task[t].pc])
  /\ UNCHANGED <<sub, ok, proc, out, sent, attempts, app, stops>>

(* In memory: check and update with no await between them.                   *)
UpdateAtomic(t) ==
  /\ AtomicRepo
  /\ Calling(t) /\ task[t].pend = NoRead
  /\ Accepts(row[task[t].job], Target[task[t].pc])
  /\ row' = [row EXCEPT ![task[t].job] =
               Written(@, Target[task[t].pc], RetryFor(@, Target[task[t].pc]))]
  /\ Goes(t, After[task[t].pc])
  /\ ErrAfter(t, After[task[t].pc])
  /\ UNCHANGED <<sub, ok, proc, out, sent, attempts, app, stops>>

Update(t) ==
  \/ UpdateRefused(t)
  \/ UpdateRead(t)
  \/ UpdateWrite(t)
  \/ UpdateAtomic(t)

(* _broadcast_event after a terminal transition.  After COMPLETED the worker *)
(* runs the optional QC, which may or may not find a fault.                  *)
Announce(t) ==
  /\ app # "down" /\ task[t].pc \in DOMAIN Event
  /\ sent' = [sent EXCEPT ![task[t].job] = @ \union {Event[task[t].pc]}]
  /\ \E next \in IF task[t].pc = "announceDone" THEN {"qc", "idle"} ELSE {"idle"} :
       Goes(t, next) /\ ErrAfter(t, next)
  /\ UNCHANGED <<row, sub, ok, proc, out, attempts, app, stops>>

(* broadcast raises when a client connects or leaves while it is sending,    *)
(* after some clients have got the event or none.                            *)
AnnounceFails(t) ==
  /\ "fault" \in Env
  /\ app # "down" /\ task[t].pc \in DOMAIN Event
  /\ \E told \in SUBSET {Event[task[t].pc]} :
       sent' = [sent EXCEPT ![task[t].job] = @ \union told]
  /\ Goes(t, Raised(task[t].pc))
  /\ ErrAfter(t, Raised(task[t].pc))
  /\ UNCHANGED <<row, sub, ok, proc, out, attempts, app, stops>>

-----------------------------------------------------------------------------
(* POST /render: the depth check, and the INSERT an await later.             *)

SubmitCheck(j) ==
  /\ app = "up" /\ sub[j] = "new"
  /\ \A k \in 1 .. j - 1 : sub[k] # "new"
  /\ Cardinality(With("queued")) < MaxDepth
  /\ sub' = [sub EXCEPT ![j] = "insert"]
  /\ UNCHANGED <<row, task, ok, err, proc, out, sent, attempts, app, stops>>

SubmitInsert(j) ==
  /\ app = "up" /\ sub[j] = "insert"
  /\ sub' = [sub EXCEPT ![j] = "done"]
  /\ row' = [row EXCEPT ![j] = NewRow]
  /\ UNCHANGED <<task, ok, err, proc, out, sent, attempts, app, stops>>

-----------------------------------------------------------------------------
(* The worker: dequeue, build the command, run_job.                          *)

(* dequeue: count the running jobs, list the queued ones, take the oldest.   *)
Look ==
  /\ At("worker", "idle")
  /\ Cardinality(With("running")) < MaxConcurrent
  /\ \E j \in With("queued") :
       /\ \A k \in With("queued") : j <= k
       /\ task' = [task EXCEPT !["worker"] = On("claim", j)]
  /\ UNCHANGED <<row, sub, ok, err, proc, out, sent, attempts, app, stops>>

(* dequeue returns the row as it is after the update, or None if deleted.    *)
Fetch ==
  /\ At("worker", "fetch")
  /\ Goes("worker", IF row[task["worker"].job].st = "none" THEN "idle" ELSE "prepare")
  /\ UNCHANGED <<row, sub, ok, err, proc, out, sent, attempts, app, stops>>

(* Mutated: the exception is logged and the job left as it is.               *)
PrepareFailsSilently ==
  /\ "fault" \in Env /\ At("worker", "prepare")
  /\ Goes("worker", "idle")
  /\ UNCHANGED <<row, sub, ok, err, proc, out, sent, attempts, app, stops>>

(* Building the command or starting FFmpeg raises.                           *)
PrepareFails ==
  /\ "fault" \in Env
  /\ At("worker", "prepare")
  /\ Goes("worker", "handle")
  /\ err' = TRUE
  /\ UNCHANGED <<row, sub, ok, proc, out, sent, attempts, app, stops>>

(* create_subprocess_exec; FFmpeg truncates the output when it opens it.     *)
Spawn ==
  LET j == task["worker"].job IN
  /\ At("worker", "prepare")
  /\ Goes("worker", "exec")
  /\ proc' = [proc EXCEPT ![j] = "running"]
  /\ \E f \in {out[j], "partial"} : out' = [out EXCEPT ![j] = f]
  /\ attempts' = [attempts EXCEPT ![j] = IF @ < Cap THEN @ + 1 ELSE @]
  /\ UNCHANGED <<row, sub, ok, err, sent, app, stops>>

(* _run_process sees the process gone; execute drops it from the table.      *)
Notice ==
  LET j == task["worker"].job IN
  /\ At("worker", "exec") /\ ~Live(j)
  /\ ok' = (proc[j] = "ok")
  /\ proc' = [proc EXCEPT ![j] = "none"]
  /\ Goes("worker", "persist")
  /\ UNCHANGED <<row, sub, err, out, sent, attempts, app, stops>>

(* Mutated: on timeout the process is not killed; there is no timeout.       *)
TimeoutWithoutKill ==
  /\ At("worker", "exec")
  /\ ok' = FALSE
  /\ Goes("worker", "persist")
  /\ UNCHANGED <<row, sub, err, proc, out, sent, attempts, app, stops>>
TimeoutNever == At("worker", "exec") /\ FALSE /\ UNCHANGED vars

(* wait_for(timeout) fires: kill the process, execute returns False.  A      *)
(* cancel request waiting for that process is woken by its end.              *)
Timeout ==
  LET j == task["worker"].job IN
  /\ At("worker", "exec")
  /\ ok' = FALSE
  /\ proc' = [proc EXCEPT ![j] = "none"]
  /\ task' = [task EXCEPT
                !["worker"] = On("persist", j),
                !["request"] = IF @.pc = "wait" /\ @.job = j THEN On("cancel", j) ELSE @]
  /\ UNCHANGED <<row, sub, err, out, sent, attempts, app, stops>>

(* Mutated: return code 0 is enough, the file is not looked at.              *)
PersistWithoutLook ==
  LET j == task["worker"].job IN
  /\ At("worker", "persist")
  /\ row' = [row EXCEPT ![j] = WithEvidence(@, attempts[j])]
  /\ Goes("worker", IF ok THEN "complete" ELSE "handle")
  /\ UNCHANGED <<sub, ok, err, proc, out, sent, attempts, app, stops>>

(* _persist_evidence, then the choice between _finalize_success (the file is *)
(* there: complete it) and _handle_failure.                                  *)
Persist ==
  LET j == task["worker"].job IN
  /\ At("worker", "persist")
  /\ row' = [row EXCEPT ![j] = WithEvidence(@, attempts[j])]
  /\ Goes("worker", IF ok /\ out[j] # "absent" THEN "complete" ELSE "handle")
  /\ UNCHANGED <<sub, ok, err, proc, out, sent, attempts, app, stops>>

(* _finalize_failure and _handle_failure: nothing to do for a row that is    *)
(* gone or, unless an exception led here, cancelled; else retry or give up.  *)
HandleDrop ==
  LET r == row[task["worker"].job] IN
  /\ At("worker", "handle")
  /\ r.st = "none" \/ (r.st = "cancelled" /\ ~err /\ ~ok)
  /\ Goes("worker", "idle") /\ ErrAfter("worker", "idle")
  /\ UNCHANGED <<row, sub, ok, proc, out, sent, attempts, app, stops>>

HandleFail ==
  LET r == row[task["worker"].job] IN
  /\ At("worker", "handle")
  /\ ~(r.st = "none" \/ (r.st = "cancelled" /\ ~err /\ ~ok))
  /\ Goes("worker", IF r.retry < MaxRetries THEN "fail" ELSE "final")
  /\ UNCHANGED <<row, sub, ok, err, proc, out, sent, attempts, app, stops>>

Worker ==
  \/ Update("worker") \/ Announce("worker") \/ AnnounceFails("worker")
  \/ Look \/ Fetch \/ PrepareFails \/ Spawn \/ Notice \/ Timeout
  \/ Persist \/ HandleDrop \/ HandleFail

-----------------------------------------------------------------------------
(* FFmpeg.  It ends well with the whole file, or with none to speak of; told *)
(* to quit it ends well with what it has; or it fails and leaves what is     *)
(* there.  Its end wakes a cancel request that waits for it.                 *)
FfmpegExit(j, rc, f) ==
  /\ app # "down" /\ Live(j)
  /\ proc' = [proc EXCEPT ![j] = rc]
  /\ out' = [out EXCEPT ![j] = f]
  /\ task' = [task EXCEPT !["request"] =
                IF @.pc = "wait" /\ @.job = j THEN On("cancel", j) ELSE @]
  /\ UNCHANGED <<row, sub, ok, err, sent, attempts, app, stops>>

FfmpegDone(j)  == proc[j] = "running"  /\ \E f \in {"whole", "absent"} :
                    (f = "absent" => "fault" \in Env) /\ FfmpegExit(j, "ok", f)
FfmpegQuits(j) == proc[j] = "quitting" /\ \E f \in {"whole", "partial"} :
                    FfmpegExit(j, "ok", f)
FfmpegFails(j) == "fault" \in Env /\ FfmpegExit(j, "err", out[j])

Ffmpeg(j) == FfmpegDone(j) \/ FfmpegQuits(j) \/ FfmpegFails(j)

-----------------------------------------------------------------------------
(* The routes that hold _state_transition_lock, and DELETE, which does not.  *)

RequestFree == app = "up" /\ task["request"].pc = "idle"

(* cancel_render_job up to executor.cancel: the row is QUEUED or RUNNING; a  *)
(* running job with a process is sent 'q' and waited for.                    *)
RequestCancel(j) ==
  /\ "cancel" \in Env /\ RequestFree
  /\ row[j].st \in {"queued", "running"}
  /\ IF row[j].st = "running" /\ Live(j)
     THEN /\ proc' = [proc EXCEPT ![j] = "quitting"]
          /\ task' = [task EXCEPT !["request"] = On("wait", j)]
     ELSE /\ task' = [task EXCEPT !["request"] = On("cancel", j)]
          /\ UNCHANGED proc
  /\ UNCHANGED <<row, sub, ok, err, out, sent, attempts, app, stops>>

(* The grace period ends: _kill_process.                                     *)
RequestKill ==
  LET j == task["request"].job IN
  /\ At("request", "wait")
  /\ proc' = [proc EXCEPT ![j] = "err"]
  /\ Goes("request", "cancel")
  /\ UNCHANGED <<row, sub, ok, err, out, sent, attempts, app, stops>>

(* update_partial_signal: whether a file is there now.  ValueError (500, no  *)
(* event) when the row has been deleted.                                     *)
RequestMark ==
  LET j == task["request"].job IN
  /\ At("request", "mark")
  /\ IF row[j].st = "none"
     THEN Goes("request", "idle") /\ UNCHANGED row
     ELSE /\ row' = [row EXCEPT ![j] = WithPartial(@, out[j] # "absent")]
          /\ Goes("request", "announceCancel")
  /\ UNCHANGED <<sub, ok, err, proc, out, sent, attempts, app, stops>>

(* Mutated: the route does not look at retry_count.                          *)
RequestRetryUnlimited(j) ==
  /\ "retry" \in Env /\ RequestFree
  /\ row[j].st = "failed" /\ AtomicRepo
  /\ row' = [row EXCEPT ![j] = Written(@, "queued", RetryFor(@, "queued"))]
  /\ UNCHANGED <<sub, task, ok, err, proc, out, sent, attempts, app, stops>>

(* retry_render_job.  The route's read and update_status's read are one step:*)
(* no other task gets a whole encode done between two consecutive reads.     *)
RequestRetry(j) ==
  /\ "retry" \in Env /\ RequestFree
  /\ row[j].st = "failed" /\ row[j].retry < MaxRetries
  /\ IF AtomicRepo
     THEN /\ row' = [row EXCEPT ![j] = Written(@, "queued", RetryFor(@, "queued"))]
          /\ UNCHANGED task
     ELSE /\ task' = [task EXCEPT !["request"] =
                        Task("retry", j, RetryFor(row[j], "queued"))]
          /\ UNCHANGED row
  /\ UNCHANGED <<sub, ok, err, proc, out, sent, attempts, app, stops>>

(* delete_render_job: no lock, any status; the file stays.                   *)
RequestDelete(j) ==
  /\ "delete" \in Env /\ app = "up"
  /\ row[j].st # "none"
  /\ row' = [row EXCEPT ![j] = NoRow]
  /\ UNCHANGED <<sub, task, ok, err, proc, out, sent, attempts, app, stops>>

Request ==
  \/ Update("request") \/ Announce("request") \/ AnnounceFails("request")
  \/ RequestKill \/ RequestMark

(* The sweeper finds a RUNNING job whose updated_at is old.  Any running job *)
(* may be: only progress reports move updated_at, and FFmpeg may give none.  *)
Sweep(j) ==
  /\ "sweep" \in Env
  /\ At("sweeper", "idle")
  /\ row[j].st = "running"
  /\ task' = [task EXCEPT !["sweeper"] = On("sweep", j)]
  /\ UNCHANGED <<row, sub, ok, err, proc, out, sent, attempts, app, stops>>

Sweeper == Update("sweeper") \/ Announce("sweeper") \/ AnnounceFails("sweeper")

-----------------------------------------------------------------------------
(* Shutdown, crash, restart.                                                 *)

(* Requests are drained before the lifespan ends.  'q' to every process.     *)
Stop ==
  /\ "stop" \in Env /\ app = "up" /\ stops < MaxStops
  /\ task["request"].pc = "idle"
  /\ \A j \in Jobs : sub[j] # "insert"
  /\ stops' = stops + 1
  /\ app' = IF \E j \in Jobs : Live(j) THEN "grace" ELSE "killed"
  /\ proc' = [j \in Jobs |-> IF Live(j) THEN "quitting" ELSE proc[j]]
  /\ UNCHANGED <<row, sub, task, ok, err, out, sent, attempts>>

(* kill_remaining after the grace period, in which the worker has run on.    *)
KillRemaining ==
  /\ app = "grace"
  /\ app' = "killed"
  /\ proc' = [j \in Jobs |-> IF Live(j) THEN "err" ELSE proc[j]]
  /\ UNCHANGED <<row, sub, task, ok, err, out, sent, attempts, stops>>

(* What is lost when the process goes: every task, every process, and the    *)
(* inserts in flight.                                                        *)
ProcessDies ==
  /\ app' = "down"
  /\ task' = [t \in Tasks |-> Rest("idle")]
  /\ ok' = FALSE /\ err' = FALSE
  /\ proc' = [j \in Jobs |-> "none"]
  /\ sub' = [j \in Jobs |-> IF sub[j] = "insert" THEN "done" ELSE sub[j]]
  /\ UNCHANGED <<row, out, sent, attempts>>

(* The worker and sweeper tasks are cancelled and the process exits.         *)
CancelTasks == app = "killed" /\ ProcessDies /\ UNCHANGED stops

Crash ==
  /\ "crash" \in Env /\ app # "down" /\ stops < MaxStops
  /\ stops' = stops + 1
  /\ ProcessDies

(* The next start: RenderService.recover, then the worker and the sweeper.   *)
Restart ==
  /\ app = "down"
  /\ app' = "up"
  /\ row' = [j \in Jobs |-> Recovered(row[j])]
  /\ UNCHANGED <<sub, task, ok, err, proc, out, sent, attempts, stops>>

Lifespan == KillRemaining \/ CancelTasks \/ Restart

Next ==
  \/ Worker \/ Request \/ Sweeper \/ Lifespan \/ Stop \/ Crash
  \/ \E j \in Jobs :
       \/ SubmitCheck(j) \/ SubmitInsert(j) \/ Ffmpeg(j)
       \/ RequestCancel(j) \/ RequestRetry(j) \/ RequestDelete(j) \/ Sweep(j)

(* The loop runs every ready task, and a server that went down is started    *)
(* again.  FFmpeg may hang for ever: it is the timeout of the worker and the *)
(* grace period of the request that bound the wait.                          *)
Fairness ==
  WF_vars(Worker) /\ WF_vars(Request) /\ WF_vars(Sweeper) /\ WF_vars(Lifespan)

Spec == Init /\ [][Next]_vars /\ Fairness
=============================================================================
