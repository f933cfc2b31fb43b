------------------------------ MODULE JobQueue ------------------------------
(* The background job queue of scans and proxies: AsyncioJobQueue with its   *)
(* one worker coroutine (jobs/queue.py), the cancel and wait routes          *)
(* (api/routers/jobs.py), and the registry of completion events that the     *)
(* wait route and the worker share (api/services/job_completion.py).         *)
EXTENDS Integers, Sequences, FiniteSets

CONSTANTS
  Jobs,      \* the jobs clients may submit
  Handled,   \* those whose job_type has a registered handler
  Waiters,   \* clients of GET /jobs/{id}/wait
  NoJob,
  CanStop    \* whether the server may shut down in this instance

ASSUME JobAssumption ==
  /\ Handled \subseteq Jobs
  /\ NoJob \notin Jobs
  /\ IsFiniteSet(Jobs)
  /\ CanStop \in BOOLEAN

VARIABLES
  status,    \* status[j]: JobStatus of j; "new" before it is submitted
  fifo,      \* the asyncio.Queue of job ids
  cur,       \* the job process_jobs is working on, or NoJob
  handler,   \* what its handler has done: "none", "working", "returned", "raised"
  cancelSet, \* jobs whose cancel_event is set
  waiting,   \* waiting[w]: the job client w awaits, or NoJob
  events,    \* _terminal_events[j]: the clients whose event is registered
  fired,     \* clients whose event is set
  reply,     \* reply[w]: the last response to w
  gauge,     \* stoat_active_jobs_count
  up         \* the server runs

vars == <<status, fifo, cur, handler, cancelSet, waiting, events, fired, reply,
          gauge, up>>
waitVars == <<waiting, reply>>

Terminal == {"completed", "failed", "timeout", "cancelled"}
Active   == {"pending", "running"}

Init ==
  /\ status = [j \in Jobs |-> "new"]
  /\ fifo = <<>>
  /\ cur = NoJob
  /\ handler = "none"
  /\ cancelSet = {}
  /\ waiting = [w \in Waiters |-> NoJob]
  /\ events = [j \in Jobs |-> {}]
  /\ fired = {}
  /\ reply = [w \in Waiters |-> [job |-> NoJob, status |-> "none"]]
  /\ gauge = 0
  /\ up = TRUE

-----------------------------------------------------------------------------
(* POST /scan and friends: submit has no await that suspends.                *)
Submit(j) ==
  /\ up /\ status[j] = "new"
  /\ status' = [status EXCEPT ![j] = "pending"]
  /\ fifo' = Append(fifo, j)
  /\ gauge' = gauge + 1
  /\ UNCHANGED <<cur, handler, cancelSet, waitVars, events, fired, up>>

(* Mutated: the route does not refuse a finished job, and cancel overwrites  *)
(* its status.                                                               *)
CancelFinished(j) ==
  /\ up /\ status[j] # "new"
  /\ cancelSet' = cancelSet \union {j}
  /\ status' = [status EXCEPT ![j] = IF @ \in Terminal THEN "cancelled" ELSE @]
  /\ UNCHANGED <<fifo, cur, handler, waitVars, events, fired, gauge, up>>

(* POST /jobs/{id}/cancel: 409 when terminal, else set the event.            *)
Cancel(j) ==
  /\ up /\ status[j] \in Active
  /\ cancelSet' = cancelSet \union {j}
  /\ UNCHANGED <<status, fifo, cur, handler, waitVars, events, fired, gauge,
                 up>>

-----------------------------------------------------------------------------
(* process_jobs.                                                             *)

(* Mutated: only one of the registered events is set; the registry is kept.  *)
NotifyOne(j) ==
  /\ events' = [events EXCEPT ![j] = {}]
  /\ fired' = fired \union {w \in events[j] : w = CHOOSE v \in events[j] : TRUE}
NotifyKeeping(j) ==
  /\ fired' = fired \union events[j]
  /\ UNCHANGED events

(* notify_job_terminal: pop the set, set every event in it.                  *)
Notify(j) ==
  /\ events' = [events EXCEPT ![j] = {}]
  /\ fired' = fired \union events[j]

TakeHandled ==
  /\ up /\ cur = NoJob /\ fifo # <<>> /\ Head(fifo) \in Handled
  /\ fifo' = Tail(fifo)
  /\ cur' = Head(fifo)
  /\ handler' = "working"
  /\ status' = [status EXCEPT ![Head(fifo)] = "running"]
  /\ UNCHANGED <<cancelSet, waitVars, events, fired, gauge, up>>

(* Mutated: the branch returns to the loop with only the status written.     *)
TakeUnhandledQuietly ==
  /\ up /\ cur = NoJob /\ fifo # <<>> /\ Head(fifo) \notin Handled
  /\ fifo' = Tail(fifo)
  /\ status' = [status EXCEPT ![Head(fifo)] = "failed"]
  /\ UNCHANGED <<cur, handler, cancelSet, waitVars, events, fired, gauge, up>>

(* No handler for the job type.                                              *)
TakeUnhandled ==
  /\ up /\ cur = NoJob /\ fifo # <<>> /\ Head(fifo) \notin Handled
  /\ fifo' = Tail(fifo)
  /\ status' = [status EXCEPT ![Head(fifo)] = "failed"]
  /\ Notify(Head(fifo))
  /\ gauge' = gauge - 1
  /\ UNCHANGED <<cur, handler, cancelSet, waitVars, up>>

(* The handler ends; the worker sees it when wait_for resumes.               *)
HandlerEnds ==
  /\ up /\ handler = "working"
  /\ handler' \in {"returned", "raised"}
  /\ UNCHANGED <<status, fifo, cur, cancelSet, waitVars, events, fired, gauge,
                 up>>

(* The try statement ends with status s; its finally clause.                 *)
Settle(s) ==
  /\ status' = [status EXCEPT ![cur] = s]
  /\ Notify(cur)
  /\ gauge' = gauge - 1
  /\ cur' = NoJob
  /\ handler' = "none"
  /\ UNCHANGED <<fifo, cancelSet, waitVars, up>>

(* Mutated: the cancel event is for the handler alone to look at.            *)
CompletedAnyway == up /\ handler = "returned" /\ Settle("completed")

Completed == up /\ handler = "returned" /\ cur \notin cancelSet /\ Settle("completed")
Cancelled == up /\ handler = "returned" /\ cur \in cancelSet /\ Settle("cancelled")
Failed    == up /\ handler = "raised" /\ Settle("failed")

(* Mutated: no timeout around the handler.                                   *)
TimedOutNever == up /\ handler = "unknown" /\ Settle("timeout")

(* TimeoutError: from wait_for, which has cancelled the handler, or from the *)
(* handler itself.                                                           *)
TimedOut == up /\ handler \in {"working", "raised"} /\ Settle("timeout")

Worker == TakeHandled \/ TakeUnhandled \/ Completed \/ Cancelled \/ Failed \/ TimedOut

(* Shutdown: requests are drained, then the worker task is cancelled.  A     *)
(* CancelledError is not an Exception: only the finally clause runs.         *)
Stop ==
  /\ CanStop /\ up /\ \A w \in Waiters : waiting[w] = NoJob
  /\ up' = FALSE
  /\ IF cur = NoJob
     THEN UNCHANGED <<gauge, events, fired>>
     ELSE Notify(cur) /\ gauge' = gauge - 1
  /\ cur' = NoJob
  /\ handler' = "none"
  /\ UNCHANGED <<status, fifo, cancelSet, waitVars>>

-----------------------------------------------------------------------------
(* GET /jobs/{id}/wait: wait_for_job_terminal.                               *)

Answers(w, s) == reply' = [reply EXCEPT ![w] = [job |-> waiting[w], status |-> s]]

(* Already terminal: answered at once, no event is made.                     *)
WaitShort(w, j) ==
  /\ up /\ waiting[w] = NoJob /\ status[j] \in Terminal
  /\ reply' = [reply EXCEPT ![w] = [job |-> j, status |-> status[j]]]
  /\ UNCHANGED <<status, fifo, cur, handler, cancelSet, waiting, events, fired,
                 gauge, up>>

WaitBlock(w, j) ==
  /\ up /\ waiting[w] = NoJob /\ status[j] \in Active
  /\ waiting' = [waiting EXCEPT ![w] = j]
  /\ events' = [events EXCEPT ![j] = @ \union {w}]
  /\ UNCHANGED <<status, fifo, cur, handler, cancelSet, fired, reply, gauge,
                 up>>

(* The finally clause: drop the event if it is still registered.             *)
Leaves(w) ==
  /\ waiting' = [waiting EXCEPT ![w] = NoJob]
  /\ events' = [events EXCEPT ![waiting[w]] = @ \ {w}]
  /\ fired' = fired \ {w}
  /\ UNCHANGED <<status, fifo, cur, handler, cancelSet, gauge, up>>

(* Mutated: the answer is the result fetched before waiting.                 *)
WaitWakeCached(w) ==
  /\ up /\ waiting[w] # NoJob /\ w \in fired
  /\ Answers(w, "running")
  /\ Leaves(w)

(* The event is set: refetch and answer.                                     *)
WaitWake(w) ==
  /\ up /\ waiting[w] # NoJob /\ w \in fired
  /\ Answers(w, status[waiting[w]])
  /\ Leaves(w)

(* Mutated: a waiter that gives up discards the whole entry of its job.      *)
WaitTimeoutPops(w) ==
  /\ up /\ waiting[w] # NoJob
  /\ Answers(w, "408")
  /\ waiting' = [waiting EXCEPT ![w] = NoJob]
  /\ events' = [events EXCEPT ![waiting[w]] = {}]
  /\ fired' = fired \ {w}
  /\ UNCHANGED <<status, fifo, cur, handler, cancelSet, gauge, up>>

(* 408.  The timeout may win even when the event has just been set.          *)
WaitTimeout(w) ==
  /\ up /\ waiting[w] # NoJob
  /\ Answers(w, "408")
  /\ Leaves(w)

Next ==
  \/ Worker \/ HandlerEnds \/ Stop
  \/ \E j \in Jobs : Submit(j) \/ Cancel(j)
  \/ \E w \in Waiters :
       \/ WaitWake(w) \/ WaitTimeout(w)
       \/ \E j \in Jobs : WaitShort(w, j) \/ WaitBlock(w, j)

(* The worker runs whenever it can, so an endless handler is timed out; a    *)
(* client whose event is set is resumed.  Clients need not time out.         *)
Fairness == WF_vars(Worker) /\ \A w \in Waiters : WF_vars(WaitWake(w))

Spec == Init /\ [][Next]_vars /\ Fairness

-----------------------------------------------------------------------------
TypeOK ==
  /\ status \in [Jobs -> {"new"} \union Active \union Terminal]
  /\ fifo \in Seq(Jobs)
  /\ cur \in Jobs \union {NoJob}
  /\ handler \in {"none", "working", "returned", "raised"}
  /\ (cur = NoJob) <=> (handler = "none")
  /\ cancelSet \subseteq Jobs
  /\ waiting \in [Waiters -> Jobs \union {NoJob}]
  /\ events \in [Jobs -> SUBSET Waiters]
  /\ fired \subseteq Waiters
  /\ reply \in [Waiters -> [job : Jobs \union {NoJob},
                            status : {"none", "408", "new"} \union Active \union Terminal]]
  /\ gauge \in Int
  /\ up \in BOOLEAN

(* No lost wake-up: a client blocked on a job that has become terminal has   *)
(* its event set, however many clients wait and give up in between.          *)
NoLostWakeup ==
  \A w \in Waiters : waiting[w] # NoJob /\ status[waiting[w]] \in Terminal => w \in fired

(* The registry holds exactly the clients that still wait for a live job: it *)
(* does not leak the events of finished jobs or of clients that gave up.     *)
RegistryExact ==
  /\ \A j \in Jobs : status[j] \in Terminal => events[j] = {}
  /\ \A w \in Waiters, j \in Jobs : w \in events[j] <=> waiting[w] = j /\ w \notin fired

(* INV-LP-1 as clients see it: an answer other than 408 is the status the    *)
(* job has, and is final.                                                    *)
RepliesAreFinal ==
  \A w \in Waiters : reply[w].status \notin {"none", "408"} =>
    reply[w].status \in Terminal /\ reply[w].status = status[reply[w].job]

(* A job whose cancellation was accepted is never reported as completed.     *)
CancelHonoured == \A j \in cancelSet : status[j] # "completed"

(* stoat_active_jobs_count is the number of jobs not yet terminal: each path *)
(* through process_jobs decrements it once.                                  *)
GaugeExact == up => gauge = Cardinality({j \in Jobs : status[j] \in Active})

(* Every submitted job becomes terminal, unless the server stops first.      *)
JobsSettle == \A j \in Jobs : (status[j] \in Active) ~> (status[j] \in Terminal \/ ~up)

(* Every client that waits is answered, without having to time out.          *)
WaitersAnswered == \A w \in Waiters : (waiting[w] # NoJob) ~> (waiting[w] = NoJob)

(* The queue with its registry of events implements JobSpec.                 *)
Promise == INSTANCE JobSpec WITH
  Job <- Jobs, Waiter <- Waiters, st <- status, waitsFor <- waiting, answer <- reply

Implements == Promise!Spec
=============================================================================
