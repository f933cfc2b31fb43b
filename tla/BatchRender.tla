---------------------------- MODULE BatchRender -----------------------------
(* Batch rendering (api/routers/batch.py): the tasks of one batch behind its *)
(* semaphore, the requests that cancel a job, and the rows of batch_jobs     *)
(* (db/batch_repository.py), whose update_status validates the row it reads  *)
(* and then updates whatever is there.                                       *)
EXTENDS MediaCalls, FiniteSets

CONSTANTS
  BatchJobs,     \* the jobs of the batch
  ParallelLimit  \* settings.batch_parallel_limit

ASSUME BatchAssumption == IsFiniteSet(BatchJobs) /\ ParallelLimit \in Nat \ {0}

VARIABLES
  batchJob,    \* batchJob[j]: status of the row, or "absent"
  batchTask,   \* batchTask[j]: place of the task of j
  batchCall,   \* batchCall[r]: place of cancel request r, its job, the status
               \* that its 200 response says
  batchTorn,   \* history: jobs whose task was cancelled between its read of
               \* QUEUED and its handler, or again while it cleaned up
  batchLost    \* history: jobs of an earlier life of the server

batchVars == <<batchJob, batchTask, batchCall, batchTorn, batchLost>>

BatchTransitions == [queued |-> {"running", "cancelled"},
                     running |-> {"completed", "failed", "cancelled"},
                     completed |-> {}, failed |-> {}, cancelled |-> {}, absent |-> {}]
Final == {"completed", "failed", "cancelled"}
May(j, st) == st \in BatchTransitions[batchJob[j]]

NoCancel == [pc |-> "none", j |-> "none", says |-> "none"]

BatchInit ==
  /\ batchJob = [j \in BatchJobs |-> "absent"]
  /\ batchTask = [j \in BatchJobs |-> "none"]
  /\ batchCall = [r \in Calls |-> NoCancel]
  /\ batchTorn = {} /\ batchLost = {}

TaskAlive(j) == batchTask[j] \notin {"none", "done"}
TaskGoes(j, pc) == batchTask' = [batchTask EXCEPT ![j] = pc]
Sets(j, st) == batchJob' = [batchJob EXCEPT ![j] = st]
OnlyTasks == UNCHANGED <<batchCall, batchTorn, batchLost>>

(* POST /render/batch: all rows, then all tasks.                             *)
BatchCreate ==
  /\ Called
  /\ \A j \in BatchJobs : batchJob[j] = "absent"
  /\ batchJob' = [j \in BatchJobs |-> "queued"]
  /\ batchTask' = [j \in BatchJobs |-> "unborn"]
  /\ OnlyTasks

BatchSpawn ==
  /\ \E j \in BatchJobs : batchTask[j] = "unborn"
  /\ batchTask' = [j \in BatchJobs |-> "waiting"]
  /\ UNCHANGED batchJob /\ OnlyTasks

-----------------------------------------------------------------------------
(* _run_batch_job.                                                           *)

Holding == {j \in BatchJobs : batchTask[j] \notin {"none", "unborn", "waiting", "done"}}

(* Mutated: the semaphore is not awaited.                                    *)
BatchAcquireAny(j) ==
  /\ batchTask[j] = "waiting"
  /\ TaskGoes(j, IF batchJob[j] = "queued" THEN "start" ELSE "done")
  /\ UNCHANGED batchJob /\ OnlyTasks

BatchAcquire(j) ==
  /\ batchTask[j] = "waiting" /\ Cardinality(Holding) < ParallelLimit
  /\ TaskGoes(j, IF batchJob[j] = "queued" THEN "start" ELSE "done")
  /\ UNCHANGED batchJob /\ OnlyTasks

(* update_status reads and validates: at "start", outside the try statement, *)
(* a refusal ends the task; after the handler it leads to the except clause, *)
(* whose own refusal ends the task.                                          *)
BatchValidate(j) ==
  /\ \/ /\ batchTask[j] = "start"
        /\ TaskGoes(j, IF May(j, "running") THEN "starting" ELSE "done")
     \/ /\ batchTask[j] = "handled"
        /\ TaskGoes(j, IF May(j, "completed") THEN "completing" ELSE "broken")
     \/ /\ batchTask[j] = "broken"
        /\ TaskGoes(j, IF May(j, "failed") THEN "failing" ELSE "done")
     \/ /\ batchTask[j] = "cancelled"
        /\ TaskGoes(j, IF May(j, "cancelled") /\ batchJob[j] = "running"
                       THEN "cancelling" ELSE "done")
  /\ UNCHANGED batchJob /\ OnlyTasks

BatchWrite(j) ==
  /\ \/ batchTask[j] = "starting" /\ Sets(j, "running") /\ TaskGoes(j, "committing")
     \/ batchTask[j] = "completing" /\ Sets(j, "completed") /\ TaskGoes(j, "done")
     \/ batchTask[j] = "failing" /\ Sets(j, "failed") /\ TaskGoes(j, "done")
     \/ batchTask[j] = "cancelling" /\ Sets(j, "cancelled") /\ TaskGoes(j, "done")
  /\ OnlyTasks

BatchCommitted(j) ==
  /\ batchTask[j] = "committing"
  /\ TaskGoes(j, "handling")
  /\ UNCHANGED batchJob /\ OnlyTasks

BatchHandled(j) ==
  /\ batchTask[j] = "handling"
  /\ \E pc \in {"handled", "broken"} : TaskGoes(j, pc)
  /\ UNCHANGED batchJob /\ OnlyTasks

(* What task.cancel() does to the task: before the inner try statement, and  *)
(* in its except clause, the task ends where it is.                          *)
Interrupted(j) ==
  [batchTask EXCEPT ![j] = IF @ \in {"handling", "handled", "completing"} THEN "cancelled"
                           ELSE IF @ \in {"none", "done"} THEN @ ELSE "done"]
Tears(j) == IF batchTask[j] \in {"starting", "committing", "broken", "failing", "cancelled",
                                 "cancelling"}
            THEN batchTorn \union {j} ELSE batchTorn

-----------------------------------------------------------------------------
(* DELETE /render/batch/{job_id}.                                            *)

CancelGoes(r, pc) == batchCall' = [batchCall EXCEPT ![r].pc = pc]

CancelAnswers(r, j) ==
  batchCall' = [batchCall EXCEPT ![r] = [pc |-> "done", j |-> j, says |-> batchJob[j]]]

(* Clients learn the job ids from the response, when the tasks exist.        *)
CancelRead(j) ==
  /\ Called
  /\ batchJob[j] # "absent" /\ batchTask[j] # "unborn"
  /\ IF batchJob[j] = "running" /\ TaskAlive(j)
     THEN batchTask' = Interrupted(j) /\ batchTorn' = Tears(j)
     ELSE UNCHANGED <<batchTask, batchTorn>>
  /\ batchCall' = [batchCall EXCEPT ![calls'] =
       [pc |-> CASE batchJob[j] \in Final -> "done"
                 [] batchJob[j] = "queued" -> "mark"
                 [] OTHER -> IF TaskAlive(j) THEN "await" ELSE "mark",
        j |-> j, says |-> "none"]]
  /\ UNCHANGED <<batchJob, batchLost>>

CancelValidate(r) ==
  /\ batchCall[r].pc = "mark"
  /\ IF May(batchCall[r].j, "cancelled") THEN CancelGoes(r, "marking")
     ELSE batchCall' = [batchCall EXCEPT ![r] = NoCancel]
  /\ UNCHANGED <<batchJob, batchTask, batchTorn, batchLost>>

CancelWrite(r) ==
  /\ batchCall[r].pc = "marking"
  /\ Sets(batchCall[r].j, "cancelled")
  /\ CancelGoes(r, "interrupt")
  /\ UNCHANGED <<batchTask, batchTorn, batchLost>>

(* Mutated: the task of a queued job is left to find out for itself.         *)
CancelLeavesTask(r) ==
  /\ batchCall[r].pc = "interrupt"
  /\ CancelGoes(r, "answer")
  /\ UNCHANGED <<batchJob, batchTask, batchTorn, batchLost>>

CancelInterrupt(r) ==
  LET j == batchCall[r].j IN
  /\ batchCall[r].pc = "interrupt"
  /\ batchTask' = Interrupted(j)
  /\ batchTorn' = Tears(j)
  /\ CancelGoes(r, "answer")
  /\ UNCHANGED <<batchJob, batchLost>>

CancelAnswer(r) ==
  /\ \/ batchCall[r].pc = "answer"
     \/ batchCall[r].pc = "await" /\ ~TaskAlive(batchCall[r].j)
  /\ CancelAnswers(r, batchCall[r].j)
  /\ UNCHANGED <<batchJob, batchTask, batchTorn, batchLost>>

(* The tasks end with the loop, the database is closed, the rows stay.       *)
BatchServerEnds ==
  /\ batchTask' = [j \in BatchJobs |-> IF TaskAlive(j) THEN "done" ELSE batchTask[j]]
  /\ batchCall' = [r \in Calls |-> IF batchCall[r].pc = "done" THEN batchCall[r] ELSE NoCancel]
  /\ batchLost' = batchLost \union {j \in BatchJobs : TaskAlive(j)}
  /\ UNCHANGED <<batchJob, batchTorn>>

BatchNext ==
  \/ BatchCreate \/ \E j \in BatchJobs : CancelRead(j)
  \/ /\ SameCalls
     /\ \/ BatchSpawn
        \/ \E j \in BatchJobs : \/ BatchAcquire(j) \/ BatchValidate(j) \/ BatchWrite(j)
                                \/ BatchCommitted(j) \/ BatchHandled(j)
        \/ \E r \in Calls : \/ CancelValidate(r) \/ CancelWrite(r) \/ CancelInterrupt(r)
                            \/ CancelAnswer(r)

-----------------------------------------------------------------------------
(* Properties.                                                               *)

BatchTypeOK ==
  /\ batchJob \in [BatchJobs -> DOMAIN BatchTransitions]
  /\ batchTask \in [BatchJobs -> {"none", "unborn", "waiting", "start", "starting",
       "committing", "handling", "handled", "completing", "broken", "failing", "cancelled",
       "cancelling", "done"}]
  /\ \A r \in Calls :
       /\ batchCall[r].pc \in {"none", "mark", "marking", "interrupt", "await", "answer", "done"}
       /\ batchCall[r].j \in BatchJobs \union {"none"}
  /\ batchTorn \subseteq BatchJobs /\ batchLost \subseteq BatchJobs
  /\ Cardinality(Holding) <= ParallelLimit

(* A client whose cancel request was answered 200 "cancelled" can rely on it:*)
(* the job stays cancelled and its handler does not run any more.            *)
CancelAnswersStand ==
  \A r \in Calls : batchCall[r].pc = "done" /\ batchCall[r].says = "cancelled" =>
    /\ batchJob[batchCall[r].j] = "cancelled"
    /\ batchTask[batchCall[r].j] \notin {"committing", "handling"}

BatchOwned ==
  \A j \in BatchJobs \ (batchTorn \union batchLost) :
    batchJob[j] \in {"queued", "running"} => TaskAlive(j)
=============================================================================
