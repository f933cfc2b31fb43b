---------------------------- MODULE RenderProps -----------------------------
(* The properties of RenderLifecycle.                                        *)
EXTENDS RenderLifecycle

(* A task is at one of its own places, and has a job unless it is at rest.   *)
TaskOK ==
  /\ task \in [Tasks -> [pc : WorkerPCs \union RequestPCs \union SweeperPCs,
                         job : Jobs \union {NoJob},
                         pend : Nat \union {NoRead}]]
  /\ \A t \in Tasks : /\ task[t].pc \in PCs[t]
                      /\ task[t].pc \notin {"idle", "dead"} => task[t].job \in Jobs

TypeOK ==
  /\ row \in [Jobs -> Rows]
  /\ sub \in [Jobs -> {"new", "insert", "done"}]
  /\ TaskOK
  /\ ok \in BOOLEAN /\ err \in BOOLEAN
  /\ proc \in [Jobs -> {"none", "running", "quitting", "ok", "err"}]
  /\ out \in [Jobs -> {"absent", "partial", "whole"}]
  /\ sent \in [Jobs -> SUBSET {"completed", "failed", "cancelled"}]
  /\ attempts \in [Jobs -> 0 .. Cap]
  /\ app \in {"up", "grace", "killed", "down"}
  /\ stops \in 0 .. MaxStops

(* The places where the worker is responsible for a job whose row it set to  *)
(* RUNNING and has not yet moved on.                                         *)
Owning == {"fetch", "prepare", "exec", "persist", "complete", "handle", "fail",
           "final"}

(* A RUNNING row always has the worker behind it: however cancel, retry,     *)
(* delete, sweep and crash interleave with the worker, no path of run_job,   *)
(* _handle_failure or _handle_job_error abandons a job that still says       *)
(* RUNNING.  (An abandoned one holds its slot in get_active_count.)          *)
RunningIsOwned ==
  app # "down" =>
    \A j \in Jobs : row[j].st = "running" =>
      task["worker"].job = j /\ task["worker"].pc \in Owning

(* An FFmpeg process in _active_processes is the one the worker waits for:   *)
(* neither a refused update nor a cancel leaves an encode behind.            *)
EncodeIsAwaited ==
  \A j \in Jobs : Live(j) => task["worker"].pc = "exec" /\ task["worker"].job = j

(* A COMPLETED row has an output file and the evidence of the attempt that   *)
(* produced it, whatever late UPDATEs of other tasks hit the row.            *)
CompletedHasOutput ==
  \A j \in Jobs : row[j].st = "completed" =>
    out[j] # "absent" /\ row[j].evid = attempts[j]

(* A job is encoded at most once per time it was queued, and no interleaving *)
(* of the worker's own retry with the retry route queues it more often than  *)
(* render_retry_count allows: both draw on one budget.                       *)
AttemptsBounded ==
  \A j \in Jobs : row[j].st # "none" =>
    attempts[j] <= row[j].retry + 1 /\ row[j].retry <= MaxRetries

(* A completed or cancelled event is true for good: the row it announced     *)
(* stays so (or is deleted), and no client ever hears both.                  *)
AnnouncementsHold ==
  \A j \in Jobs :
    /\ "cancelled" \in sent[j] => row[j].st \in {"cancelled", "none"}
    /\ "completed" \in sent[j] => row[j].st \in {"completed", "qc_failed", "none"}

(* models.py: "cancelled and qc_failed are terminal - no transitions from    *)
(* either"; only deletion ends them.                                         *)
FinalIsFinal ==
  [][\A j \in Jobs : row[j].st \in {"cancelled", "qc_failed"} =>
       row'[j].st \in {row[j].st, "none"}]_vars

(* With no more stops to come and a worker that lives, a queued job is       *)
(* taken (or cancelled): nothing keeps the only slot busy for ever.          *)
Settled == stops = MaxStops /\ app = "up" /\ task["worker"].pc # "dead"
QueuedJobMoves ==
  \A j \in Jobs :
    (Settled /\ row[j].st = "queued") ~>
      (row[j].st # "queued" \/ task["worker"].pc = "dead")

(* A RUNNING row does not stay RUNNING: the encode ends, is cancelled, or    *)
(* the restart fails it.                                                     *)
RunningEnds ==
  \A j \in Jobs : (row[j].st = "running") ~> (row[j].st # "running")

(* A cancel or retry request gives _state_transition_lock back.              *)
LockReleased == (task["request"].pc # "idle") ~> (task["request"].pc = "idle")

(* worker.py: "Run the worker loop until cancelled": no error of one job ends*)
(* the loop.  The code does not keep this.                                   *)
WorkerSurvives == task["worker"].pc # "dead"

(* The server, with the atomic repository, implements RenderJobSpec: every   *)
(* step moves one job along the documented state machine within its budget,  *)
(* or recovers, or tells clients something true, or does none of these.      *)
Abstract == INSTANCE RenderJobSpec WITH
  Job <- Jobs,
  st <- [j \in Jobs |-> row[j].st],
  retry <- [j \in Jobs |-> row[j].retry],
  told <- sent

Implements == Abstract!Spec
=============================================================================
