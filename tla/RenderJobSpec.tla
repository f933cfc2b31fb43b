---------------------------- MODULE RenderJobSpec ---------------------------
(* What the render queue promises about each job, whatever the tasks of the  *)
(* server do: its status moves along the documented state machine, at most   *)
(* MaxConcurrent jobs run, a job is queued again at most MaxRetries times,   *)
(* and a client is never told that a job completed or was cancelled while    *)
(* its row says something else.  RenderLifecycle implements this with the    *)
(* atomic repository.                                                        *)
EXTENDS RenderJobs, FiniteSets

CONSTANTS Job, MaxRetries, MaxConcurrent

VARIABLES
  st,      \* st[j]: the status of j, "none" before it is stored or once deleted
  retry,   \* retry[j]: how often j has been queued again
  told     \* told[j]: the terminal events clients have received for j

vars == <<st, retry, told>>

Init ==
  /\ st = [j \in Job |-> "none"]
  /\ retry = [j \in Job |-> 0]
  /\ told = [j \in Job |-> {}]

Running == {j \in Job : st[j] = "running"}

Becomes(j, s) == st' = [st EXCEPT ![j] = s] /\ UNCHANGED <<retry, told>>

Submit(j) == st[j] = "none" /\ retry[j] = 0 /\ Becomes(j, "queued")

Claim(j) ==
  st[j] = "queued" /\ Cardinality(Running) < MaxConcurrent /\ Becomes(j, "running")

Finish(j) ==
  st[j] = "running" /\ \E s \in {"completed", "failed"} : Becomes(j, s)

RejectByQC(j) == st[j] = "completed" /\ Becomes(j, "qc_failed")

Cancel(j) == st[j] \in {"queued", "running"} /\ Becomes(j, "cancelled")

Requeue(j) ==
  /\ st[j] = "failed" /\ retry[j] < MaxRetries
  /\ st' = [st EXCEPT ![j] = "queued"]
  /\ retry' = [retry EXCEPT ![j] = @ + 1]
  /\ UNCHANGED told

Delete(j) ==
  /\ st[j] # "none"
  /\ st' = [st EXCEPT ![j] = "none"]
  /\ retry' = [retry EXCEPT ![j] = 0]
  /\ UNCHANGED told

Recover ==
  /\ st' = [j \in Job |-> IF st[j] = "running" THEN "failed" ELSE st[j]]
  /\ UNCHANGED <<retry, told>>

(* The statuses a row may have when the event is broadcast.  A failed job    *)
(* may already have been queued again, so "failed" promises nothing.         *)
Truth(e) ==
  CASE e = "completed" -> {"completed", "qc_failed", "none"}
    [] e = "cancelled" -> {"cancelled", "none"}
    [] e = "failed"    -> Status

Tell(j, e) ==
  /\ st[j] \in Truth(e)
  /\ told' = [told EXCEPT ![j] = @ \union {e}]
  /\ UNCHANGED <<st, retry>>

Next ==
  \/ Recover
  \/ \E j \in Job :
       \/ Submit(j) \/ Claim(j) \/ Finish(j) \/ RejectByQC(j) \/ Cancel(j)
       \/ Requeue(j) \/ Delete(j)
       \/ \E e \in {"completed", "cancelled", "failed"} : Tell(j, e)

Spec == Init /\ [][Next]_vars
=============================================================================
