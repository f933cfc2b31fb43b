----------------------------- MODULE RenderJobs -----------------------------
(* The persistent record of a render job and what one repository call does   *)
(* to it: render/models.py and render/render_repository.py.  Everything here *)
(* is a pure definition; RenderLifecycle gives the calls their interleaving. *)
EXTENDS Naturals

(* RenderStatus, plus "none" for a job that has no row (never stored, or     *)
(* deleted).                                                                 *)
Status == {"none", "queued", "running", "completed", "failed", "cancelled",
           "qc_failed"}

(* _VALID_TRANSITIONS: from a status to the statuses update_status may write.*)
(* A missing row allows none, so that the "not found" ValueError and the     *)
(* illegal-transition ValueError are the same refusal.                       *)
ValidTransitions ==
  [none      |-> {},
   queued    |-> {"running", "cancelled"},
   running   |-> {"completed", "failed", "cancelled", "qc_failed"},
   failed    |-> {"queued"},
   completed |-> {"qc_failed"},
   cancelled |-> {},
   qc_failed |-> {}]

(* The columns of a row that the properties tell apart: the status, the      *)
(* retry count, which encode attempt evidence_json describes (0: NULL), and  *)
(* partial_file_detected.                                                    *)
Rows == [st : Status, retry : Nat, evid : Nat, partial : BOOLEAN]

RowOf(st, retry, evid, partial) ==
  [st |-> st, retry |-> retry, evid |-> evid, partial |-> partial]

NoRow  == RowOf("none", 0, 0, FALSE)
NewRow == RowOf("queued", 0, 0, FALSE)

(* Mutated: validate_render_transition is not called.                        *)
AcceptsAny(r, target) == r.st # "none"

(* update_status, its check: the row is there and the transition is legal.   *)
Accepts(r, target) == target \in ValidTransitions[r.st]

(* Mutated: requeueing forgets to count.                                     *)
RetryForKept(r, target) == r.retry

(* update_status, what its UPDATE will write to retry_count: computed from   *)
(* the row that the check read, one more when a failed job is queued again.  *)
RetryFor(r, target) ==
  IF target = "queued" /\ r.st = "failed" THEN r.retry + 1 ELSE r.retry

(* The UPDATE ... WHERE id = ?: unconditional on the current status, and     *)
(* without effect when the row is gone.                                      *)
Written(r, target, retry) ==
  IF r.st = "none" THEN r ELSE RowOf(target, retry, r.evid, r.partial)

(* update_evidence and update_partial_signal: no effect when the row is gone.*)
WithEvidence(r, attempt) ==
  IF r.st = "none" THEN r ELSE RowOf(r.st, r.retry, attempt, r.partial)

WithPartial(r, detected) ==
  IF r.st = "none" THEN r ELSE RowOf(r.st, r.retry, r.evid, detected)

(* Mutated: recover leaves the row alone.                                    *)
RecoveredNot(r) == r

(* RenderQueue.recover on one row.                                           *)
Recovered(r) ==
  IF r.st = "running" THEN Written(r, "failed", RetryFor(r, "failed")) ELSE r
=============================================================================
