-------------------------- MODULE VisualGeneration --------------------------
(* Waveforms and thumbnail strips (api/services/waveform.py and thumbnail.py)*)
(* of one video and format: each POST starts a background task, which looks  *)
(* for a row to reuse and otherwise adds its own and generates.  The newest  *)
(* row of the table (db/waveform_repository.py, thumbnail_strip_repository)  *)
(* is the one that is shown.                                                 *)
EXTENDS MediaCalls

VARIABLES
  visual,      \* visual[r]: status of the row that request r added, or "absent"
  visualBorn,  \* visualBorn[r]: rank of its created_at, 0 without one
  visualTask,  \* visualTask[r]: place of the background task of r
  visualGone,  \* the video is deleted, and with it the rows (ON DELETE CASCADE)
  visualRaced, \* history: a task decided while another's row was on its way
  visualLost   \* history: requests whose task ended before its last update

visualVars == <<visual, visualBorn, visualTask, visualGone, visualRaced, visualLost>>

VisualTransitions == [pending |-> {"generating"}, generating |-> {"ready", "error"},
                      ready |-> {}, error |-> {}, absent |-> {}]

VisualInit ==
  /\ visual = [r \in Calls |-> "absent"]
  /\ visualBorn = [r \in Calls |-> 0]
  /\ visualTask = [r \in Calls |-> "none"]
  /\ visualGone = FALSE /\ visualRaced = FALSE /\ visualLost = {}

VisualGoes(r, pc) == visualTask' = [visualTask EXCEPT ![r] = pc]
At(pcs) == {r \in Calls : visualTask[r] \in pcs}
Rows == {r \in Calls : visual[r] # "absent"}

(* ORDER BY created_at DESC LIMIT 1                                          *)
Newest(r) == r \in Rows /\ \A q \in Rows : visualBorn[q] <= visualBorn[r]

(* POST of a video that exists: the task is added to the response.           *)
VisualPost ==
  /\ Called /\ ~visualGone
  /\ visualTask' = [visualTask EXCEPT ![calls'] = "check"]
  /\ UNCHANGED <<visual, visualBorn, visualGone, visualRaced, visualLost>>

(* The row is stamped when its object is made, before it is inserted.        *)
Decides(r, blocking) ==
  /\ visualTask[r] = "check"
  /\ IF \E q \in Calls : Newest(q) /\ visual[q] \in blocking
     THEN VisualGoes(r, "done") /\ UNCHANGED <<visualBorn, visualRaced>>
     ELSE /\ VisualGoes(r, "add")
          /\ \E rank \in 1 .. MaxCalls :
               /\ \A q \in Calls : visualBorn[q] < rank
               /\ \A k \in 1 .. MaxCalls : k < rank => \E q \in Calls : visualBorn[q] = k
               /\ visualBorn' = [visualBorn EXCEPT ![r] = rank]
          /\ visualRaced' = (visualRaced \/ At({"add", "start"}) # {})
  /\ UNCHANGED <<visual, visualGone, visualLost>>

(* Mutated: only a finished one is reused.                                   *)
VisualDecideReady(r) == Decides(r, {"ready"})
VisualDecide(r) == Decides(r, {"ready", "generating"})

(* The row of a deleted video is refused.                                    *)
VisualAdd(r) ==
  /\ visualTask[r] = "add"
  /\ IF visualGone THEN VisualGoes(r, "done") /\ UNCHANGED visual
     ELSE visual' = [visual EXCEPT ![r] = "pending"] /\ VisualGoes(r, "start")
  /\ UNCHANGED <<visualBorn, visualGone, visualRaced, visualLost>>

(* update_status: only its own task updates a row, which may be gone.        *)
VisualUpdates(r, st) ==
  visual' = IF st \in VisualTransitions[visual[r]] THEN [visual EXCEPT ![r] = st] ELSE visual

VisualStart(r) ==
  /\ visualTask[r] = "start"
  /\ VisualUpdates(r, "generating")
  /\ VisualGoes(r, IF visual[r] = "absent" THEN "done" ELSE "generate")
  /\ UNCHANGED <<visualBorn, visualGone, visualRaced, visualLost>>

(* FFmpeg succeeds.                                                          *)
VisualGenerated(r) ==
  /\ visualTask[r] = "generate"
  /\ VisualUpdates(r, "ready")
  /\ VisualGoes(r, "done")
  /\ UNCHANGED <<visualBorn, visualGone, visualRaced, visualLost>>

(* It cannot start, or ends with another code than 0.                        *)
VisualFails(r) ==
  /\ visualTask[r] = "generate"
  /\ VisualUpdates(r, "error")
  /\ VisualGoes(r, "done")
  /\ UNCHANGED <<visualBorn, visualGone, visualRaced, visualLost>>

(* An error outside the try statement: the directory or the JSON file cannot *)
(* be written.                                                               *)
VisualBreaks(r) ==
  /\ visualTask[r] = "generate"
  /\ visualLost' = visualLost \union {r}
  /\ VisualGoes(r, "done")
  /\ UNCHANGED <<visual, visualBorn, visualGone, visualRaced>>

(* DELETE /videos/{id}                                                       *)
VisualDelete ==
  /\ Called /\ ~visualGone
  /\ visualGone' = TRUE
  /\ visual' = [r \in Calls |-> "absent"]
  /\ UNCHANGED <<visualBorn, visualTask, visualRaced, visualLost>>

VisualServerEnds ==
  /\ visualTask' = [r \in Calls |-> IF visualTask[r] = "none" THEN "none" ELSE "done"]
  /\ visualLost' = visualLost \union At({"check", "add", "start", "generate"})
  /\ UNCHANGED <<visual, visualBorn, visualGone, visualRaced>>

VisualNext ==
  \/ VisualPost \/ VisualDelete
  \/ /\ SameCalls
     /\ \E r \in Calls : \/ VisualDecide(r) \/ VisualAdd(r) \/ VisualStart(r)
                         \/ VisualGenerated(r) \/ VisualFails(r) \/ VisualBreaks(r)

-----------------------------------------------------------------------------
(* Properties.                                                               *)

VisualTypeOK ==
  /\ visual \in [Calls -> DOMAIN VisualTransitions]
  /\ visualBorn \in [Calls -> 0 .. MaxCalls]
  /\ visualTask \in [Calls -> {"none", "check", "add", "start", "generate", "done"}]
  /\ visualGone \in BOOLEAN /\ visualRaced \in BOOLEAN /\ visualLost \subseteq Calls

(* A row GENERATING has its task, and unless two requests raced, the row that*)
(* is at work or READY is the one that is shown: no failed duplicate hides it*)
VisualOwned ==
  /\ \A r \in Calls \ visualLost : visual[r] = "generating" => visualTask[r] = "generate"
  /\ ~visualRaced => \A r \in Calls : visual[r] \in {"ready", "generating"} => Newest(r)
=============================================================================
