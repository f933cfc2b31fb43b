------------------------------- MODULE JobSpec ------------------------------
(* What the background job queue promises its clients: a job goes from       *)
(* pending through running to one final status and stays there, and who      *)
(* waits for it is answered with that final status or told to wait again.    *)
EXTENDS Naturals

CONSTANTS Job, Waiter, NoJob

VARIABLES
  st,      \* st[j]: the status of j
  waitsFor,\* waitsFor[w]: the job client w is blocked on, or NoJob
  answer   \* answer[w]: the last answer client w got, and about which job

vars == <<st, waitsFor, answer>>

Final == {"completed", "failed", "timeout", "cancelled"}

Init ==
  /\ st = [j \in Job |-> "new"]
  /\ waitsFor = [w \in Waiter |-> NoJob]
  /\ answer = [w \in Waiter |-> [job |-> NoJob, status |-> "none"]]

Moves(j, s) == st' = [st EXCEPT ![j] = s] /\ UNCHANGED <<waitsFor, answer>>

Submit(j) == st[j] = "new" /\ Moves(j, "pending")
Start(j)  == st[j] = "pending" /\ Moves(j, "running")
Settle(j) == st[j] \in {"pending", "running"} /\ \E s \in Final : Moves(j, s)

Block(w, j) ==
  /\ waitsFor[w] = NoJob /\ st[j] \in {"pending", "running"}
  /\ waitsFor' = [waitsFor EXCEPT ![w] = j]
  /\ UNCHANGED <<st, answer>>

(* At once or after blocking, the answer is the job's final status.          *)
Answer(w, j) ==
  /\ waitsFor[w] \in {NoJob, j} /\ st[j] \in Final
  /\ waitsFor' = [waitsFor EXCEPT ![w] = NoJob]
  /\ answer' = [answer EXCEPT ![w] = [job |-> j, status |-> st[j]]]
  /\ UNCHANGED st

GiveUp(w, j) ==
  /\ waitsFor[w] = j
  /\ waitsFor' = [waitsFor EXCEPT ![w] = NoJob]
  /\ answer' = [answer EXCEPT ![w] = [job |-> j, status |-> "408"]]
  /\ UNCHANGED st

Next ==
  \E j \in Job :
    \/ Submit(j) \/ Start(j) \/ Settle(j)
    \/ \E w \in Waiter : Block(w, j) \/ Answer(w, j) \/ GiveUp(w, j)

Spec == Init /\ [][Next]_vars
=============================================================================
