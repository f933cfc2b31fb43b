--------------------------- MODULE JobQueueProofs ---------------------------
(* Proofs about JobQueue, for any set of jobs and clients: its type          *)
(* correctness, its safety invariants, and that it implements JobSpec.       *)
EXTENDS JobQueue, FiniteSetTheorems, TLAPS

-----------------------------------------------------------------------------
(* The inductive invariant.                                                  *)

(* The queue holds each pending job at most once and no other job; the job   *)
(* the worker is at is running.  Without it a step of the worker could       *)
(* return a finished job to running.                                         *)
QueueOK ==
  /\ \A i \in 1..Len(fifo) : status[fifo[i]] = "pending"
  /\ \A i, k \in 1..Len(fifo) : fifo[i] = fifo[k] => i = k
  /\ cur # NoJob => status[cur] = "running"

(* An event is set only for a client that waits, once its job is terminal.   *)
FiredOK == \A w \in fired : waiting[w] # NoJob /\ status[waiting[w]] \in Terminal

(* A status is only ever given as the answer about some job.                 *)
AnswersName == \A w \in Waiters : reply[w].status \notin {"none", "408"} => reply[w].job \in Jobs

Waits == FiredOK /\ NoLostWakeup /\ RegistryExact
Answered == AnswersName /\ RepliesAreFinal

(* A step never takes a job out of a terminal status.                        *)
KeepsFinal == \A j \in Jobs : status[j] \in Terminal => status'[j] = status[j]

-----------------------------------------------------------------------------
(* The program stays within its types.                                       *)
THEOREM Typing == Spec => []TypeOK
<1>1. Init => TypeOK
  BY JobAssumption DEF Init, TypeOK, Active, Terminal
<1>2. ASSUME TypeOK, [Next]_vars PROVE TypeOK'
  <2> USE <1>2, JobAssumption DEF TypeOK, Active, Terminal
  <2>0. ASSUME fifo # <<>>
        PROVE Head(fifo) \in Jobs /\ Tail(fifo) \in Seq(Jobs) /\ Head(fifo) # NoJob
    BY <2>0
  <2>1. ASSUME NEW j \in Jobs, Submit(j) PROVE TypeOK'
    BY <2>1 DEF Submit, waitVars
  <2>2. ASSUME NEW j \in Jobs, Cancel(j) PROVE TypeOK'
    BY <2>2 DEF Cancel, waitVars
  <2>3. CASE TakeHandled
    BY <2>0, <2>3 DEF TakeHandled, waitVars
  <2>4. CASE TakeUnhandled
    BY <2>0, <2>4 DEF TakeUnhandled, Notify, waitVars
  <2>5. CASE HandlerEnds
    BY <2>5 DEF HandlerEnds, waitVars
  <2>6. ASSUME NEW s \in Terminal, handler # "none", Settle(s) PROVE TypeOK'
    BY <2>6 DEF Settle, Notify, waitVars
  <2>7. CASE Completed \/ Cancelled \/ Failed \/ TimedOut
    BY <2>6, <2>7 DEF Completed, Cancelled, Failed, TimedOut
  <2>8. CASE Stop
    <3>1. CASE cur = NoJob
      BY <2>8, <3>1 DEF Stop, waitVars
    <3>2. CASE cur # NoJob
      <4>1. /\ cur \in Jobs
            /\ Notify(cur) /\ gauge' = gauge - 1
            /\ cur' = NoJob /\ handler' = "none" /\ up' = FALSE
            /\ UNCHANGED <<status, fifo, cancelSet, waiting, reply>>
        BY <2>8, <3>2 DEF Stop, waitVars
      <4>2. /\ events' \in [Jobs -> SUBSET Waiters]
            /\ fired' \subseteq Waiters
        BY <4>1 DEF Notify
      <4>3. up' \in BOOLEAN
        BY <4>1, Zenon
      <4>4. gauge' \in Int
        BY <4>1
      <4> QED
        BY <4>1, <4>2, <4>3, <4>4, Zenon
    <3> QED
      BY <3>1, <3>2
  <2>9. ASSUME NEW w \in Waiters, NEW j \in Jobs, WaitShort(w, j) PROVE TypeOK'
    BY <2>9 DEF WaitShort
  <2>10. ASSUME NEW w \in Waiters, NEW j \in Jobs, WaitBlock(w, j) PROVE TypeOK'
    BY <2>10 DEF WaitBlock
  <2>11. ASSUME NEW w \in Waiters, WaitWake(w) PROVE TypeOK'
    BY <2>11 DEF WaitWake, Answers, Leaves
  <2>12. ASSUME NEW w \in Waiters, WaitTimeout(w) PROVE TypeOK'
    BY <2>12 DEF WaitTimeout, Answers, Leaves
  <2>13. CASE UNCHANGED vars
    BY <2>13 DEF vars, waitVars
  <2> QED
    BY <2>1, <2>2, <2>3, <2>4, <2>5, <2>7, <2>8, <2>9, <2>10, <2>11, <2>12, <2>13
    DEF Next, Worker
<1> QED
  BY <1>1, <1>2, PTL DEF Spec
-----------------------------------------------------------------------------
(* What the pieces of a step of the worker do, as the proofs below use it.   *)

(* Taking a job off the queue: it was pending, and the rest still is.        *)
LEMMA Taking ==
  ASSUME TypeOK, QueueOK, fifo # <<>>
  PROVE  /\ Head(fifo) \in Jobs
         /\ status[Head(fifo)] = "pending"
         /\ Tail(fifo) \in Seq(Jobs)
         /\ Len(Tail(fifo)) = Len(fifo) - 1
         /\ \A i \in 1..Len(Tail(fifo)) :
              Tail(fifo)[i] = fifo[i + 1] /\ Tail(fifo)[i] # Head(fifo)
BY DEF TypeOK, QueueOK

(* Settling a job: it was running, and it takes a terminal status.           *)
LEMMA Settling ==
  ASSUME TypeOK, QueueOK, Completed \/ Cancelled \/ Failed \/ TimedOut
  PROVE  /\ up
         /\ cur \in Jobs /\ status[cur] = "running"
         /\ \E s \in Terminal : Settle(s) /\ (s = "completed" => cur \notin cancelSet)
<1>1. cur # NoJob
  BY DEF TypeOK, Completed, Cancelled, Failed, TimedOut
<1>2. up
  BY DEF Completed, Cancelled, Failed, TimedOut
<1>3. \E s \in Terminal : Settle(s) /\ (s = "completed" => cur \notin cancelSet)
  BY DEF Completed, Cancelled, Failed, TimedOut, Terminal
<1> QED
  BY <1>1, <1>2, <1>3 DEF TypeOK, QueueOK

(* Stopping: nobody waits, so no event is registered and none is set.        *)
LEMMA Stopping ==
  ASSUME TypeOK, FiredOK, RegistryExact, Stop
  PROVE  /\ up' = FALSE /\ cur' = NoJob
         /\ UNCHANGED <<status, fifo, cancelSet, waiting, reply>>
         /\ \A w \in Waiters : waiting[w] = NoJob
         /\ events' = events /\ fired' = fired /\ fired = {}
<1>1. /\ up' = FALSE /\ cur' = NoJob
      /\ UNCHANGED <<status, fifo, cancelSet, waiting, reply>>
      /\ \A w \in Waiters : waiting[w] = NoJob
  BY DEF Stop, waitVars
<1>2. fired = {}
  BY <1>1 DEF FiredOK, TypeOK
<1>3. \A j \in Jobs : events[j] = {}
  BY <1>1, JobAssumption DEF RegistryExact, TypeOK
<1>4. CASE cur = NoJob
  BY <1>1, <1>2, <1>4 DEF Stop
<1>5. CASE cur # NoJob
  <2>1. Notify(cur) /\ cur \in Jobs
    BY <1>5 DEF Stop, TypeOK
  <2>2. events' = events /\ fired' = fired
    BY <1>3, <2>1 DEF Notify, TypeOK
  <2> QED
    BY <1>1, <1>2, <2>2
<1> QED
  BY <1>4, <1>5

-----------------------------------------------------------------------------
(* The queue.                                                                *)

LEMMA QueueStep ==
  ASSUME TypeOK, QueueOK, [Next]_vars
  PROVE  QueueOK' /\ KeepsFinal
<1> USE JobAssumption DEF TypeOK
<1> DEFINE Same == UNCHANGED <<status, fifo, cur>>
<1>0. ASSUME Same PROVE QueueOK' /\ KeepsFinal
  BY <1>0 DEF QueueOK, KeepsFinal
<1>1. ASSUME NEW j \in Jobs, Submit(j) PROVE QueueOK' /\ KeepsFinal
  <2>1. /\ status[j] = "new" /\ status' = [status EXCEPT ![j] = "pending"]
        /\ fifo' = Append(fifo, j) /\ cur' = cur
    BY <1>1 DEF Submit
  <2>2. \A i \in 1..Len(fifo) : fifo[i] # j
    BY <2>1 DEF QueueOK
  <2>3. /\ Len(fifo') = Len(fifo) + 1 /\ fifo'[Len(fifo) + 1] = j
        /\ \A i \in 1..Len(fifo) : fifo'[i] = fifo[i]
    BY <2>1
  <2>4. \A i \in 1..Len(fifo) : status'[fifo'[i]] = "pending"
    BY <2>1, <2>2, <2>3 DEF QueueOK
  <2>5. \A i \in 1..Len(fifo') : status'[fifo'[i]] = "pending"
    BY <2>1, <2>3, <2>4
  <2>6. \A i, k \in 1..Len(fifo') : fifo'[i] = fifo'[k] => i = k
    BY <2>2, <2>3, SMTT(40) DEF QueueOK
  <2>7. (cur # NoJob => status[cur] = "running")'
    BY <2>1 DEF QueueOK
  <2> QED
    BY <2>1, <2>5, <2>6, <2>7 DEF QueueOK, KeepsFinal, Terminal
<1>2. ASSUME fifo # <<>>, fifo' = Tail(fifo), NEW s \in {"running", "failed"},
             status' = [status EXCEPT ![Head(fifo)] = s], cur = NoJob,
             cur' = IF s = "running" THEN Head(fifo) ELSE NoJob
      PROVE  QueueOK' /\ KeepsFinal
  <2>1. /\ Head(fifo) \in Jobs /\ status[Head(fifo)] = "pending"
        /\ Len(fifo') = Len(fifo) - 1
        /\ \A i \in 1..Len(fifo') : fifo'[i] = fifo[i + 1] /\ fifo'[i] # Head(fifo)
    BY <1>2, Taking
  <2>2. \A i \in 1..Len(fifo') : i + 1 \in 1..Len(fifo)
    BY <2>1
  <2>3. \A i \in 1..Len(fifo') : status'[fifo'[i]] = "pending"
    BY <1>2, <2>1, <2>2 DEF QueueOK
  <2>4. \A i, k \in 1..Len(fifo') : fifo'[i] = fifo'[k] => i = k
    BY <2>1, <2>2 DEF QueueOK
  <2>5. (cur # NoJob => status[cur] = "running")'
    BY <1>2, <2>1
  <2>6. KeepsFinal
    BY <1>2, <2>1 DEF KeepsFinal, Terminal
  <2> QED
    BY <2>3, <2>4, <2>5, <2>6 DEF QueueOK
<1>3. CASE TakeHandled
  BY <1>2, <1>3 DEF TakeHandled
<1>4. CASE TakeUnhandled
  BY <1>2, <1>4 DEF TakeUnhandled
<1>5. CASE Completed \/ Cancelled \/ Failed \/ TimedOut
  <2>1. /\ cur \in Jobs /\ status[cur] = "running"
        /\ \E s \in Terminal : status' = [status EXCEPT ![cur] = s]
        /\ cur' = NoJob /\ fifo' = fifo
    BY <1>5, Settling DEF Settle
  <2>2. \A i \in 1..Len(fifo) : fifo[i] # cur
    BY <2>1 DEF QueueOK
  <2> QED
    BY <2>1, <2>2 DEF QueueOK, KeepsFinal, Terminal
<1>6. CASE Stop
  BY <1>6 DEF Stop, QueueOK, KeepsFinal
<1>7. CASE HandlerEnds \/ (\E j \in Jobs : Cancel(j)) \/ UNCHANGED vars
  BY <1>0, <1>7 DEF HandlerEnds, Cancel, vars
<1>8. ASSUME NEW w \in Waiters, NEW j \in Jobs, WaitShort(w, j) \/ WaitBlock(w, j)
      PROVE  QueueOK' /\ KeepsFinal
  BY <1>0, <1>8 DEF WaitShort, WaitBlock
<1>9. ASSUME NEW w \in Waiters, WaitWake(w) \/ WaitTimeout(w)
      PROVE  QueueOK' /\ KeepsFinal
  BY <1>0, <1>9 DEF WaitWake, WaitTimeout, Leaves
<1> QED
  BY <1>1, <1>3, <1>4, <1>5, <1>6, <1>7, <1>8, <1>9 DEF Next, Worker

-----------------------------------------------------------------------------
(* The waiting clients and the registry of events.                           *)

(* A job becomes terminal and its waiters are notified.                      *)
LEMMA NotifyStep ==
  ASSUME TypeOK, Waits, NEW j \in Jobs, NEW s \in Terminal,
         status' = [status EXCEPT ![j] = s], Notify(j), waiting' = waiting
  PROVE  Waits'
<1> USE DEF TypeOK
<1>1. /\ status'[j] \in Terminal /\ events'[j] = {}
      /\ \A k \in Jobs \ {j} : status'[k] = status[k] /\ events'[k] = events[k]
      /\ fired' = fired \union events[j]
  BY DEF Notify
<1>2. \A w \in Waiters : w \in events[j] <=> waiting[w] = j /\ w \notin fired
  BY DEF Waits, RegistryExact
<1>3. \A w \in Waiters : w \in fired' => waiting[w] # NoJob /\ status'[waiting[w]] \in Terminal
  BY <1>1, <1>2, JobAssumption DEF Waits, FiredOK
<1>4. FiredOK'
  BY <1>1, <1>3 DEF FiredOK
<1>5. NoLostWakeup'
  BY <1>1, <1>2 DEF Waits, NoLostWakeup
<1>6. ASSUME NEW k \in Jobs PROVE (status[k] \in Terminal => events[k] = {})'
  BY <1>1 DEF Waits, RegistryExact
<1>7. ASSUME NEW w \in Waiters, NEW k \in Jobs
      PROVE  (w \in events[k] <=> waiting[w] = k /\ w \notin fired)'
  <2>1. CASE k = j
    BY <1>1, <1>2, <2>1
  <2>2. CASE k # j
    BY <1>1, <1>2, <2>2 DEF Waits, RegistryExact
  <2> QED
    BY <2>1, <2>2
<1> QED
  BY <1>4, <1>5, <1>6, <1>7 DEF Waits, RegistryExact

(* A client takes its answer or its 408 and leaves the registry.             *)
LEMMA LeaveStep ==
  ASSUME TypeOK, Waits, NEW w \in Waiters, waiting[w] # NoJob, Leaves(w)
  PROVE  Waits'
<1> USE JobAssumption DEF TypeOK
<1>1. /\ waiting[w] \in Jobs /\ waiting' = [waiting EXCEPT ![w] = NoJob]
      /\ \A k \in Jobs : events'[k] = events[k] \ {w}
      /\ fired' = fired \ {w} /\ status' = status
  <2>1. \A k \in Jobs : k # waiting[w] => w \notin events[k]
    BY DEF Waits, RegistryExact
  <2> QED
    BY <2>1 DEF Leaves
<1>2. FiredOK' /\ NoLostWakeup'
  BY <1>1 DEF Waits, FiredOK, NoLostWakeup
<1>3. RegistryExact'
  BY <1>1 DEF Waits, RegistryExact
<1> QED
  BY <1>2, <1>3 DEF Waits

LEMMA WaitsStep ==
  ASSUME TypeOK, QueueOK, Waits, [Next]_vars
  PROVE  Waits'
<1> USE JobAssumption DEF TypeOK
<1>1. ASSUME UNCHANGED <<waiting, events, fired>>,
             \A j \in Jobs : status'[j] \in Terminal <=> status[j] \in Terminal
      PROVE  Waits'
  <2>1. FiredOK' /\ NoLostWakeup'
    BY <1>1 DEF Waits, FiredOK, NoLostWakeup
  <2>2. RegistryExact'
    BY <1>1 DEF Waits, RegistryExact
  <2> QED
    BY <2>1, <2>2 DEF Waits
<1>2. ASSUME NEW j \in Jobs, Submit(j) PROVE Waits'
  BY <1>1, <1>2 DEF Submit, waitVars, Terminal
<1>3. CASE TakeHandled
  BY <1>1, <1>3, Taking DEF TakeHandled, waitVars, Terminal
<1>4. CASE TakeUnhandled
  BY <1>4, Taking, NotifyStep DEF TakeUnhandled, waitVars, Terminal
<1>5. CASE Completed \/ Cancelled \/ Failed \/ TimedOut
  BY <1>5, Settling, NotifyStep DEF Settle, waitVars
<1>6. CASE Stop
  BY <1>1, <1>6, Stopping DEF Waits
<1>7. CASE HandlerEnds \/ (\E j \in Jobs : Cancel(j)) \/ UNCHANGED vars
  BY <1>1, <1>7 DEF HandlerEnds, Cancel, vars, waitVars
<1>8. ASSUME NEW w \in Waiters, NEW j \in Jobs, WaitShort(w, j) PROVE Waits'
  BY <1>1, <1>8 DEF WaitShort
<1>9. ASSUME NEW w \in Waiters, NEW j \in Jobs, WaitBlock(w, j) PROVE Waits'
  <2>1. /\ waiting[w] = NoJob /\ status[j] \notin Terminal
        /\ waiting' = [waiting EXCEPT ![w] = j]
        /\ events' = [events EXCEPT ![j] = @ \union {w}]
        /\ UNCHANGED <<status, fired>>
    BY <1>9 DEF WaitBlock, Active, Terminal
  <2>2. w \notin fired
    BY <2>1 DEF Waits, FiredOK
  <2>3. FiredOK' /\ NoLostWakeup'
    BY <2>1, <2>2 DEF Waits, FiredOK, NoLostWakeup
  <2>4. ASSUME NEW k \in Jobs PROVE (status[k] \in Terminal => events[k] = {})'
    BY <2>1 DEF Waits, RegistryExact
  <2>5. ASSUME NEW v \in Waiters, NEW k \in Jobs
        PROVE  (v \in events[k] <=> waiting[v] = k /\ v \notin fired)'
    BY <2>1, <2>2 DEF Waits, RegistryExact
  <2> QED
    BY <2>3, <2>4, <2>5 DEF Waits, RegistryExact
<1>10. ASSUME NEW w \in Waiters, WaitWake(w) \/ WaitTimeout(w) PROVE Waits'
  BY <1>10, LeaveStep DEF WaitWake, WaitTimeout
<1> QED
  BY <1>2, <1>3, <1>4, <1>5, <1>6, <1>7, <1>8, <1>9, <1>10 DEF Next, Worker

-----------------------------------------------------------------------------
(* The answers, the accepted cancellations and the gauge.                    *)

LEMMA AnswersStep ==
  ASSUME TypeOK, FiredOK, Answered, KeepsFinal, [Next]_vars
  PROVE  Answered'
<1> USE DEF TypeOK
<1>1. ASSUME reply' = reply PROVE Answered'
  BY <1>1 DEF Answered, AnswersName, RepliesAreFinal, KeepsFinal
<1>2. ASSUME NEW w \in Waiters, NEW j \in Jobs, status[j] \in Terminal, status' = status,
             reply' = [reply EXCEPT ![w] = [job |-> j, status |-> status[j]]]
      PROVE  Answered'
  BY <1>2 DEF Answered, AnswersName, RepliesAreFinal
<1>3. ASSUME NEW w \in Waiters, WaitTimeout(w) PROVE Answered'
  BY <1>3 DEF WaitTimeout, Answers, Leaves, Answered, AnswersName, RepliesAreFinal
<1>4. ASSUME NEW w \in Waiters, WaitWake(w) PROVE Answered'
  <2>1. waiting[w] \in Jobs /\ status[waiting[w]] \in Terminal
    BY <1>4 DEF WaitWake, FiredOK
  <2> QED
    BY <1>2, <1>4, <2>1 DEF WaitWake, Answers, Leaves
<1>5. ASSUME NEW w \in Waiters, NEW j \in Jobs, WaitShort(w, j) PROVE Answered'
  BY <1>2, <1>5 DEF WaitShort
<1>6. ASSUME NEW w \in Waiters, NEW j \in Jobs, WaitBlock(w, j) PROVE Answered'
  BY <1>1, <1>6 DEF WaitBlock
<1>7. ASSUME NEW j \in Jobs, Submit(j) \/ Cancel(j) PROVE Answered'
  BY <1>1, <1>7 DEF Submit, Cancel, waitVars
<1>8. CASE Worker \/ HandlerEnds \/ Stop \/ UNCHANGED vars
  BY <1>1, <1>8 DEF Worker, TakeHandled, TakeUnhandled, Completed, Cancelled, Failed,
                    TimedOut, Settle, HandlerEnds, Stop, vars, waitVars
<1> QED
  BY <1>3, <1>4, <1>5, <1>6, <1>7, <1>8 DEF Next

LEMMA CancelStep ==
  ASSUME TypeOK, QueueOK, CancelHonoured, [Next]_vars
  PROVE  CancelHonoured'
<1> USE DEF TypeOK
<1>1. ASSUME UNCHANGED <<status, cancelSet>> PROVE CancelHonoured'
  BY <1>1 DEF CancelHonoured
<1>2. ASSUME cancelSet' = cancelSet, NEW j \in Jobs, NEW s,
             status' = [status EXCEPT ![j] = s], s = "completed" => j \notin cancelSet
      PROVE  CancelHonoured'
  BY <1>2 DEF CancelHonoured
<1>3. CASE Completed \/ Cancelled \/ Failed \/ TimedOut
  BY <1>2, <1>3, Settling DEF Settle
<1>4. CASE TakeHandled \/ TakeUnhandled
  BY <1>2, <1>4, Taking DEF TakeHandled, TakeUnhandled
<1>5. ASSUME NEW j \in Jobs, Submit(j) PROVE CancelHonoured'
  BY <1>2, <1>5 DEF Submit
<1>6. ASSUME NEW j \in Jobs, Cancel(j) PROVE CancelHonoured'
  BY <1>6 DEF Cancel, CancelHonoured, Active
<1>7. CASE HandlerEnds \/ Stop \/ UNCHANGED vars
  BY <1>1, <1>7 DEF HandlerEnds, Stop, vars
<1>8. ASSUME NEW w \in Waiters, WaitWake(w) \/ WaitTimeout(w) PROVE CancelHonoured'
  BY <1>1, <1>8 DEF WaitWake, WaitTimeout, Leaves
<1>9. ASSUME NEW w \in Waiters, NEW j \in Jobs, WaitShort(w, j) \/ WaitBlock(w, j)
      PROVE  CancelHonoured'
  BY <1>1, <1>9 DEF WaitShort, WaitBlock
<1> QED
  BY <1>3, <1>4, <1>5, <1>6, <1>7, <1>8, <1>9 DEF Next, Worker

LEMMA GaugeStep ==
  ASSUME TypeOK, QueueOK, GaugeExact, [Next]_vars
  PROVE  GaugeExact'
<1> USE DEF TypeOK
<1> DEFINE Unfinished == {j \in Jobs : status[j] \in Active}
<1>0. IsFiniteSet(Unfinished)
  BY JobAssumption, FS_Subset
<1>1. ASSUME Unfinished' = Unfinished, UNCHANGED <<gauge, up>> PROVE GaugeExact'
  BY <1>1 DEF GaugeExact
<1>2. ASSUME up, UNCHANGED up, NEW j \in Unfinished,
             NEW s \in Terminal, status' = [status EXCEPT ![j] = s], gauge' = gauge - 1
      PROVE  GaugeExact'
  <2>1. Unfinished' = Unfinished \ {j}
    BY <1>2 DEF Active, Terminal
  <2>2. Cardinality(Unfinished \ {j}) = Cardinality(Unfinished) - 1
    BY <1>0, <1>2, FS_RemoveElement
  <2> QED
    BY <1>2, <2>1, <2>2 DEF GaugeExact
<1>3. ASSUME NEW j \in Jobs, Submit(j) PROVE GaugeExact'
  <2>1. j \notin Unfinished /\ Unfinished' = Unfinished \union {j}
    BY <1>3 DEF Submit, Active
  <2>2. Cardinality(Unfinished \union {j}) = Cardinality(Unfinished) + 1
    BY <1>0, <2>1, FS_AddElement
  <2> QED
    BY <1>3, <2>1, <2>2 DEF GaugeExact, Submit
<1>4. CASE TakeHandled
  <2>1. Unfinished' = Unfinished
    BY <1>4, Taking DEF TakeHandled, Active
  <2> QED
    BY <1>1, <1>4, <2>1 DEF TakeHandled
<1>5. CASE TakeUnhandled
  <2>1. Head(fifo) \in Unfinished
    BY <1>5, Taking DEF TakeUnhandled, Active
  <2> QED
    BY <1>2, <1>5, <2>1 DEF TakeUnhandled, Terminal
<1>6. CASE Completed \/ Cancelled \/ Failed \/ TimedOut
  <2>1. cur \in Unfinished
    BY <1>6, Settling DEF Active
  <2> QED
    BY <1>2, <1>6, <2>1, Settling DEF Settle
<1>7. CASE Stop
  BY <1>7 DEF Stop, GaugeExact
<1>8. ASSUME NEW j \in Jobs, Cancel(j) PROVE GaugeExact'
  BY <1>1, <1>8 DEF Cancel
<1>9. CASE HandlerEnds \/ UNCHANGED vars
  BY <1>1, <1>9 DEF HandlerEnds, vars
<1>10. ASSUME NEW w \in Waiters, WaitWake(w) \/ WaitTimeout(w) PROVE GaugeExact'
  BY <1>1, <1>10 DEF WaitWake, WaitTimeout, Leaves
<1>11. ASSUME NEW w \in Waiters, NEW j \in Jobs, WaitShort(w, j) \/ WaitBlock(w, j)
       PROVE  GaugeExact'
  BY <1>1, <1>11 DEF WaitShort, WaitBlock
<1> QED
  BY <1>3, <1>4, <1>5, <1>6, <1>7, <1>8, <1>9, <1>10, <1>11 DEF Next, Worker

-----------------------------------------------------------------------------
(* The theorems.                                                             *)

JobInv == QueueOK /\ Waits /\ Answered /\ CancelHonoured /\ GaugeExact

(* The whole of the inductive invariant, for any jobs and clients.           *)
LEMMA Invariance == Spec => [](TypeOK /\ JobInv)
<1>1. Init => JobInv
  <2> SUFFICES ASSUME Init PROVE JobInv
    OBVIOUS
  <2>1. QueueOK /\ Waits /\ Answered /\ CancelHonoured
    BY JobAssumption DEF Init, QueueOK, Waits, FiredOK, NoLostWakeup, RegistryExact,
                         Answered, AnswersName, RepliesAreFinal, CancelHonoured, Terminal
  <2>2. {j \in Jobs : status[j] \in Active} = {}
    BY DEF Init, Active
  <2>3. GaugeExact
    BY <2>2, FS_EmptySet DEF Init, GaugeExact
  <2> QED
    BY <2>1, <2>3 DEF JobInv
<1>2. ASSUME TypeOK, JobInv, [Next]_vars PROVE JobInv'
  <2>1. QueueOK' /\ KeepsFinal
    BY <1>2, QueueStep DEF JobInv
  <2>2. Waits'
    BY <1>2, WaitsStep DEF JobInv
  <2>3. Answered'
    BY <1>2, <2>1, AnswersStep DEF JobInv, Waits
  <2>4. CancelHonoured' /\ GaugeExact'
    BY <1>2, CancelStep, GaugeStep DEF JobInv
  <2> QED
    BY <2>1, <2>2, <2>3, <2>4 DEF JobInv
<1> QED
  BY <1>1, <1>2, Typing, PTL DEF Spec

(* Every client blocked on a finished job has its event set, and the         *)
(* registry holds exactly the clients that wait for a job still to finish.   *)
THEOREM Wakeups == Spec => [](NoLostWakeup /\ RegistryExact)
<1>1. JobInv => NoLostWakeup /\ RegistryExact
  BY DEF JobInv, Waits
<1> QED
  BY <1>1, Invariance, PTL

(* The registry of events leaks no waiting client and forgets none.          *)
THEOREM Registry == Spec => []RegistryExact
BY Wakeups, PTL

(* What a client was answered stays true: the job's final status.            *)
THEOREM FinalAnswers == Spec => []RepliesAreFinal
<1>1. JobInv => RepliesAreFinal
  BY DEF JobInv, Answered
<1> QED
  BY <1>1, Invariance, PTL

(* No accepted cancellation is followed by "completed", and the gauge of     *)
(* active jobs never drifts from the registry.                               *)
THEOREM CancelAndGauge == Spec => [](CancelHonoured /\ GaugeExact)
<1>1. JobInv => CancelHonoured /\ GaugeExact
  BY DEF JobInv
<1> QED
  BY <1>1, Invariance, PTL

(* stoat_active_jobs_count is the number of jobs not yet terminal.           *)
THEOREM Gauge == Spec => []GaugeExact
BY CancelAndGauge, PTL

(* The queue, its worker and its registry of events keep the promise of      *)
(* JobSpec: each step is a step of the promise or does not touch it.         *)
THEOREM Refinement == Spec => Implements
<1> USE DEF TypeOK, Promise!Moves
<1>1. Init => Promise!Init
  BY DEF Init, Promise!Init
<1>2. ASSUME TypeOK, JobInv, [Next]_vars PROVE [Promise!Next]_(Promise!vars)
  <2> USE <1>2
  <2>1. ASSUME UNCHANGED <<status, waiting, reply>> PROVE UNCHANGED Promise!vars
    BY <2>1 DEF Promise!vars
  <2>2. ASSUME NEW j \in Jobs, Submit(j) PROVE Promise!Submit(j)
    BY <2>2 DEF Submit, waitVars, Promise!Submit
  <2>3. ASSUME TakeHandled PROVE \E j \in Jobs : Promise!Start(j)
    <3>1. Head(fifo) \in Jobs /\ Promise!Start(Head(fifo))
      BY <2>3, Taking DEF JobInv, TakeHandled, waitVars, Promise!Start
    <3> QED
      BY <3>1
  <2>4. ASSUME NEW j \in Jobs, status[j] \in Active, NEW s \in Terminal,
               status' = [status EXCEPT ![j] = s], UNCHANGED <<waiting, reply>>
        PROVE  Promise!Settle(j)
    BY <2>4 DEF Promise!Settle, Promise!Final, Active, Terminal
  <2>5. ASSUME TakeUnhandled PROVE \E j \in Jobs : Promise!Settle(j)
    <3>1. Head(fifo) \in Jobs /\ Promise!Settle(Head(fifo))
      BY <2>4, <2>5, Taking DEF JobInv, TakeUnhandled, waitVars, Active, Terminal
    <3> QED
      BY <3>1
  <2>6. ASSUME Completed \/ Cancelled \/ Failed \/ TimedOut
        PROVE  \E j \in Jobs : Promise!Settle(j)
    <3>1. cur \in Jobs /\ Promise!Settle(cur)
      BY <2>4, <2>6, Settling DEF JobInv, Settle, waitVars, Active
    <3> QED
      BY <3>1
  <2>7. ASSUME HandlerEnds \/ Stop \/ (\E j \in Jobs : Cancel(j)) \/ UNCHANGED vars
        PROVE  UNCHANGED Promise!vars
    BY <2>1, <2>7 DEF HandlerEnds, Stop, Cancel, vars, waitVars
  <2>8. ASSUME NEW w \in Waiters, WaitWake(w) PROVE \E j \in Jobs : Promise!Answer(w, j)
    <3>1. waiting[w] \in Jobs /\ status[waiting[w]] \in Terminal
      BY <2>8 DEF WaitWake, JobInv, Waits, FiredOK
    <3>2. Promise!Answer(w, waiting[w])
      BY <2>8, <3>1 DEF WaitWake, Answers, Leaves, Promise!Answer, Promise!Final, Terminal
    <3> QED
      BY <3>1, <3>2
  <2>9. ASSUME NEW w \in Waiters, WaitTimeout(w) PROVE \E j \in Jobs : Promise!GiveUp(w, j)
    <3>1. waiting[w] \in Jobs /\ Promise!GiveUp(w, waiting[w])
      BY <2>9 DEF WaitTimeout, Answers, Leaves, Promise!GiveUp
    <3> QED
      BY <3>1
  <2>10. ASSUME NEW w \in Waiters, NEW j \in Jobs, WaitShort(w, j) PROVE Promise!Answer(w, j)
    <3>1. waiting' = [waiting EXCEPT ![w] = NoJob]
      BY <2>10 DEF WaitShort
    <3> QED
      BY <2>10, <3>1 DEF WaitShort, Promise!Answer, Promise!Final, Terminal
  <2>11. ASSUME NEW w \in Waiters, NEW j \in Jobs, WaitBlock(w, j) PROVE Promise!Block(w, j)
    BY <2>11 DEF WaitBlock, Promise!Block, Active
  <2> QED
    BY <2>2, <2>3, <2>5, <2>6, <2>7, <2>8, <2>9, <2>10, <2>11
    DEF Next, Worker, Promise!Next
<1> QED
  BY <1>1, <1>2, Typing, Invariance, PTL DEF Spec, Implements, Promise!Spec
=============================================================================
