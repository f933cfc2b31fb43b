-------------------------- MODULE ProxyGeneration ---------------------------
(* Proxy files: the handler of proxy jobs (api/services/proxy_service.py),   *)
(* which the one worker of the job queue runs, the routes that queue and     *)
(* delete proxies (api/routers/proxy.py), the scan that finds them stale     *)
(* (api/services/scan.py), the rows of proxy_files (db/proxy_repository.py)  *)
(* and the files they name.  A video has one quality, hence one file.        *)
EXTENDS MediaCalls, Sequences, FiniteSets

CONSTANTS
  Videos,
  Threshold  \* complete files that fit under cleanup_threshold of the quota

ASSUME ProxyAssumption == IsFiniteSet(Videos) /\ Threshold \in Nat

VARIABLES
  proxy,      \* proxy[v]: status of the row of v, or "absent"
  proxyFile,  \* proxyFile[v]: "none", "partial" or "complete"
  proxyJobs,  \* the queued jobs
  proxyWork,  \* the handler: its place, its video and the one it evicts
  proxyCut,   \* videos whose file is removed and whose row is not deleted yet
  proxyLost   \* history: videos with a step that the server's end, or the
              \* queue's timeout, cut in two

proxyVars == <<proxy, proxyFile, proxyJobs, proxyWork, proxyCut, proxyLost>>

ProxyStatus == {"pending", "generating", "ready", "failed", "stale"}
ProxyTransitions == [pending |-> {"generating"}, generating |-> {"ready", "failed"},
                     ready |-> {"stale"}, failed |-> {}, stale |-> {}, absent |-> {}]

Idle == [pc |-> "idle"]
Busy == proxyWork # Idle
Video == proxyWork.v
AtPlace(pc) == Busy /\ proxyWork.pc = pc

ProxyInit ==
  /\ proxy = [v \in Videos |-> "absent"]
  /\ proxyFile = [v \in Videos |-> "none"]
  /\ proxyJobs = << >>
  /\ proxyWork = Idle
  /\ proxyCut = {} /\ proxyLost = {}

(* POST /videos/{id}/proxy and each video of POST /proxy/batch: an unfinished*)
(* or ready proxy refuses; a queued job, which has no row yet, does not.     *)
ProxySubmit(v) ==
  /\ Called
  /\ proxy[v] \in {"absent", "failed", "stale"}
  /\ proxyJobs' = Append(proxyJobs, v)
  /\ UNCHANGED <<proxy, proxyFile, proxyWork, proxyCut, proxyLost>>

(* The scan job, run by the same worker, so that no handler is at work: it   *)
(* queues a video without a proxy, and marks a ready one whose source changed*)
(* (which it leaves to the user to delete).                                  *)
ProxyScan(v) ==
  /\ Called /\ ~Busy
  /\ \/ /\ proxy[v] = "absent"
        /\ proxyJobs' = Append(proxyJobs, v)
        /\ UNCHANGED proxy
     \/ /\ "stale" \in ProxyTransitions[proxy[v]]
        /\ proxy' = [proxy EXCEPT ![v] = "stale"]
        /\ UNCHANGED proxyJobs
  /\ UNCHANGED <<proxyFile, proxyWork, proxyCut, proxyLost>>

(* A file is removed, then its row is deleted.                               *)
RemovesFile(v) ==
  /\ proxyFile' = [proxyFile EXCEPT ![v] = "none"]
  /\ proxyCut' = proxyCut \union {v}

ProxyRowGone(v) ==
  /\ v \in proxyCut
  /\ proxy' = [proxy EXCEPT ![v] = "absent"]
  /\ proxyCut' = proxyCut \ {v}
  /\ proxyLost' = proxyLost \ {v}
  /\ UNCHANGED <<proxyFile, proxyJobs, proxyWork>>

(* DELETE /videos/{id}/proxy, also while FFmpeg writes the file.             *)
ProxyDelete(v) ==
  /\ Called
  /\ proxy[v] # "absent"
  /\ RemovesFile(v)
  /\ UNCHANGED <<proxy, proxyJobs, proxyWork, proxyLost>>

-----------------------------------------------------------------------------
(* generate_proxy.                                                           *)

ProxyTake ==
  /\ ~Busy /\ proxyJobs # << >>
  /\ proxyWork' = [pc |-> "quota", v |-> Head(proxyJobs), evicts |-> Head(proxyJobs)]
  /\ proxyJobs' = Tail(proxyJobs)
  /\ UNCHANGED <<proxy, proxyFile, proxyCut, proxyLost>>

ProxyGoes(pc) == proxyWork' = [proxyWork EXCEPT !.pc = pc]

(* Stale rows keep their size in the total, but only ready ones are evicted. *)
Total == Cardinality({v \in Videos : proxy[v] \in {"ready", "stale"}})
Evictable == {v \in Videos : proxy[v] = "ready"}

(* Mutated: the evicted row stays.                                           *)
ProxyEvictFile ==
  /\ AtPlace("quota") /\ Total > Threshold
  /\ \E v \in Evictable : proxyFile' = [proxyFile EXCEPT ![v] = "none"]
  /\ ProxyGoes("add")
  /\ UNCHANGED <<proxy, proxyJobs, proxyCut, proxyLost>>

(* Which one is the least recently used is left open.                        *)
ProxyEvict ==
  /\ AtPlace("quota") /\ Total > Threshold
  /\ \E v \in Evictable :
       /\ RemovesFile(v)
       /\ proxyWork' = [proxyWork EXCEPT !.pc = "evicting", !.evicts = v]
  /\ UNCHANGED <<proxy, proxyJobs, proxyLost>>

ProxyEvicted ==
  /\ AtPlace("evicting") /\ proxyWork.evicts \notin proxyCut
  /\ proxyWork' = [proxyWork EXCEPT !.pc = "quota", !.evicts = Video]
  /\ UNCHANGED <<proxy, proxyFile, proxyJobs, proxyCut, proxyLost>>

ProxyQuotaMet ==
  /\ AtPlace("quota")
  /\ Total <= Threshold \/ Evictable = {}
  /\ ProxyGoes("add")
  /\ UNCHANGED <<proxy, proxyFile, proxyJobs, proxyCut, proxyLost>>

(* UNIQUE(source_video_id, quality): any row that is left ends the job.      *)
ProxyAdd ==
  /\ AtPlace("add")
  /\ IF proxy[Video] = "absent"
     THEN proxy' = [proxy EXCEPT ![Video] = "pending"] /\ ProxyGoes("start")
     ELSE proxyWork' = Idle /\ UNCHANGED proxy
  /\ UNCHANGED <<proxyFile, proxyJobs, proxyCut, proxyLost>>

ProxyStart ==
  /\ AtPlace("start")
  /\ IF "generating" \in ProxyTransitions[proxy[Video]]
     THEN /\ proxy' = [proxy EXCEPT ![Video] = "generating"]
          /\ proxyFile' = [proxyFile EXCEPT ![Video] = "partial"]
          /\ ProxyGoes("encoding")
     ELSE proxyWork' = Idle /\ UNCHANGED <<proxy, proxyFile>>
  /\ UNCHANGED <<proxyJobs, proxyCut, proxyLost>>

(* FFmpeg ends with 0.  A file that was deleted meanwhile stays deleted, and *)
(* the refused update of the deleted row removes what there may be.          *)
ProxyEncoded ==
  /\ AtPlace("encoding")
  /\ IF "ready" \in ProxyTransitions[proxy[Video]]
     THEN /\ proxy' = [proxy EXCEPT ![Video] = "ready"]
          /\ proxyFile' = [proxyFile EXCEPT ![Video] = IF @ = "none" THEN @ ELSE "complete"]
     ELSE proxyFile' = [proxyFile EXCEPT ![Video] = "none"] /\ UNCHANGED proxy
  /\ proxyWork' = Idle
  /\ UNCHANGED <<proxyJobs, proxyCut, proxyLost>>

(* It ends with another code, cannot start, or was told to stop.             *)
ProxyFails ==
  /\ AtPlace("encoding")
  /\ proxyFile' = [proxyFile EXCEPT ![Video] = "none"]
  /\ proxy' = IF "failed" \in ProxyTransitions[proxy[Video]]
              THEN [proxy EXCEPT ![Video] = "failed"] ELSE proxy
  /\ proxyWork' = Idle
  /\ UNCHANGED <<proxyJobs, proxyCut, proxyLost>>

(* What is left behind by a handler that is cancelled.                       *)
Leaves == IF Busy /\ proxyWork.pc \in {"start", "encoding"} THEN {Video} ELSE {}

(* The queue's timeout cancels the handler; CancelledError is no Exception.  *)
ProxyTimeout ==
  /\ Busy
  /\ proxyWork' = Idle
  /\ proxyLost' = proxyLost \union Leaves
  /\ UNCHANGED <<proxy, proxyFile, proxyJobs, proxyCut>>

(* The server ends: queued jobs, the handler and the requests are gone, also *)
(* between the removal of a file and the deletion of its row.                *)
ProxyServerEnds ==
  /\ proxyJobs' = << >> /\ proxyWork' = Idle /\ proxyCut' = {}
  /\ proxyLost' = proxyLost \union proxyCut \union Leaves
  /\ UNCHANGED <<proxy, proxyFile>>

ProxyNext ==
  \/ \E v \in Videos : ProxySubmit(v) \/ ProxyScan(v) \/ ProxyDelete(v)
  \/ /\ SameCalls
     /\ \/ ProxyTake \/ ProxyEvict \/ ProxyEvicted \/ ProxyQuotaMet \/ ProxyAdd
        \/ ProxyStart \/ ProxyEncoded \/ ProxyFails \/ ProxyTimeout
        \/ \E v \in Videos : ProxyRowGone(v)

-----------------------------------------------------------------------------
(* Properties.                                                               *)

ProxyTypeOK ==
  /\ proxy \in [Videos -> ProxyStatus \union {"absent"}]
  /\ proxyFile \in [Videos -> {"none", "partial", "complete"}]
  /\ proxyJobs \in Seq(Videos)
  /\ proxyWork \in {Idle} \union
       [pc : {"quota", "evicting", "add", "start", "encoding"}, v : Videos, evicts : Videos]
  /\ proxyCut \subseteq Videos /\ proxyLost \subseteq Videos

(* A proxy that says READY has its complete file, whatever deletes, evicts   *)
(* or regenerates it meanwhile, unless it is being deleted or the server died*)
(* in between.                                                               *)
ProxyHasFile ==
  \A v \in Videos \ (proxyCut \union proxyLost) : proxy[v] = "ready" => proxyFile[v] = "complete"

ProxyOwned ==
  \A v \in Videos \ proxyLost :
    proxy[v] \in {"pending", "generating"} => Busy /\ Video = v
=============================================================================
