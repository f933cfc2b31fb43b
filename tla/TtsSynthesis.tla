---------------------------- MODULE TtsSynthesis ----------------------------
(* Narration cues: TtsService (api/services/tts_service.py), the routes that *)
(* synthesise, change and delete a cue (api/routers/tts.py) and the rows of  *)
(* tts_cue (db/tts_cue_repository.py), all of one cue.  What is spoken (text,*)
(* voice and backend) is a cache key.                                        *)
EXTENDS MediaCalls, FiniteSets

CONSTANTS
  Keys,      \* what the cue may say
  FirstKey   \* what it says when it is created

ASSUME TtsAssumption == FirstKey \in Keys

VARIABLES
  cue,        \* the row: its status, key and asset
  ttsCall,    \* ttsCall[r]: place of call r, and the row it has read
  ttsTask,    \* ttsTask[r]: the synthesis task that call r started, its key
  ttsActive,  \* the task in _active_tasks
  ttsCached,  \* the keys that the cache directory has
  ttsOverlap, \* history: a PATCH overlapped a write to the row, or a task
  ttsLost     \* history: the server ended during a synthesis

ttsVars == <<cue, ttsCall, ttsTask, ttsActive, ttsCached, ttsOverlap, ttsLost>>

CueStatus == {"pending", "synthesising", "ready", "failed"}
NoAsset == "none"
Cue(st, key, asset) == [st |-> st, key |-> key, asset |-> asset]
NoCue == Cue("absent", FirstKey, NoAsset)
NewCue == Cue("pending", FirstKey, NoAsset)
NoCall == [pc |-> "none", read |-> NoCue]
NoTask == [pc |-> "none", key |-> FirstKey]

TtsInit ==
  /\ cue = NewCue
  /\ ttsCall = [r \in Calls |-> NoCall]
  /\ ttsTask = [r \in Calls |-> NoTask]
  /\ ttsActive = None
  /\ ttsCached = {}
  /\ ttsOverlap = FALSE /\ ttsLost = FALSE

Running(r) == ttsTask[r].pc \notin {"none", "done"}
Synthesis == {r \in Calls : Running(r)}
Spawning == {r \in Calls : ttsCall[r].pc = "spawn"}

CallEnds(r) == ttsCall' = [ttsCall EXCEPT ![r] = NoCall]
CallGoes(r, pc) == ttsCall' = [ttsCall EXCEPT ![r].pc = pc]

(* update_status: unconditional; nothing happens to a row that is gone.      *)
Marked(st, asset) == IF cue = NoCue THEN cue ELSE Cue(st, cue.key, asset)

(* The first await of a call: the route reads the row.                       *)
TtsCalled(pcs) ==
  /\ Called
  /\ cue # NoCue
  /\ \E pc \in pcs : ttsCall' = [ttsCall EXCEPT ![calls'] = [pc |-> pc, read |-> cue]]
  /\ UNCHANGED <<cue, ttsTask, ttsActive, ttsCached, ttsOverlap, ttsLost>>

TtsCall == TtsCalled({"synthesise", "move", "rewrite", "delete"})

-----------------------------------------------------------------------------
(* synthesise_cue.                                                           *)

(* The idempotency guard looks at the row only.                              *)
SynthesiseGet(r) ==
  /\ ttsCall[r].pc = "synthesise"
  /\ IF cue = NoCue \/ cue.st = "synthesising" THEN CallEnds(r)
     ELSE CallGoes(r, IF cue.st = "failed" THEN "reset" ELSE "mark")
  /\ UNCHANGED <<cue, ttsTask, ttsActive, ttsCached, ttsOverlap, ttsLost>>

SynthesiseReset(r) ==
  /\ ttsCall[r].pc = "reset"
  /\ cue' = Marked("pending", NoAsset)
  /\ CallGoes(r, "mark")
  /\ UNCHANGED <<ttsTask, ttsActive, ttsCached, ttsOverlap, ttsLost>>

SynthesiseMark(r) ==
  /\ ttsCall[r].pc = "mark"
  /\ cue' = Marked("synthesising", NoAsset)
  /\ CallGoes(r, "spawn")
  /\ UNCHANGED <<ttsTask, ttsActive, ttsCached, ttsOverlap, ttsLost>>

SynthesiseSpawn(r) ==
  /\ ttsCall[r].pc = "spawn"
  /\ ttsTask' = [ttsTask EXCEPT ![r].pc = "get"]
  /\ ttsActive' = r
  /\ CallEnds(r)
  /\ UNCHANGED <<cue, ttsCached, ttsOverlap, ttsLost>>

-----------------------------------------------------------------------------
(* _do_synthesise, and its done callback, which removes the cue from         *)
(* _active_tasks, whichever task is there by now.                            *)

TaskIs(r, pc) == ttsTask' = [ttsTask EXCEPT ![r].pc = pc]

TaskGet(r) ==
  /\ ttsTask[r].pc = "get"
  /\ IF cue = NoCue THEN TaskIs(r, "ending")
     ELSE ttsTask' = [ttsTask EXCEPT ![r] =
            [pc |-> IF cue.key \in ttsCached THEN "store" ELSE "backend", key |-> cue.key]]
  /\ UNCHANGED <<cue, ttsCall, ttsActive, ttsCached, ttsOverlap, ttsLost>>

(* Piper or Kokoro speaks, and the file enters the cache.                    *)
TaskSpoken(r) ==
  /\ ttsTask[r].pc = "backend"
  /\ ttsCached' = ttsCached \union {ttsTask[r].key}
  /\ TaskIs(r, "store")
  /\ UNCHANGED <<cue, ttsCall, ttsActive, ttsOverlap, ttsLost>>

TaskFails(r) ==
  /\ ttsTask[r].pc = "backend"
  /\ cue' = Marked("failed", NoAsset)
  /\ TaskIs(r, "ending")
  /\ UNCHANGED <<ttsCall, ttsActive, ttsCached, ttsOverlap, ttsLost>>

TaskStore(r) ==
  /\ ttsTask[r].pc = "store"
  /\ cue' = Marked("ready", ttsTask[r].key)
  /\ TaskIs(r, "ending")
  /\ UNCHANGED <<ttsCall, ttsActive, ttsCached, ttsOverlap, ttsLost>>

TaskEnds(r) ==
  /\ ttsTask[r].pc = "ending"
  /\ ttsActive' = None
  /\ ttsTask' = [ttsTask EXCEPT ![r] = [NoTask EXCEPT !.pc = "done"]]
  /\ UNCHANGED <<cue, ttsCall, ttsCached, ttsOverlap, ttsLost>>

-----------------------------------------------------------------------------
(* PATCH and DELETE.                                                         *)

(* update writes every column, those that it only read included.             *)
Overlaps(r) == ttsOverlap' = (ttsOverlap \/ cue # ttsCall[r].read \/ Synthesis # {})

(* Gain, position and the like: the status, key and asset that were read.    *)
PatchMove(r) ==
  /\ ttsCall[r].pc = "move"
  /\ cue' = IF cue = NoCue THEN cue ELSE ttsCall[r].read
  /\ Overlaps(r)
  /\ CallEnds(r)
  /\ UNCHANGED <<ttsTask, ttsActive, ttsCached, ttsLost>>

(* Mutated: a new text keeps the status and the sound of the old one.        *)
PatchTextOnly(r) ==
  /\ ttsCall[r].pc = "rewrite"
  /\ \E key \in Keys :
       cue' = IF cue = NoCue THEN cue ELSE [ttsCall[r].read EXCEPT !.key = key]
  /\ Overlaps(r)
  /\ CallEnds(r)
  /\ UNCHANGED <<ttsTask, ttsActive, ttsCached, ttsLost>>

PatchText(r) ==
  /\ ttsCall[r].pc = "rewrite"
  /\ \E key \in Keys : cue' = IF cue = NoCue THEN cue ELSE Cue("pending", key, NoAsset)
  /\ Overlaps(r)
  /\ CallEnds(r)
  /\ UNCHANGED <<ttsTask, ttsActive, ttsCached, ttsLost>>

DeleteCue(r) ==
  /\ ttsCall[r].pc = "delete"
  /\ cue' = NoCue
  /\ CallEnds(r)
  /\ UNCHANGED <<ttsTask, ttsActive, ttsCached, ttsOverlap, ttsLost>>

(* shutdown cancels the task in _active_tasks; the end of the loop, all.     *)
TtsServerEnds ==
  /\ ttsCall' = [r \in Calls |-> NoCall]
  /\ ttsTask' = [r \in Calls |-> IF Running(r) THEN [NoTask EXCEPT !.pc = "done"]
                                 ELSE ttsTask[r]]
  /\ ttsActive' = None
  /\ ttsLost' = (ttsLost \/ Synthesis \union Spawning # {})
  /\ UNCHANGED <<cue, ttsCached, ttsOverlap>>

TtsStep(r) ==
  \/ SynthesiseGet(r) \/ SynthesiseReset(r) \/ SynthesiseMark(r) \/ SynthesiseSpawn(r)
  \/ TaskGet(r) \/ TaskSpoken(r) \/ TaskFails(r) \/ TaskStore(r) \/ TaskEnds(r)
  \/ PatchMove(r) \/ PatchText(r) \/ DeleteCue(r)

TtsNext == TtsCall \/ (SameCalls /\ \E r \in Calls : TtsStep(r))

-----------------------------------------------------------------------------
(* Properties.                                                               *)

TtsTypeOK ==
  /\ cue = NoCue \/ cue \in [st : CueStatus, key : Keys, asset : Keys \union {NoAsset}]
  /\ \A r \in Calls :
       /\ ttsCall[r].pc \in {"none", "synthesise", "reset", "mark", "spawn", "move",
                             "rewrite", "delete"}
       /\ ttsTask[r].pc \in {"none", "get", "backend", "store", "ending", "done"}
       /\ ttsTask[r].key \in Keys
  /\ ttsActive \in Calls \union {None}
  /\ ttsCached \subseteq Keys
  /\ ttsOverlap \in BOOLEAN /\ ttsLost \in BOOLEAN

(* A cue that says READY has the sound of what it says now, also after two   *)
(* clients asked for it at once, a failure and a retry, unless a PATCH wrote *)
(* over what a synthesis was doing.                                          *)
ReadyCueMatches == cue.st = "ready" /\ ~ttsOverlap => cue.asset = cue.key

CueOwned ==
  cue.st = "synthesising" /\ ~ttsOverlap /\ ~ttsLost => Synthesis \union Spawning # {}
=============================================================================
