---------------------------- MODULE EncoderCache ----------------------------
(* The cache of FFmpeg's encoders (render/encoder_cache.py) and the two      *)
(* routes that fill it under a lock (api/routers/render.py), on a connection *)
(* whose other users commit, and roll back, whatever is pending.             *)
EXTENDS MediaCalls

CONSTANT Encoders  \* how many FFmpeg reports; row k is the k-th

ASSUME EncodersAssumption == Encoders \in Nat \ {0}

VARIABLES
  encoders,   \* rows as the connection sees them
  encSaved,   \* rows that are committed
  encCall,    \* encCall[r]: place of request r
  encNext,    \* the row that create_many inserts next
  encTorn     \* history: a crash or a foreign rollback hit the insertion

encVars == <<encoders, encSaved, encCall, encNext, encTorn>>

EncInit ==
  /\ encoders = {} /\ encSaved = {}
  /\ encCall = [r \in Calls |-> "none"]
  /\ encNext = 1 /\ encTorn = FALSE

EncGoes(r, pc) == encCall' = [encCall EXCEPT ![r] = pc]
EncLocked == \E r \in Calls : encCall[r] \in {"recheck", "detect", "clear", "insert"}

(* GET: a list that is not empty is answered, and an empty one while a       *)
(* refresh runs.  Nothing awaits between the test of the lock and its        *)
(* acquisition.  POST .../refresh is refused while the lock is held.         *)
EncAsk(pc) ==
  /\ Called
  /\ encCall' = [encCall EXCEPT ![calls'] = pc]
  /\ UNCHANGED <<encoders, encSaved, encNext, encTorn>>

EncGet == EncAsk(IF encoders # {} \/ EncLocked THEN "done" ELSE "recheck")
EncRefresh == ~EncLocked /\ EncAsk("detect")

EncRecheck(r) ==
  /\ encCall[r] = "recheck"
  /\ EncGoes(r, IF encoders # {} THEN "done" ELSE "detect")
  /\ UNCHANGED <<encoders, encSaved, encNext, encTorn>>

(* FFmpeg is missing or fails: 503, and the cache stays.                     *)
EncFails(r) ==
  /\ encCall[r] = "detect"
  /\ EncGoes(r, "done")
  /\ UNCHANGED <<encoders, encSaved, encNext, encTorn>>

(* clear() deletes, and commits.                                             *)
EncDetected(r) ==
  /\ encCall[r] = "detect"
  /\ encoders' = {}
  /\ EncGoes(r, "clear")
  /\ UNCHANGED <<encSaved, encNext, encTorn>>

EncCleared(r) ==
  /\ encCall[r] = "clear"
  /\ encSaved' = encoders /\ encNext' = 1
  /\ encTorn' = (encoders # {})
  /\ EncGoes(r, "insert")
  /\ UNCHANGED encoders

(* create_many inserts one by one, and then commits.  UNIQUE(name) refuses   *)
(* the rows that a rollback brought back.                                    *)
EncInsert(r) ==
  /\ encCall[r] = "insert" /\ encNext <= Encoders
  /\ IF encNext \in encoders
     THEN EncGoes(r, "done") /\ UNCHANGED <<encoders, encNext>>
     ELSE /\ encoders' = encoders \union {encNext} /\ encNext' = encNext + 1
          /\ UNCHANGED encCall
  /\ UNCHANGED <<encSaved, encTorn>>

(* Mutated: the lock is released before the rows are in.                     *)
EncStoredEarly(r) ==
  /\ encCall[r] = "insert"
  /\ encSaved' = encoders
  /\ EncGoes(r, "done")
  /\ UNCHANGED <<encoders, encNext, encTorn>>

EncStored(r) ==
  /\ encCall[r] = "insert" /\ encNext > Encoders
  /\ encSaved' = encoders
  /\ EncGoes(r, "done")
  /\ UNCHANGED <<encoders, encNext, encTorn>>

(* Another user of the connection commits, or rolls back (clip splitting).   *)
EncOtherCommits ==
  /\ encSaved # encoders
  /\ encSaved' = encoders
  /\ UNCHANGED <<encoders, encCall, encNext, encTorn>>

EncOtherRollsBack ==
  /\ encSaved # encoders
  /\ encoders' = encSaved /\ encTorn' = TRUE
  /\ UNCHANGED <<encSaved, encCall, encNext>>

EncServerEnds ==
  /\ encoders' = encSaved
  /\ encTorn' = (encTorn \/ \E r \in Calls : encCall[r] = "insert")
  /\ encCall' = [r \in Calls |-> IF encCall[r] = "none" THEN "none" ELSE "done"]
  /\ UNCHANGED <<encSaved, encNext>>

EncNext ==
  \/ EncGet \/ EncRefresh
  \/ /\ SameCalls
     /\ \/ EncOtherCommits \/ EncOtherRollsBack
        \/ \E r \in Calls : \/ EncRecheck(r) \/ EncFails(r) \/ EncDetected(r)
                            \/ EncCleared(r) \/ EncInsert(r) \/ EncStored(r)

-----------------------------------------------------------------------------
(* Properties.                                                               *)

EncTypeOK ==
  /\ encoders \subseteq 1 .. Encoders /\ encSaved \subseteq 1 .. Encoders
  /\ encCall \in [Calls -> {"none", "recheck", "detect", "clear", "insert", "done"}]
  /\ encNext \in 1 .. Encoders + 1 /\ encTorn \in BOOLEAN

(* A list that no request is replacing is whole, or empty so that the next   *)
(* request detects anew, and it is on disk, unless a crash or a rollback of  *)
(* another user of the connection cut its insertion in two.                  *)
EncodersWhole ==
  ~EncLocked /\ ~encTorn => encoders = encSaved /\ encoders \in {{}, 1 .. Encoders}
=============================================================================
