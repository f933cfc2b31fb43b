------------------------------ MODULE Editing -------------------------------
(* Editing a project: clips, the timeline, effects, transitions and saved    *)
(* versions (api/routers/projects.py, timeline.py, effects.py, versions.py   *)
(* and the repositories under db/).                                          *)
(*                                                                           *)
(* All requests share ONE aiosqlite connection, hence one open transaction:  *)
(* the COMMIT of any request makes the pending statements of all the others  *)
(* durable, and a ROLLBACK undoes them.  A request reads, decides, and then  *)
(* awaits its statements one by one; other requests run in between.          *)
EXTENDS Integers, Sequences, FiniteSets, SequencesExt

CONSTANTS
  NumReqs,     \* bound: the HTTP requests of a behaviour, 1 .. NumReqs
  Length,      \* frames of the clip the project starts with
  Keep,        \* settings.version_retention_count
  MaxCrashes,  \* bound: how often the process dies
  Kinds        \* the kinds of requests this instance makes

AllKinds == {"add", "trim", "split", "delete", "effect", "change", "uneffect",
             "place", "move", "unplace", "timeline", "transition", "untransition",
             "settings", "drop", "save", "restore"}

ASSUME EditingAssumption ==
  /\ NumReqs \in Nat /\ Length \in Nat \ {0}
  /\ Keep \in Nat \ {0} /\ MaxCrashes \in Nat
  /\ Kinds \subseteq AllKinds

Reqs     == 1 .. NumReqs
FirstClip == 1
(* Fresh ids: request r may create clips 2r and 2r + 1, and track r.         *)
HalfA(r) == 2 * r
HalfB(r) == 2 * r + 1
Clips    == 1 .. 2 * NumReqs + 1
NoTrack    == 0
FirstTrack == NumReqs + 1
Tracks     == 1 .. NumReqs + 1
ProjectRow == 0     \* the row of the project itself, which holds transitions
NoTarget   == -1

VARIABLES
  db,        \* what every SELECT on the connection sees
  disk,      \* what was last committed
  req,       \* req[r]: place, kind, row it works on, what it read, statements
  answer,    \* answer[r]: "none", "ok" or "error"
  cut,       \* history: frames some request asked to remove
  removed,   \* history: effects and transitions some request asked to remove
  made,      \* history: the versions inserted, and by which request
  contended, \* history: rows on which two requests overlapped
  clobbered, \* history: a ROLLBACK undid statements of another request
  crashes

vars == <<db, disk, req, answer, cut, removed, made, contended, clobbered, crashes>>
history == <<cut, removed, made, contended, clobbered, crashes>>

Row(src, first, last, track, fx) ==
  [src |-> src, in |-> first, out |-> last, track |-> track, fx |-> fx]
NoClip == Row(0, 0, 0, NoTrack, <<>>)

(* The frames of the original material that a clip shows.                    *)
Span(row) == IF row.src = FirstClip THEN row.in .. row.out - 1 ELSE {}
Shown(d)  == UNION {Span(d.clips[c]) : c \in Clips}
Exists(d, c) == d.clips[c] # NoClip

Idle == [pc |-> "new", kind |-> "none", target |-> NoTarget, copy |-> {}, todo |-> <<>>]

Init ==
  /\ db = [project |-> TRUE,
           clips |-> [c \in Clips |-> IF c = FirstClip
                        THEN Row(FirstClip, 0, Length, NoTrack, <<>>) ELSE NoClip],
           tracks |-> {FirstTrack}, trans |-> {}, vers |-> {}]
  /\ disk = db
  /\ req = [r \in Reqs |-> Idle]
  /\ answer = [r \in Reqs |-> "none"]
  /\ cut = {} /\ removed = {} /\ made = {} /\ contended = {}
  /\ clobbered = FALSE
  /\ crashes = 0

-----------------------------------------------------------------------------
(* Statements.                                                               *)

Commit            == [op |-> "commit"]
Rollback          == [op |-> "rollback"]
Raise             == [op |-> "raise"]      \* the request answers 500
InsertClip(c, row) == [op |-> "insertClip", id |-> c, row |-> row]
UpdateClip(c, row) == [op |-> "updateClip", id |-> c, row |-> row]
DeleteClip(c)     == [op |-> "deleteClip", id |-> c]
InsertTrack(t)    == [op |-> "insertTrack", id |-> t]
DeleteTrack(t)    == [op |-> "deleteTrack", id |-> t]
UpdateProject(tr) == [op |-> "updateProject", trans |-> tr]
DeleteProject     == [op |-> "deleteProject"]
InsertVersion(n, by) == [op |-> "insertVersion", n |-> n, by |-> by]
Prune             == [op |-> "prune"]

Active(r) == req[r].pc \in {"reading", "writing"}

(* A request starts on row x: it leaves its reads with the statements todo.  *)
(* Requests have no identity, so they start in the order of their numbers.   *)
Starts(r, kind, x, pc, copy, todo) ==
  /\ kind \in Kinds
  /\ req[r].pc = "new"
  /\ \A q \in Reqs : q < r => req[q].pc # "new"
  /\ req' = [req EXCEPT ![r] = [pc |-> pc, kind |-> kind, target |-> x,
                                copy |-> copy, todo |-> todo]]
  /\ contended' = IF x # NoTarget /\ \E q \in Reqs : Active(q) /\ req[q].target = x
                  THEN contended \union {x} ELSE contended
  /\ UNCHANGED <<db, disk, answer, cut, made, clobbered, crashes>>

Reads(r, kind, x, copy)  == Starts(r, kind, x, "reading", copy, <<>>)
Writes(r, kind, x, todo) == Starts(r, kind, x, "writing", {}, todo)

(* Mutated: the request answers without a COMMIT.                            *)
RewritesUncommitted(r, kind, c, row) ==
  /\ db.project /\ Exists(db, c)
  /\ Writes(r, kind, c, <<UpdateClip(c, row)>>)

(* A request on clip c that rewrites its whole row.                          *)
Rewrites(r, kind, c, row) ==
  /\ db.project /\ Exists(db, c)
  /\ Writes(r, kind, c, <<UpdateClip(c, row), Commit>>)

-----------------------------------------------------------------------------
(* The routes: one action per handler, as far as its (first) reads.  A       *)
(* request that is refused there changes nothing and is not a step.          *)

AddClip(r) ==
  /\ db.project
  /\ Writes(r, "add", HalfA(r),
            <<InsertClip(HalfA(r), Row(0, 0, 1, NoTrack, <<>>)), Commit>>)
  /\ UNCHANGED removed

TrimClip(r, c) ==
  \E first \in 0 .. Length - 1, last \in 1 .. Length :
    /\ first < last
    /\ Rewrites(r, "trim", c, [db.clips[c] EXCEPT !.in = first, !.out = last])
    /\ UNCHANGED removed

(* Mutated: the second half starts one frame late.                           *)
HalvesOffByOne(r, c, f) ==
  <<InsertClip(HalfA(r), Row(db.clips[c].src, db.clips[c].in, f, NoTrack, <<>>)),
    InsertClip(HalfB(r), Row(db.clips[c].src, f + 1, db.clips[c].out, NoTrack, <<>>)),
    DeleteClip(c), Commit>>

(* split_atomic: both halves, without track and effects, then the original.  *)
Halves(r, c, f) ==
  <<InsertClip(HalfA(r), Row(db.clips[c].src, db.clips[c].in, f, NoTrack, <<>>)),
    InsertClip(HalfB(r), Row(db.clips[c].src, f, db.clips[c].out, NoTrack, <<>>)),
    DeleteClip(c), Commit>>

SplitClip(r, c) ==
  \E f \in 0 .. Length :
    /\ db.project /\ Exists(db, c)
    /\ db.clips[c].in < f /\ f < db.clips[c].out
    /\ Writes(r, "split", c, Halves(r, c, f))
    /\ UNCHANGED removed

RemoveClip(r, c) ==
  /\ Exists(db, c)
  /\ Writes(r, "delete", c, <<DeleteClip(c), Commit>>)
  /\ UNCHANGED removed

ApplyEffect(r, c) ==
  /\ Rewrites(r, "effect", c, [db.clips[c] EXCEPT !.fx = Append(@, r)])
  /\ UNCHANGED removed

(* New parameters for one effect: the whole list is written as it was read.  *)
ChangeEffect(r, c) ==
  /\ db.clips[c].fx # <<>>
  /\ Rewrites(r, "change", c, db.clips[c])
  /\ UNCHANGED removed

(* The index is resolved in the list that this request has read.             *)
RemoveEffect(r, c) ==
  \E i \in 1 .. Len(db.clips[c].fx) :
    /\ Rewrites(r, "uneffect", c, [db.clips[c] EXCEPT !.fx = RemoveAt(@, i)])
    /\ removed' = removed \union {db.clips[c].fx[i]}

PlaceClip(r, c) ==
  \E t \in db.tracks :
    /\ db.clips[c].track = NoTrack
    /\ Rewrites(r, "place", c, [db.clips[c] EXCEPT !.track = t])
    /\ UNCHANGED removed

MoveClip(r, c) ==
  \E t \in db.tracks :
    /\ Rewrites(r, "move", c, [db.clips[c] EXCEPT !.track = t])
    /\ UNCHANGED removed

UnplaceClip(r, c) ==
  /\ Rewrites(r, "unplace", c, [db.clips[c] EXCEPT !.track = NoTrack])
  /\ UNCHANGED removed

(* PUT timeline: every DELETE and every INSERT has its own COMMIT.           *)
PutTimeline(r) ==
  LET old == SetToSeq(db.tracks)
      Deletions == [i \in 1 .. 2 * Len(old) |->
                      IF i % 2 = 1 THEN DeleteTrack(old[(i + 1) \div 2]) ELSE Commit]
  IN /\ db.project
     /\ Writes(r, "timeline", NoTarget, Deletions \o <<InsertTrack(r), Commit>>)
     /\ UNCHANGED removed

(* The project row is read first, the clips later.                           *)
ApplyTransition(r) ==
  /\ db.project
  /\ Reads(r, "transition", ProjectRow, db.trans)
  /\ UNCHANGED removed

RemoveTransition(r) ==
  \E x \in db.trans :
    /\ db.project
    /\ Writes(r, "untransition", ProjectRow, <<UpdateProject(db.trans \ {x}), Commit>>)
    /\ removed' = removed \union {x}

(* PATCH project: its name and format, and with them the transitions it read.  *)
UpdateSettings(r) ==
  /\ db.project
  /\ Writes(r, "settings", ProjectRow, <<UpdateProject(db.trans), Commit>>)
  /\ UNCHANGED removed

DropProject(r) ==
  /\ db.project
  /\ Writes(r, "drop", NoTarget, <<DeleteProject, Commit>>)
  /\ UNCHANGED removed

SaveVersion(r) ==
  /\ db.project
  /\ Reads(r, "save", NoTarget, {r})
  /\ UNCHANGED removed

RestoreVersion(r) ==
  \E v \in db.vers :
    /\ db.project
    /\ Reads(r, "restore", NoTarget, {v.by})
    /\ UNCHANGED removed

-----------------------------------------------------------------------------
(* The second read of a request that has one.                                *)

Fails(r) ==
  /\ req' = [req EXCEPT ![r].pc = "done", ![r].copy = {}]
  /\ answer' = [answer EXCEPT ![r] = "error"]
  /\ UNCHANGED <<db, disk, history>>

ThenWrites(r, todo) ==
  /\ req' = [req EXCEPT ![r].pc = "writing", ![r].copy = {}, ![r].todo = todo]
  /\ UNCHANGED <<db, disk, answer, history>>

(* Two clips of the project that are neighbours.                             *)
HasPair == Cardinality({c \in Clips : Exists(db, c)}) > 1

ReadClips(r) ==
  /\ req[r].pc = "reading" /\ req[r].kind = "transition"
  /\ IF HasPair THEN ThenWrites(r, <<UpdateProject(req[r].copy \union {r}), Commit>>)
                ELSE Fails(r)

NextVersion == IF db.vers = {} THEN 1
               ELSE 1 + CHOOSE n \in {v.n : v \in db.vers} :
                          \A v \in db.vers : v.n <= n

(* create_version prunes after it has saved, restore does not.               *)
ReadMax(r) ==
  /\ req[r].pc = "reading" /\ req[r].kind \in {"save", "restore"}
  /\ \E by \in req[r].copy :
       ThenWrites(r, <<InsertVersion(NextVersion, by), Commit>>
                     \o IF req[r].kind = "save" THEN <<Prune, Commit>> ELSE <<>>)

-----------------------------------------------------------------------------
(* The connection executes one statement of request r.                       *)

Executes(r, op) == req[r].pc = "writing" /\ Head(req[r].todo).op = op
Stmt(r) == Head(req[r].todo)

(* r goes on with todo; with nothing left to do it answers.                  *)
Continues(r, todo) ==
  IF todo \in {<<>>, <<Raise>>}
  THEN /\ req' = [req EXCEPT ![r].pc = "done", ![r].todo = <<>>]
       /\ answer' = [answer EXCEPT ![r] = IF todo = <<>> THEN "ok" ELSE "error"]
  ELSE /\ req' = [req EXCEPT ![r].todo = todo]
       /\ UNCHANGED answer

Next1(r) == Continues(r, Tail(req[r].todo))

(* db becomes d; frames that only r's request can have meant to lose are cut.*)
Sets(d, lost) ==
  /\ db' = d
  /\ cut' = cut \union lost
  /\ UNCHANGED <<disk, removed, made, contended, clobbered, crashes>>

(* clips.project_id REFERENCES projects: without the project an INSERT fails,*)
(* and of the two callers only split_atomic rolls back.                      *)
ExecInsertClip(r) ==
  /\ Executes(r, "insertClip")
  /\ IF db.project
     THEN /\ Sets([db EXCEPT !.clips[Stmt(r).id] = Stmt(r).row], {})
          /\ Next1(r)
     ELSE /\ Sets(db, {})
          /\ Continues(r, IF req[r].kind = "split" THEN <<Rollback, Raise>> ELSE <<Raise>>)

(* Mutated: INSERT OR REPLACE.                                               *)
ExecUpsertClip(r) ==
  /\ Executes(r, "updateClip")
  /\ Sets([db EXCEPT !.clips[Stmt(r).id] = Stmt(r).row],
          Span(db.clips[Stmt(r).id]) \ Span(Stmt(r).row))
  /\ Next1(r)

(* UPDATE ... WHERE id: no row, no change, and ValueError after the commit.  *)
ExecUpdateClip(r) ==
  /\ Executes(r, "updateClip")
  /\ LET c == Stmt(r).id
     IN IF Exists(db, c)
        THEN /\ Sets([db EXCEPT !.clips[c] = Stmt(r).row],
                     Span(db.clips[c]) \ Span(Stmt(r).row))
             /\ Next1(r)
        ELSE /\ Sets(db, {})
             /\ Continues(r, <<Commit, Raise>>)

ExecDeleteClip(r) ==
  /\ Executes(r, "deleteClip")
  /\ Sets([db EXCEPT !.clips[Stmt(r).id] = NoClip],
          IF req[r].kind = "delete" THEN Span(db.clips[Stmt(r).id]) ELSE {})
  /\ Next1(r)

ExecInsertTrack(r) ==
  /\ Executes(r, "insertTrack")
  /\ IF db.project
     THEN Sets([db EXCEPT !.tracks = @ \union {Stmt(r).id}], {}) /\ Next1(r)
     ELSE Sets(db, {}) /\ Continues(r, <<Raise>>)

ExecDeleteTrack(r) ==
  /\ Executes(r, "deleteTrack")
  /\ Sets([db EXCEPT !.tracks = @ \ {Stmt(r).id}], {})
  /\ Next1(r)

ExecUpdateProject(r) ==
  /\ Executes(r, "updateProject")
  /\ IF db.project
     THEN Sets([db EXCEPT !.trans = Stmt(r).trans], {}) /\ Next1(r)
     ELSE Sets(db, {}) /\ Continues(r, <<Commit, Raise>>)

(* ON DELETE CASCADE takes clips, tracks and versions with the project.      *)
ExecDeleteProject(r) ==
  /\ Executes(r, "deleteProject")
  /\ Sets([project |-> FALSE, clips |-> [c \in Clips |-> NoClip],
           tracks |-> {}, trans |-> {}, vers |-> {}], 0 .. Length - 1)
  /\ Next1(r)

(* Mutated: INSERT OR REPLACE into project_versions.                         *)
ExecReplaceVersion(r) ==
  /\ Executes(r, "insertVersion")
  /\ LET v == [n |-> Stmt(r).n, by |-> Stmt(r).by]
     IN /\ db' = [db EXCEPT !.vers = {w \in @ : w.n # v.n} \union {v}]
        /\ made' = made \union {[req |-> r, ver |-> v]}
        /\ Next1(r)
        /\ UNCHANGED <<disk, cut, removed, contended, clobbered, crashes>>

(* UNIQUE (project_id, version_number) and the foreign key; the error is     *)
(* caught by nobody, and nothing rolls back.                                 *)
ExecInsertVersion(r) ==
  /\ Executes(r, "insertVersion")
  /\ LET v == [n |-> Stmt(r).n, by |-> Stmt(r).by]
     IN IF db.project /\ \A w \in db.vers : w.n # v.n
        THEN /\ db' = [db EXCEPT !.vers = @ \union {v}]
             /\ made' = made \union {[req |-> r, ver |-> v]}
             /\ Next1(r)
             /\ UNCHANGED <<disk, cut, removed, contended, clobbered, crashes>>
        ELSE Sets(db, {}) /\ Continues(r, <<Raise>>)

(* delete_old_versions: the Keep highest numbers stay.                       *)
Pruned(vs) == {v \in vs : Cardinality({w \in vs : w.n > v.n}) < Keep}

ExecPrune(r) ==
  /\ Executes(r, "prune")
  /\ Sets([db EXCEPT !.vers = Pruned(@)], {})
  /\ Next1(r)

ExecCommit(r) ==
  /\ Executes(r, "commit")
  /\ disk' = db
  /\ Next1(r)
  /\ UNCHANGED <<db, history>>

ExecRollback(r) ==
  /\ Executes(r, "rollback")
  /\ db' = disk
  /\ clobbered' = (clobbered \/ \E q \in Reqs \ {r} : req[q].pc = "writing")
  /\ Next1(r)
  /\ UNCHANGED <<disk, cut, removed, made, contended, crashes>>

Executed(r) ==
  \/ ExecInsertClip(r) \/ ExecUpdateClip(r) \/ ExecDeleteClip(r)
  \/ ExecInsertTrack(r) \/ ExecDeleteTrack(r)
  \/ ExecUpdateProject(r) \/ ExecDeleteProject(r)
  \/ ExecInsertVersion(r) \/ ExecPrune(r)
  \/ ExecCommit(r) \/ ExecRollback(r)

(* The process dies and is started again: requests and the open transaction  *)
(* are lost.                                                                 *)
Crash ==
  /\ crashes < MaxCrashes
  /\ crashes' = crashes + 1
  /\ db' = disk
  /\ req' = [r \in Reqs |-> IF Active(r)
               THEN [req[r] EXCEPT !.pc = "done", !.copy = {}, !.todo = <<>>] ELSE req[r]]
  /\ UNCHANGED <<disk, answer, cut, removed, made, contended, clobbered>>

OnClip(r, c) ==
  \/ TrimClip(r, c) \/ SplitClip(r, c) \/ RemoveClip(r, c)
  \/ ApplyEffect(r, c) \/ ChangeEffect(r, c) \/ RemoveEffect(r, c)
  \/ PlaceClip(r, c) \/ MoveClip(r, c) \/ UnplaceClip(r, c)

Begins(r) ==
  \/ \E c \in Clips : OnClip(r, c)
  \/ AddClip(r) \/ PutTimeline(r) \/ ApplyTransition(r) \/ RemoveTransition(r)
  \/ UpdateSettings(r) \/ DropProject(r) \/ SaveVersion(r) \/ RestoreVersion(r)

Next ==
  \/ \E r \in Reqs : Begins(r) \/ ReadClips(r) \/ ReadMax(r) \/ Executed(r)
  \/ Crash

Spec == Init /\ [][Next]_vars

-----------------------------------------------------------------------------
(* Properties.                                                               *)

(* Every row is either absent or a real interval on the original or on new   *)
(* material, with effects and transitions made by requests, and the counters *)
(* keep their range.                                                         *)
RowOK(row) ==
  /\ row.src \in 0 .. 1 /\ row.in \in 0 .. Length /\ row.out \in 0 .. Length
  /\ row.track \in Tracks \union {NoTrack} /\ row.fx \in Seq(Reqs)
  /\ row # NoClip => row.in < row.out
Versions == [n : 1 .. NumReqs, by : Reqs]
DbOK(d) ==
  /\ d.project \in BOOLEAN
  /\ \A c \in Clips : RowOK(d.clips[c])
  /\ d.tracks \subseteq Tracks
  /\ d.trans \subseteq Reqs
  /\ d.vers \subseteq Versions
TypeOK ==
  /\ DbOK(db) /\ DbOK(disk)
  /\ \A r \in Reqs : /\ req[r].pc \in {"new", "reading", "writing", "done"}
                      /\ req[r].kind \in AllKinds \union {"none"}
                      /\ req[r].target \in Clips \union {ProjectRow, NoTarget}
                      /\ req[r].pc = "writing" => req[r].todo # <<>>
  /\ answer \in [Reqs -> {"none", "ok", "error"}]
  /\ cut \subseteq 0 .. Length - 1 /\ removed \subseteq Reqs
  /\ crashes \in 0 .. MaxCrashes

(* No edit loses material: every frame of the original clip is shown by some *)
(* clip, in memory and on disk, unless a request asked to remove it, however *)
(* splits, trims and deletions interleave and whenever the process dies (and  *)
(* every row, statement and answer is well formed).                          *)
FramesKept ==
  /\ TypeOK
  /\ \A f \in 0 .. Length - 1 : f \in cut \/ (f \in Shown(db) /\ f \in Shown(disk))

(* A clip whose deletion or split was answered is gone for good: no stale    *)
(* update, commit or crash brings its row back.                              *)
GoneForGood ==
  \A r \in Reqs :
    answer[r] = "ok" /\ req[r].kind \in {"delete", "split"} /\ ~clobbered =>
      ~Exists(db, req[r].target) /\ ~Exists(disk, req[r].target)

(* An answered effect or transition is on disk until somebody removes it, if *)
(* no two requests overlapped on that row (the rows are rewritten whole, so  *)
(* overlapping requests do lose each other's edits).                         *)
AnsweredEditsStand ==
  \A r \in Reqs :
    answer[r] = "ok" /\ ~clobbered /\ r \notin removed
      /\ req[r].target \notin contended =>
        /\ req[r].kind = "effect" /\ Exists(disk, req[r].target) =>
             r \in ToSet(disk.clips[req[r].target].fx)
        /\ req[r].kind = "transition" /\ disk.project => r \in disk.trans

(* An answered version keeps its number and its content on disk until at     *)
(* least Keep later ones exist, although two saves may compute one number.   *)
AnsweredVersionsStand ==
  \A m \in made :
    answer[m.req] = "ok" /\ disk.project /\ ~clobbered =>
      \/ m.ver \in disk.vers
      \/ Cardinality({v \in disk.vers : v.n > m.ver.n}) >= Keep
=============================================================================
