---------------------------- MODULE EditingProofs ---------------------------
(* Theorems about Editing, for any number of requests, any clip and any      *)
(* number of crashes and kept versions: material is not lost, what is gone   *)
(* stays gone, answered edits and versions are on disk.                      *)
EXTENDS Editing, FiniteSetTheorems, SequenceTheorems, WellFoundedInduction, TLAPS

-----------------------------------------------------------------------------
(* Rows, statements, and what a request has still to do.                     *)

RowRec == [src : 0 .. 1, in : 0 .. Length, out : 0 .. Length,
           track : Tracks \union {NoTrack}, fx : Seq(Reqs)]

Full(x) == x \in RowRec /\ x.in < x.out

DbRec == [project : BOOLEAN, clips : [Clips -> RowRec], tracks : SUBSET Tracks,
          trans : SUBSET Reqs, vers : SUBSET Versions]

Sound(d) == d \in DbRec /\ \A c \in Clips : Exists(d, c) => Full(d.clips[c])

Statement ==
  [op : {"commit", "rollback", "raise", "prune", "deleteProject"}]
    \union [op : {"insertClip", "updateClip"}, id : Clips, row : RowRec]
    \union [op : {"deleteClip"}, id : Clips]
    \union [op : {"insertTrack", "deleteTrack"}, id : Tracks]
    \union [op : {"updateProject"}, trans : SUBSET Reqs]
    \union [op : {"insertVersion"}, n : 1 .. NumReqs, by : Reqs]

ReqRec == [pc : {"new", "reading", "writing", "done"}, kind : AllKinds \union {"none"},
           target : Clips \union {ProjectRow, NoTarget}, copy : SUBSET Reqs,
           todo : Seq(Statement)]

Rewriting == {"trim", "effect", "change", "uneffect", "place", "move", "unplace"}
Sharing   == {"transition", "untransition", "settings"}
Elsewise  == {"none", "timeline", "drop", "save", "restore"}

(* The row that a request of each kind works on.                             *)
Aim(r, q) ==
  /\ q.kind = "add" => q.target = HalfA(r)
  /\ q.kind \in Rewriting \union {"delete", "split"} => q.target \in Clips
  /\ q.kind \in Sharing => q.target = ProjectRow
  /\ q.kind \in Elsewise => q.target = NoTarget

(* What is left of its statements t.                                         *)
AddPlan(r, t) ==
  t = <<Commit>> \/ \E x : Full(x) /\ t = <<InsertClip(HalfA(r), x), Commit>>

RewritePlan(c, t) ==
  t \in {<<Commit>>, <<Commit, Raise>>} \/ \E x : Full(x) /\ t = <<UpdateClip(c, x), Commit>>

DeletePlan(c, t) == t \in {<<Commit>>, <<DeleteClip(c), Commit>>}

SplitPlan(r, c, t) ==
  \/ t \in {<<Commit>>, <<Rollback, Raise>>, <<DeleteClip(c), Commit>>}
  \/ \E y : Full(y) /\ t = <<InsertClip(HalfB(r), y), DeleteClip(c), Commit>>
  \/ \E x, y : /\ Full(x) /\ Full(y)
               /\ t = <<InsertClip(HalfA(r), x), InsertClip(HalfB(r), y), DeleteClip(c), Commit>>

SharePlan(t) ==
  t \in {<<Commit>>, <<Commit, Raise>>} \/ \E x \in SUBSET Reqs : t = <<UpdateProject(x), Commit>>

TimelinePlan(t) ==
  /\ t # <<>> /\ t[Len(t)] = Commit
  /\ \A i \in 1 .. Len(t) : t[i].op \in {"insertTrack", "deleteTrack", "commit"}

DropPlan(t) == t \in {<<Commit>>, <<DeleteProject, Commit>>}

VersionPlan(t) ==
  \/ t \in {<<Commit>>, <<Prune, Commit>>, <<Commit, Prune, Commit>>}
  \/ \E n \in 1 .. NumReqs, b \in Reqs :
       t \in {<<InsertVersion(n, b), Commit>>, <<InsertVersion(n, b), Commit, Prune, Commit>>}

Plan(r, k, c, t) ==
  /\ k = "add" => AddPlan(r, t)
  /\ k \in Rewriting => RewritePlan(c, t)
  /\ k = "delete" => DeletePlan(c, t)
  /\ k = "split" => SplitPlan(r, c, t)
  /\ k \in Sharing => SharePlan(t)
  /\ k = "timeline" => TimelinePlan(t)
  /\ k = "drop" => DropPlan(t)
  /\ k \in {"save", "restore"} => VersionPlan(t)
  /\ k \in AllKinds

RequestOK(r, q) ==
  /\ q \in ReqRec
  /\ q.pc = "new" <=> q.kind = "none"
  /\ q.pc = "reading" => q.kind \in {"transition", "save", "restore"}
  /\ Aim(r, q)
  /\ q.pc = "writing" => Plan(r, q.kind, q.target, q.todo)

Elems(t)   == {t[i] : i \in 1 .. Len(t)}
Pending(q) == IF q.pc = "writing" THEN Elems(q.todo) ELSE {}

(* The requests that have chosen their version number, if they have one.     *)
Passed(rq) == {q \in Reqs : rq[q].pc \notin {"new", "reading"}}

Numbers ==
  LET most == Cardinality(Passed(req))
  IN /\ \A v \in db.vers \union disk.vers : v.n <= most
     /\ \A r \in Reqs : \A s \in Pending(req[r]) : s.op = "insertVersion" => s.n <= most

Plans ==
  /\ Sound(db) /\ Sound(disk)
  /\ req \in [Reqs -> ReqRec]
  /\ \A r \in Reqs : RequestOK(r, req[r])
  /\ answer \in [Reqs -> {"none", "ok", "error"}]
  /\ \A r \in Reqs : answer[r] # "none" => req[r].pc = "done"
  /\ Numbers
  /\ cut \subseteq 0 .. Length - 1 /\ removed \subseteq Reqs
  /\ clobbered \in BOOLEAN /\ crashes \in 0 .. MaxCrashes

LEMMA Kinds0 == AllKinds \union {"none"}
                  = {"add", "delete", "split"} \union Rewriting \union Sharing \union Elsewise
BY DEF AllKinds, Rewriting, Sharing, Elsewise

LEMMA Tuples ==
  /\ \A a : Head(<<a>>) = a /\ Tail(<<a>>) = <<>>
  /\ \A a, b : Head(<<a, b>>) = a /\ Tail(<<a, b>>) = <<b>>
  /\ \A a, b, c : Head(<<a, b, c>>) = a /\ Tail(<<a, b, c>>) = <<b, c>>
  /\ \A a, b, c, d : Head(<<a, b, c, d>>) = a /\ Tail(<<a, b, c, d>>) = <<b, c, d>>
OBVIOUS

LEMMA TupleElems ==
  /\ \A a : Elems(<<a>>) = {a}
  /\ \A a, b : Elems(<<a, b>>) = {a, b}
  /\ \A a, b, c : Elems(<<a, b, c>>) = {a, b, c}
  /\ \A a, b, c, d : Elems(<<a, b, c, d>>) = {a, b, c, d}
<1>1. \A a : Elems(<<a>>) = {a}
  BY DEF Elems
<1>2. \A a, b : Elems(<<a, b>>) = {a, b}
  BY DEF Elems
<1>3. \A a, b, c : Elems(<<a, b, c>>) = {a, b, c}
  <2> SUFFICES ASSUME NEW a, NEW b, NEW c
               PROVE  Elems(<<a, b, c>>) = {a, b, c}
    OBVIOUS
  <2>1. Len(<<a, b, c>>) = 3 /\ \A i \in 1 .. 3 : i \in {1, 2, 3}
    OBVIOUS
  <2>2. <<a, b, c>>[1] = a /\ <<a, b, c>>[2] = b /\ <<a, b, c>>[3] = c
    OBVIOUS
  <2> QED BY <2>1, <2>2 DEF Elems
<1>4. \A a, b, c, d : Elems(<<a, b, c, d>>) = {a, b, c, d}
  <2> SUFFICES ASSUME NEW a, NEW b, NEW c, NEW d
               PROVE  Elems(<<a, b, c, d>>) = {a, b, c, d}
    OBVIOUS
  <2> DEFINE t == <<a, b, c, d>>
  <2>1. Len(t) = 4 /\ \A i \in 1 .. 4 : i \in {1, 2, 3, 4}
    OBVIOUS
  <2>2. t[1] = a /\ t[2] = b /\ t[3] = c /\ t[4] = d
    OBVIOUS
  <2> HIDE DEF t
  <2>3. Elems(t) = {t[1], t[2], t[3], t[4]}
    BY <2>1 DEF Elems
  <2>4. Elems(t) = {a, b, c, d}
    BY <2>2, <2>3
  <2> QED BY <2>4 DEF t
<1> QED BY <1>1, <1>2, <1>3, <1>4

LEMMA ElemsHead ==
  ASSUME NEW S, NEW u \in Seq(S), u # <<>>
  PROVE  Elems(u) = {Head(u)} \union Elems(Tail(u))
<1>1. Len(u) \in Nat /\ Len(u) >= 1 /\ Len(Tail(u)) = Len(u) - 1 /\ Head(u) = u[1]
      /\ \A i \in 1 .. Len(u) - 1 : Tail(u)[i] = u[i + 1]
  OBVIOUS
<1>2. ASSUME NEW i \in 1 .. Len(u)
      PROVE  u[i] \in {Head(u)} \union Elems(Tail(u))
  <2>1. CASE i = 1
    BY <1>1, <2>1
  <2>2. CASE i # 1
    <3>1. i - 1 \in 1 .. Len(Tail(u)) /\ Tail(u)[i - 1] = u[i]
      BY <1>1, <1>2, <2>2
    <3> QED BY <3>1 DEF Elems
  <2> QED BY <2>1, <2>2
<1>3. ASSUME NEW i \in 1 .. Len(Tail(u))
      PROVE  Tail(u)[i] \in Elems(u)
  <2>1. i + 1 \in 1 .. Len(u) /\ Tail(u)[i] = u[i + 1]
    BY <1>1, <1>3
  <2> QED BY <2>1 DEF Elems
<1>4. Head(u) \in Elems(u)
  <2>1. 1 \in 1 .. Len(u)
    BY <1>1
  <2> QED BY <1>1, <2>1 DEF Elems
<1> QED BY <1>2, <1>3, <1>4 DEF Elems

(* Statements are told apart by their op.                                    *)
LEMMA Ops ==
  /\ Commit.op = "commit" /\ Rollback.op = "rollback" /\ Raise.op = "raise"
  /\ Prune.op = "prune" /\ DeleteProject.op = "deleteProject"
  /\ \A c, x : InsertClip(c, x).op = "insertClip" /\ InsertClip(c, x).id = c
               /\ InsertClip(c, x).row = x
  /\ \A c, x : UpdateClip(c, x).op = "updateClip" /\ UpdateClip(c, x).id = c
               /\ UpdateClip(c, x).row = x
  /\ \A c : DeleteClip(c).op = "deleteClip" /\ DeleteClip(c).id = c
  /\ \A t : InsertTrack(t).op = "insertTrack" /\ DeleteTrack(t).op = "deleteTrack"
            /\ InsertTrack(t).id = t /\ DeleteTrack(t).id = t
  /\ \A x : UpdateProject(x).op = "updateProject" /\ UpdateProject(x).trans = x
  /\ \A n, b : InsertVersion(n, b).op = "insertVersion" /\ InsertVersion(n, b).n = n
               /\ InsertVersion(n, b).by = b
BY DEF Commit, Rollback, Raise, Prune, DeleteProject, InsertClip, UpdateClip, DeleteClip,
       InsertTrack, DeleteTrack, UpdateProject, InsertVersion

LEMMA StatementTypes ==
  /\ {Commit, Rollback, Raise, Prune, DeleteProject} \subseteq Statement
  /\ \A c \in Clips : DeleteClip(c) \in Statement
  /\ \A c \in Clips, x \in RowRec : InsertClip(c, x) \in Statement /\ UpdateClip(c, x) \in Statement
  /\ \A t \in Tracks : InsertTrack(t) \in Statement /\ DeleteTrack(t) \in Statement
  /\ \A x \in SUBSET Reqs : UpdateProject(x) \in Statement
  /\ \A n \in 1 .. NumReqs, b \in Reqs : InsertVersion(n, b) \in Statement
BY DEF Commit, Rollback, Raise, Prune, DeleteProject, InsertClip, UpdateClip, DeleteClip,
       InsertTrack, DeleteTrack, UpdateProject, InsertVersion, Statement

(* A statement at the head of a plan tells what plan it is.                  *)
Ending(t)   == t = <<Commit>> /\ Head(t) = Commit /\ Tail(t) = <<>>
Aborting(t) == t = <<Commit, Raise>> /\ Head(t) = Commit /\ Tail(t) = <<Raise>>

LEMMA LastStep == Ending(<<Commit>>) /\ Aborting(<<Commit, Raise>>)
BY Tuples DEF Ending, Aborting

LEMMA AddStep ==
  ASSUME NEW r, NEW t, AddPlan(r, t)
  PROVE  \/ Ending(t)
         \/ \E x : Full(x) /\ Head(t) = InsertClip(HalfA(r), x) /\ Tail(t) = <<Commit>>
BY Tuples, LastStep, Zenon DEF AddPlan

LEMMA RewriteStep ==
  ASSUME NEW c, NEW t, RewritePlan(c, t)
  PROVE  \/ Ending(t) \/ Aborting(t)
         \/ \E x : Full(x) /\ Head(t) = UpdateClip(c, x) /\ Tail(t) = <<Commit>>
BY Tuples, LastStep, Zenon DEF RewritePlan

LEMMA DeleteStep ==
  ASSUME NEW c, NEW t, DeletePlan(c, t)
  PROVE  Ending(t) \/ (Head(t) = DeleteClip(c) /\ Tail(t) = <<Commit>>)
BY Tuples, LastStep, Zenon DEF DeletePlan

LEMMA SplitStep ==
  ASSUME NEW r, NEW c, NEW t, SplitPlan(r, c, t)
  PROVE  \/ Ending(t)
         \/ Head(t) = Rollback /\ Tail(t) = <<Raise>>
         \/ Head(t) = DeleteClip(c) /\ Tail(t) = <<Commit>>
         \/ \E y : /\ Full(y) /\ Head(t) = InsertClip(HalfB(r), y)
                   /\ Tail(t) = <<DeleteClip(c), Commit>>
         \/ \E x, y : /\ Full(x) /\ Full(y) /\ Head(t) = InsertClip(HalfA(r), x)
                      /\ Tail(t) = <<InsertClip(HalfB(r), y), DeleteClip(c), Commit>>
<1>1. CASE t \in {<<Commit>>, <<Rollback, Raise>>, <<DeleteClip(c), Commit>>}
  <2>1. t = <<Rollback, Raise>> => Head(t) = Rollback /\ Tail(t) = <<Raise>>
    BY Tuples, Zenon
  <2>2. t = <<DeleteClip(c), Commit>> => Head(t) = DeleteClip(c) /\ Tail(t) = <<Commit>>
    BY Tuples, Zenon
  <2> QED BY <1>1, <2>1, <2>2, LastStep
<1>2. ASSUME NEW y, Full(y), t = <<InsertClip(HalfB(r), y), DeleteClip(c), Commit>>
      PROVE  Head(t) = InsertClip(HalfB(r), y) /\ Tail(t) = <<DeleteClip(c), Commit>>
  <2> DEFINE q == InsertClip(HalfB(r), y)
             d == DeleteClip(c)
  <2>1. t = <<q, d, Commit>>
    BY <1>2
  <2> HIDE DEF q, d
  <2>2. Head(t) = q /\ Tail(t) = <<d, Commit>>
    BY <2>1
  <2> QED BY <2>2 DEF q, d
<1>3. ASSUME NEW x, NEW y, Full(x), Full(y),
             t = <<InsertClip(HalfA(r), x), InsertClip(HalfB(r), y), DeleteClip(c), Commit>>
      PROVE  /\ Head(t) = InsertClip(HalfA(r), x)
             /\ Tail(t) = <<InsertClip(HalfB(r), y), DeleteClip(c), Commit>>
  <2> DEFINE p == InsertClip(HalfA(r), x)
             o == InsertClip(HalfB(r), y)
             d == DeleteClip(c)
  <2>1. t = <<p, o, d, Commit>>
    BY <1>3
  <2> HIDE DEF p, o, d
  <2>2. Head(t) = p /\ Tail(t) = <<o, d, Commit>>
    BY <2>1
  <2> QED BY <2>2 DEF p, o, d
<1> QED BY <1>1, <1>2, <1>3, Zenon DEF SplitPlan

LEMMA ShareStep ==
  ASSUME NEW t, SharePlan(t)
  PROVE  \/ Ending(t) \/ Aborting(t)
         \/ \E x \in SUBSET Reqs : Head(t) = UpdateProject(x) /\ Tail(t) = <<Commit>>
<1>1. CASE t \in {<<Commit>>, <<Commit, Raise>>}
  BY <1>1, LastStep, Zenon
<1>2. ASSUME NEW x \in SUBSET Reqs, t = <<UpdateProject(x), Commit>>
      PROVE  Head(t) = UpdateProject(x) /\ Tail(t) = <<Commit>>
  BY <1>2, Tuples, Zenon
<1> QED BY <1>1, <1>2 DEF SharePlan

LEMMA DropStep ==
  ASSUME NEW t, DropPlan(t)
  PROVE  Ending(t) \/ (Head(t) = DeleteProject /\ Tail(t) = <<Commit>>)
BY Tuples, LastStep, Zenon DEF DropPlan

LEMMA VersionStep ==
  ASSUME NEW t, VersionPlan(t)
  PROVE  \/ Ending(t)
         \/ Head(t) = Commit /\ Tail(t) = <<Prune, Commit>>
         \/ Head(t) = Prune /\ Tail(t) = <<Commit>>
         \/ \E n \in 1 .. NumReqs, b \in Reqs :
              /\ Head(t) = InsertVersion(n, b)
              /\ Tail(t) \in {<<Commit>>, <<Commit, Prune, Commit>>}
<1>1. CASE t \in {<<Commit>>, <<Prune, Commit>>, <<Commit, Prune, Commit>>}
  <2>1. t = <<Prune, Commit>> => Head(t) = Prune /\ Tail(t) = <<Commit>>
    BY Tuples, Zenon
  <2>2. t = <<Commit, Prune, Commit>> => Head(t) = Commit /\ Tail(t) = <<Prune, Commit>>
    OBVIOUS
  <2> QED BY <1>1, <2>1, <2>2, LastStep
<1>2. ASSUME NEW n \in 1 .. NumReqs, NEW b \in Reqs,
             t \in {<<InsertVersion(n, b), Commit>>, <<InsertVersion(n, b), Commit, Prune, Commit>>}
      PROVE  Head(t) = InsertVersion(n, b) /\ Tail(t) \in {<<Commit>>, <<Commit, Prune, Commit>>}
  <2> DEFINE v == InsertVersion(n, b)
  <2>1. t \in {<<v, Commit>>, <<v, Commit, Prune, Commit>>}
    BY <1>2
  <2> HIDE DEF v
  <2>2. t = <<v, Commit>> => Head(t) = v /\ Tail(t) = <<Commit>>
    OBVIOUS
  <2>3. t = <<v, Commit, Prune, Commit>> => Head(t) = v /\ Tail(t) = <<Commit, Prune, Commit>>
    OBVIOUS
  <2>4. Head(t) = v /\ Tail(t) \in {<<Commit>>, <<Commit, Prune, Commit>>}
    BY <2>1, <2>2, <2>3
  <2> QED BY <2>4 DEF v
<1> QED BY <1>1, <1>2 DEF VersionPlan

LEMMA TimelineStep ==
  ASSUME NEW S, NEW t \in Seq(S), TimelinePlan(t)
  PROVE  /\ Head(t).op \in {"insertTrack", "deleteTrack", "commit"}
         /\ Tail(t) = <<>> \/ TimelinePlan(Tail(t))
         /\ Head(t).op # "commit" => Tail(t) # <<>>
         /\ Tail(t) # <<Raise>>
<1>1. /\ Head(t) = t[1] /\ Len(t) \in Nat /\ Len(t) >= 1 /\ Tail(t) \in Seq(S)
      /\ Len(Tail(t)) = Len(t) - 1
      /\ \A i \in 1 .. Len(t) - 1 : Tail(t)[i] = t[i + 1]
  BY DEF TimelinePlan
<1>2. ASSUME Len(t) # 1
      PROVE  TimelinePlan(Tail(t))
  <2>1. Len(t) - 1 \in 1 .. Len(t) - 1
    BY <1>1, <1>2
  <2>2. Tail(t)[Len(Tail(t))] = t[Len(t) - 1 + 1]
    BY <1>1, <2>1
  <2>3. Tail(t)[Len(Tail(t))] = Commit
    BY <1>1, <2>2, Len(t) - 1 + 1 = Len(t) DEF TimelinePlan
  <2>4. Tail(t) # <<>>
    <3>1. Len(Tail(t)) # 0
      BY <1>1, <2>1
    <3>2. Len(<<>>) = 0
      OBVIOUS
    <3> QED BY <3>1, <3>2
  <2>5. ASSUME NEW i \in 1 .. Len(Tail(t))
        PROVE  Tail(t)[i].op \in {"insertTrack", "deleteTrack", "commit"}
    <3>1. i \in 1 .. Len(t) - 1 /\ i + 1 \in 1 .. Len(t)
      BY <1>1, <2>5
    <3> QED BY <1>1, <3>1 DEF TimelinePlan
  <2> QED BY <2>3, <2>4, <2>5 DEF TimelinePlan
<1>3. Len(t) = 1 => Tail(t) = <<>>
  <2>1. Tail(t) # <<>> => Len(Tail(t)) \in Nat \ {0}
    BY <1>1, EmptySeq, Zenon
  <2> QED BY <1>1, <2>1
<1>4. Len(t) = 1 => Head(t).op = "commit"
  BY <1>1, Ops DEF TimelinePlan
<1>5. TimelinePlan(Tail(t)) => Tail(t) # <<>> /\ Tail(t) # <<Raise>>
  <2>1. Len(<<Raise>>) = 1 /\ <<Raise>>[1] = Raise /\ 1 \in 1 .. 1
    OBVIOUS
  <2>2. ASSUME TimelinePlan(Tail(t)), Tail(t) = <<Raise>>
        PROVE  FALSE
    <3>1. <<Raise>>[1].op \in {"insertTrack", "deleteTrack", "commit"}
      BY <2>1, <2>2 DEF TimelinePlan
    <3> QED BY <2>1, <3>1, Ops
  <2> QED BY <2>2 DEF TimelinePlan
<1>6. <<>> # <<Raise>>
  OBVIOUS
<1>7. Head(t).op \in {"insertTrack", "deleteTrack", "commit"}
  BY <1>1 DEF TimelinePlan
<1> QED BY <1>1, <1>2, <1>3, <1>4, <1>5, <1>6, <1>7

(* What a request of kind k does next, by the head of its statements t.      *)
InsertNext(r, k, c, t) ==
  \E x : /\ Full(x)
         /\ \/ k = "add" /\ Head(t) = InsertClip(HalfA(r), x) /\ Tail(t) = <<Commit>>
            \/ /\ k = "split" /\ Head(t) = InsertClip(HalfB(r), x)
               /\ Tail(t) = <<DeleteClip(c), Commit>>
            \/ \E y : /\ k = "split" /\ Full(y) /\ Head(t) = InsertClip(HalfA(r), x)
                      /\ Tail(t) = <<InsertClip(HalfB(r), y), DeleteClip(c), Commit>>

UpdateNext(k, c, t) == /\ k \in Rewriting
                       /\ \E x : Full(x) /\ Head(t) = UpdateClip(c, x)
                       /\ Tail(t) = <<Commit>>

DeleteNext(k, c, t) == /\ k \in {"delete", "split"}
                       /\ Head(t) = DeleteClip(c) /\ Tail(t) = <<Commit>>

RollbackNext(k, t) == k = "split" /\ Head(t) = Rollback /\ Tail(t) = <<Raise>>

ShareNext(k, t) == /\ k \in Sharing
                   /\ \E x \in SUBSET Reqs : Head(t) = UpdateProject(x)
                   /\ Tail(t) = <<Commit>>

DropNext(k, t) == k = "drop" /\ Head(t) = DeleteProject /\ Tail(t) = <<Commit>>

VersionNext(k, t) ==
  /\ k \in {"save", "restore"}
  /\ \E n \in 1 .. NumReqs, b \in Reqs : Head(t) = InsertVersion(n, b)
  /\ Tail(t) \in {<<Commit>>, <<Commit, Prune, Commit>>}

PruneNext(k, t) == k \in {"save", "restore"} /\ Head(t) = Prune /\ Tail(t) = <<Commit>>

CommitNext(k, t) ==
  /\ Head(t) = Commit
  /\ \/ Ending(t)
     \/ Aborting(t) /\ k \in Rewriting \union Sharing
     \/ k \in {"save", "restore"} /\ Tail(t) = <<Prune, Commit>>

TimelineNext(k, t) ==
  /\ k = "timeline"
  /\ Head(t).op \in {"insertTrack", "deleteTrack", "commit"}
  /\ Tail(t) = <<>> \/ TimelinePlan(Tail(t))
  /\ Head(t).op # "commit" => Tail(t) # <<>>
  /\ Tail(t) # <<Raise>>

LEMMA Heads ==
  ASSUME NEW r, NEW k, NEW c, NEW S, NEW t \in Seq(S), Plan(r, k, c, t)
  PROVE  \/ InsertNext(r, k, c, t) \/ UpdateNext(k, c, t) \/ DeleteNext(k, c, t)
         \/ RollbackNext(k, t) \/ ShareNext(k, t) \/ DropNext(k, t) \/ VersionNext(k, t)
         \/ PruneNext(k, t) \/ CommitNext(k, t) \/ TimelineNext(k, t)
<1> USE DEF Plan
<1>1. CASE k = "add"
  <2>1. Ending(t) => CommitNext(k, t)
    BY DEF Ending, CommitNext
  <2> QED BY <1>1, <2>1, AddStep DEF InsertNext
<1>2. CASE k \in Rewriting
  <2>1. Ending(t) \/ Aborting(t) => CommitNext(k, t)
    BY <1>2 DEF Ending, Aborting, CommitNext
  <2> QED BY <1>2, <2>1, RewriteStep DEF UpdateNext
<1>3. CASE k = "delete"
  BY <1>3, DeleteStep DEF DeleteNext, CommitNext, Ending
<1>4. CASE k = "split"
  <2>1. Ending(t) => CommitNext(k, t)
    BY DEF Ending, CommitNext
  <2> QED BY <1>4, <2>1, SplitStep DEF InsertNext, DeleteNext, RollbackNext
<1>5. CASE k \in Sharing
  <2>1. Ending(t) \/ Aborting(t) => CommitNext(k, t)
    BY <1>5 DEF Ending, Aborting, CommitNext
  <2> QED BY <1>5, <2>1, ShareStep DEF ShareNext
<1>6. CASE k = "drop"
  BY <1>6, DropStep DEF DropNext, CommitNext, Ending
<1>7. CASE k \in {"save", "restore"}
  <2>1. Ending(t) => CommitNext(k, t)
    BY DEF Ending, CommitNext
  <2> QED BY <1>7, <2>1, VersionStep DEF VersionNext, PruneNext, CommitNext
<1>8. CASE k = "timeline"
  BY <1>8, TimelineStep DEF TimelineNext
<1> QED BY <1>1, <1>2, <1>3, <1>4, <1>5, <1>6, <1>7, <1>8 DEF AllKinds, Rewriting, Sharing

LEMMA NextOps ==
  ASSUME NEW r, NEW k, NEW c, NEW t
  PROVE  /\ InsertNext(r, k, c, t) => Head(t).op = "insertClip"
         /\ UpdateNext(k, c, t) => Head(t).op = "updateClip"
         /\ DeleteNext(k, c, t) => Head(t).op = "deleteClip"
         /\ RollbackNext(k, t) => Head(t).op = "rollback"
         /\ ShareNext(k, t) => Head(t).op = "updateProject"
         /\ DropNext(k, t) => Head(t).op = "deleteProject"
         /\ VersionNext(k, t) => Head(t).op = "insertVersion"
         /\ PruneNext(k, t) => Head(t).op = "prune"
         /\ CommitNext(k, t) => Head(t).op = "commit"
         /\ TimelineNext(k, t) => Head(t).op \in {"insertTrack", "deleteTrack", "commit"}
<1>1. InsertNext(r, k, c, t) => Head(t).op = "insertClip"
  BY Ops DEF InsertNext
<1>2. UpdateNext(k, c, t) => Head(t).op = "updateClip"
  BY Ops DEF UpdateNext
<1>3. DeleteNext(k, c, t) => Head(t).op = "deleteClip"
  BY Ops DEF DeleteNext
<1>4. ShareNext(k, t) => Head(t).op = "updateProject"
  BY Ops DEF ShareNext
<1>5. VersionNext(k, t) => Head(t).op = "insertVersion"
  BY Ops DEF VersionNext
<1> QED BY <1>1, <1>2, <1>3, <1>4, <1>5, Ops
        DEF RollbackNext, DropNext, PruneNext, CommitNext, TimelineNext

(* So the op at the head tells which of these it is.                         *)
LEMMA ByOp ==
  ASSUME NEW r, NEW k, NEW c, NEW S, NEW t \in Seq(S), Plan(r, k, c, t)
  PROVE  /\ Head(t).op = "insertClip" => InsertNext(r, k, c, t)
         /\ Head(t).op = "updateClip" => UpdateNext(k, c, t)
         /\ Head(t).op = "deleteClip" => DeleteNext(k, c, t)
         /\ Head(t).op = "rollback" => RollbackNext(k, t)
         /\ Head(t).op = "updateProject" => ShareNext(k, t)
         /\ Head(t).op = "deleteProject" => DropNext(k, t)
         /\ Head(t).op = "insertVersion" => VersionNext(k, t)
         /\ Head(t).op = "prune" => PruneNext(k, t)
         /\ Head(t).op = "commit" => CommitNext(k, t) \/ TimelineNext(k, t)
         /\ Head(t).op \in {"insertTrack", "deleteTrack"} => TimelineNext(k, t)
BY Heads, NextOps, ZenonT(40)

(* What Continues does.                                                      *)
Others(r) == \A q \in Reqs : q # r => req'[q] = req[q] /\ answer'[q] = answer[q]

Went(r, t) ==
  /\ Others(r)
  /\ req'[r].kind = req[r].kind /\ req'[r].target = req[r].target
  /\ req'[r].copy = req[r].copy
  /\ IF t \in {<<>>, <<Raise>>}
     THEN /\ req'[r].pc = "done" /\ req'[r].todo = <<>>
          /\ answer'[r] = IF t = <<>> THEN "ok" ELSE "error"
     ELSE req'[r].pc = "writing" /\ req'[r].todo = t /\ answer'[r] = answer[r]

LEMMA ContinuesFacts ==
  ASSUME Plans, NEW r \in Reqs, req[r].pc = "writing",
         NEW t \in Seq(Statement), Continues(r, t)
  PROVE  Went(r, t) /\ req' \in [Reqs -> ReqRec]
         /\ answer' \in [Reqs -> {"none", "ok", "error"}]
<1>1. req \in [Reqs -> ReqRec] /\ answer \in [Reqs -> {"none", "ok", "error"}]
  BY DEF Plans
<1>2. CASE t \in {<<>>, <<Raise>>}
  <2>1. /\ req' = [req EXCEPT ![r] = [@ EXCEPT !.pc = "done", !.todo = <<>>]]
        /\ answer' = [answer EXCEPT ![r] = IF t = <<>> THEN "ok" ELSE "error"]
    BY <1>2 DEF Continues
  <2>2. <<>> \in Seq(Statement)
    OBVIOUS
  <2> QED BY <1>1, <1>2, <2>1, <2>2 DEF Went, Others, ReqRec
<1>3. CASE t \notin {<<>>, <<Raise>>}
  <2>1. /\ req' = [req EXCEPT ![r] = [@ EXCEPT !.todo = t]] /\ answer' = answer
    BY <1>3 DEF Continues
  <2> QED BY <1>1, <1>3, <2>1 DEF Went, Others, ReqRec
<1> QED BY <1>2, <1>3

(* What remains of a plan is a plan.                                         *)
LEMMA TailIsPlan ==
  ASSUME NEW r, NEW k, NEW c, NEW S, NEW t \in Seq(S), Plan(r, k, c, t)
  PROVE  Tail(t) \in {<<>>, <<Raise>>} \/ Plan(r, k, c, Tail(t))
<1>1. k \in AllKinds
  BY DEF Plan
<1>2. CASE InsertNext(r, k, c, t)
  <2>1. k = "add" /\ Tail(t) = <<Commit>> => Plan(r, k, c, Tail(t))
    BY <1>1 DEF Plan, AddPlan, Rewriting, Sharing
  <2>2. k = "split" /\ Tail(t) = <<DeleteClip(c), Commit>> => Plan(r, k, c, Tail(t))
    BY <1>1 DEF Plan, SplitPlan, Rewriting, Sharing
  <2>3. ASSUME k = "split", NEW y, Full(y), Tail(t) = <<InsertClip(HalfB(r), y), DeleteClip(c), Commit>>
        PROVE  Plan(r, k, c, Tail(t))
    <3>1. SplitPlan(r, c, Tail(t))
      BY <2>3, Zenon DEF SplitPlan
    <3> QED BY <1>1, <2>3, <3>1 DEF Plan, Rewriting, Sharing
  <2> QED BY <1>2, <2>1, <2>2, <2>3 DEF InsertNext
<1>3. CASE UpdateNext(k, c, t)
  BY <1>1, <1>3 DEF UpdateNext, Plan, RewritePlan, Rewriting, Sharing
<1>4. CASE DeleteNext(k, c, t)
  BY <1>1, <1>4 DEF DeleteNext, Plan, DeletePlan, SplitPlan, Rewriting, Sharing
<1>5. CASE RollbackNext(k, t)
  BY <1>5 DEF RollbackNext
<1>6. CASE ShareNext(k, t)
  BY <1>1, <1>6 DEF ShareNext, Plan, SharePlan, Rewriting, Sharing
<1>7. CASE DropNext(k, t)
  BY <1>1, <1>7 DEF DropNext, Plan, DropPlan, Rewriting, Sharing
<1>8. CASE VersionNext(k, t)
  BY <1>1, <1>8 DEF VersionNext, Plan, VersionPlan, Rewriting, Sharing
<1>9. CASE PruneNext(k, t)
  BY <1>1, <1>9 DEF PruneNext, Plan, VersionPlan, Rewriting, Sharing
<1>10. CASE CommitNext(k, t)
  BY <1>1, <1>10 DEF CommitNext, Ending, Aborting, Plan, VersionPlan, Rewriting, Sharing
<1>11. CASE TimelineNext(k, t)
  BY <1>1, <1>11 DEF TimelineNext, Plan, Rewriting, Sharing
<1> QED BY <1>2, <1>3, <1>4, <1>5, <1>6, <1>7, <1>8, <1>9, <1>10, <1>11, Heads

(* What every statement that is executed does to its request: it goes on     *)
(* with t, the rest of its plan or the way out of an error.                  *)
Escapes(r, t) ==
  \/ t \in {<<Raise>>, <<Commit, Raise>>}
  \/ t = <<Rollback, Raise>> /\ ~db.project

Ran(r, t) ==
  /\ req[r].pc = "writing" /\ req[r].todo \in Seq(Statement) /\ req[r].todo # <<>>
  /\ Plan(r, req[r].kind, req[r].target, req[r].todo)
  /\ Went(r, t)
  /\ t \in {<<>>, <<Raise>>} \/ Plan(r, req[r].kind, req[r].target, t)
  /\ t = Tail(req[r].todo) \/ Escapes(r, t)
  /\ req' \in [Reqs -> ReqRec] /\ answer' \in [Reqs -> {"none", "ok", "error"}]

LEMMA Writer ==
  ASSUME Plans, NEW r \in Reqs, req[r].pc = "writing"
  PROVE  /\ req[r] \in ReqRec /\ req[r].todo \in Seq(Statement) /\ req[r].todo # <<>>
         /\ Plan(r, req[r].kind, req[r].target, req[r].todo)
         /\ Aim(r, req[r]) /\ req[r].kind \in AllKinds
         /\ Tail(req[r].todo) \in Seq(Statement)
         /\ Head(req[r].todo) \in Statement
<1>1. /\ req[r] \in ReqRec /\ Plan(r, req[r].kind, req[r].target, req[r].todo) /\ Aim(r, req[r])
  BY DEF Plans, RequestOK
<1>2. req[r].todo \in Seq(Statement)
  BY <1>1 DEF ReqRec
<1>3. req[r].todo # <<>>
  <2>1. \A a : <<>> # <<a>>
    OBVIOUS
  <2>2. \A a, b : <<>> # <<a, b>>
    OBVIOUS
  <2>3. \A a, b, c : <<>> # <<a, b, c>>
    OBVIOUS
  <2>4. \A a, b, c, d : <<>> # <<a, b, c, d>>
    OBVIOUS
  <2> DEFINE k == req[r].kind
             t == req[r].todo
  <2>5. k = "add" => t # <<>>
    BY <1>1, <2>1, <2>2, Zenon DEF Plan, AddPlan
  <2>6. k \in Rewriting => t # <<>>
    BY <1>1, <2>1, <2>2, Zenon DEF Plan, RewritePlan
  <2>7. k = "delete" => t # <<>>
    BY <1>1, <2>1, <2>2, Zenon DEF Plan, DeletePlan
  <2>8. k = "split" => t # <<>>
    BY <1>1, <2>1, <2>2, <2>3, <2>4, Zenon DEF Plan, SplitPlan
  <2>9. k \in Sharing => t # <<>>
    BY <1>1, <2>1, <2>2, Zenon DEF Plan, SharePlan
  <2>10. k = "timeline" => t # <<>>
    BY <1>1, Zenon DEF Plan, TimelinePlan
  <2>11. k = "drop" => t # <<>>
    BY <1>1, <2>1, <2>2, Zenon DEF Plan, DropPlan
  <2>12. k \in {"save", "restore"} => t # <<>>
    BY <1>1, <2>1, <2>2, <2>3, <2>4, Zenon DEF Plan, VersionPlan
  <2> QED BY <1>1, <2>5, <2>6, <2>7, <2>8, <2>9, <2>10, <2>11, <2>12
          DEF Plan, AllKinds, Rewriting, Sharing
<1>4. Head(req[r].todo) \in Statement /\ Tail(req[r].todo) \in Seq(Statement)
  BY <1>2, <1>3
<1> QED BY <1>1, <1>2, <1>3, <1>4 DEF Plan

LEMMA GoesOn ==
  ASSUME Plans, NEW r \in Reqs, req[r].pc = "writing", Next1(r)
  PROVE  Ran(r, Tail(req[r].todo))
<1>1. Continues(r, Tail(req[r].todo)) /\ Tail(req[r].todo) \in Seq(Statement)
  BY Writer DEF Next1
<1>2. /\ Went(r, Tail(req[r].todo)) /\ req' \in [Reqs -> ReqRec]
      /\ answer' \in [Reqs -> {"none", "ok", "error"}]
  BY <1>1, ContinuesFacts
<1>3. \/ Tail(req[r].todo) \in {<<>>, <<Raise>>}
      \/ Plan(r, req[r].kind, req[r].target, Tail(req[r].todo))
  BY Writer, TailIsPlan
<1> QED BY <1>2, <1>3, Writer DEF Ran

LEMMA GoesOut ==
  ASSUME Plans, NEW r \in Reqs, req[r].pc = "writing", NEW t, Continues(r, t),
         \/ t = <<Raise>>
         \/ t = <<Commit, Raise>> /\ req[r].kind \in Rewriting \union Sharing
         \/ t = <<Rollback, Raise>> /\ req[r].kind = "split" /\ ~db.project
  PROVE  Ran(r, t)
<1>1. t \in Seq(Statement)
  <2>1. Raise \in Statement /\ Commit \in Statement /\ Rollback \in Statement
    BY StatementTypes
  <2>2. \A S : \A a, b \in S : <<a>> \in Seq(S) /\ <<a, b>> \in Seq(S)
    OBVIOUS
  <2> QED BY <2>1, <2>2, Zenon
<1>2. /\ Went(r, t) /\ req' \in [Reqs -> ReqRec]
      /\ answer' \in [Reqs -> {"none", "ok", "error"}]
  BY <1>1, ContinuesFacts
<1>3. t = <<Raise>> \/ Plan(r, req[r].kind, req[r].target, t)
  <2>1. t = <<Commit, Raise>> => RewritePlan(req[r].target, t) /\ SharePlan(t)
    BY DEF RewritePlan, SharePlan
  <2>2. t = <<Rollback, Raise>> => SplitPlan(r, req[r].target, t)
    BY DEF SplitPlan
  <2> QED BY <2>1, <2>2, Writer DEF Plan, Rewriting, Sharing
<1> QED BY <1>2, <1>3, Writer DEF Ran, Escapes

(* Updates of the database.                                                  *)
Same(d, e) == /\ e.project = d.project /\ e.tracks = d.tracks
              /\ e.trans = d.trans /\ e.vers = d.vers

LEMMA ClipSet ==
  ASSUME NEW d, Sound(d)
  PROVE  \A c \in Clips : \A x : Full(x) \/ x = NoClip =>
           /\ Sound([d EXCEPT !.clips[c] = x]) /\ Same(d, [d EXCEPT !.clips[c] = x])
           /\ [d EXCEPT !.clips[c] = x].clips = [d.clips EXCEPT ![c] = x]
<1> SUFFICES ASSUME NEW c \in Clips, NEW x, Full(x) \/ x = NoClip,
                    NEW e, e = [d EXCEPT !.clips[c] = x]
             PROVE  Sound(e) /\ Same(d, e) /\ e.clips = [d.clips EXCEPT ![c] = x]
  OBVIOUS
<1>1. x \in RowRec
  <2>1. NoClip \in RowRec
    BY EditingAssumption DEF NoClip, Row, RowRec, NoTrack
  <2> QED BY <2>1 DEF Full
<1>2. e \in DbRec /\ Same(d, e) /\ e.clips = [d.clips EXCEPT ![c] = x]
  BY <1>1 DEF Sound, DbRec, Same
<1> QED BY <1>2 DEF Sound, DbRec, Exists

LEMMA FieldSet ==
  ASSUME NEW d, Sound(d)
  PROVE  /\ \A t \in SUBSET Tracks : Sound([d EXCEPT !.tracks = t])
                                     /\ [d EXCEPT !.tracks = t].clips = d.clips
                                     /\ [d EXCEPT !.tracks = t].project = d.project
                                     /\ [d EXCEPT !.tracks = t].trans = d.trans
                                     /\ [d EXCEPT !.tracks = t].vers = d.vers
         /\ \A t \in SUBSET Reqs : Sound([d EXCEPT !.trans = t])
                                   /\ [d EXCEPT !.trans = t].clips = d.clips
                                   /\ [d EXCEPT !.trans = t].project = d.project
                                   /\ [d EXCEPT !.trans = t].trans = t
                                   /\ [d EXCEPT !.trans = t].vers = d.vers
         /\ \A t \in SUBSET Versions : Sound([d EXCEPT !.vers = t])
                                       /\ [d EXCEPT !.vers = t].clips = d.clips
                                       /\ [d EXCEPT !.vers = t].project = d.project
                                       /\ [d EXCEPT !.vers = t].trans = d.trans
                                       /\ [d EXCEPT !.vers = t].vers = t
BY DEF Sound, DbRec, Exists

(* What each statement does to the rest, said without EXCEPT.  The clip,     *)
(* the tracks, the transitions or the versions change, or all at once.       *)
StillClips == db'.clips = db.clips
Rest       == UNCHANGED <<made, clobbered, disk, removed, contended, crashes>>

Clip(c, x) ==
  /\ db'.clips = [db.clips EXCEPT ![c] = x] /\ Same(db, db')
  /\ Rest

DidInsertClip(r) ==
  \/ /\ db.project /\ cut' = cut /\ Ran(r, Tail(req[r].todo))
     /\ Clip(Stmt(r).id, Stmt(r).row)
  \/ /\ ~db.project /\ UNCHANGED <<db, cut>> /\ Rest
     /\ Ran(r, IF req[r].kind = "split" THEN <<Rollback, Raise>> ELSE <<Raise>>)

DidUpdateClip(r) ==
  \/ /\ Exists(db, Stmt(r).id) /\ Ran(r, Tail(req[r].todo))
     /\ cut' = cut \union (Span(db.clips[Stmt(r).id]) \ Span(Stmt(r).row))
     /\ Clip(Stmt(r).id, Stmt(r).row)
  \/ /\ ~Exists(db, Stmt(r).id) /\ UNCHANGED <<db, cut>> /\ Rest
     /\ Ran(r, <<Commit, Raise>>)

DidDeleteClip(r) ==
  /\ Ran(r, Tail(req[r].todo)) /\ Clip(Stmt(r).id, NoClip)
  /\ cut' = cut \union (IF req[r].kind = "delete" THEN Span(db.clips[Stmt(r).id]) ELSE {})

DidTrack(r) ==
  /\ StillClips /\ Rest /\ cut' = cut
  /\ db'.project = db.project /\ db'.trans = db.trans /\ db'.vers = db.vers
  /\ Ran(r, Tail(req[r].todo)) \/ Ran(r, <<Raise>>)

DidUpdateProject(r) ==
  /\ StillClips /\ Rest /\ cut' = cut
  /\ db'.project = db.project /\ db'.vers = db.vers
  /\ \/ db.project /\ db'.trans = Stmt(r).trans /\ Ran(r, Tail(req[r].todo))
     \/ ~db.project /\ db' = db /\ Ran(r, <<Commit, Raise>>)

DidDeleteProject(r) ==
  /\ Ran(r, Tail(req[r].todo)) /\ Rest
  /\ cut' = cut \union 0 .. Length - 1
  /\ ~db'.project /\ \A c \in Clips : ~Exists(db', c)
  /\ db'.trans = {} /\ db'.vers = {}

DidInsertVersion(r) ==
  /\ StillClips /\ cut' = cut
  /\ db'.project = db.project /\ db'.trans = db.trans
  /\ UNCHANGED <<clobbered, disk, removed, contended, crashes>>
  /\ \/ LET v == [n |-> Stmt(r).n, by |-> Stmt(r).by]
        IN db'.vers = db.vers \union {v} /\ made' = made \union {[req |-> r, ver |-> v]}
           /\ Ran(r, Tail(req[r].todo))
     \/ UNCHANGED <<db, made>> /\ Ran(r, <<Raise>>)

DidPrune(r) ==
  /\ StillClips /\ Rest /\ cut' = cut
  /\ db'.project = db.project /\ db'.trans = db.trans /\ db'.vers = Pruned(db.vers)
  /\ Ran(r, Tail(req[r].todo))

DidCommit(r) ==
  /\ disk' = db /\ UNCHANGED <<db, history>> /\ Ran(r, Tail(req[r].todo))

DidRollback(r) ==
  /\ db' = disk /\ UNCHANGED <<disk, cut, removed, made, contended, crashes>>
  /\ clobbered' = (clobbered \/ \E q \in Reqs \ {r} : req[q].pc = "writing")
  /\ Ran(r, Tail(req[r].todo))
  /\ req[r].kind = "split" /\ Head(req[r].todo) = Rollback /\ Tail(req[r].todo) = <<Raise>>

LEMMA InsertClipDone ==
  ASSUME Plans, NEW r \in Reqs, ExecInsertClip(r)
  PROVE  /\ DidInsertClip(r) /\ Sound(db')
         /\ InsertNext(r, req[r].kind, req[r].target, req[r].todo)
<1>1. req[r].pc = "writing" /\ InsertNext(r, req[r].kind, req[r].target, req[r].todo)
  BY Writer, ByOp DEF ExecInsertClip, Executes
<1>2. Stmt(r).id \in Clips /\ Full(Stmt(r).row)
  <2>1. HalfA(r) \in Clips /\ HalfB(r) \in Clips
    BY EditingAssumption DEF HalfA, HalfB, Clips, Reqs
  <2> QED BY <1>1, <2>1, Ops DEF InsertNext, Stmt
<1>3. CASE db.project
  <2>1. /\ Next1(r) /\ db' = [db EXCEPT !.clips[Stmt(r).id] = Stmt(r).row]
        /\ cut' = cut \union {} /\ Rest
    BY <1>3 DEF ExecInsertClip, Sets, Rest
  <2>2. Sound(db') /\ Clip(Stmt(r).id, Stmt(r).row)
    <3>1. Sound(db)
      BY DEF Plans
    <3> QED BY <1>2, <2>1, <3>1, ClipSet, Zenon DEF Clip
  <2>3. Ran(r, Tail(req[r].todo))
    BY <1>1, <2>1, GoesOn
  <2> QED BY <1>1, <1>3, <2>1, <2>2, <2>3 DEF DidInsertClip
<1>4. CASE ~db.project
  <2>1. /\ Continues(r, IF req[r].kind = "split" THEN <<Rollback, Raise>> ELSE <<Raise>>)
        /\ db' = db /\ cut' = cut \union {} /\ Rest
    BY <1>4 DEF ExecInsertClip, Sets, Rest
  <2>2. Ran(r, IF req[r].kind = "split" THEN <<Rollback, Raise>> ELSE <<Raise>>)
    BY <1>1, <1>4, <2>1, GoesOut
  <2> QED BY <1>1, <1>4, <2>1, <2>2 DEF DidInsertClip, Plans
<1>5. db.project \in BOOLEAN
  BY DEF Plans, Sound, DbRec
<1> QED BY <1>3, <1>4, <1>5

LEMMA UpdateClipDone ==
  ASSUME Plans, NEW r \in Reqs, ExecUpdateClip(r)
  PROVE  /\ DidUpdateClip(r) /\ Sound(db')
         /\ UpdateNext(req[r].kind, req[r].target, req[r].todo)
<1>1. req[r].pc = "writing" /\ UpdateNext(req[r].kind, req[r].target, req[r].todo)
  BY Writer, ByOp DEF ExecUpdateClip, Executes
<1>2. Stmt(r).id \in Clips /\ Full(Stmt(r).row) /\ req[r].kind \in Rewriting
  <2>1. req[r].target \in Clips
    BY <1>1, Writer DEF UpdateNext, Aim
  <2> QED BY <1>1, <2>1, Ops DEF UpdateNext, Stmt
<1>3. CASE Exists(db, Stmt(r).id)
  <2>1. /\ Next1(r) /\ db' = [db EXCEPT !.clips[Stmt(r).id] = Stmt(r).row]
        /\ cut' = cut \union (Span(db.clips[Stmt(r).id]) \ Span(Stmt(r).row)) /\ Rest
    BY <1>3 DEF ExecUpdateClip, Sets, Rest
  <2>2. Sound(db') /\ Clip(Stmt(r).id, Stmt(r).row)
    <3>1. Sound(db)
      BY DEF Plans
    <3> QED BY <1>2, <2>1, <3>1, ClipSet, Zenon DEF Clip
  <2>3. Ran(r, Tail(req[r].todo))
    BY <1>1, <2>1, GoesOn
  <2> QED BY <1>1, <1>3, <2>1, <2>2, <2>3 DEF DidUpdateClip
<1>4. CASE ~Exists(db, Stmt(r).id)
  <2>1. Continues(r, <<Commit, Raise>>) /\ db' = db /\ cut' = cut \union {} /\ Rest
    BY <1>4 DEF ExecUpdateClip, Sets, Rest
  <2>2. Ran(r, <<Commit, Raise>>)
    BY <1>1, <1>2, <2>1, GoesOut
  <2> QED BY <1>1, <1>4, <2>1, <2>2 DEF DidUpdateClip, Plans
<1> QED BY <1>3, <1>4

LEMMA DeleteClipDone ==
  ASSUME Plans, NEW r \in Reqs, ExecDeleteClip(r)
  PROVE  /\ DidDeleteClip(r) /\ Sound(db')
         /\ DeleteNext(req[r].kind, req[r].target, req[r].todo)
<1>1. req[r].pc = "writing" /\ DeleteNext(req[r].kind, req[r].target, req[r].todo)
  BY Writer, ByOp DEF ExecDeleteClip, Executes
<1>2. Stmt(r).id \in Clips
  BY <1>1, Writer, Ops DEF DeleteNext, Aim, Stmt
<1>3. /\ Next1(r) /\ db' = [db EXCEPT !.clips[Stmt(r).id] = NoClip] /\ Rest
      /\ cut' = cut \union (IF req[r].kind = "delete" THEN Span(db.clips[Stmt(r).id]) ELSE {})
  BY DEF ExecDeleteClip, Sets, Rest
<1>4. Sound(db') /\ Clip(Stmt(r).id, NoClip)
  <2>1. Sound(db)
    BY DEF Plans
  <2> QED BY <1>2, <1>3, <2>1, ClipSet, Zenon DEF Clip
<1>5. Ran(r, Tail(req[r].todo))
  BY <1>1, <1>3, GoesOn
<1> QED BY <1>1, <1>3, <1>4, <1>5 DEF DidDeleteClip

LEMMA TrackDone ==
  ASSUME Plans, NEW r \in Reqs, ExecInsertTrack(r) \/ ExecDeleteTrack(r)
  PROVE  DidTrack(r) /\ Sound(db') /\ TimelineNext(req[r].kind, req[r].todo)
<1>1. req[r].pc = "writing" /\ TimelineNext(req[r].kind, req[r].todo)
  BY Writer, ByOp DEF ExecInsertTrack, ExecDeleteTrack, Executes
<1>2. Stmt(r).id \in Tracks
  BY <1>1, Writer DEF ExecInsertTrack, ExecDeleteTrack, Executes, Stmt, Statement
<1>3. Sound(db) /\ db.tracks \in SUBSET Tracks /\ db.project \in BOOLEAN
  BY DEF Plans, Sound, DbRec
<1>4. \/ \E t \in SUBSET Tracks : db' = [db EXCEPT !.tracks = t] /\ Next1(r)
      \/ db' = db /\ Continues(r, <<Raise>>)
  <2>1. CASE ExecInsertTrack(r) /\ db.project
    <3>1. db.tracks \union {Stmt(r).id} \in SUBSET Tracks
      BY <1>2, <1>3
    <3> QED BY <2>1, <3>1 DEF ExecInsertTrack, Sets
  <2>2. CASE ExecInsertTrack(r) /\ ~db.project
    BY <2>2 DEF ExecInsertTrack, Sets
  <2>3. CASE ExecDeleteTrack(r)
    <3>1. db.tracks \ {Stmt(r).id} \in SUBSET Tracks
      BY <1>3
    <3> QED BY <2>3, <3>1 DEF ExecDeleteTrack, Sets
  <2> QED BY <1>3, <2>1, <2>2, <2>3
<1>5. Rest /\ cut' = cut
  BY DEF ExecInsertTrack, ExecDeleteTrack, Sets, Rest
<1>6. CASE db' = db /\ Continues(r, <<Raise>>)
  BY <1>1, <1>3, <1>5, <1>6, GoesOut DEF DidTrack, StillClips
<1>7. ASSUME NEW t \in SUBSET Tracks, db' = [db EXCEPT !.tracks = t], Next1(r)
      PROVE  DidTrack(r) /\ Sound(db')
  <2>1. Ran(r, Tail(req[r].todo))
    BY <1>1, <1>7, GoesOn
  <2>2. Sound(db') /\ db'.clips = db.clips /\ db'.project = db.project
        /\ db'.trans = db.trans /\ db'.vers = db.vers
    BY <1>3, <1>7, FieldSet, Zenon
  <2> QED BY <1>5, <2>1, <2>2 DEF DidTrack, StillClips
<1> QED BY <1>1, <1>4, <1>6, <1>7

LEMMA UpdateProjectDone ==
  ASSUME Plans, NEW r \in Reqs, ExecUpdateProject(r)
  PROVE  DidUpdateProject(r) /\ Sound(db') /\ ShareNext(req[r].kind, req[r].todo)
<1>1. req[r].pc = "writing" /\ ShareNext(req[r].kind, req[r].todo)
  BY Writer, ByOp DEF ExecUpdateProject, Executes
<1>2. Stmt(r).trans \in SUBSET Reqs /\ req[r].kind \in Sharing
  BY <1>1, Ops DEF ShareNext, Stmt
<1>3. Sound(db) /\ db.project \in BOOLEAN
  BY DEF Plans, Sound, DbRec
<1>4. Rest /\ cut' = cut
  BY DEF ExecUpdateProject, Sets, Rest
<1>5. CASE db.project
  <2>1. db' = [db EXCEPT !.trans = Stmt(r).trans] /\ Next1(r)
    BY <1>5 DEF ExecUpdateProject, Sets
  <2>2. Ran(r, Tail(req[r].todo))
    BY <1>1, <2>1, GoesOn
  <2>3. Sound(db') /\ db'.clips = db.clips /\ db'.project = db.project
        /\ db'.trans = Stmt(r).trans /\ db'.vers = db.vers
    <3> DEFINE t == Stmt(r).trans
    <3>1. t \in SUBSET Reqs /\ db' = [db EXCEPT !.trans = t]
      BY <1>2, <2>1
    <3> HIDE DEF t
    <3>2. Sound(db') /\ db'.clips = db.clips /\ db'.project = db.project
          /\ db'.trans = t /\ db'.vers = db.vers
      BY <1>3, <3>1, FieldSet
    <3> QED BY <3>2 DEF t
  <2> QED BY <1>1, <1>4, <1>5, <2>2, <2>3 DEF DidUpdateProject, StillClips
<1>6. CASE ~db.project
  <2>1. db' = db /\ Continues(r, <<Commit, Raise>>)
    BY <1>6 DEF ExecUpdateProject, Sets
  <2>2. Ran(r, <<Commit, Raise>>)
    BY <1>1, <1>2, <2>1, GoesOut
  <2> QED BY <1>1, <1>3, <1>4, <1>6, <2>1, <2>2 DEF DidUpdateProject, StillClips
<1> QED BY <1>3, <1>5, <1>6

LEMMA DeleteProjectDone ==
  ASSUME Plans, NEW r \in Reqs, ExecDeleteProject(r)
  PROVE  DidDeleteProject(r) /\ Sound(db') /\ DropNext(req[r].kind, req[r].todo)
<1>1. req[r].pc = "writing" /\ DropNext(req[r].kind, req[r].todo)
  BY Writer, ByOp DEF ExecDeleteProject, Executes
<1>2. /\ Next1(r) /\ Rest /\ cut' = cut \union 0 .. Length - 1
      /\ db' = [project |-> FALSE, clips |-> [c \in Clips |-> NoClip],
                tracks |-> {}, trans |-> {}, vers |-> {}]
  BY DEF ExecDeleteProject, Sets, Rest
<1>3. NoClip \in RowRec
  BY EditingAssumption DEF NoClip, Row, RowRec, NoTrack
<1>4. Sound(db') /\ ~db'.project /\ \A c \in Clips : ~Exists(db', c)
  BY <1>2, <1>3 DEF Sound, DbRec, Exists
<1>5. db'.trans = {} /\ db'.vers = {}
  BY <1>2
<1>6. Ran(r, Tail(req[r].todo))
  BY <1>1, <1>2, GoesOn
<1> QED BY <1>1, <1>2, <1>4, <1>5, <1>6 DEF DidDeleteProject

LEMMA InsertVersionDone ==
  ASSUME Plans, NEW r \in Reqs, ExecInsertVersion(r)
  PROVE  DidInsertVersion(r) /\ Sound(db') /\ VersionNext(req[r].kind, req[r].todo)
<1>1. req[r].pc = "writing" /\ VersionNext(req[r].kind, req[r].todo)
  BY Writer, ByOp DEF ExecInsertVersion, Executes
<1> DEFINE v == [n |-> Stmt(r).n, by |-> Stmt(r).by]
<1>2. v \in Versions
  BY <1>1, Ops DEF VersionNext, Stmt, Versions
<1>3. Sound(db) /\ db.vers \subseteq Versions
  BY DEF Plans, Sound, DbRec
<1>4. UNCHANGED <<clobbered, disk, removed, contended, crashes>> /\ cut' = cut
  BY DEF ExecInsertVersion, Sets
<1>5. CASE db.project /\ \A w \in db.vers : w.n # v.n
  <2>1. /\ db' = [db EXCEPT !.vers = @ \union {v}] /\ Next1(r)
        /\ made' = made \union {[req |-> r, ver |-> v]}
    BY <1>5 DEF ExecInsertVersion
  <2>2. db' = [db EXCEPT !.vers = db.vers \union {v}] /\ db.vers \union {v} \in SUBSET Versions
    BY <1>2, <1>3, <2>1
  <2> HIDE DEF v
  <2>3. Sound(db') /\ db'.clips = db.clips /\ db'.project = db.project
        /\ db'.trans = db.trans /\ db'.vers = db.vers \union {v}
    BY <1>3, <2>2, FieldSet, Zenon
  <2>4. Ran(r, Tail(req[r].todo))
    BY <1>1, <2>1, GoesOn
  <2> QED BY <1>1, <1>4, <2>1, <2>3, <2>4 DEF DidInsertVersion, StillClips, v
<1>6. CASE ~(db.project /\ \A w \in db.vers : w.n # v.n)
  <2>1. db' = db /\ made' = made /\ Continues(r, <<Raise>>)
    BY <1>6 DEF ExecInsertVersion, Sets
  <2>2. Ran(r, <<Raise>>)
    BY <1>1, <2>1, GoesOut
  <2> QED BY <1>1, <1>3, <1>4, <2>1, <2>2 DEF DidInsertVersion, StillClips
<1> QED BY <1>5, <1>6

LEMMA PruneDone ==
  ASSUME Plans, NEW r \in Reqs, ExecPrune(r)
  PROVE  DidPrune(r) /\ Sound(db') /\ PruneNext(req[r].kind, req[r].todo)
<1>1. req[r].pc = "writing" /\ PruneNext(req[r].kind, req[r].todo)
  BY Writer, ByOp DEF ExecPrune, Executes
<1>2. /\ Next1(r) /\ Rest /\ cut' = cut
      /\ db' = [db EXCEPT !.vers = Pruned(db.vers)]
  BY DEF ExecPrune, Sets, Rest
<1>3. Pruned(db.vers) \in SUBSET Versions /\ Sound(db)
  BY DEF Plans, Sound, DbRec, Pruned
<1>4. Sound(db') /\ db'.clips = db.clips /\ db'.project = db.project
      /\ db'.trans = db.trans /\ db'.vers = Pruned(db.vers)
  BY <1>2, <1>3, FieldSet, Zenon
<1>5. Ran(r, Tail(req[r].todo))
  BY <1>1, <1>2, GoesOn
<1> QED BY <1>1, <1>2, <1>4, <1>5 DEF DidPrune, StillClips

LEMMA CommitDone ==
  ASSUME Plans, NEW r \in Reqs, ExecCommit(r)
  PROVE  /\ DidCommit(r) /\ Head(req[r].todo).op = "commit"
         /\ CommitNext(req[r].kind, req[r].todo) \/ TimelineNext(req[r].kind, req[r].todo)
<1>1. req[r].pc = "writing" /\ Next1(r) /\ Head(req[r].todo).op = "commit"
  BY DEF ExecCommit, Executes
<1>2. CommitNext(req[r].kind, req[r].todo) \/ TimelineNext(req[r].kind, req[r].todo)
  BY <1>1, Writer, ByOp
<1>3. Ran(r, Tail(req[r].todo))
  BY <1>1, GoesOn
<1> QED BY <1>1, <1>2, <1>3 DEF DidCommit, ExecCommit

LEMMA RollbackDone ==
  ASSUME Plans, NEW r \in Reqs, ExecRollback(r)
  PROVE  DidRollback(r)
<1>1. req[r].pc = "writing" /\ RollbackNext(req[r].kind, req[r].todo) /\ Next1(r)
  BY Writer, ByOp DEF ExecRollback, Executes
<1>2. Ran(r, Tail(req[r].todo))
  BY <1>1, GoesOn
<1> QED BY <1>1, <1>2 DEF DidRollback, ExecRollback, RollbackNext

-----------------------------------------------------------------------------
(* How a request begins.                                                     *)

LEMMA Appended ==
  ASSUME NEW S, NEW s \in Seq(S), NEW e \in S
  PROVE  Append(s, e) \in Seq(S) /\ e \in ToSet(Append(s, e)) /\ ToSet(s) \subseteq ToSet(Append(s, e))
<1>1. /\ Append(s, e) \in Seq(S) /\ Len(Append(s, e)) = Len(s) + 1 /\ Len(s) \in Nat
      /\ \A i \in 1 .. Len(s) : Append(s, e)[i] = s[i]
      /\ Append(s, e)[Len(s) + 1] = e
  BY AppendProperties
<1>2. DOMAIN s = 1 .. Len(s) /\ DOMAIN Append(s, e) = 1 .. Len(s) + 1
  BY <1>1
<1>3. \A i \in 1 .. Len(s) : i \in 1 .. Len(s) + 1
  BY <1>1
<1>4. Len(s) + 1 \in 1 .. Len(s) + 1
  BY <1>1
<1> QED BY <1>1, <1>2, <1>3, <1>4, Zenon DEF ToSet

LEMMA Removed ==
  ASSUME NEW S, NEW s \in Seq(S), NEW i \in 1 .. Len(s)
  PROVE  RemoveAt(s, i) \in Seq(S) /\ ToSet(s) \ {s[i]} \subseteq ToSet(RemoveAt(s, i))
<1> DEFINE n == Len(s)
           a == SubSeq(s, 1, i - 1)
           b == SubSeq(s, i + 1, n)
<1>1. i \in Nat /\ i > 0 /\ n \in Nat /\ i <= n /\ \A j \in 1 .. n : s[j] \in S
  OBVIOUS
<1>2. a \in Seq(S) /\ Len(a) = i - 1 /\ \A j \in 1 .. i - 1 : a[j] = s[j]
  <2>1. \A j \in 1 .. i - 1 : s[j] \in S
    BY <1>1
  <2> HIDE DEF n
  <2> QED BY <1>1, <2>1, SubSeqProperties
<1>3. b \in Seq(S) /\ Len(b) = n - i /\ \A j \in 1 .. n - i : b[j] = s[i + j]
  <2>1. \A j \in i + 1 .. n : s[j] \in S
    BY <1>1
  <2> HIDE DEF n
  <2> QED BY <1>1, <2>1, SubSeqProperties
<1>4. /\ a \o b \in Seq(S) /\ Len(a \o b) = n - 1
      /\ \A j \in 1 .. n - 1 : (a \o b)[j] = IF j < i THEN s[j] ELSE s[j + 1]
  <2> HIDE DEF a, b, n
  <2>1. /\ a \o b \in Seq(S) /\ Len(a \o b) = n - 1
        /\ \A j \in 1 .. n - 1 : (a \o b)[j] = IF j <= Len(a) THEN a[j] ELSE b[j - Len(a)]
    BY <1>1, <1>2, <1>3, ConcatProperties
  <2>2. ASSUME NEW j \in 1 .. n - 1, j < i
        PROVE  (a \o b)[j] = s[j]
    BY <1>1, <1>2, <2>1, <2>2
  <2>3. ASSUME NEW j \in 1 .. n - 1, ~(j < i)
        PROVE  (a \o b)[j] = s[j + 1]
    <3>1. j - Len(a) \in 1 .. n - i /\ i + (j - Len(a)) = j + 1 /\ ~(j <= Len(a))
      BY <1>1, <1>2, <2>3
    <3>2. (a \o b)[j] = b[j - Len(a)]
      BY <2>1, <3>1
    <3> QED BY <1>3, <3>1, <3>2
  <2> QED BY <2>1, <2>2, <2>3
<1>5. ASSUME NEW x \in ToSet(s), x # s[i]
      PROVE  x \in ToSet(a \o b)
  <2>1. DOMAIN (a \o b) = 1 .. n - 1
    BY <1>4, SMTT(40)
  <2>2. PICK j \in 1 .. n : x = s[j]
    BY DEF ToSet
  <2> HIDE DEF a, b, n
  <2>3. CASE j < i
    <3>1. j \in 1 .. n - 1 /\ (a \o b)[j] = x
      BY <1>1, <1>4, <2>2, <2>3
    <3> QED BY <2>1, <3>1 DEF ToSet
  <2>4. CASE j > i
    <3>1. j - 1 \in 1 .. n - 1 /\ ~(j - 1 < i) /\ j - 1 + 1 = j
      BY <1>1, <2>2, <2>4
    <3>2. (a \o b)[j - 1] = x
      BY <1>4, <2>2, <3>1
    <3> QED BY <2>1, <3>1, <3>2 DEF ToSet
  <2> QED BY <1>1, <1>5, <2>2, <2>3, <2>4
<1> QED BY <1>4, <1>5 DEF RemoveAt

(* Any enumeration of the tracks will do.                                    *)
LEMMA Enumerated ==
  ASSUME NEW S, IsFiniteSet(S)
  PROVE  SetToSeq(S) \in Seq(S)
<1>1. Cardinality(S) \in Nat /\ ExistsBijection(1 .. Cardinality(S), S)
  BY FS_CardinalityType
<1>2. \E f \in [1 .. Cardinality(S) -> S] : IsInjective(f)
  BY <1>1 DEF ExistsBijection, Bijection, Injection
<1>3. SetToSeq(S) \in [1 .. Cardinality(S) -> S]
  BY <1>2, Zenon DEF SetToSeq
<1> QED BY <1>1, <1>3

(* What Starts does.                                                         *)
Newest(r) == req[r].pc = "new" /\ \A q \in Reqs : q < r => req[q].pc # "new"

Started(r, k, x, pc, copy, todo) ==
  /\ Newest(r) /\ Others(r)
  /\ req'[r].pc = pc /\ req'[r].kind = k /\ req'[r].target = x
  /\ req'[r].copy = copy /\ req'[r].todo = todo
  /\ req' \in [Reqs -> ReqRec]
  /\ UNCHANGED <<db, disk, answer, cut, made, clobbered, crashes>>
  /\ contended \subseteq contended'
  /\ x # NoTarget /\ x \notin contended' =>
       \A q \in Reqs : Active(q) => req[q].target # x

LEMMA StartFacts ==
  ASSUME Plans, NEW r \in Reqs, NEW k, NEW x \in Clips \union {ProjectRow, NoTarget},
         NEW pc \in {"reading", "writing"}, NEW copy \in SUBSET Reqs,
         NEW todo \in Seq(Statement), Starts(r, k, x, pc, copy, todo)
  PROVE  Started(r, k, x, pc, copy, todo) /\ k \in AllKinds
<1>1. k \in AllKinds /\ req \in [Reqs -> ReqRec]
  BY EditingAssumption DEF Starts, Plans
<1>2. /\ req' = [req EXCEPT ![r] = [pc |-> pc, kind |-> k, target |-> x,
                                    copy |-> copy, todo |-> todo]]
      /\ Newest(r) /\ UNCHANGED <<db, disk, answer, cut, made, clobbered, crashes>>
  BY DEF Starts, Newest
<1>3. [pc |-> pc, kind |-> k, target |-> x, copy |-> copy, todo |-> todo] \in ReqRec
  BY <1>1 DEF ReqRec
<1>4. req' \in [Reqs -> ReqRec] /\ Others(r)
  BY <1>1, <1>2, <1>3 DEF Others
<1>5. /\ contended \subseteq contended'
      /\ x # NoTarget /\ x \notin contended' =>
           \A q \in Reqs : Active(q) => req[q].target # x
  BY DEF Starts
<1> QED BY <1>1, <1>2, <1>4, <1>5 DEF Started

(* What a request means to do, when it has begun.                            *)
MeansRewrite(r, c, todo) ==
  \E x : /\ Full(x) /\ todo = <<UpdateClip(c, x), Commit>>
         /\ (ToSet(db.clips[c].fx) \ removed') \subseteq ToSet(x.fx)
         /\ req'[r].kind = "effect" => r \in ToSet(x.fx)

MeansSplit(r, c, todo) ==
  \E x, y : /\ Full(x) /\ Full(y) /\ Span(db.clips[c]) \subseteq Span(x) \union Span(y)
            /\ todo = <<InsertClip(HalfA(r), x), InsertClip(HalfB(r), y), DeleteClip(c), Commit>>

MeansShare(todo) ==
  \E x \in SUBSET Reqs : /\ todo = <<UpdateProject(x), Commit>>
                         /\ db.trans \ removed' \subseteq x

Means(r, k, c, todo) ==
  /\ k = "add" => /\ todo = <<InsertClip(HalfA(r), Row(0, 0, 1, NoTrack, <<>>)), Commit>>
                  /\ c = HalfA(r)
  /\ k \in Rewriting => Exists(db, c) /\ MeansRewrite(r, c, todo)
  /\ k = "delete" => Exists(db, c) /\ todo = <<DeleteClip(c), Commit>>
  /\ k = "split" => Exists(db, c) /\ MeansSplit(r, c, todo)
  /\ k \in Sharing => k # "transition" /\ c = ProjectRow /\ db.project /\ MeansShare(todo)
  /\ k = "timeline" => c = NoTarget /\ TimelinePlan(todo)
  /\ k = "drop" => c = NoTarget /\ todo = <<DeleteProject, Commit>>
  /\ k \in AllKinds \ {"save", "restore"}

Began(r) ==
  /\ \E k, c, pc, copy, todo :
       /\ Started(r, k, c, pc, copy, todo)
       /\ \/ pc = "writing" /\ Means(r, k, c, todo)
          \/ /\ pc = "reading" /\ k = "transition" /\ c = ProjectRow
             /\ db.project /\ copy = db.trans
          \/ pc = "reading" /\ k \in {"save", "restore"} /\ c = NoTarget
  /\ RequestOK(r, req'[r])
  /\ removed \subseteq removed' /\ removed' \subseteq Reqs

(* So a request that has begun is well formed.                               *)
LEMMA MeansPlan ==
  ASSUME NEW r, NEW k, NEW c, NEW todo, Means(r, k, c, todo)
  PROVE  Plan(r, k, c, todo)
<1>1. k \in AllKinds
  BY DEF Means
<1>2. k = "add" => AddPlan(r, todo)
  <2>1. Full(Row(0, 0, 1, NoTrack, <<>>))
    BY EditingAssumption DEF Full, Row, RowRec, NoTrack
  <2> QED BY <2>1, Zenon DEF Means, AddPlan
<1>3. k \in Rewriting => RewritePlan(c, todo)
  BY Zenon DEF Means, MeansRewrite, RewritePlan
<1>4. k = "split" => SplitPlan(r, c, todo)
  BY Zenon DEF Means, MeansSplit, SplitPlan
<1>5. k \in Sharing => SharePlan(todo)
  BY Zenon DEF Means, MeansShare, SharePlan
<1>6. k = "delete" => DeletePlan(c, todo)
  BY DEF Means, DeletePlan
<1>7. k = "drop" => DropPlan(todo)
  BY DEF Means, DropPlan
<1>8. k = "timeline" => TimelinePlan(todo)
  BY DEF Means
<1> QED BY <1>1, <1>2, <1>3, <1>4, <1>5, <1>6, <1>7, <1>8 DEF Plan, Means

LEMMA WritesWell ==
  ASSUME Plans, NEW r \in Reqs, NEW k, NEW c \in Clips \union {ProjectRow, NoTarget},
         NEW todo \in Seq(Statement), Writes(r, k, c, todo), Means(r, k, c, todo),
         k \in Rewriting \union {"delete", "split"} => c \in Clips,
         removed \subseteq removed', removed' \subseteq Reqs
  PROVE  Began(r)
<1>1. Starts(r, k, c, "writing", {}, todo)
  BY DEF Writes
<1>2. Started(r, k, c, "writing", {}, todo) /\ k \in AllKinds
  BY <1>1, StartFacts
<1>3. Plan(r, k, c, todo)
  BY MeansPlan
<1>4. RequestOK(r, req'[r])
  <2>1. /\ req'[r] \in ReqRec /\ req'[r].kind = k /\ req'[r].target = c
        /\ req'[r].pc = "writing" /\ req'[r].todo = todo
    BY <1>2 DEF Started
  <2>2. Aim(r, req'[r])
    BY <2>1, <1>2 DEF Aim, Means, AllKinds, Elsewise
  <2>3. k # "none"
    BY <1>2 DEF AllKinds
  <2> QED BY <1>3, <2>1, <2>2, <2>3 DEF RequestOK
<1> QED BY <1>2, <1>4 DEF Began

LEMMA ReadsWell ==
  ASSUME Plans, NEW r \in Reqs, NEW k, NEW c, NEW copy \in SUBSET Reqs, Reads(r, k, c, copy),
         \/ k = "transition" /\ c = ProjectRow /\ db.project /\ copy = db.trans
         \/ k \in {"save", "restore"} /\ c = NoTarget,
         removed' = removed
  PROVE  Began(r)
<1>1. Starts(r, k, c, "reading", copy, <<>>) /\ <<>> \in Seq(Statement)
  BY DEF Reads
<1>2. Started(r, k, c, "reading", copy, <<>>) /\ k \in AllKinds
  BY <1>1, StartFacts
<1>3. RequestOK(r, req'[r])
  <2>1. /\ req'[r] \in ReqRec /\ req'[r].kind = k /\ req'[r].target = c
        /\ req'[r].pc = "reading"
    BY <1>2 DEF Started
  <2>2. Aim(r, req'[r])
    BY <2>1 DEF Aim, Rewriting, Sharing, Elsewise
  <2> QED BY <2>1, <2>2 DEF RequestOK
<1>4. removed \subseteq Reqs
  BY DEF Plans
<1> QED BY <1>2, <1>3, <1>4 DEF Began

LEMMA RewritesWell ==
  ASSUME Plans, NEW r \in Reqs, NEW k \in Rewriting, NEW c \in Clips, NEW x,
         Exists(db, c) => Full(x), Rewrites(r, k, c, x),
         removed \subseteq removed', removed' \subseteq Reqs,
         Exists(db, c) => (ToSet(db.clips[c].fx) \ removed') \subseteq ToSet(x.fx),
         k = "effect" => r \in ToSet(x.fx)
  PROVE  Began(r)
<1>1. Exists(db, c) /\ Full(x) /\ Writes(r, k, c, <<UpdateClip(c, x), Commit>>)
  BY DEF Rewrites
<1> DEFINE t == <<UpdateClip(c, x), Commit>>
<1>2. t \in Seq(Statement)
  <2>1. UpdateClip(c, x) \in Statement /\ Commit \in Statement
    BY <1>1, StatementTypes DEF Full
  <2>2. \A S : \A a, b \in S : <<a, b>> \in Seq(S)
    OBVIOUS
  <2> QED BY <2>1, <2>2, Zenon
<1>3. k \in AllKinds /\ k \notin {"add", "delete", "split", "timeline", "drop", "save", "restore"}
      /\ k \notin Sharing
  BY DEF Rewriting, AllKinds, Sharing
<1>4. req'[r].kind = k
  BY <1>1, <1>2, StartFacts DEF Writes, Started
<1>5. MeansRewrite(r, c, t)
  BY <1>1, <1>4, Zenon DEF MeansRewrite
<1>6. Means(r, k, c, t)
  BY <1>1, <1>3, <1>5 DEF Means
<1> HIDE DEF t
<1> QED BY <1>1, <1>2, <1>6, WritesWell DEF t

LEMMA Rows ==
  ASSUME Plans, NEW c \in Clips
  PROVE  /\ Exists(db, c) => Full(db.clips[c])
         /\ db.clips[c] \in RowRec /\ db.clips[c].fx \in Seq(Reqs)
         /\ db.tracks \in SUBSET Tracks /\ db.trans \in SUBSET Reqs
         /\ db.vers \in SUBSET Versions /\ removed \subseteq Reqs
BY DEF Plans, Sound, DbRec, RowRec

(* The requests that rewrite a clip.                                         *)
LEMMA BeginRewrites ==
  ASSUME Plans, NEW r \in Reqs, NEW c \in Clips,
         \/ TrimClip(r, c) \/ ApplyEffect(r, c) \/ ChangeEffect(r, c) \/ RemoveEffect(r, c)
         \/ PlaceClip(r, c) \/ MoveClip(r, c) \/ UnplaceClip(r, c)
  PROVE  Began(r)
<1> DEFINE old == db.clips[c]
<1>1. /\ old \in RowRec /\ removed \subseteq Reqs
      /\ Exists(db, c) => Full(old)
  BY Rows
<1>2. ASSUME NEW k \in Rewriting, NEW x, Rewrites(r, k, c, x), k # "effect",
             removed' = removed, Full(old) => Full(x), x.fx = old.fx
      PROVE  Began(r)
  <2>1. Exists(db, c) => Full(x) /\ ToSet(old.fx) \ removed' \subseteq ToSet(x.fx)
    BY <1>1, <1>2
  <2> QED BY <1>1, <1>2, <2>1, RewritesWell
<1>3. CASE TrimClip(r, c)
  <2>1. PICK first \in 0 .. Length - 1, last \in 1 .. Length :
          /\ first < last /\ removed' = removed
          /\ Rewrites(r, "trim", c, [old EXCEPT !.in = first, !.out = last])
    BY <1>3 DEF TrimClip
  <2> DEFINE x == [old EXCEPT !.in = first, !.out = last]
  <2>2. Full(x) /\ x.fx = old.fx
    <3>1. first \in 0 .. Length /\ last \in 0 .. Length /\ first < last
      BY <2>1, EditingAssumption
    <3> QED BY <1>1, <3>1 DEF Full, RowRec
  <2> HIDE DEF old, x
  <2>3. Rewrites(r, "trim", c, x)
    BY <2>1 DEF x
  <2> QED BY <1>2, <2>1, <2>2, <2>3 DEF Rewriting
<1>4. CASE ApplyEffect(r, c)
  <2> DEFINE x == [old EXCEPT !.fx = Append(@, r)]
  <2>1. Rewrites(r, "effect", c, x) /\ removed' = removed
    BY <1>4 DEF ApplyEffect
  <2>2. /\ Append(old.fx, r) \in Seq(Reqs) /\ r \in ToSet(Append(old.fx, r))
        /\ ToSet(old.fx) \subseteq ToSet(Append(old.fx, r))
    BY <1>1, Appended DEF RowRec
  <2>3. Full(old) => Full(x)
    BY <1>1, <2>2 DEF Full, RowRec
  <2>4. x.fx = Append(old.fx, r)
    BY <1>1 DEF RowRec
  <2> HIDE DEF x
  <2>5. /\ Exists(db, c) => Full(x)
        /\ Exists(db, c) => ToSet(old.fx) \ removed' \subseteq ToSet(x.fx)
        /\ r \in ToSet(x.fx)
    BY <1>1, <2>2, <2>3, <2>4
  <2> QED BY <1>1, <2>1, <2>5, RewritesWell DEF Rewriting
<1>5. CASE ChangeEffect(r, c)
  BY <1>2, <1>5 DEF ChangeEffect, Rewriting
<1>6. CASE RemoveEffect(r, c)
  <2>1. PICK i \in 1 .. Len(old.fx) :
          /\ Rewrites(r, "uneffect", c, [old EXCEPT !.fx = RemoveAt(@, i)])
          /\ removed' = removed \union {old.fx[i]}
    BY <1>6 DEF RemoveEffect
  <2> DEFINE x == [old EXCEPT !.fx = RemoveAt(@, i)]
  <2>2. old.fx \in Seq(Reqs)
    BY <1>1 DEF RowRec
  <2>3. /\ RemoveAt(old.fx, i) \in Seq(Reqs)
        /\ ToSet(old.fx) \ {old.fx[i]} \subseteq ToSet(RemoveAt(old.fx, i))
        /\ old.fx[i] \in Reqs
    BY <2>2, Removed
  <2>4. Full(old) => Full(x)
    BY <1>1, <2>3 DEF Full, RowRec
  <2>5. x.fx = RemoveAt(old.fx, i)
    BY <1>1 DEF RowRec
  <2>6. Rewrites(r, "uneffect", c, x)
    BY <2>1
  <2> HIDE DEF x
  <2>7. /\ Exists(db, c) => Full(x) /\ ToSet(old.fx) \ removed' \subseteq ToSet(x.fx)
        /\ removed \subseteq removed' /\ removed' \subseteq Reqs
    BY <1>1, <2>1, <2>3, <2>4, <2>5
  <2> QED BY <2>6, <2>7, RewritesWell DEF Rewriting
<1>7. CASE PlaceClip(r, c) \/ MoveClip(r, c) \/ UnplaceClip(r, c)
  <2>1. PICK t \in Tracks \union {NoTrack}, k \in {"place", "move", "unplace"} :
          Rewrites(r, k, c, [old EXCEPT !.track = t]) /\ removed' = removed
    BY <1>7, Rows DEF PlaceClip, MoveClip, UnplaceClip
  <2> DEFINE x == [old EXCEPT !.track = t]
  <2>2. (Full(old) => Full(x)) /\ x.fx = old.fx
    BY <1>1, <2>1 DEF Full, RowRec
  <2> HIDE DEF old, x
  <2>3. Rewrites(r, k, c, x)
    BY <2>1 DEF x
  <2> QED BY <1>2, <2>1, <2>2, <2>3 DEF Rewriting
<1> QED BY <1>3, <1>4, <1>5, <1>6, <1>7

LEMMA BeginSplit ==
  ASSUME Plans, NEW r \in Reqs, NEW c \in Clips, SplitClip(r, c)
  PROVE  Began(r)
<1> DEFINE old == db.clips[c]
<1>1. PICK f \in 0 .. Length : /\ old.in < f /\ f < old.out /\ Exists(db, c)
                               /\ Writes(r, "split", c, Halves(r, c, f)) /\ removed' = removed
  BY DEF SplitClip
<1>2. Full(old) /\ removed \subseteq Reqs
  BY <1>1, Rows
<1> DEFINE x == Row(old.src, old.in, f, NoTrack, <<>>)
           y == Row(old.src, f, old.out, NoTrack, <<>>)
<1>3. Full(x) /\ Full(y)
  BY <1>1, <1>2 DEF Full, RowRec, Row, NoTrack
<1>4. Span(old) \subseteq Span(x) \union Span(y)
  <2>1. x.src = old.src /\ y.src = old.src /\ x.in = old.in /\ x.out = f /\ y.in = f
        /\ y.out = old.out
    BY DEF Row
  <2>2. old.in \in Int /\ old.out \in Int /\ f \in Int
    BY <1>2 DEF Full, RowRec
  <2> HIDE DEF old, x, y
  <2> QED BY <2>1, <2>2 DEF Span
<1>5. HalfA(r) \in Clips /\ HalfB(r) \in Clips
  BY EditingAssumption DEF HalfA, HalfB, Clips, Reqs
<1>6. Halves(r, c, f) = <<InsertClip(HalfA(r), x), InsertClip(HalfB(r), y), DeleteClip(c), Commit>>
  BY DEF Halves
<1> HIDE DEF x, y, old
<1>7. Halves(r, c, f) \in Seq(Statement)
  <2>1. /\ InsertClip(HalfA(r), x) \in Statement /\ InsertClip(HalfB(r), y) \in Statement
        /\ DeleteClip(c) \in Statement /\ Commit \in Statement
    BY <1>3, <1>5, StatementTypes DEF Full
  <2>2. \A S : \A a, b, d, e \in S : <<a, b, d, e>> \in Seq(S)
    OBVIOUS
  <2> QED BY <1>6, <2>1, <2>2, Zenon
<1>8. MeansSplit(r, c, Halves(r, c, f))
  BY <1>3, <1>4, <1>6, Zenon DEF MeansSplit, old
<1>9. Means(r, "split", c, Halves(r, c, f))
  BY <1>1, <1>8 DEF Means, Rewriting, Sharing, AllKinds
<1> QED BY <1>1, <1>2, <1>7, <1>9, WritesWell

LEMMA TwoStatements ==
  ASSUME NEW a \in Statement, NEW b \in Statement
  PROVE  <<a, b>> \in Seq(Statement)
OBVIOUS

LEMMA BeginTimeline ==
  ASSUME Plans, NEW r \in Reqs, PutTimeline(r)
  PROVE  Began(r)
<1> DEFINE old == SetToSeq(db.tracks)
           n == Len(old)
           dels == [i \in 1 .. 2 * n |->
                      IF i % 2 = 1 THEN DeleteTrack(old[(i + 1) \div 2]) ELSE Commit]
           ends == <<InsertTrack(r), Commit>>
           t == dels \o ends
<1>1. Writes(r, "timeline", NoTarget, t) /\ removed' = removed /\ removed \subseteq Reqs
  BY DEF PutTimeline, Plans
<1>2. old \in Seq(Tracks)
  <2>1. IsFiniteSet(db.tracks) /\ db.tracks \subseteq Tracks
    <3>1. IsFiniteSet(Tracks)
      BY FS_Interval, EditingAssumption DEF Tracks
    <3>2. db.tracks \in SUBSET Tracks
      BY DEF Plans, Sound, DbRec
    <3> QED BY <3>1, <3>2, FS_Subset
  <2>2. old \in Seq(db.tracks)
    BY <2>1, Enumerated
  <2> HIDE DEF old
  <2> QED BY <2>1, <2>2
<1>3. n \in Nat /\ \A j \in 1 .. n : old[j] \in Tracks
  BY <1>2
<1>4. ASSUME NEW i \in 1 .. 2 * n
      PROVE  /\ dels[i] \in Statement /\ dels[i].op \in {"deleteTrack", "commit"}
  <2>1. CASE i % 2 = 1
    <3>1. (i + 1) \div 2 \in 1 .. n
      BY <1>3, <2>1
    <3>2. dels[i] = DeleteTrack(old[(i + 1) \div 2])
      BY <2>1
    <3> QED BY <1>3, <3>1, <3>2, StatementTypes, Ops
  <2>2. CASE i % 2 # 1
    BY <2>2, StatementTypes, Ops
  <2> QED BY <2>1, <2>2
<1>5. /\ dels \in Seq(Statement) /\ Len(dels) = 2 * n
  BY <1>3, <1>4
<1>6. /\ ends \in Seq(Statement) /\ Len(ends) = 2
      /\ ends[1].op = "insertTrack" /\ ends[2] = Commit
  <2>1. r \in Tracks
    BY EditingAssumption DEF Reqs, Tracks
  <2>2. InsertTrack(r) \in Statement /\ Commit \in Statement
    BY <2>1, StatementTypes
  <2> QED BY <2>2, TwoStatements, Ops
<1> HIDE DEF dels, ends
<1>7. /\ t \in Seq(Statement) /\ Len(t) = 2 * n + 2
      /\ \A i \in 1 .. 2 * n + 2 : t[i] = IF i <= 2 * n THEN dels[i] ELSE ends[i - 2 * n]
  <2> HIDE DEF n
  <2>1. /\ t \in Seq(Statement) /\ Len(t) = Len(dels) + Len(ends)
        /\ \A i \in 1 .. Len(dels) + Len(ends) :
              t[i] = IF i <= Len(dels) THEN dels[i] ELSE ends[i - Len(dels)]
    BY <1>5, <1>6, ConcatProperties, Zenon
  <2> QED BY <1>3, <1>5, <1>6, <2>1
<1>8. TimelinePlan(t)
  <2> HIDE DEF n, t
  <2>1. t # <<>> /\ Len(t) \in 1 .. 2 * n + 2
    BY <1>3, <1>7
  <2>2. t[Len(t)] = Commit
    BY <1>3, <1>6, <1>7
  <2>3. ASSUME NEW i \in 1 .. Len(t)
        PROVE  t[i].op \in {"insertTrack", "deleteTrack", "commit"}
    <3>1. CASE i <= 2 * n
      BY <1>3, <1>4, <1>7, <3>1
    <3>2. CASE i = 2 * n + 1
      BY <1>3, <1>6, <1>7, <3>2
    <3>3. CASE i = 2 * n + 2
      BY <1>3, <2>2, <1>7, <3>3, Ops
    <3> QED BY <1>3, <1>7, <3>1, <3>2, <3>3
  <2> QED BY <2>1, <2>2, <2>3 DEF TimelinePlan
<1>9. Means(r, "timeline", NoTarget, t)
  BY <1>8 DEF Means, Rewriting, Sharing, AllKinds
<1> QED BY <1>1, <1>7, <1>9, WritesWell DEF Rewriting

LEMMA BeginOthers ==
  ASSUME Plans, NEW r \in Reqs,
         \/ AddClip(r) \/ DropProject(r) \/ RemoveTransition(r) \/ UpdateSettings(r)
         \/ \E c \in Clips : RemoveClip(r, c)
  PROVE  Began(r)
<1>1. /\ removed \subseteq Reqs /\ db.trans \in SUBSET Reqs
      /\ Commit \in Statement /\ DeleteProject \in Statement
  BY StatementTypes DEF Plans, Sound, DbRec
<1>2. CASE AddClip(r)
  <2> DEFINE x == Row(0, 0, 1, NoTrack, <<>>)
             t == <<InsertClip(HalfA(r), x), Commit>>
  <2>1. HalfA(r) \in Clips /\ x \in RowRec
    BY EditingAssumption DEF HalfA, Clips, Reqs, Row, RowRec, NoTrack
  <2>2. t \in Seq(Statement)
    BY <1>1, <2>1, StatementTypes, TwoStatements
  <2>3. Means(r, "add", HalfA(r), t)
    BY DEF Means, Rewriting, Sharing, AllKinds
  <2>4. Writes(r, "add", HalfA(r), t) /\ removed' = removed
    BY <1>2 DEF AddClip
  <2> HIDE DEF t
  <2> QED BY <1>1, <2>1, <2>2, <2>3, <2>4, WritesWell DEF Rewriting
<1>3. CASE DropProject(r)
  <2> DEFINE t == <<DeleteProject, Commit>>
  <2>1. t \in Seq(Statement)
    BY <1>1, TwoStatements
  <2>2. Means(r, "drop", NoTarget, t)
    BY DEF Means, Rewriting, Sharing, AllKinds
  <2>3. Writes(r, "drop", NoTarget, t) /\ removed' = removed
    BY <1>3 DEF DropProject
  <2> HIDE DEF t
  <2> QED BY <1>1, <2>1, <2>2, <2>3, WritesWell DEF Rewriting
<1>4. CASE RemoveTransition(r) \/ UpdateSettings(r)
  <2>1. PICK k \in {"untransition", "settings"}, x \in SUBSET Reqs :
          /\ Writes(r, k, ProjectRow, <<UpdateProject(x), Commit>>)
          /\ removed \subseteq removed' /\ removed' \subseteq Reqs
          /\ db.trans \ removed' \subseteq x
    <3>1. ASSUME UpdateSettings(r)
          PROVE  /\ Writes(r, "settings", ProjectRow, <<UpdateProject(db.trans), Commit>>)
                 /\ removed' = removed
      BY <3>1 DEF UpdateSettings
    <3>2. ASSUME RemoveTransition(r)
          PROVE  \E y \in db.trans :
                   /\ Writes(r, "untransition", ProjectRow,
                             <<UpdateProject(db.trans \ {y}), Commit>>)
                   /\ removed' = removed \union {y}
      BY <3>2 DEF RemoveTransition
    <3>3. CASE RemoveTransition(r)
      <4>1. PICK y \in db.trans :
              /\ Writes(r, "untransition", ProjectRow, <<UpdateProject(db.trans \ {y}), Commit>>)
              /\ removed' = removed \union {y}
        BY <3>2, <3>3
      <4>2. /\ db.trans \ {y} \in SUBSET Reqs /\ removed \subseteq removed'
            /\ removed' \subseteq Reqs /\ db.trans \ removed' \subseteq db.trans \ {y}
        BY <1>1, <4>1
      <4> QED BY <4>1, <4>2
    <3> QED BY <1>1, <1>4, <3>1, <3>3
  <2> DEFINE t == <<UpdateProject(x), Commit>>
  <2>2. t \in Seq(Statement)
    BY <1>1, StatementTypes, TwoStatements
  <2>3. MeansShare(t)
    BY <2>1 DEF MeansShare
  <2>4. Writes(r, k, ProjectRow, t)
    BY <2>1
  <2> HIDE DEF t
  <2>5. db.project
    BY <1>4 DEF RemoveTransition, UpdateSettings
  <2>6. Means(r, k, ProjectRow, t)
    BY <2>3, <2>5 DEF Means, Rewriting, Sharing, AllKinds
  <2> QED BY <2>1, <2>2, <2>4, <2>6, WritesWell DEF Rewriting
<1>5. ASSUME NEW c \in Clips, RemoveClip(r, c)
      PROVE  Began(r)
  <2> DEFINE t == <<DeleteClip(c), Commit>>
  <2>1. t \in Seq(Statement)
    BY <1>1, StatementTypes, TwoStatements
  <2>2. Means(r, "delete", c, t)
    BY <1>5 DEF Means, Rewriting, Sharing, AllKinds, RemoveClip
  <2>3. Writes(r, "delete", c, t) /\ removed' = removed
    BY <1>5 DEF RemoveClip
  <2> HIDE DEF t
  <2> QED BY <1>1, <2>1, <2>2, <2>3, WritesWell
<1> QED BY <1>2, <1>3, <1>4, <1>5

LEMMA BeginReads ==
  ASSUME Plans, NEW r \in Reqs,
         ApplyTransition(r) \/ SaveVersion(r) \/ RestoreVersion(r)
  PROVE  Began(r)
<1>1. db.trans \in SUBSET Reqs /\ \A v \in db.vers : v.by \in Reqs
  BY DEF Plans, Sound, DbRec, Versions
<1>2. CASE ApplyTransition(r)
  BY <1>1, <1>2, ReadsWell DEF ApplyTransition
<1>3. CASE SaveVersion(r)
  BY <1>3, ReadsWell DEF SaveVersion
<1>4. CASE RestoreVersion(r)
  BY <1>1, <1>4, ReadsWell DEF RestoreVersion
<1> QED BY <1>2, <1>3, <1>4

LEMMA BeginsWell ==
  ASSUME Plans, NEW r \in Reqs, Begins(r)
  PROVE  Began(r)
<1>1. ASSUME NEW c \in Clips, OnClip(r, c)
      PROVE  Began(r)
  BY <1>1, BeginRewrites, BeginSplit, BeginOthers DEF OnClip
<1> QED BY <1>1, BeginTimeline, BeginOthers, BeginReads DEF Begins

-----------------------------------------------------------------------------
(* Version numbers.                                                          *)

LEMMA MaxExists ==
  ASSUME NEW N \in Nat, NEW S \in SUBSET (0 .. N), S # {}
  PROVE  \E m \in S : \A x \in S : x <= m
<1> DEFINE R == OpToRel(<, Nat)
           T == {N - x : x \in S}
<1>1. IsWellFoundedOn(R, Nat)
  BY NatLessThanWellFounded, Zenon
<1>2. \A x, y \in Nat : x < y => <<x, y>> \in R
  BY DEF OpToRel
<1>3. T \subseteq Nat /\ T # {}
  <2>1. \A x \in S : x \in 0 .. N
    OBVIOUS
  <2>2. \A x \in 0 .. N : N - x \in Nat
    OBVIOUS
  <2> QED BY <2>1, <2>2
<1> HIDE DEF R, T
<1>4. PICK k \in T : \A y \in T : ~(<<y, k>> \in R)
  BY <1>1, <1>3, WFMin, Zenon
<1>5. \A y \in T : ~(y < k)
  BY <1>2, <1>3, <1>4
<1>6. PICK m \in S : k = N - m
  BY DEF T
<1>7. ASSUME NEW x \in S
      PROVE  x <= m
  <2>1. ~(N - x < N - m)
    BY <1>5, <1>6 DEF T
  <2> QED BY <2>1
<1> QED BY <1>7

LEMMA Finite ==
  /\ IsFiniteSet(Reqs) /\ Cardinality(Reqs) = NumReqs
  /\ \A S \in SUBSET Versions : IsFiniteSet(S)
<1>1. IsFiniteSet(Reqs) /\ Cardinality(Reqs) = NumReqs
  BY FS_Interval, EditingAssumption DEF Reqs
<1>2. IsFiniteSet(Versions)
  <2> DEFINE P == (1 .. NumReqs) \X Reqs
             f == [p \in P |-> [n |-> p[1], by |-> p[2]]]
  <2>1. IsFiniteSet(P)
    BY <1>1, FS_Product DEF Reqs
  <2>2. f \in Surjection(P, Versions)
    <3>1. f \in [P -> Versions]
      BY DEF Versions
    <3>2. ASSUME NEW v \in Versions
          PROVE  \E p \in P : f[p] = v
      <4>1. <<v.n, v.by>> \in P /\ f[<<v.n, v.by>>] = v
        BY DEF Versions
      <4> QED BY <4>1
    <3> QED BY <3>1, <3>2 DEF Surjection
  <2> QED BY <2>1, <2>2, FS_Surjection
<1> QED BY <1>1, <1>2, FS_Subset

(* A request that now chooses makes the number of those that have one more.  *)
LEMMA OneMore ==
  ASSUME Plans, NEW r \in Reqs, req[r].pc \in {"new", "reading"}
  PROVE  /\ Cardinality(Passed(req)) \in Nat /\ Cardinality(Passed(req)) < NumReqs
         /\ Cardinality(Passed(req) \union {r}) = Cardinality(Passed(req)) + 1
<1>1. Passed(req) \in SUBSET Reqs /\ r \notin Passed(req)
  BY DEF Passed
<1>2. IsFiniteSet(Passed(req)) /\ Cardinality(Passed(req)) \in Nat
  BY <1>1, Finite, FS_Subset, FS_CardinalityType
<1>3. Cardinality(Passed(req) \union {r}) = Cardinality(Passed(req)) + 1
  BY <1>1, <1>2, FS_AddElement
<1>4. Cardinality(Passed(req) \union {r}) <= NumReqs
  <2>1. Passed(req) \union {r} \in SUBSET Reqs
    BY <1>1
  <2> QED BY <2>1, Finite, FS_Subset
<1> QED BY <1>2, <1>3, <1>4, EditingAssumption

LEMMA NextVersionFits ==
  ASSUME Plans
  PROVE  NextVersion \in Nat /\ NextVersion >= 1 /\ NextVersion <= Cardinality(Passed(req)) + 1
<1> DEFINE most == Cardinality(Passed(req))
           N == {v.n : v \in db.vers}
<1>1. most \in Nat
  <2>1. Passed(req) \in SUBSET Reqs
    BY DEF Passed
  <2> QED BY <2>1, Finite, FS_Subset, FS_CardinalityType
<1>2. \A v \in db.vers : v.n \in 1 .. NumReqs /\ v.n <= most
  BY DEF Plans, Numbers, Sound, DbRec, Versions
<1>3. CASE db.vers = {}
  BY <1>1, <1>3 DEF NextVersion
<1>4. CASE db.vers # {}
  <2>1. N # {} /\ N \in SUBSET (0 .. NumReqs) /\ \A n \in N : n <= most
    BY <1>2, <1>4
  <2>2. \E m \in N : \A x \in N : x <= m
    BY <2>1, EditingAssumption, MaxExists, Zenon
  <2> DEFINE top == CHOOSE m \in N : \A v \in db.vers : v.n <= m
  <2>3. \E m \in N : \A v \in db.vers : v.n <= m
    BY <2>2
  <2>4. top \in N
    <3> HIDE DEF N
    <3> QED BY <2>3, Zenon
  <2>5. NextVersion = 1 + top
    BY <1>4 DEF NextVersion
  <2> HIDE DEF top
  <2>6. top \in 0 .. NumReqs /\ top <= most
    BY <2>1, <2>4
  <2> HIDE DEF most, N
  <2>7. NextVersion \in Nat /\ NextVersion >= 1 /\ NextVersion <= most + 1
    BY <1>1, <2>5, <2>6, EditingAssumption
  <2> QED BY <2>7 DEF most
<1> QED BY <1>3, <1>4

-----------------------------------------------------------------------------
(* The second read.                                                          *)

Decided(r, todo) ==
  /\ Others(r) /\ req' \in [Reqs -> ReqRec]
  /\ req[r].pc = "reading" /\ req'[r].pc = "writing" /\ req'[r].todo = todo
  /\ req'[r].kind = req[r].kind /\ req'[r].target = req[r].target
  /\ UNCHANGED <<db, disk, answer, history>>

LEMMA Decides ==
  ASSUME Plans, NEW r \in Reqs, req[r].pc = "reading", NEW todo \in Seq(Statement),
         ThenWrites(r, todo)
  PROVE  Decided(r, todo)
<1>1. req \in [Reqs -> ReqRec]
  BY DEF Plans
<1>2. req' = [req EXCEPT ![r] = [@ EXCEPT !.pc = "writing", !.copy = {}, !.todo = todo]]
  BY DEF ThenWrites
<1>3. UNCHANGED <<db, disk, answer, history>>
  BY DEF ThenWrites
<1>4. [req[r] EXCEPT !.pc = "writing", !.copy = {}, !.todo = todo] \in ReqRec
  <2>1. {} \in SUBSET Reqs /\ req[r] \in ReqRec
    BY <1>1
  <2> QED BY <2>1 DEF ReqRec
<1>5. req' \in [Reqs -> ReqRec] /\ \A q \in Reqs : q # r => req'[q] = req[q]
  BY <1>1, <1>2, <1>4
<1>6. /\ req'[r].pc = "writing" /\ req'[r].todo = todo
      /\ req'[r].kind = req[r].kind /\ req'[r].target = req[r].target
  BY <1>1, <1>2 DEF ReqRec
<1> QED BY <1>3, <1>5, <1>6 DEF Decided, Others

DidReadClips(r) ==
  /\ req[r].kind = "transition"
  /\ \/ Decided(r, <<UpdateProject(req[r].copy \union {r}), Commit>>)
     \/ /\ \A q \in Reqs : q # r => req'[q] = req[q] /\ answer'[q] = answer[q]
        /\ req' \in [Reqs -> ReqRec] /\ answer' \in [Reqs -> {"none", "ok", "error"}]
        /\ req[r].pc = "reading" /\ req'[r].pc = "done" /\ answer'[r] = "error"
        /\ req'[r].kind = req[r].kind /\ req'[r].target = req[r].target
        /\ UNCHANGED <<db, disk, history>>

LEMMA ReadClipsDone ==
  ASSUME Plans, NEW r \in Reqs, ReadClips(r)
  PROVE  DidReadClips(r)
<1>1. /\ req[r].pc = "reading" /\ req[r].kind = "transition"
      /\ req \in [Reqs -> ReqRec] /\ req[r] \in ReqRec
      /\ answer \in [Reqs -> {"none", "ok", "error"}]
  BY DEF ReadClips, Plans
<1>2. ASSUME ThenWrites(r, <<UpdateProject(req[r].copy \union {r}), Commit>>)
      PROVE  Decided(r, <<UpdateProject(req[r].copy \union {r}), Commit>>)
  <2>1. UpdateProject(req[r].copy \union {r}) \in Statement /\ Commit \in Statement
    <3>1. req[r].copy \union {r} \in SUBSET Reqs
      BY <1>1 DEF ReqRec
    <3> QED BY <3>1, StatementTypes
  <2>2. <<UpdateProject(req[r].copy \union {r}), Commit>> \in Seq(Statement)
    BY <2>1, TwoStatements
  <2> QED BY <1>1, <1>2, <2>2, Decides
<1>3. CASE Fails(r)
  <2>1. /\ req' = [req EXCEPT ![r] = [@ EXCEPT !.pc = "done", !.copy = {}]]
        /\ answer' = [answer EXCEPT ![r] = "error"]
        /\ UNCHANGED <<db, disk, history>>
    BY <1>3 DEF Fails
  <2> QED BY <1>1, <2>1 DEF DidReadClips, ReqRec
<1> QED BY <1>1, <1>2, <1>3 DEF ReadClips, DidReadClips

DidReadMax(r) ==
  /\ req[r].kind \in {"save", "restore"}
  /\ \E by \in Reqs :
       \/ Decided(r, <<InsertVersion(NextVersion, by), Commit>>)
       \/ Decided(r, <<InsertVersion(NextVersion, by), Commit, Prune, Commit>>)

LEMMA ReadMaxDone ==
  ASSUME Plans, NEW r \in Reqs, ReadMax(r)
  PROVE  DidReadMax(r) /\ NextVersion \in 1 .. NumReqs
<1>1. /\ req[r].pc = "reading" /\ req[r].kind \in {"save", "restore"} /\ req[r] \in ReqRec
  BY DEF ReadMax, Plans
<1>2. NextVersion \in 1 .. NumReqs
  <2>1. Cardinality(Passed(req)) \in Nat /\ Cardinality(Passed(req)) < NumReqs
    BY <1>1, OneMore, Zenon
  <2>2. NextVersion \in Nat /\ NextVersion >= 1 /\ NextVersion <= Cardinality(Passed(req)) + 1
    BY NextVersionFits
  <2> QED BY <2>1, <2>2, EditingAssumption
<1>3. PICK by \in req[r].copy :
        ThenWrites(r, <<InsertVersion(NextVersion, by), Commit>>
                      \o IF req[r].kind = "save" THEN <<Prune, Commit>> ELSE <<>>)
  BY DEF ReadMax
<1>4. by \in Reqs
  BY <1>1 DEF ReqRec
<1> DEFINE v == InsertVersion(NextVersion, by)
<1>5. v \in Statement /\ Commit \in Statement /\ Prune \in Statement
  BY <1>2, <1>4, StatementTypes
<1> HIDE DEF v
<1>6. /\ <<v, Commit>> \o <<>> = <<v, Commit>>
      /\ <<v, Commit>> \o <<Prune, Commit>> = <<v, Commit, Prune, Commit>>
      /\ <<v, Commit>> \in Seq(Statement)
      /\ <<v, Commit, Prune, Commit>> \in Seq(Statement)
  <2>1. \A a, b : <<a, b>> \o <<>> = <<a, b>>
    OBVIOUS
  <2>2. ASSUME NEW a, NEW b, NEW c, NEW d
        PROVE  <<a, b>> \o <<c, d>> = <<a, b, c, d>>
    <3> DEFINE S == {a, b, c, d}
               x == <<a, b>> \o <<c, d>>
    <3>1. <<a, b>> \in Seq(S) /\ <<c, d>> \in Seq(S) /\ <<a, b, c, d>> \in Seq(S)
      OBVIOUS
    <3>2. /\ x \in Seq(S) /\ Len(x) = 2 + 2
          /\ \A i \in 1 .. 2 + 2 : x[i] = IF i <= 2 THEN <<a, b>>[i] ELSE <<c, d>>[i - 2]
      <4>1. Len(<<a, b>>) = 2 /\ Len(<<c, d>>) = 2
        OBVIOUS
      <4> QED BY <3>1, <4>1, ConcatProperties
    <3>3. x[1] = a /\ x[2] = b /\ x[3] = c /\ x[4] = d
      <4> HIDE DEF x
      <4> QED BY <3>2
    <3> HIDE DEF x, S
    <3>4. Len(x) = Len(<<a, b, c, d>>)
      BY <3>2
    <3>5. \A i \in 1 .. Len(x) : x[i] = <<a, b, c, d>>[i]
      BY <3>2, <3>3
    <3>6. x = <<a, b, c, d>>
      BY <3>1, <3>2, <3>4, <3>5, SeqEqual, Zenon
    <3> QED BY <3>6 DEF x
  <2>3. \A S : \A a, b, c, d \in S : <<a, b>> \in Seq(S) /\ <<a, b, c, d>> \in Seq(S)
    OBVIOUS
  <2> QED BY <1>5, <2>1, <2>2, <2>3, Zenon
<1>7. ThenWrites(r, <<v, Commit>>) \/ ThenWrites(r, <<v, Commit, Prune, Commit>>)
  BY <1>3, <1>6 DEF v
<1>8. Decided(r, <<v, Commit>>) \/ Decided(r, <<v, Commit, Prune, Commit>>)
  BY <1>1, <1>6, <1>7, Decides
<1> QED BY <1>1, <1>2, <1>4, <1>8 DEF DidReadMax, v

-----------------------------------------------------------------------------
(* Types, plans and numbers hold.                                            *)

(* Statements of a request after a step of it.                               *)
LEMMA PendingAfter ==
  ASSUME Plans, NEW r \in Reqs, NEW t, Ran(r, t)
  PROVE  /\ \/ t = Tail(req[r].todo) /\ Pending(req'[r]) \subseteq Pending(req[r])
            \/ Pending(req'[r]) \subseteq {Commit, Raise}
            \/ ~db.project /\ Pending(req'[r]) = {Rollback, Raise}
         /\ Head(req[r].todo) \in Pending(req[r])
<1>0. Head(req[r].todo) \in Pending(req[r])
  <2>1. req[r].todo \in Seq(Statement) /\ req[r].todo # <<>> /\ req[r].pc = "writing"
    BY DEF Ran
  <2>2. 1 \in 1 .. Len(req[r].todo) /\ Head(req[r].todo) = req[r].todo[1]
    BY <2>1
  <2> QED BY <2>1, <2>2 DEF Pending, Elems
<1>1. CASE t \in {<<>>, <<Raise>>}
  <2>1. req'[r].pc = "done"
    BY <1>1 DEF Ran, Went
  <2> QED BY <1>0, <2>1 DEF Pending
<1>2. CASE t \notin {<<>>, <<Raise>>}
  <2>1. req'[r].pc = "writing" /\ req'[r].todo = t /\ Pending(req'[r]) = Elems(t)
    BY <1>2 DEF Ran, Went, Pending
  <2>2. CASE t = Tail(req[r].todo)
    <3>1. req[r].todo \in Seq(Statement) /\ req[r].todo # <<>> /\ req[r].pc = "writing"
      BY DEF Ran
    <3>2. ASSUME NEW i \in 1 .. Len(t)
          PROVE  t[i] \in Elems(req[r].todo)
      <4>1. i + 1 \in 1 .. Len(req[r].todo) /\ t[i] = req[r].todo[i + 1]
        BY <2>2, <3>1, <3>2
      <4> QED BY <4>1 DEF Elems
    <3> QED BY <1>0, <2>1, <2>2, <3>1, <3>2 DEF Pending, Elems
  <2>3. CASE Escapes(r, t)
    <3>1. t = <<Commit, Raise>> => Elems(t) = {Commit, Raise}
      BY TupleElems
    <3>2. t = <<Rollback, Raise>> => Elems(t) = {Rollback, Raise}
      BY TupleElems
    <3> QED BY <1>0, <1>2, <2>1, <2>3, <3>1, <3>2 DEF Escapes
  <2> QED BY <2>2, <2>3 DEF Ran
<1> QED BY <1>1, <1>2

LEMMA RanOK ==
  ASSUME Plans, NEW r \in Reqs, NEW t, Ran(r, t)
  PROVE  /\ \A q \in Reqs : RequestOK(q, req'[q])
         /\ \A q \in Reqs : answer'[q] # "none" => req'[q].pc = "done"
         /\ Passed(req') = Passed(req)
         /\ req' \in [Reqs -> ReqRec] /\ answer' \in [Reqs -> {"none", "ok", "error"}]
<1>1. \A q \in Reqs : q # r => req'[q] = req[q] /\ answer'[q] = answer[q]
  BY DEF Ran, Went, Others
<1>2. \A q \in Reqs : /\ RequestOK(q, req[q])
                      /\ answer[q] # "none" => req[q].pc = "done"
  BY DEF Plans
<1>3. /\ req'[r].pc \in {"writing", "done"} /\ req[r].pc = "writing"
      /\ answer'[r] # "none" => req'[r].pc = "done"
  BY <1>2 DEF Ran, Went
<1>4. RequestOK(r, req'[r])
  <2>1. req'[r] \in ReqRec /\ req'[r].kind = req[r].kind /\ req'[r].target = req[r].target
    BY DEF Ran, Went
  <2>2. Aim(r, req'[r])
    BY <1>2, <2>1 DEF RequestOK, Aim
  <2>3. req'[r].pc = "writing" => Plan(r, req'[r].kind, req'[r].target, req'[r].todo)
    BY <2>1 DEF Ran, Went
  <2>4. req[r].kind # "none"
    BY <1>2, <1>3 DEF RequestOK
  <2> QED BY <1>3, <2>1, <2>2, <2>3, <2>4 DEF RequestOK
<1>5. Passed(req') = Passed(req)
  BY <1>1, <1>3 DEF Passed
<1> QED BY <1>1, <1>2, <1>3, <1>4, <1>5 DEF Ran

LEMMA NumbersRan ==
  ASSUME Plans, NEW r \in Reqs, NEW t, Ran(r, t), disk' \in {disk, db},
         \/ db'.vers \subseteq db.vers \union disk.vers
         \/ \E s \in Pending(req[r]), v \in Versions :
              s.op = "insertVersion" /\ v.n = s.n /\ db'.vers = db.vers \union {v}
  PROVE  Numbers'
<1> DEFINE most == Cardinality(Passed(req))
<1>1. /\ \A v \in db.vers \union disk.vers : v.n <= most
      /\ \A q \in Reqs : \A s \in Pending(req[q]) : s.op = "insertVersion" => s.n <= most
  BY DEF Plans, Numbers
<1>2. Cardinality(Passed(req')) = most
  BY RanOK
<1>3. \A v \in db'.vers \union disk'.vers : v.n <= most
  BY <1>1
<1>4. ASSUME NEW q \in Reqs, NEW s \in Pending(req'[q]), s.op = "insertVersion"
      PROVE  s.n <= most
  <2>1. s \in Pending(req[q])
    <3>1. CASE q = r
      <4>1. s \in Pending(req[r]) \/ s \in {Commit, Raise, Rollback}
        <5>1. \/ Pending(req'[r]) \subseteq Pending(req[r])
              \/ Pending(req'[r]) \subseteq {Commit, Raise}
              \/ Pending(req'[r]) = {Rollback, Raise}
          BY PendingAfter, Zenon
        <5> QED BY <1>4, <3>1, <5>1
      <4> QED BY <1>4, <3>1, <4>1, Ops
    <3>2. CASE q # r
      BY <1>4, <3>2 DEF Ran, Went, Others
    <3> QED BY <3>1, <3>2
  <2> QED BY <1>1, <1>4, <2>1
<1> HIDE DEF most
<1> QED BY <1>2, <1>3, <1>4 DEF Numbers, most

LEMMA PlansRan ==
  ASSUME Plans, NEW r \in Reqs, NEW t, Ran(r, t), disk' \in {disk, db}, Sound(db'),
         \/ db'.vers \subseteq db.vers \union disk.vers
         \/ \E s \in Pending(req[r]), v \in Versions :
              s.op = "insertVersion" /\ v.n = s.n /\ db'.vers = db.vers \union {v},
         cut' \subseteq 0 .. Length - 1, removed' = removed, clobbered' \in BOOLEAN,
         crashes' = crashes
  PROVE  Plans'
<1>1. Numbers'
  BY NumbersRan
<1>2. /\ \A q \in Reqs : RequestOK(q, req'[q])
      /\ \A q \in Reqs : answer'[q] # "none" => req'[q].pc = "done"
      /\ req' \in [Reqs -> ReqRec] /\ answer' \in [Reqs -> {"none", "ok", "error"}]
  BY RanOK
<1>3. Sound(disk)' /\ Sound(db)'
  BY DEF Plans
<1>4. removed' \subseteq Reqs /\ crashes' \in 0 .. MaxCrashes
  BY DEF Plans
<1> QED BY <1>1, <1>2, <1>3, <1>4 DEF Plans

LEMMA MeansElems ==
  ASSUME NEW r, NEW k, NEW c, NEW todo, Means(r, k, c, todo), NEW s \in Elems(todo)
  PROVE  /\ s.op \notin {"insertVersion", "rollback"}
         /\ s.op = "insertClip" => s.id \in {HalfA(r), HalfB(r)} /\ k \in {"add", "split"}
<1>1. CASE k = "add"
  BY <1>1, TupleElems, Ops DEF Means
<1>2. CASE k \in Rewriting
  BY <1>2, TupleElems, Ops DEF Means, MeansRewrite
<1>3. CASE k = "delete"
  BY <1>3, TupleElems, Ops DEF Means
<1>4. CASE k = "split"
  BY <1>4, TupleElems, Ops DEF Means, MeansSplit
<1>5. CASE k \in Sharing
  BY <1>5, TupleElems, Ops DEF Means, MeansShare
<1>6. CASE k = "drop"
  BY <1>6, TupleElems, Ops DEF Means
<1>7. CASE k = "timeline"
  BY <1>7 DEF Means, TimelinePlan, Elems
<1> QED BY <1>1, <1>2, <1>3, <1>4, <1>5, <1>6, <1>7 DEF Means, AllKinds, Rewriting, Sharing

LEMMA PlansBegan ==
  ASSUME Plans, NEW r \in Reqs, Began(r)
  PROVE  Plans'
<1>1. PICK k, c, pc, copy, todo :
         /\ Started(r, k, c, pc, copy, todo)
         /\ \/ pc = "writing" /\ Means(r, k, c, todo)
            \/ pc = "reading"
  BY DEF Began
<1>2. /\ \A q \in Reqs : q # r => req'[q] = req[q]
      /\ req' \in [Reqs -> ReqRec] /\ req[r].pc = "new"
      /\ UNCHANGED <<db, disk, answer, cut, clobbered, crashes>>
      /\ req'[r].pc = pc /\ req'[r].todo = todo /\ pc \in {"reading", "writing"}
  BY <1>1 DEF Started, Others, Newest
<1>3. \A q \in Reqs : RequestOK(q, req'[q])
  BY <1>2 DEF Plans, Began
<1>4. \A q \in Reqs : answer'[q] # "none" => req'[q].pc = "done"
  BY <1>2 DEF Plans
<1>5. Numbers'
  <2> DEFINE most == Cardinality(Passed(req))
  <2>1. Cardinality(Passed(req')) \in Nat /\ most \in Nat /\ most <= Cardinality(Passed(req'))
    <3>1. Passed(req) \subseteq Passed(req') /\ Passed(req') \in SUBSET Reqs
      BY <1>2 DEF Passed
    <3>2. IsFiniteSet(Passed(req'))
      BY <3>1, Finite, FS_Subset
    <3> QED BY <3>1, <3>2, FS_Subset, FS_CardinalityType
  <2>2. \A v \in db.vers \union disk.vers : v.n <= most /\ v.n \in Nat
    BY DEF Plans, Numbers, Sound, DbRec, Versions
  <2>3. ASSUME NEW q \in Reqs, NEW s \in Pending(req'[q]), s.op = "insertVersion"
        PROVE  s.n <= most /\ s.n \in Nat
    <3>1. CASE q = r
      <4>1. req'[r].pc = "writing" /\ Means(r, k, c, todo)
        BY <1>1, <1>2, <2>3, <3>1 DEF Pending
      <4>2. s \in Elems(todo)
        BY <1>2, <2>3, <3>1, <4>1 DEF Pending
      <4> QED BY <2>3, <4>1, <4>2, MeansElems
    <3>2. CASE q # r
      <4>1. s \in Pending(req[q]) /\ req[q] \in ReqRec
        BY <1>2, <2>3, <3>2 DEF Plans
      <4>2. s \in Statement
        BY <4>1 DEF Pending, Elems, ReqRec
      <4> QED BY <2>3, <4>1, <4>2 DEF Plans, Numbers, Statement
    <3> QED BY <3>1, <3>2
  <2> HIDE DEF most
  <2> QED BY <1>2, <2>1, <2>2, <2>3 DEF Numbers
<1>6. removed' \subseteq Reqs
  BY DEF Began
<1> QED BY <1>2, <1>3, <1>4, <1>5, <1>6 DEF Plans

LEMMA SpanFits == \A x \in RowRec : Span(x) \subseteq 0 .. Length - 1
BY EditingAssumption DEF Span, RowRec

LEMMA PlansExecuted ==
  ASSUME Plans, NEW r \in Reqs, Executed(r)
  PROVE  Plans'
<1>1. /\ cut \subseteq 0 .. Length - 1 /\ clobbered \in BOOLEAN /\ Sound(disk) /\ Sound(db)
      /\ \A c \in Clips : Span(db.clips[c]) \subseteq 0 .. Length - 1
  BY SpanFits DEF Plans, Sound, DbRec
<1>2. CASE ExecInsertClip(r)
  <2>1. DidInsertClip(r) /\ Sound(db')
    BY <1>2, InsertClipDone
  <2>2. /\ cut' = cut /\ Rest /\ db'.vers = db.vers
        /\ \E t : Ran(r, t)
    BY <2>1 DEF DidInsertClip, Clip, Same
  <2> QED BY <1>1, <2>1, <2>2, PlansRan DEF Rest
<1>3. CASE ExecUpdateClip(r)
  <2>1. /\ DidUpdateClip(r) /\ Sound(db')
        /\ UpdateNext(req[r].kind, req[r].target, req[r].todo)
    BY <1>3, UpdateClipDone
  <2>2. /\ Rest /\ db'.vers = db.vers /\ \E t : Ran(r, t)
    BY <2>1 DEF DidUpdateClip, Clip, Same
  <2>3. cut' \subseteq 0 .. Length - 1
    <3>1. Stmt(r).id \in Clips
      <4>1. req[r].pc = "writing"
        BY <1>3 DEF ExecUpdateClip, Executes
      <4> QED BY <2>1, <4>1, Writer, Ops DEF UpdateNext, Stmt, Aim
    <3> QED BY <1>1, <2>1, <3>1 DEF DidUpdateClip
  <2> QED BY <1>1, <2>1, <2>2, <2>3, PlansRan DEF Rest
<1>4. CASE ExecDeleteClip(r)
  <2>1. /\ DidDeleteClip(r) /\ Sound(db')
        /\ DeleteNext(req[r].kind, req[r].target, req[r].todo)
    BY <1>4, DeleteClipDone
  <2>2. /\ Rest /\ db'.vers = db.vers /\ \E t : Ran(r, t)
    BY <2>1 DEF DidDeleteClip, Clip, Same
  <2>3. cut' \subseteq 0 .. Length - 1
    <3>1. Stmt(r).id \in Clips
      <4>1. req[r].pc = "writing"
        BY <1>4 DEF ExecDeleteClip, Executes
      <4> QED BY <2>1, <4>1, Writer, Ops DEF DeleteNext, Stmt, Aim
    <3> QED BY <1>1, <2>1, <3>1 DEF DidDeleteClip
  <2> QED BY <1>1, <2>1, <2>2, <2>3, PlansRan DEF Rest
<1>5. CASE ExecInsertTrack(r) \/ ExecDeleteTrack(r)
  <2>1. DidTrack(r) /\ Sound(db')
    BY <1>5, TrackDone
  <2>2. Rest /\ db'.vers = db.vers /\ cut' = cut /\ \E t : Ran(r, t)
    BY <2>1 DEF DidTrack
  <2> QED BY <1>1, <2>1, <2>2, PlansRan DEF Rest
<1>6. CASE ExecUpdateProject(r)
  <2>1. DidUpdateProject(r) /\ Sound(db')
    BY <1>6, UpdateProjectDone
  <2>2. Rest /\ db'.vers = db.vers /\ cut' = cut /\ \E t : Ran(r, t)
    BY <2>1 DEF DidUpdateProject
  <2> QED BY <1>1, <2>1, <2>2, PlansRan DEF Rest
<1>7. CASE ExecDeleteProject(r)
  <2>1. DidDeleteProject(r) /\ Sound(db')
    BY <1>7, DeleteProjectDone
  <2>2. Rest /\ db'.vers = {} /\ cut' \subseteq 0 .. Length - 1 /\ \E t : Ran(r, t)
    BY <1>1, <2>1 DEF DidDeleteProject
  <2> QED BY <1>1, <2>1, <2>2, PlansRan DEF Rest
<1>8. CASE ExecInsertVersion(r)
  <2>1. DidInsertVersion(r) /\ Sound(db') /\ VersionNext(req[r].kind, req[r].todo)
    BY <1>8, InsertVersionDone
  <2>2. /\ UNCHANGED <<clobbered, disk, removed, crashes>> /\ cut' = cut
        /\ \E t : Ran(r, t)
    BY <2>1 DEF DidInsertVersion
  <2>3. \/ db'.vers = db.vers
        \/ \E s \in Pending(req[r]), v \in Versions :
              s.op = "insertVersion" /\ v.n = s.n /\ db'.vers = db.vers \union {v}
    <3>1. Stmt(r) \in Pending(req[r])
      BY <2>2, PendingAfter DEF Stmt
    <3> DEFINE v == [n |-> Stmt(r).n, by |-> Stmt(r).by]
    <3>2. v \in Versions /\ v.n = Stmt(r).n /\ Stmt(r).op = "insertVersion"
      BY <2>1, Ops DEF VersionNext, Stmt, Versions
    <3>3. db'.vers = db.vers \/ db'.vers = db.vers \union {v}
      BY <2>1 DEF DidInsertVersion
    <3> HIDE DEF v
    <3> QED BY <3>1, <3>2, <3>3
  <2> QED BY <1>1, <2>1, <2>2, <2>3, PlansRan
<1>9. CASE ExecPrune(r)
  <2>1. DidPrune(r) /\ Sound(db')
    BY <1>9, PruneDone
  <2>2. Rest /\ db'.vers \subseteq db.vers /\ cut' = cut /\ \E t : Ran(r, t)
    BY <2>1 DEF DidPrune, Pruned
  <2> QED BY <1>1, <2>1, <2>2, PlansRan DEF Rest
<1>10. CASE ExecCommit(r)
  <2>1. DidCommit(r)
    BY <1>10, CommitDone
  <2>2. disk' = db /\ db' = db /\ UNCHANGED history /\ \E t : Ran(r, t)
    BY <2>1 DEF DidCommit
  <2> QED BY <1>1, <2>2, PlansRan DEF history
<1>11. CASE ExecRollback(r)
  <2>1. DidRollback(r)
    BY <1>11, RollbackDone
  <2>2. /\ disk' = disk /\ db' = disk /\ cut' = cut /\ removed' = removed /\ crashes' = crashes
        /\ clobbered' \in BOOLEAN /\ \E t : Ran(r, t)
    BY <1>1, <2>1 DEF DidRollback
  <2> QED BY <1>1, <2>2, PlansRan
<1> QED BY <1>2, <1>3, <1>4, <1>5, <1>6, <1>7, <1>8, <1>9, <1>10, <1>11 DEF Executed

(* A request that has taken its second read.                                 *)
LEMMA PlansDecided ==
  ASSUME Plans, NEW r \in Reqs, NEW todo, Decided(r, todo),
         Plan(r, req[r].kind, req[r].target, todo),
         \A s \in Elems(todo) : s.op = "insertVersion" => s.n <= Cardinality(Passed(req)) + 1
                                                          /\ s.n \in Nat
  PROVE  Plans'
<1> DEFINE most == Cardinality(Passed(req))
<1>1. /\ \A q \in Reqs : q # r => req'[q] = req[q]
      /\ req' \in [Reqs -> ReqRec] /\ req[r].pc = "reading"
      /\ UNCHANGED <<db, disk, answer, history>>
      /\ req'[r].pc = "writing" /\ req'[r].todo = todo
      /\ req'[r].kind = req[r].kind /\ req'[r].target = req[r].target
  BY DEF Decided, Others
<1>2. \A q \in Reqs : RequestOK(q, req'[q])
  <2>1. RequestOK(r, req[r])
    BY DEF Plans
  <2>2. RequestOK(r, req'[r])
    BY <1>1, <2>1 DEF RequestOK, Aim
  <2> QED BY <1>1, <2>2 DEF Plans
<1>3. \A q \in Reqs : answer'[q] # "none" => req'[q].pc = "done"
  BY <1>1 DEF Plans
<1>4. most \in Nat /\ Cardinality(Passed(req')) = most + 1
  <2>1. Passed(req') = Passed(req) \union {r}
    BY <1>1 DEF Passed
  <2> QED BY <1>1, <2>1, OneMore
<1>5. Numbers'
  <2>1. \A v \in db.vers \union disk.vers : v.n <= most /\ v.n \in Nat
    BY DEF Plans, Numbers, Sound, DbRec, Versions
  <2>2. ASSUME NEW q \in Reqs, NEW s \in Pending(req'[q]), s.op = "insertVersion"
        PROVE  s.n <= most + 1 /\ s.n \in Nat
    <3>1. CASE q = r
      BY <1>1, <2>2, <3>1 DEF Pending
    <3>2. CASE q # r
      <4>1. s \in Pending(req[q]) /\ req[q] \in ReqRec
        BY <1>1, <2>2, <3>2 DEF Plans
      <4>2. s \in Statement
        BY <4>1 DEF Pending, Elems, ReqRec
      <4>3. s.n <= most
        BY <2>2, <4>1 DEF Plans, Numbers
      <4>4. s.n \in Nat
        BY <2>2, <4>2 DEF Statement
      <4> HIDE DEF most
      <4> QED BY <1>4, <4>3, <4>4
    <3> QED BY <3>1, <3>2
  <2> HIDE DEF most
  <2>3. \A v \in db'.vers \union disk'.vers : v.n <= most + 1
    BY <1>1, <1>4, <2>1
  <2> QED BY <1>4, <2>2, <2>3 DEF Numbers
<1> QED BY <1>1, <1>2, <1>3, <1>5 DEF Plans, history

LEMMA PlansSecond ==
  ASSUME Plans, NEW r \in Reqs, ReadClips(r) \/ ReadMax(r)
  PROVE  Plans'
<1>1. RequestOK(r, req[r]) /\ req[r] \in ReqRec
  BY DEF Plans
<1>2. CASE ReadMax(r)
  <2>1. DidReadMax(r) /\ NextVersion \in 1 .. NumReqs
    BY <1>2, ReadMaxDone
  <2>2. PICK by \in Reqs :
          \E todo \in {<<InsertVersion(NextVersion, by), Commit>>,
                       <<InsertVersion(NextVersion, by), Commit, Prune, Commit>>} :
            Decided(r, todo)
    BY <2>1 DEF DidReadMax
  <2>3. PICK todo \in {<<InsertVersion(NextVersion, by), Commit>>,
                       <<InsertVersion(NextVersion, by), Commit, Prune, Commit>>} :
          Decided(r, todo)
    BY <2>2
  <2>4. Plan(r, req[r].kind, req[r].target, todo)
    <3>1. VersionPlan(todo)
      BY <2>1, <2>3 DEF VersionPlan
    <3> QED BY <2>1, <3>1 DEF DidReadMax, Plan, AllKinds, Rewriting, Sharing
  <2>5. ASSUME NEW s \in Elems(todo), s.op = "insertVersion"
        PROVE  s.n <= Cardinality(Passed(req)) + 1 /\ s.n \in Nat
    <3>1. s = InsertVersion(NextVersion, by)
      BY <2>3, <2>5, TupleElems, Ops
    <3> QED BY <3>1, NextVersionFits, Ops
  <2> QED BY <2>3, <2>4, <2>5, PlansDecided
<1>3. CASE ReadClips(r)
  <2>1. DidReadClips(r)
    BY <1>3, ReadClipsDone
  <2>2. CASE Decided(r, <<UpdateProject(req[r].copy \union {r}), Commit>>)
    <3> DEFINE todo == <<UpdateProject(req[r].copy \union {r}), Commit>>
    <3>1. Plan(r, req[r].kind, req[r].target, todo)
      <4>1. req[r].copy \union {r} \in SUBSET Reqs
        BY <1>1 DEF ReqRec
      <4>2. SharePlan(todo)
        BY <4>1 DEF SharePlan
      <4> QED BY <2>1, <4>2 DEF DidReadClips, Plan, AllKinds, Rewriting, Sharing
    <3>2. \A s \in Elems(todo) : s.op # "insertVersion"
      BY TupleElems, Ops
    <3> HIDE DEF todo
    <3>3. Decided(r, todo)
      BY <2>2 DEF todo
    <3> QED BY <3>1, <3>2, <3>3, PlansDecided
  <2>3. CASE ~Decided(r, <<UpdateProject(req[r].copy \union {r}), Commit>>)
    <3>1. /\ \A q \in Reqs : q # r => req'[q] = req[q] /\ answer'[q] = answer[q]
          /\ req' \in [Reqs -> ReqRec] /\ answer' \in [Reqs -> {"none", "ok", "error"}]
          /\ req[r].pc = "reading" /\ req'[r].pc = "done"
          /\ req'[r].kind = req[r].kind /\ req'[r].target = req[r].target
          /\ UNCHANGED <<db, disk, history>>
      BY <2>1, <2>3 DEF DidReadClips
    <3>2. \A q \in Reqs : RequestOK(q, req'[q])
      <4>1. RequestOK(r, req'[r])
        BY <1>1, <3>1 DEF RequestOK, Aim
      <4> QED BY <3>1, <4>1 DEF Plans
    <3>3. \A q \in Reqs : answer'[q] # "none" => req'[q].pc = "done"
      BY <3>1 DEF Plans
    <3>4. Numbers'
      <4> DEFINE most == Cardinality(Passed(req))
      <4>1. most \in Nat /\ Cardinality(Passed(req')) = most + 1
        <5>1. Passed(req') = Passed(req) \union {r}
          BY <3>1 DEF Passed
        <5> QED BY <3>1, <5>1, OneMore
      <4>2. \A v \in db.vers \union disk.vers : v.n <= most /\ v.n \in Nat
        BY DEF Plans, Numbers, Sound, DbRec, Versions
      <4>3. ASSUME NEW q \in Reqs, NEW s \in Pending(req'[q]), s.op = "insertVersion"
            PROVE  s.n <= most /\ s.n \in Nat
        <5>1. s \in Pending(req[q]) /\ req[q] \in ReqRec
          BY <3>1, <4>3 DEF Plans, Pending
        <5>2. s \in Statement
          BY <5>1 DEF Pending, Elems, ReqRec
        <5> QED BY <4>3, <5>1, <5>2 DEF Plans, Numbers, Statement
      <4> HIDE DEF most
      <4> QED BY <3>1, <4>1, <4>2, <4>3 DEF Numbers
    <3> QED BY <3>1, <3>2, <3>3, <3>4 DEF Plans, history
  <2> QED BY <2>2, <2>3
<1> QED BY <1>2, <1>3

(* What a crash does.                                                        *)
Crashed ==
  /\ db' = disk /\ crashes' \in 0 .. MaxCrashes
  /\ UNCHANGED <<disk, answer, cut, removed, made, contended, clobbered>>
  /\ req' \in [Reqs -> ReqRec]
  /\ \A q \in Reqs : /\ ~Active(q) => req'[q] = req[q]
                     /\ Active(q) => req'[q].pc = "done" /\ Pending(req'[q]) = {}
                     /\ req'[q].kind = req[q].kind /\ req'[q].target = req[q].target

LEMMA CrashDone ==
  ASSUME Plans, Crash
  PROVE  Crashed
<1>1. /\ req' = [r \in Reqs |-> IF Active(r)
            THEN [req[r] EXCEPT !.pc = "done", !.copy = {}, !.todo = <<>>] ELSE req[r]]
      /\ db' = disk /\ crashes' = crashes + 1 /\ crashes < MaxCrashes
      /\ UNCHANGED <<disk, answer, cut, removed, made, contended, clobbered>>
  BY DEF Crash
<1>2. crashes' \in 0 .. MaxCrashes
  <2>1. crashes \in 0 .. MaxCrashes /\ MaxCrashes \in Nat
    BY EditingAssumption, Zenon DEF Plans
  <2>2. \A m \in Nat : \A c \in 0 .. m : c < m => c + 1 \in 0 .. m
    OBVIOUS
  <2> QED BY <1>1, <2>1, <2>2, Zenon
<1>3. ASSUME NEW q \in Reqs
      PROVE  LET x == [req[q] EXCEPT !.pc = "done", !.copy = {}, !.todo = <<>>]
             IN x \in ReqRec /\ x.pc = "done" /\ x.kind = req[q].kind /\ x.target = req[q].target
  <2>1. req[q] \in ReqRec /\ {} \in SUBSET Reqs
    BY DEF Plans
  <2>2. <<>> \in Seq(Statement)
    OBVIOUS
  <2> QED BY <2>1, <2>2 DEF ReqRec
<1>4. \A q \in Reqs : req[q] \in ReqRec
  BY DEF Plans
<1>5. req' \in [Reqs -> ReqRec]
  BY <1>1, <1>3, <1>4
<1>6. ASSUME NEW q \in Reqs
      PROVE  /\ ~Active(q) => req'[q] = req[q]
             /\ Active(q) => req'[q].pc = "done" /\ Pending(req'[q]) = {}
             /\ req'[q].kind = req[q].kind /\ req'[q].target = req[q].target
  BY <1>1, <1>3 DEF Pending
<1> QED BY <1>1, <1>2, <1>5, <1>6 DEF Crashed

LEMMA PlansCrash ==
  ASSUME Plans, Crash
  PROVE  Plans'
<1>1. Crashed
  BY CrashDone
<1>2. \A q \in Reqs : RequestOK(q, req'[q])
  <2> SUFFICES ASSUME NEW q \in Reqs
               PROVE  RequestOK(q, req'[q])
    OBVIOUS
  <2>1. RequestOK(q, req[q])
    BY DEF Plans
  <2>2. CASE Active(q)
    <3>1. req'[q] \in ReqRec /\ req'[q].pc = "done" /\ req'[q].kind = req[q].kind
          /\ req'[q].target = req[q].target /\ req[q].pc # "new"
      BY <1>1, <2>2 DEF Crashed, Active
    <3> QED BY <2>1, <3>1 DEF RequestOK, Aim
  <2>3. CASE ~Active(q)
    BY <1>1, <2>1, <2>3 DEF Crashed
  <2> QED BY <2>2, <2>3
<1>3. \A q \in Reqs : answer'[q] # "none" => req'[q].pc = "done"
  BY <1>1 DEF Crashed, Plans
<1>4. Numbers'
  <2> DEFINE most == Cardinality(Passed(req))
  <2>1. Cardinality(Passed(req')) \in Nat /\ most \in Nat /\ most <= Cardinality(Passed(req'))
    <3>1. Passed(req) \subseteq Passed(req') /\ Passed(req') \in SUBSET Reqs
      BY <1>1 DEF Passed, Crashed, Active
    <3>2. IsFiniteSet(Passed(req'))
      BY <3>1, Finite, FS_Subset
    <3> QED BY <3>1, <3>2, FS_Subset, FS_CardinalityType
  <2>2. \A v \in db.vers \union disk.vers : v.n <= most /\ v.n \in Nat
    BY DEF Plans, Numbers, Sound, DbRec, Versions
  <2>3. ASSUME NEW q \in Reqs, NEW s \in Pending(req'[q])
        PROVE  FALSE
    BY <1>1, <2>3 DEF Crashed, Active, Pending
  <2> HIDE DEF most
  <2> QED BY <1>1, <2>1, <2>2, <2>3 DEF Numbers, Crashed
<1> QED BY <1>1, <1>2, <1>3, <1>4 DEF Plans, Crashed

LEMMA PlansInit == Init => Plans
<1> SUFFICES ASSUME Init
             PROVE  Plans
  OBVIOUS
<1>1. NumReqs \in Nat /\ Length \in Nat /\ Length >= 1 /\ 1 \in Clips /\ FirstTrack \in Tracks
  BY EditingAssumption DEF Clips, FirstTrack, Tracks
<1> DEFINE whole == Row(FirstClip, 0, Length, NoTrack, <<>>)
<1>2. Full(whole) /\ NoClip \in RowRec
  <2>1. <<>> \in Seq(Reqs)
    OBVIOUS
  <2> QED BY <1>1, <2>1 DEF Full, RowRec, Row, NoClip, FirstClip, NoTrack
<1>3. Sound(db)
  <2>1. db.clips \in [Clips -> RowRec]
    BY <1>2 DEF Init, Full
  <2>2. db \in DbRec
    <3>1. {FirstTrack} \in SUBSET Tracks /\ {} \in SUBSET Reqs /\ {} \in SUBSET Versions
      BY <1>1
    <3>2. \A c \in [Clips -> RowRec] :
            [project |-> TRUE, clips |-> c, tracks |-> {FirstTrack}, trans |-> {}, vers |-> {}]
              \in DbRec
      BY <3>1 DEF DbRec
    <3> HIDE DEF whole
    <3>3. [c \in Clips |-> IF c = FirstClip THEN whole ELSE NoClip] \in [Clips -> RowRec]
      BY <1>2 DEF Full
    <3> QED BY <3>2, <3>3 DEF Init, whole
  <2>3. \A c \in Clips : Exists(db, c) => db.clips[c] = whole
    BY DEF Init, Exists
  <2> HIDE DEF whole
  <2> QED BY <1>2, <2>2, <2>3 DEF Sound
<1>4. \A r \in Reqs : req[r] = Idle
  BY DEF Init
<1>5. Idle \in ReqRec
  <2>1. <<>> \in Seq(Statement) /\ {} \in SUBSET Reqs
    OBVIOUS
  <2> QED BY <2>1 DEF Idle, ReqRec, NoTarget
<1>6. \A r \in Reqs : RequestOK(r, req[r])
  BY <1>4, <1>5 DEF RequestOK, Idle, Aim, Rewriting, Sharing, AllKinds
<1>7. Numbers
  BY <1>4 DEF Init, Numbers, Pending, Idle
<1>8. req \in [Reqs -> ReqRec] /\ answer \in [Reqs -> {"none", "ok", "error"}]
  BY <1>5 DEF Init
<1> HIDE DEF whole
<1>9. disk = db /\ cut = {} /\ removed = {} /\ clobbered = FALSE /\ \A r \in Reqs : answer[r] = "none"
  BY DEF Init
<1>10. crashes \in 0 .. MaxCrashes
  BY EditingAssumption DEF Init
<1>11. {} \subseteq 0 .. Length - 1 /\ {} \subseteq Reqs
  OBVIOUS
<1> QED BY <1>3, <1>6, <1>7, <1>8, <1>9, <1>10, <1>11 DEF Plans

LEMMA PlansStep == Plans /\ [Next]_vars => Plans'
<1> SUFFICES ASSUME Plans, [Next]_vars
             PROVE  Plans'
  OBVIOUS
<1>1. CASE \E r \in Reqs : Begins(r)
  BY <1>1, BeginsWell, PlansBegan
<1>2. CASE \E r \in Reqs : ReadClips(r) \/ ReadMax(r)
  BY <1>2, PlansSecond
<1>3. CASE \E r \in Reqs : Executed(r)
  BY <1>3, PlansExecuted
<1>4. CASE Crash
  BY <1>4, PlansCrash
<1>5. CASE UNCHANGED vars
  BY <1>5, Zenon DEF vars, Plans, Numbers, Pending, Passed
<1> QED BY <1>1, <1>2, <1>3, <1>4, <1>5 DEF Next

LEMMA PlansTypes ==
  ASSUME Plans
  PROVE  TypeOK
<1>1. ASSUME NEW d, Sound(d)
      PROVE  DbOK(d)
  <2>1. \A c \in Clips : RowOK(d.clips[c])
    BY <1>1 DEF Sound, DbRec, RowOK, RowRec, Exists, Full
  <2> QED BY <1>1, <2>1 DEF Sound, DbRec, DbOK
<1>2. ASSUME NEW r \in Reqs
      PROVE  /\ req[r].pc \in {"new", "reading", "writing", "done"}
             /\ req[r].kind \in AllKinds \union {"none"}
             /\ req[r].target \in Clips \union {ProjectRow, NoTarget}
             /\ req[r].pc = "writing" => req[r].todo # <<>>
  <2>1. req[r] \in ReqRec
    BY DEF Plans
  <2> QED BY <2>1, Writer DEF ReqRec
<1> QED BY <1>1, <1>2 DEF Plans, TypeOK
-----------------------------------------------------------------------------
(* Fresh ids: a clip that a request has still to create is on nobody else's   *)
(* mind, and a request splits a clip that is older than itself.               *)

Awaits(q, c) == \E s \in Pending(q) : s.op = "insertClip" /\ s.id = c

Unborn(r, c) ==
  /\ ~Exists(db, c) /\ ~Exists(disk, c)
  /\ \A q \in Reqs : q # r => req[q].target # c

InTurn == \A r \in Reqs : req[r].pc # "new" => \A q \in Reqs : q < r => req[q].pc # "new"

Births ==
  /\ InTurn
  /\ \A r \in Reqs : \A c \in {HalfA(r), HalfB(r)} :
       req[r].pc = "new" \/ Awaits(req[r], c) => Unborn(r, c)
  /\ \A r \in Reqs : req[r].kind = "split" => req[r].target < HalfA(r)

LEMMA Apart ==
  ASSUME NEW r \in Reqs, NEW q \in Reqs
  PROVE  /\ HalfA(r) \in Clips /\ HalfB(r) \in Clips /\ HalfA(r) # HalfB(q)
         /\ r # q => HalfA(r) # HalfA(q) /\ HalfB(r) # HalfB(q)
         /\ HalfA(r) > 1 /\ HalfB(r) > HalfA(r)
BY EditingAssumption DEF Reqs, HalfA, HalfB, Clips

(* Only a request's own insertions make clips.                               *)
LEMMA AwaitsOwn ==
  ASSUME Plans, NEW r \in Reqs, NEW c, Awaits(req[r], c)
  PROVE  c \in {HalfA(r), HalfB(r)} /\ req[r].pc = "writing" /\ req[r].kind \in {"add", "split"}
<1>1. req[r].pc = "writing" /\ Plan(r, req[r].kind, req[r].target, req[r].todo)
      /\ req[r].kind \in AllKinds
  <2>1. req[r].pc = "writing"
    BY DEF Awaits, Pending
  <2> QED BY <2>1, Writer
<1> DEFINE t == req[r].todo
           k == req[r].kind
<1>2. PICK s \in Elems(t) : s.op = "insertClip" /\ s.id = c
  BY <1>1 DEF Awaits, Pending
<1>3. CASE k = "add"
  <2>1. AddPlan(r, t)
    BY <1>1, <1>3 DEF Plan
  <2> HIDE DEF t
  <2> QED BY <1>1, <1>2, <1>3, <2>1, TupleElems, Ops DEF AddPlan
<1>4. CASE k = "split"
  <2>1. SplitPlan(r, req[r].target, t)
    BY <1>1, <1>4 DEF Plan
  <2> HIDE DEF t
  <2> QED BY <1>1, <1>2, <1>4, <2>1, TupleElems, Ops DEF SplitPlan
<1>5. CASE k \in Rewriting
  <2>1. RewritePlan(req[r].target, t)
    BY <1>1, <1>5 DEF Plan
  <2> HIDE DEF t
  <2> QED BY <1>2, <2>1, TupleElems, Ops DEF RewritePlan
<1>6. CASE k \in Sharing
  <2>1. SharePlan(t)
    BY <1>1, <1>6 DEF Plan
  <2> HIDE DEF t
  <2> QED BY <1>2, <2>1, TupleElems, Ops DEF SharePlan
<1>7. CASE k = "delete"
  <2>1. DeletePlan(req[r].target, t)
    BY <1>1, <1>7 DEF Plan
  <2> HIDE DEF t
  <2> QED BY <1>2, <2>1, TupleElems, Ops DEF DeletePlan
<1>8. CASE k = "timeline"
  <2>1. TimelinePlan(t)
    BY <1>1, <1>8 DEF Plan
  <2> HIDE DEF t
  <2> QED BY <1>2, <2>1 DEF TimelinePlan, Elems
<1>9. CASE k = "drop"
  <2>1. DropPlan(t)
    BY <1>1, <1>9 DEF Plan
  <2> HIDE DEF t
  <2> QED BY <1>2, <2>1, TupleElems, Ops DEF DropPlan
<1>10. CASE k \in {"save", "restore"}
  <2>1. VersionPlan(t)
    BY <1>1, <1>10 DEF Plan
  <2> HIDE DEF t
  <2> QED BY <1>2, <2>1, TupleElems, Ops DEF VersionPlan
<1> QED BY <1>1, <1>3, <1>4, <1>5, <1>6, <1>7, <1>8, <1>9, <1>10
        DEF AllKinds, Rewriting, Sharing

(* A step of r's statements: nobody awaits more than before.                  *)
LEMMA AwaitsRan ==
  ASSUME Plans, NEW r \in Reqs, NEW t, Ran(r, t), NEW q \in Reqs, NEW c, Awaits(req'[q], c)
  PROVE  Awaits(req[q], c)
<1>1. CASE q = r
  <2>1. \/ Pending(req'[r]) \subseteq Pending(req[r])
        \/ Pending(req'[r]) \subseteq {Commit, Raise}
        \/ Pending(req'[r]) = {Rollback, Raise}
    BY PendingAfter, Zenon
  <2>2. \A s \in {Commit, Raise, Rollback} : s.op # "insertClip"
    BY Ops
  <2> QED BY <1>1, <2>1, <2>2 DEF Awaits
<1>2. CASE q # r
  BY <1>2 DEF Ran, Went, Others
<1> QED BY <1>1, <1>2

(* What the statement of r leaves in the database: what was there, after a    *)
(* rollback what was last committed, or the clip that r awaited.              *)
Bears(r) ==
  \A c \in Clips : Exists(db', c) =>
    \/ Exists(db, c)
    \/ DidRollback(r) /\ Exists(disk, c)
    \/ c \in {HalfA(r), HalfB(r)} /\ Awaits(req[r], c) /\ ~Awaits(req'[r], c)

LEMMA FullExists == \A x : Full(x) => x # NoClip
BY DEF Full, NoClip, Row

(* The insertion at the head of a plan: its clip, and what is awaited after.  *)
LEMMA Inserts ==
  ASSUME Plans, NEW r \in Reqs, req[r].pc = "writing",
         InsertNext(r, req[r].kind, req[r].target, req[r].todo)
  PROVE  /\ Stmt(r).op = "insertClip" /\ Full(Stmt(r).row)
         /\ Stmt(r).id \in {HalfA(r), HalfB(r)} /\ Stmt(r).id \in Clips
         /\ Stmt(r) \in Pending(req[r])
         /\ Ran(r, Tail(req[r].todo)) => ~Awaits(req'[r], Stmt(r).id)
         /\ Ran(r, Tail(req[r].todo)) /\ req[r].kind = "split" =>
              \A c : Awaits(req[r], c) => c = Stmt(r).id \/ Awaits(req'[r], c)
<1>1. Stmt(r) \in Pending(req[r])
  <2>1. req[r].todo \in Seq(Statement) /\ req[r].todo # <<>>
    BY Writer
  <2> QED BY <2>1 DEF Pending, Elems, Stmt
<1>2. /\ Stmt(r).op = "insertClip" /\ Full(Stmt(r).row)
      /\ Stmt(r).id \in {HalfA(r), HalfB(r)}
  BY Ops DEF InsertNext, Stmt
<1>3. Stmt(r).id \in Clips
  BY <1>2, Apart
<1>4. ASSUME Ran(r, Tail(req[r].todo))
      PROVE  Pending(req'[r]) = Elems(Tail(req[r].todo))
  <2>1. Tail(req[r].todo) \notin {<<>>, <<Raise>>}
    <3>1. \A a, b, c : /\ <<a>> # <<>> /\ <<a, b>> # <<>> /\ <<a, b, c>> # <<>>
                       /\ \A d : <<a, b>> # <<d>> /\ <<a, b, c>> # <<d>> /\ (<<a>> = <<d>> => a = d)
      OBVIOUS
    <3>2. Commit # Raise
      BY Ops
    <3>3. \/ Tail(req[r].todo) = <<Commit>>
          \/ Tail(req[r].todo) = <<DeleteClip(req[r].target), Commit>>
          \/ \E y : Tail(req[r].todo)
                     = <<InsertClip(HalfB(r), y), DeleteClip(req[r].target), Commit>>
      BY Zenon DEF InsertNext
    <3>4. CASE Tail(req[r].todo) = <<Commit>>
      <4>1. <<Commit>> # <<>> /\ (<<Commit>> = <<Raise>> => Commit = Raise)
        BY <3>1, Zenon
      <4> QED BY <3>2, <3>4, <4>1, Zenon
    <3>5. CASE Tail(req[r].todo) = <<DeleteClip(req[r].target), Commit>>
      <4>1. /\ <<DeleteClip(req[r].target), Commit>> # <<>>
            /\ <<DeleteClip(req[r].target), Commit>> # <<Raise>>
        BY <3>1, Zenon
      <4> QED BY <3>5, <4>1, Zenon
    <3>6. ASSUME NEW y, Tail(req[r].todo)
                          = <<InsertClip(HalfB(r), y), DeleteClip(req[r].target), Commit>>
          PROVE  Tail(req[r].todo) \notin {<<>>, <<Raise>>}
      <4>1. /\ <<InsertClip(HalfB(r), y), DeleteClip(req[r].target), Commit>> # <<>>
            /\ <<InsertClip(HalfB(r), y), DeleteClip(req[r].target), Commit>> # <<Raise>>
        BY <3>1, Zenon
      <4> QED BY <3>6, <4>1, Zenon
    <3> QED BY <3>3, <3>4, <3>5, <3>6, Zenon
  <2> QED BY <1>4, <2>1 DEF Ran, Went, Pending
<1>5. ASSUME Ran(r, Tail(req[r].todo))
      PROVE  ~Awaits(req'[r], Stmt(r).id)
  <2>1. Pending(req'[r]) = Elems(Tail(req[r].todo))
    BY <1>4, <1>5
  <2>2. CASE Tail(req[r].todo) = <<Commit>>
    <3>1. Pending(req'[r]) = {Commit}
      BY <2>1, <2>2, TupleElems
    <3> QED BY <3>1, Ops DEF Awaits
  <2>3. CASE Tail(req[r].todo) = <<DeleteClip(req[r].target), Commit>>
    <3>1. Pending(req'[r]) = {DeleteClip(req[r].target), Commit}
      BY <2>1, <2>3, TupleElems
    <3> QED BY <3>1, Ops DEF Awaits
  <2>4. CASE \E x, y : /\ Head(req[r].todo) = InsertClip(HalfA(r), x)
                       /\ Tail(req[r].todo)
                            = <<InsertClip(HalfB(r), y), DeleteClip(req[r].target), Commit>>
    <3>1. PICK x, y : /\ Head(req[r].todo) = InsertClip(HalfA(r), x)
                      /\ Tail(req[r].todo)
                           = <<InsertClip(HalfB(r), y), DeleteClip(req[r].target), Commit>>
      BY <2>4
    <3>2. Pending(req'[r]) = {InsertClip(HalfB(r), y), DeleteClip(req[r].target), Commit}
      <4> DEFINE i == InsertClip(HalfB(r), y)
                 d == DeleteClip(req[r].target)
      <4>1. Tail(req[r].todo) = <<i, d, Commit>>
        BY <3>1
      <4> HIDE DEF i, d
      <4>2. Elems(<<i, d, Commit>>) = {i, d, Commit}
        BY TupleElems
      <4>3. Pending(req'[r]) = {i, d, Commit}
        BY <2>1, <4>1, <4>2
      <4> QED BY <4>3 DEF i, d
    <3>3. Stmt(r).id = HalfA(r) /\ HalfA(r) # HalfB(r)
      BY <3>1, Ops, Apart DEF Stmt
    <3> QED BY <3>2, <3>3, Ops DEF Awaits
  <2> QED BY <2>2, <2>3, <2>4 DEF InsertNext
<1>6. ASSUME Ran(r, Tail(req[r].todo)), req[r].kind = "split", NEW c, Awaits(req[r], c)
      PROVE  c = Stmt(r).id \/ Awaits(req'[r], c)
  <2>1. Elems(req[r].todo) = {Head(req[r].todo)} \union Elems(Tail(req[r].todo))
    BY Writer, ElemsHead
  <2> QED BY <1>4, <1>6, <2>1 DEF Awaits, Pending, Stmt
<1> QED BY <1>1, <1>2, <1>3, <1>5, <1>6
(* What every executed statement does, as far as clips are born.              *)
LEMMA Bearing ==
  ASSUME Plans, NEW r \in Reqs, Executed(r)
  PROVE  (\E t : Ran(r, t)) /\ Bears(r) /\ disk' \in {disk, db}
<1>1. CASE ExecInsertClip(r)
  <2>1. DidInsertClip(r) /\ InsertNext(r, req[r].kind, req[r].target, req[r].todo)
        /\ req[r].pc = "writing"
    BY <1>1, InsertClipDone DEF ExecInsertClip, Executes
  <2>2. CASE ~db.project
    <3>1. db' = db /\ disk' = disk /\ \E t : Ran(r, t)
      BY <2>1, <2>2 DEF DidInsertClip, Rest
    <3> QED BY <3>1 DEF Bears
  <2>3. CASE db.project
    <3>1. /\ Ran(r, Tail(req[r].todo)) /\ disk' = disk
          /\ db'.clips = [db.clips EXCEPT ![Stmt(r).id] = Stmt(r).row]
      BY <2>1, <2>3 DEF DidInsertClip, Clip, Rest
    <3>2. /\ Stmt(r).id \in {HalfA(r), HalfB(r)} /\ Awaits(req[r], Stmt(r).id)
          /\ ~Awaits(req'[r], Stmt(r).id)
      BY <2>1, <3>1, Inserts DEF Awaits
    <3>3. \A c \in Clips : c # Stmt(r).id => (Exists(db', c) <=> Exists(db, c))
      BY <3>1 DEF Exists, Plans, Sound, DbRec
    <3> QED BY <3>1, <3>2, <3>3 DEF Bears
  <2> QED BY <2>2, <2>3
<1>2. CASE ExecUpdateClip(r)
  <2>1. DidUpdateClip(r)
    BY <1>2, UpdateClipDone
  <2>2. disk' = disk /\ \E t : Ran(r, t)
    BY <2>1 DEF DidUpdateClip, Clip, Rest
  <2>3. \A c \in Clips : Exists(db', c) => Exists(db, c)
    BY <2>1 DEF DidUpdateClip, Clip, Exists, Plans, Sound, DbRec
  <2> QED BY <2>2, <2>3 DEF Bears
<1>3. CASE ExecDeleteClip(r)
  <2>1. DidDeleteClip(r)
    BY <1>3, DeleteClipDone
  <2>2. disk' = disk /\ \E t : Ran(r, t)
    BY <2>1 DEF DidDeleteClip, Clip, Rest
  <2>3. \A c \in Clips : Exists(db', c) => Exists(db, c)
    BY <2>1 DEF DidDeleteClip, Clip, Exists, Plans, Sound, DbRec
  <2> QED BY <2>2, <2>3 DEF Bears
<1>4. CASE ExecInsertTrack(r) \/ ExecDeleteTrack(r)
  <2>1. DidTrack(r)
    BY <1>4, TrackDone
  <2>2. db'.clips = db.clips /\ disk' = disk /\ \E t : Ran(r, t)
    BY <2>1 DEF DidTrack, StillClips, Rest
  <2> QED BY <2>2 DEF Bears, Exists
<1>5. CASE ExecUpdateProject(r)
  <2>1. DidUpdateProject(r)
    BY <1>5, UpdateProjectDone
  <2>2. db'.clips = db.clips /\ disk' = disk /\ \E t : Ran(r, t)
    BY <2>1 DEF DidUpdateProject, StillClips, Rest
  <2> QED BY <2>2 DEF Bears, Exists
<1>6. CASE ExecDeleteProject(r)
  <2>1. DidDeleteProject(r)
    BY <1>6, DeleteProjectDone
  <2>2. disk' = disk /\ \E t : Ran(r, t)
    BY <2>1 DEF DidDeleteProject, Rest
  <2> QED BY <2>1, <2>2 DEF Bears, DidDeleteProject
<1>7. CASE ExecInsertVersion(r)
  <2>1. DidInsertVersion(r)
    BY <1>7, InsertVersionDone
  <2>2. db'.clips = db.clips /\ disk' = disk /\ \E t : Ran(r, t)
    BY <2>1 DEF DidInsertVersion, StillClips
  <2> QED BY <2>2 DEF Bears, Exists
<1>8. CASE ExecPrune(r)
  <2>1. DidPrune(r)
    BY <1>8, PruneDone
  <2>2. db'.clips = db.clips /\ disk' = disk /\ \E t : Ran(r, t)
    BY <2>1 DEF DidPrune, StillClips, Rest
  <2> QED BY <2>2 DEF Bears, Exists
<1>9. CASE ExecCommit(r)
  <2>1. db' = db /\ disk' = db /\ \E t : Ran(r, t)
    BY <1>9, CommitDone DEF DidCommit
  <2> QED BY <2>1 DEF Bears
<1>10. CASE ExecRollback(r)
  <2>1. DidRollback(r)
    BY <1>10, RollbackDone
  <2>2. db' = disk /\ disk' = disk /\ \E t : Ran(r, t)
    BY <2>1 DEF DidRollback
  <2> QED BY <2>1, <2>2 DEF Bears
<1> QED BY <1>1, <1>2, <1>3, <1>4, <1>5, <1>6, <1>7, <1>8, <1>9, <1>10 DEF Executed

(* A step after which nobody awaits more, no request is new and no request    *)
(* has another target than before.                                           *)
LEMMA BirthsKept ==
  ASSUME Births, disk' \in {disk, db},
         \A q \in Reqs : /\ req'[q].pc = "new" <=> req[q].pc = "new"
                         /\ req'[q].kind = req[q].kind /\ req'[q].target = req[q].target
                         /\ \A c : Awaits(req'[q], c) => Awaits(req[q], c),
         \A c \in Clips : Exists(db', c) =>
           \/ Exists(db, c) \/ Exists(disk, c)
           \/ \E r \in Reqs : /\ c \in {HalfA(r), HalfB(r)} /\ req[r].pc # "new"
                              /\ ~Awaits(req'[r], c)
  PROVE  Births'
<1>1. InTurn'
  BY DEF Births, InTurn
<1>2. \A r \in Reqs : req'[r].kind = "split" => req'[r].target < HalfA(r)
  BY DEF Births
<1>3. ASSUME NEW r \in Reqs, NEW c \in {HalfA(r), HalfB(r)},
             req'[r].pc = "new" \/ Awaits(req'[r], c)
      PROVE  Unborn(r, c)'
  <2>1. Unborn(r, c) /\ c \in Clips
    BY <1>3, Apart DEF Births
  <2>2. ~Exists(db', c)
    BY <1>3, <2>1, Apart DEF Unborn
  <2> QED BY <2>1, <2>2 DEF Unborn
<1> QED BY <1>1, <1>2, <1>3 DEF Births

LEMMA BirthsExecuted ==
  ASSUME Plans, Births, NEW r \in Reqs, Executed(r)
  PROVE  Births'
<1>1. (\E t : Ran(r, t)) /\ Bears(r) /\ disk' \in {disk, db}
  BY Bearing
<1>2. PICK t : Ran(r, t)
  BY <1>1
<1>3. ASSUME NEW q \in Reqs
      PROVE  /\ req'[q].pc = "new" <=> req[q].pc = "new"
             /\ req'[q].kind = req[q].kind /\ req'[q].target = req[q].target
  BY <1>2 DEF Ran, Went, Others
<1>4. \A q \in Reqs : \A c : Awaits(req'[q], c) => Awaits(req[q], c)
  BY <1>2, AwaitsRan
<1>5. \A c \in Clips : Exists(db', c) =>
        \/ Exists(db, c) \/ Exists(disk, c)
        \/ \E q \in Reqs : /\ c \in {HalfA(q), HalfB(q)} /\ req[q].pc # "new"
                           /\ ~Awaits(req'[q], c)
  BY <1>1, <1>2 DEF Bears, Ran
<1> QED BY <1>1, <1>3, <1>4, <1>5, BirthsKept

LEMMA BirthsSecond ==
  ASSUME Plans, Births, NEW r \in Reqs, ReadClips(r) \/ ReadMax(r)
  PROVE  Births'
<1>1. /\ disk' = disk /\ db' = db /\ req[r].pc = "reading"
      /\ \A q \in Reqs : q # r => req'[q] = req[q]
      /\ req'[r].pc \in {"writing", "done"} /\ req[r].kind \in {"transition", "save", "restore"}
      /\ req'[r].kind = req[r].kind /\ req'[r].target = req[r].target
  <2>1. CASE ReadClips(r)
    BY <2>1, ReadClipsDone DEF DidReadClips, Decided, Others
  <2>2. CASE ReadMax(r)
    BY <2>2, ReadMaxDone DEF DidReadMax, Decided, Others
  <2> QED BY <2>1, <2>2
<1>2. ASSUME NEW c
      PROVE  ~Awaits(req'[r], c)
  <2>1. Plans'
    BY PlansSecond
  <2>2. Awaits(req'[r], c) => req'[r].kind \in {"add", "split"}
    <3> SUFFICES ASSUME Awaits(req[r], c)'
                 PROVE  (req[r].kind \in {"add", "split"})'
      BY DEF Awaits, Pending, Elems
    <3> QED BY <2>1, AwaitsOwn, PTL
  <2> QED BY <1>1, <2>2
<1> QED BY <1>1, <1>2, BirthsKept

LEMMA BirthsCrash ==
  ASSUME Plans, Births, Crash
  PROVE  Births'
<1>1. Crashed
  BY CrashDone
<1>2. /\ db' = disk /\ disk' = disk
      /\ \A q \in Reqs : /\ req'[q].pc = "new" <=> req[q].pc = "new"
                         /\ req'[q].kind = req[q].kind /\ req'[q].target = req[q].target
                         /\ \A c : Awaits(req'[q], c) => Awaits(req[q], c)
  BY <1>1 DEF Crashed, Active, Awaits
<1> QED BY <1>2, BirthsKept
(* What exists is older than the newest request.                              *)
LEMMA Older ==
  ASSUME Births, NEW r \in Reqs, Newest(r), NEW c \in Clips, Exists(db, c)
  PROVE  c < HalfA(r) /\ c \notin {HalfA(r), HalfB(r)}
<1>1. SUFFICES ASSUME c >= HalfA(r)
               PROVE  FALSE
  BY DEF Clips, HalfA, HalfB, Reqs
<1>2. \E q \in Reqs : c \in {HalfA(q), HalfB(q)} /\ q >= r
  <2>1. NumReqs \in Nat /\ r \in 1 .. NumReqs /\ c \in 1 .. 2 * NumReqs + 1 /\ c >= 2 * r
    BY <1>1, EditingAssumption DEF Clips, HalfA, Reqs
  <2>2. c \div 2 \in 1 .. NumReqs /\ c \div 2 >= r
        /\ (c = 2 * (c \div 2) \/ c = 2 * (c \div 2) + 1)
    BY <2>1
  <2> QED BY <2>2 DEF HalfA, HalfB, Reqs
<1>3. PICK q \in Reqs : c \in {HalfA(q), HalfB(q)} /\ q >= r
  BY <1>2
<1>4. req[q].pc = "new"
  <2>1. CASE q = r
    BY <2>1 DEF Newest
  <2>2. CASE q # r
    BY <1>3, <2>2 DEF Newest, Births, InTurn, Reqs
  <2> QED BY <2>1, <2>2
<1> QED BY <1>3, <1>4 DEF Births, Unborn

LEMMA BirthsBegan ==
  ASSUME Plans, Births, NEW r \in Reqs, Began(r)
  PROVE  Births'
<1>1. PICK k, c, pc, copy, todo :
         /\ Started(r, k, c, pc, copy, todo)
         /\ \/ pc = "writing" /\ Means(r, k, c, todo)
            \/ pc = "reading" /\ k = "transition" /\ c = ProjectRow
            \/ pc = "reading" /\ k \in {"save", "restore"} /\ c = NoTarget
  BY DEF Began
<1>2. /\ \A q \in Reqs : q # r => req'[q] = req[q]
      /\ req[r].pc = "new" /\ Newest(r)
      /\ db' = db /\ disk' = disk
      /\ req'[r].pc = pc /\ req'[r].todo = todo /\ pc \in {"reading", "writing"}
      /\ req'[r].kind = k /\ req'[r].target = c
  BY <1>1 DEF Started, Others, Newest
<1>3. InTurn'
  BY <1>2 DEF Births, InTurn, Newest, Reqs
<1>4. ASSUME NEW x, Awaits(req'[r], x)
      PROVE  x \in {HalfA(r), HalfB(r)}
  <2>1. pc = "writing" /\ Means(r, k, c, todo)
    BY <1>1, <1>2, <1>4 DEF Awaits, Pending
  <2> QED BY <1>2, <1>4, <2>1, MeansElems DEF Awaits, Pending
<1>5. k \in Rewriting \union {"delete", "split"} =>
        pc = "writing" /\ c \in Clips /\ Exists(db, c)
  <2>1. RequestOK(r, req'[r])
    BY DEF Began
  <2>2. k \in Rewriting \union {"delete", "split"} => c \in Clips
    BY <1>2, <2>1 DEF RequestOK, Aim
  <2> QED BY <1>1, <2>2 DEF Means, Rewriting
<1>6. k = "add" => c = HalfA(r)
  BY <1>1 DEF Means
<1>7. k \in Sharing \union Elsewise => c \in {ProjectRow, NoTarget}
  BY <1>1 DEF Means, Sharing, Elsewise, AllKinds
<1>8. k \in {"add", "delete", "split"} \union Rewriting \union Sharing \union Elsewise
  <2>1. req'[r].kind \in AllKinds \union {"none"}
    BY <1>2 DEF Began, RequestOK, ReqRec
  <2> QED BY <1>2, <2>1, Kinds0
<1>9. ASSUME NEW q \in Reqs, NEW x \in {HalfA(q), HalfB(q)},
             req'[q].pc = "new" \/ Awaits(req'[q], x)
      PROVE  Unborn(q, x)'
  <2>1. CASE q = r
    <3>1. Unborn(r, x)
      BY <1>2, <1>9, <2>1 DEF Births
    <3> QED BY <1>2, <2>1, <3>1 DEF Unborn, Exists
  <2>2. CASE q # r
    <3>1. Unborn(q, x)
      BY <1>2, <1>9, <2>2 DEF Births
    <3>2. x \in Clips /\ x > 1 /\ x # HalfA(r)
      <4>1. x = HalfA(q) \/ x = HalfB(q)
        BY <1>9
      <4>2. /\ HalfA(q) \in Clips /\ HalfB(q) \in Clips /\ HalfA(q) # HalfA(r)
            /\ HalfB(q) # HalfA(r) /\ HalfA(q) > 1 /\ HalfB(q) > 1
        BY <2>2, EditingAssumption DEF Reqs, HalfA, HalfB, Clips
      <4> QED BY <4>1, <4>2
    <3>3. c # x
      <4>1. CASE k \in Rewriting \union {"delete", "split"}
        BY <1>5, <3>1, <4>1 DEF Unborn
      <4>2. CASE k = "add"
        BY <1>6, <3>2, <4>2
      <4>3. CASE k \in Sharing \union Elsewise
        BY <1>7, <3>2, <4>3 DEF ProjectRow, NoTarget, Clips
      <4> QED BY <1>8, <4>1, <4>2, <4>3
    <3> QED BY <1>2, <3>1, <3>3 DEF Unborn, Exists
  <2> QED BY <2>1, <2>2
<1>10. ASSUME NEW q \in Reqs, req'[q].kind = "split"
       PROVE  req'[q].target < HalfA(q)
  <2>1. CASE q = r
    BY <1>2, <1>5, <1>10, <2>1, Older
  <2>2. CASE q # r
    BY <1>2, <1>10, <2>2 DEF Births
  <2> QED BY <2>1, <2>2
<1> QED BY <1>3, <1>9, <1>10 DEF Births

LEMMA BirthsInit == Init => Births
<1> SUFFICES ASSUME Init
             PROVE  Births
  OBVIOUS
<1>1. \A r \in Reqs : req[r] = Idle /\ ~Awaits(req[r], HalfA(r)) /\ Idle.pc = "new"
                      /\ Idle.kind = "none" /\ Idle.target = NoTarget
  BY DEF Init, Idle, Awaits, Pending
<1>2. ASSUME NEW r \in Reqs, NEW c \in {HalfA(r), HalfB(r)}
      PROVE  Unborn(r, c)
  <2>1. c \in Clips /\ c > 1
    <3>1. HalfA(r) \in Clips /\ HalfB(r) \in Clips /\ HalfA(r) > 1 /\ HalfB(r) > 1
      BY EditingAssumption DEF Reqs, HalfA, HalfB, Clips
    <3> QED BY <3>1
  <2>2. c # NoTarget /\ c # FirstClip
    BY <2>1 DEF Clips, NoTarget, FirstClip
  <2>3. ~Exists(db, c) /\ disk = db
    BY <2>1, <2>2 DEF Init, Exists
  <2> QED BY <1>1, <2>2, <2>3 DEF Unborn
<1> QED BY <1>1, <1>2 DEF Births, InTurn

LEMMA BirthsStep == Plans /\ Births /\ [Next]_vars => Births'
<1> SUFFICES ASSUME Plans, Births, [Next]_vars
             PROVE  Births'
  OBVIOUS
<1>1. CASE \E r \in Reqs : Begins(r)
  BY <1>1, BeginsWell, BirthsBegan
<1>2. CASE \E r \in Reqs : ReadClips(r) \/ ReadMax(r)
  BY <1>2, BirthsSecond
<1>3. CASE \E r \in Reqs : Executed(r)
  BY <1>3, BirthsExecuted
<1>4. CASE Crash
  BY <1>4, BirthsCrash
<1>5. CASE UNCHANGED vars
  BY <1>5, Zenon DEF vars, Births, InTurn, Unborn, Exists, Awaits, Pending
<1> QED BY <1>1, <1>2, <1>3, <1>4, <1>5 DEF Next
-----------------------------------------------------------------------------
(* What was removed stays removed.                                           *)

Removals ==
  \A r \in Reqs : req[r].kind \in {"delete", "split"} /\ ~clobbered =>
    /\ req[r].pc = "writing" /\ req[r].todo = <<Commit>> => ~Exists(db, req[r].target)
    /\ answer[r] = "ok" => ~Exists(db, req[r].target) /\ ~Exists(disk, req[r].target)

LEMMA Sizes ==
  /\ \A a : <<a>> # <<>>
  /\ \A a, b, c : <<a, b>> # <<>> /\ <<a, b>> # <<c>>
  /\ \A a, b, c, d : <<a, b, c>> # <<>> /\ <<a, b, c>> # <<d>>
  /\ \A a, b, c, d, e : <<a, b, c, d>> # <<>> /\ <<a, b, c, d>> # <<e>>
  /\ <<Raise>> # <<Commit>>
<1>1. /\ \A a : <<a>> # <<>>
      /\ \A a, b, c : <<a, b>> # <<>> /\ <<a, b>> # <<c>>
      /\ \A a, b, c, d : <<a, b, c>> # <<>> /\ <<a, b, c>> # <<d>>
  OBVIOUS
<1>2. \A a, b, c, d, e : <<a, b, c, d>> # <<>> /\ <<a, b, c, d>> # <<e>>
  <2> SUFFICES ASSUME NEW a, NEW b, NEW c, NEW d, NEW e
               PROVE  <<a, b, c, d>> # <<>> /\ <<a, b, c, d>> # <<e>>
    OBVIOUS
  <2>1. Len(<<a, b, c, d>>) = 4 /\ Len(<<e>>) = 1 /\ Len(<<>>) = 0
    OBVIOUS
  <2> QED BY <2>1
<1>3. <<Raise>> # <<Commit>>
  <2>1. Raise # Commit
    BY Ops
  <2>2. \A a, b : <<a>> = <<b>> => a = b
    OBVIOUS
  <2> QED BY <2>1, <2>2
<1> QED BY <1>1, <1>2, <1>3

(* Before the last statement: the last but one is the statement that matters. *)
LEMMA LastSteps ==
  ASSUME Plans, NEW r \in Reqs, req[r].pc = "writing", req[r].kind # "timeline"
  PROVE  /\ Tail(req[r].todo) = <<>> => req[r].todo = <<Commit>> /\ Head(req[r].todo) = Commit
         /\ Tail(req[r].todo) = <<Commit>> =>
              /\ req[r].kind \in {"delete", "split"} =>
                   Head(req[r].todo) = DeleteClip(req[r].target)
              /\ req[r].kind \in Rewriting =>
                   \E x : Full(x) /\ Head(req[r].todo) = UpdateClip(req[r].target, x)
              /\ req[r].kind \in Sharing =>
                   \E x \in SUBSET Reqs : Head(req[r].todo) = UpdateProject(x)
              /\ req[r].kind \in {"save", "restore"} => Head(req[r].todo).op # "commit"
<1> DEFINE t == req[r].todo
           k == req[r].kind
           c == req[r].target
<1>1. t \in Seq(Statement) /\ Plan(r, k, c, t) /\ k \in AllKinds /\ k # "timeline"
  BY Writer
<1> HIDE DEF t, k, c
<1>2. \/ InsertNext(r, k, c, t) \/ UpdateNext(k, c, t) \/ DeleteNext(k, c, t)
      \/ RollbackNext(k, t) \/ ShareNext(k, t) \/ DropNext(k, t) \/ VersionNext(k, t)
      \/ PruneNext(k, t) \/ CommitNext(k, t)
  BY <1>1, Heads, Zenon DEF TimelineNext
<1>3. CASE InsertNext(r, k, c, t)
  <2>1. Tail(t) # <<>> /\ (Tail(t) = <<Commit>> => k = "add")
    <3>1. \/ k = "add" /\ Tail(t) = <<Commit>>
          \/ Tail(t) = <<DeleteClip(c), Commit>>
          \/ \E y : Tail(t) = <<InsertClip(HalfB(r), y), DeleteClip(c), Commit>>
      BY <1>3, Zenon DEF InsertNext
    <3> QED BY <3>1, Sizes, Zenon
  <2> QED BY <2>1 DEF t, k, c, Rewriting, Sharing
<1>4. CASE UpdateNext(k, c, t)
  BY <1>4, Sizes DEF UpdateNext, t, k, c, Rewriting, Sharing
<1>5. CASE DeleteNext(k, c, t)
  BY <1>5, Sizes DEF DeleteNext, t, k, c, Rewriting, Sharing
<1>6. CASE RollbackNext(k, t)
  <2>1. Tail(t) # <<>> /\ Tail(t) # <<Commit>>
    BY <1>6, Sizes, Zenon DEF RollbackNext
  <2> QED BY <2>1 DEF t
<1>7. CASE ShareNext(k, t)
  BY <1>7, Sizes DEF ShareNext, t, k, c, Rewriting, Sharing
<1>8. CASE DropNext(k, t)
  BY <1>8, Sizes DEF DropNext, t, k, c, Rewriting, Sharing
<1>9. CASE VersionNext(k, t)
  <2>1. Tail(t) # <<>> /\ Head(t).op = "insertVersion" /\ k \in {"save", "restore"}
    <3>1. Tail(t) = <<Commit>> \/ Tail(t) = <<Commit, Prune, Commit>>
      BY <1>9, Zenon DEF VersionNext
    <3>2. Tail(t) # <<>>
      BY <3>1, Sizes, Zenon
    <3>3. Head(t).op = "insertVersion" /\ k \in {"save", "restore"}
      BY <1>9, Ops DEF VersionNext
    <3> QED BY <3>2, <3>3
  <2> QED BY <2>1 DEF t, k, c, Rewriting, Sharing
<1>10. CASE PruneNext(k, t)
  BY <1>10, Sizes, Ops DEF PruneNext, t, k, c, Rewriting, Sharing
<1>11. CASE CommitNext(k, t)
  <2>1. CASE Ending(t)
    BY <2>1, Sizes DEF Ending, t
  <2>2. CASE ~Ending(t)
    <3>1. Tail(t) # <<>> /\ Tail(t) # <<Commit>>
      BY <1>11, <2>2, Sizes, Zenon DEF CommitNext, Aborting
    <3> QED BY <3>1 DEF t
  <2> QED BY <2>1, <2>2
<1> QED BY <1>2, <1>3, <1>4, <1>5, <1>6, <1>7, <1>8, <1>9, <1>10, <1>11

(* The statement that runs is the one at the head.                           *)
LEMMA HeadRuns ==
  ASSUME NEW r, Executed(r)
  PROVE  /\ req[r].pc = "writing"
         /\ Head(req[r].todo).op = "commit" => ExecCommit(r)
         /\ Head(req[r].todo).op = "deleteClip" => ExecDeleteClip(r)
         /\ Head(req[r].todo).op = "updateClip" => ExecUpdateClip(r)
         /\ Head(req[r].todo).op = "updateProject" => ExecUpdateProject(r)
<1>1. /\ ExecInsertClip(r) => Executes(r, "insertClip")
      /\ ExecUpdateClip(r) => Executes(r, "updateClip")
      /\ ExecDeleteClip(r) => Executes(r, "deleteClip")
      /\ ExecInsertTrack(r) => Executes(r, "insertTrack")
      /\ ExecDeleteTrack(r) => Executes(r, "deleteTrack")
      /\ ExecUpdateProject(r) => Executes(r, "updateProject")
      /\ ExecDeleteProject(r) => Executes(r, "deleteProject")
      /\ ExecInsertVersion(r) => Executes(r, "insertVersion")
      /\ ExecPrune(r) => Executes(r, "prune")
      /\ ExecCommit(r) => Executes(r, "commit")
      /\ ExecRollback(r) => Executes(r, "rollback")
  BY Zenon DEF ExecInsertClip, ExecUpdateClip, ExecDeleteClip, ExecInsertTrack, ExecDeleteTrack,
         ExecUpdateProject, ExecDeleteProject, ExecInsertVersion, ExecPrune, ExecCommit,
         ExecRollback
<1> QED BY <1>1 DEF Executed, Executes
(* Only a rollback can undo what others have written.                        *)
LEMMA StillWhole ==
  ASSUME Plans, NEW r \in Reqs, Executed(r), ~DidRollback(r)
  PROVE  clobbered' = clobbered
<1>1. ExecInsertClip(r) => clobbered' = clobbered
  BY InsertClipDone DEF DidInsertClip, Clip, Rest
<1>2. ExecUpdateClip(r) => clobbered' = clobbered
  BY UpdateClipDone DEF DidUpdateClip, Clip, Rest
<1>3. ExecDeleteClip(r) => clobbered' = clobbered
  BY DeleteClipDone DEF DidDeleteClip, Clip, Rest
<1>4. ExecInsertTrack(r) \/ ExecDeleteTrack(r) => clobbered' = clobbered
  BY TrackDone DEF DidTrack, Rest
<1>5. ExecUpdateProject(r) => clobbered' = clobbered
  BY UpdateProjectDone DEF DidUpdateProject, Rest
<1>6. ExecDeleteProject(r) => clobbered' = clobbered
  BY DeleteProjectDone DEF DidDeleteProject, Rest
<1>7. ExecInsertVersion(r) => clobbered' = clobbered
  BY InsertVersionDone DEF DidInsertVersion
<1>8. ExecPrune(r) => clobbered' = clobbered
  BY PruneDone DEF DidPrune, Rest
<1>9. ExecCommit(r) => clobbered' = clobbered
  BY CommitDone DEF DidCommit, history
<1>10. ~ExecRollback(r)
  BY RollbackDone
<1> QED BY <1>1, <1>2, <1>3, <1>4, <1>5, <1>6, <1>7, <1>8, <1>9, <1>10 DEF Executed
LEMMA RemovalsExecuted ==
  ASSUME Plans, Births, Removals, NEW r \in Reqs, Executed(r)
  PROVE  Removals'
<1>1. PICK t : Ran(r, t)
  BY Bearing
<1>2. Bears(r) /\ disk' \in {disk, db}
  BY Bearing
<1>3. SUFFICES ASSUME NEW q \in Reqs, req'[q].kind \in {"delete", "split"}, ~clobbered'
               PROVE  /\ req'[q].pc = "writing" /\ req'[q].todo = <<Commit>> =>
                           ~Exists(db', req[q].target)
                      /\ answer'[q] = "ok" =>
                           ~Exists(db', req[q].target) /\ ~Exists(disk', req[q].target)
  <2>1. \A q \in Reqs : req'[q].target = req[q].target
    BY <1>1 DEF Ran, Went, Others
  <2> QED BY <2>1 DEF Removals
<1> DEFINE c == req[q].target
<1>4. c \in Clips /\ req[q].kind \in {"delete", "split"} /\ req'[q].kind = req[q].kind
  <2>1. req'[q].kind = req[q].kind
    BY <1>1 DEF Ran, Went, Others
  <2> QED BY <1>3, <2>1 DEF Plans, RequestOK, Aim
<1>5. ~clobbered /\ (DidRollback(r) => \A p \in Reqs \ {r} : req[p].pc # "writing")
  <2>1. CASE DidRollback(r)
    BY <1>3, <2>1 DEF DidRollback, Plans
  <2>2. CASE ~DidRollback(r)
    BY <1>3, <2>2, StillWhole
  <2> QED BY <2>1, <2>2
<1>6. Exists(db', c) => Exists(db, c) \/ (DidRollback(r) /\ Exists(disk, c))
  <2>1. ASSUME c \in {HalfA(r), HalfB(r)}, Awaits(req[r], c)
        PROVE  FALSE
    <3>1. q = r
      BY <2>1 DEF Births, Unborn
    <3>2. req[r].kind = "split" /\ c < HalfA(r)
      BY <1>4, <2>1, <3>1, AwaitsOwn DEF Births
    <3> QED BY <2>1, <3>2 DEF HalfA, HalfB, Reqs
  <2> QED BY <1>2, <1>4, <2>1 DEF Bears
<1>7. CASE q # r
  <2>1. req'[q] = req[q] /\ answer'[q] = answer[q]
    BY <1>1, <1>7 DEF Ran, Went, Others
  <2>2. /\ req[q].pc = "writing" /\ req[q].todo = <<Commit>> => ~Exists(db, c)
        /\ answer[q] = "ok" => ~Exists(db, c) /\ ~Exists(disk, c)
    BY <1>4, <1>5 DEF Removals
  <2>3. answer[q] = "ok" => ~Exists(disk', c)
    BY <1>2, <2>2
  <2> HIDE DEF c
  <2> QED BY <1>5, <1>6, <1>7, <2>1, <2>2, <2>3 DEF c
<1>8. CASE q = r
  <2> DEFINE u == req[r].todo
  <2>1. req[r].pc = "writing" /\ req[r].kind # "timeline" /\ (t = Tail(u) \/ Escapes(r, t))
    BY <1>1, <1>4, <1>8 DEF Ran
  <2>2. ASSUME req'[r].pc = "writing", req'[r].todo = <<Commit>>
        PROVE  ~Exists(db', c)
    <3>1. t = <<Commit>>
      BY <1>1, <2>2 DEF Ran, Went
    <3>2. ~Escapes(r, t)
      BY <3>1, Sizes, Zenon DEF Escapes
    <3>3. Head(u) = DeleteClip(c)
      BY <1>4, <1>8, <2>1, <3>1, <3>2, LastSteps
    <3>4. ExecDeleteClip(r)
      BY <3>3, HeadRuns, Ops
    <3>5. DidDeleteClip(r) /\ Stmt(r).id = c
      BY <3>3, <3>4, DeleteClipDone, Ops DEF Stmt
    <3> QED BY <1>4, <3>5 DEF DidDeleteClip, Clip, Exists, Plans, Sound, DbRec
  <2>3. ASSUME answer'[r] = "ok"
        PROVE  ~Exists(db', c) /\ ~Exists(disk', c)
    <3>1. t = <<>>
      BY <1>1, <2>1, <2>3 DEF Ran, Went, Plans
    <3>2. ~Escapes(r, t)
      BY <3>1, Sizes, Zenon DEF Escapes
    <3>3. u = <<Commit>> /\ Head(u) = Commit
      BY <2>1, <3>1, <3>2, LastSteps
    <3>4. DidCommit(r)
      BY <3>3, HeadRuns, Ops, CommitDone
    <3>5. ~Exists(db, c)
      BY <1>4, <1>5, <1>8, <2>1, <3>3 DEF Removals
    <3> QED BY <3>4, <3>5 DEF DidCommit
  <2> QED BY <1>8, <2>2, <2>3
<1> QED BY <1>7, <1>8

LEMMA RemovalsSecond ==
  ASSUME Plans, Removals, NEW r \in Reqs, ReadClips(r) \/ ReadMax(r)
  PROVE  Removals'
<1>1. /\ UNCHANGED <<db, disk, clobbered>>
      /\ \A q \in Reqs : q # r => req'[q] = req[q] /\ answer'[q] = answer[q]
      /\ req[r].kind \in {"transition", "save", "restore"} /\ req'[r].kind = req[r].kind
  <2>1. CASE ReadClips(r)
    BY <2>1, ReadClipsDone DEF DidReadClips, Decided, Others, history
  <2>2. CASE ReadMax(r)
    BY <2>2, ReadMaxDone DEF DidReadMax, Decided, Others, history
  <2> QED BY <2>1, <2>2
<1>2. SUFFICES ASSUME NEW q \in Reqs, req'[q].kind \in {"delete", "split"}, ~clobbered'
               PROVE  q # r
  BY <1>1 DEF Removals
<1> QED BY <1>1, <1>2

LEMMA RemovalsBegan ==
  ASSUME Plans, Removals, NEW r \in Reqs, Began(r)
  PROVE  Removals'
<1>1. PICK k, c, pc, copy, todo :
         /\ Started(r, k, c, pc, copy, todo)
         /\ \/ pc = "writing" /\ Means(r, k, c, todo)
            \/ pc = "reading"
  BY DEF Began
<1>2. /\ \A q \in Reqs : q # r => req'[q] = req[q]
      /\ UNCHANGED <<db, disk, answer, clobbered>> /\ answer[r] = "none"
      /\ req'[r].pc = pc /\ req'[r].kind = k /\ req'[r].todo = todo
  BY <1>1 DEF Started, Others, Newest, Plans
<1>3. k \in {"delete", "split"} => ~(pc = "writing" /\ todo = <<Commit>>)
  <2>1. ASSUME k \in {"delete", "split"}, pc = "writing", todo = <<Commit>>
        PROVE  FALSE
    <3>1. \/ todo = <<DeleteClip(c), Commit>>
          \/ \E x, y : todo = <<InsertClip(HalfA(r), x), InsertClip(HalfB(r), y),
                                DeleteClip(c), Commit>>
      BY <1>1, <2>1 DEF Means, MeansSplit
    <3> QED BY <2>1, <3>1, Sizes, Zenon
  <2> QED BY <2>1
<1>4. SUFFICES ASSUME NEW q \in Reqs, req'[q].kind \in {"delete", "split"}, ~clobbered'
               PROVE  q # r \/ (~(req'[q].pc = "writing" /\ req'[q].todo = <<Commit>>)
                                /\ answer'[q] # "ok")
  BY <1>2 DEF Removals
<1> QED BY <1>2, <1>3, <1>4

LEMMA RemovalsCrash ==
  ASSUME Plans, Removals, Crash
  PROVE  Removals'
<1>1. Crashed
  BY CrashDone
<1>2. \A q \in Reqs : /\ req'[q].kind = req[q].kind /\ req'[q].target = req[q].target
                      /\ req'[q].pc # "writing"
  BY <1>1 DEF Crashed, Active
<1> QED BY <1>1, <1>2 DEF Removals, Crashed

LEMMA RemovalsStep == Plans /\ Births /\ Removals /\ [Next]_vars => Removals'
<1> SUFFICES ASSUME Plans, Births, Removals, [Next]_vars
             PROVE  Removals'
  OBVIOUS
<1>1. CASE \E r \in Reqs : Begins(r)
  BY <1>1, BeginsWell, RemovalsBegan
<1>2. CASE \E r \in Reqs : ReadClips(r) \/ ReadMax(r)
  BY <1>2, RemovalsSecond
<1>3. CASE \E r \in Reqs : Executed(r)
  BY <1>3, RemovalsExecuted
<1>4. CASE Crash
  BY <1>4, RemovalsCrash
<1>5. CASE UNCHANGED vars
  BY <1>5, Zenon DEF vars, Removals
<1> QED BY <1>1, <1>2, <1>3, <1>4, <1>5 DEF Next

LEMMA RemovalsInit == Init => Removals
BY DEF Init, Removals, Idle
-----------------------------------------------------------------------------
(* Versions stand until Keep later ones exist.                               *)

Later(vs, n)  == {w \in vs : w.n > n}
Stands(vs, v) == v \in vs \/ Cardinality(Later(vs, v.n)) >= Keep

Saved ==
  \A m \in made :
    /\ m.req \in Reqs /\ req[m.req].pc \in {"writing", "done"}
    /\ req[m.req].kind \in {"save", "restore"} /\ m.ver \in Versions
    /\ ~clobbered =>
         /\ (req[m.req].pc = "writing" \/ answer[m.req] = "ok") /\ db.project =>
              Stands(db.vers, m.ver)
         /\ answer[m.req] = "ok" /\ disk.project => Stands(disk.vers, m.ver)

LEMMA MoreLater ==
  ASSUME NEW V \in SUBSET Versions, NEW W \in SUBSET Versions, NEW n \in Nat,
         Later(V, n) \subseteq W, \A w \in Later(V, n) : w.n > n
  PROVE  Cardinality(Later(V, n)) <= Cardinality(Later(W, n))
         /\ Cardinality(Later(V, n)) \in Nat /\ Cardinality(Later(W, n)) \in Nat
<1>1. Later(V, n) \subseteq Later(W, n) /\ Later(W, n) \in SUBSET Versions
      /\ Later(V, n) \in SUBSET Versions
  BY DEF Later
<1>2. IsFiniteSet(Later(W, n)) /\ IsFiniteSet(Later(V, n))
  BY <1>1, Finite
<1> QED BY <1>1, <1>2, FS_Subset, FS_CardinalityType

(* A new version does not end the stand of an old one.                       *)
LEMMA StandsMore ==
  ASSUME NEW V \in SUBSET Versions, NEW u \in Versions, NEW v \in Versions, Stands(V, v)
  PROVE  Stands(V \union {u}, v)
<1>1. CASE v \in V
  BY <1>1 DEF Stands
<1>2. CASE Cardinality(Later(V, v.n)) >= Keep
  <2>1. v.n \in Nat /\ V \union {u} \in SUBSET Versions
    BY DEF Versions
  <2>2. Cardinality(Later(V, v.n)) <= Cardinality(Later(V \union {u}, v.n))
        /\ Cardinality(Later(V, v.n)) \in Nat /\ Cardinality(Later(V \union {u}, v.n)) \in Nat
    <3>1. Later(V, v.n) \subseteq V \union {u} /\ \A w \in Later(V, v.n) : w.n > v.n
      BY DEF Later
    <3> QED BY <2>1, <3>1, MoreLater
  <2> QED BY <1>2, <2>2, EditingAssumption DEF Stands
<1> QED BY <1>1, <1>2 DEF Stands

(* Neither does deleting the versions below the Keep highest.                *)
LEMMA StandsPruned ==
  ASSUME NEW V \in SUBSET Versions, NEW v \in Versions, Stands(V, v)
  PROVE  Stands(Pruned(V), v)
<1>1. /\ v.n \in Nat /\ Pruned(V) \in SUBSET Versions /\ Keep \in Nat
      /\ IsFiniteSet(V)
  BY EditingAssumption, Finite DEF Pruned, Versions
<1>2. \A n \in Nat : Cardinality(Later(V, n)) \in Nat
  <2> SUFFICES ASSUME NEW n \in Nat
               PROVE  Cardinality(Later(V, n)) \in Nat
    OBVIOUS
  <2>1. Later(V, n) \in SUBSET Versions
    BY DEF Later
  <2> QED BY <2>1, Finite, FS_CardinalityType
<1>3. CASE Cardinality(Later(V, v.n)) < Keep
  <2>1. v \in V
    BY <1>1, <1>2, <1>3 DEF Stands
  <2> QED BY <1>3, <2>1 DEF Stands, Pruned, Later
<1>4. CASE Cardinality(Later(V, v.n)) >= Keep
  <2> DEFINE lost == {w.n : w \in Later(V, v.n) \ Pruned(V)}
  <2>1. CASE lost = {}
    <3>1. Later(V, v.n) \subseteq Pruned(V)
      BY <2>1
    <3>2. \A w \in Later(V, v.n) : w.n > v.n
      BY DEF Later
    <3> HIDE DEF lost
    <3>3. Cardinality(Later(V, v.n)) <= Cardinality(Later(Pruned(V), v.n))
          /\ Cardinality(Later(V, v.n)) \in Nat /\ Cardinality(Later(Pruned(V), v.n)) \in Nat
      BY <1>1, <3>1, <3>2, MoreLater
    <3> QED BY <1>1, <1>4, <3>3 DEF Stands
  <2>2. CASE lost # {}
    <3>1. lost \in SUBSET (0 .. NumReqs) /\ NumReqs \in Nat
      BY EditingAssumption DEF Versions, Later
    <3>2. PICK m \in lost : \A x \in lost : x <= m
      <4> HIDE DEF lost
      <4> QED BY <2>2, <3>1, MaxExists
    <3>3. PICK u \in Later(V, v.n) \ Pruned(V) : u.n = m
      BY <3>2
    <3>4. u.n \in Nat /\ u.n > v.n /\ u \in V
      BY <3>3 DEF Later, Versions
    <3>5. Cardinality(Later(V, u.n)) >= Keep
      <4>1. ~(Cardinality(Later(V, u.n)) < Keep)
        BY <3>3, <3>4 DEF Pruned, Later
      <4> QED BY <1>1, <1>2, <3>4, <4>1
    <3>6. ASSUME NEW w \in Later(V, u.n)
          PROVE  w \in Later(Pruned(V), v.n)
      <4>1. w \in V /\ w.n \in Nat /\ w.n > u.n /\ w.n > v.n
        BY <1>1, <3>4, <3>6 DEF Later, Versions
      <4>2. w \in Later(V, v.n)
        BY <4>1 DEF Later
      <4>3. w.n \notin lost
        <5> HIDE DEF lost
        <5>1. w.n \in lost => w.n <= u.n
          BY <3>2, <3>3
        <5> QED BY <3>4, <4>1, <5>1
      <4>4. w \in Pruned(V)
        BY <4>2, <4>3
      <4> QED BY <4>1, <4>4 DEF Later
    <3> HIDE DEF lost
    <3>7. Later(V, u.n) \subseteq Later(Pruned(V), v.n) /\ Later(Pruned(V), v.n) \in SUBSET Versions
      BY <1>1, <3>6 DEF Later
    <3>8. IsFiniteSet(Later(Pruned(V), v.n))
      BY <3>7, Finite
    <3>9. Cardinality(Later(V, u.n)) <= Cardinality(Later(Pruned(V), v.n))
          /\ Cardinality(Later(Pruned(V), v.n)) \in Nat
      BY <3>7, <3>8, FS_Subset, FS_CardinalityType
    <3> QED BY <1>1, <1>2, <3>4, <3>5, <3>9 DEF Stands
  <2> QED BY <2>1, <2>2
<1> QED BY <1>1, <1>2, <1>3, <1>4

(* What a statement of r can do to the versions.                             *)
LEMMA VersionsAfter ==
  ASSUME Plans, NEW r \in Reqs, Executed(r)
  PROVE  \/ DidRollback(r)
         \/ DidCommit(r)
         \/ /\ disk' = disk /\ clobbered' = clobbered
            /\ db'.project => db.project
            /\ \/ ~db'.project
               \/ db'.vers = db.vers \/ db'.vers = Pruned(db.vers)
               \/ \E u \in Versions : db'.vers = db.vers \union {u}
<1>1. ASSUME ExecInsertClip(r)
      PROVE  disk' = disk /\ clobbered' = clobbered /\ db'.project = db.project /\ db'.vers = db.vers
  BY <1>1, InsertClipDone DEF DidInsertClip, Clip, Same, Rest
<1>2. ASSUME ExecUpdateClip(r)
      PROVE  disk' = disk /\ clobbered' = clobbered /\ db'.project = db.project /\ db'.vers = db.vers
  BY <1>2, UpdateClipDone DEF DidUpdateClip, Clip, Same, Rest
<1>3. ASSUME ExecDeleteClip(r)
      PROVE  disk' = disk /\ clobbered' = clobbered /\ db'.project = db.project /\ db'.vers = db.vers
  BY <1>3, DeleteClipDone DEF DidDeleteClip, Clip, Same, Rest
<1>4. ASSUME ExecInsertTrack(r) \/ ExecDeleteTrack(r)
      PROVE  disk' = disk /\ clobbered' = clobbered /\ db'.project = db.project /\ db'.vers = db.vers
  BY <1>4, TrackDone DEF DidTrack, Rest
<1>5. ASSUME ExecUpdateProject(r)
      PROVE  disk' = disk /\ clobbered' = clobbered /\ db'.project = db.project /\ db'.vers = db.vers
  BY <1>5, UpdateProjectDone DEF DidUpdateProject, Rest
<1>6. ASSUME ExecDeleteProject(r)
      PROVE  disk' = disk /\ clobbered' = clobbered /\ ~db'.project
  BY <1>6, DeleteProjectDone DEF DidDeleteProject, Rest
<1>7. ASSUME ExecInsertVersion(r)
      PROVE  /\ disk' = disk /\ clobbered' = clobbered /\ db'.project = db.project
             /\ db'.vers = db.vers \/ \E u \in Versions : db'.vers = db.vers \union {u}
  <2>1. DidInsertVersion(r) /\ VersionNext(req[r].kind, req[r].todo)
    BY <1>7, InsertVersionDone
  <2>2. [n |-> Stmt(r).n, by |-> Stmt(r).by] \in Versions
    BY <2>1, Ops DEF VersionNext, Stmt, Versions
  <2> QED BY <2>1, <2>2 DEF DidInsertVersion
<1>8. ASSUME ExecPrune(r)
      PROVE  disk' = disk /\ clobbered' = clobbered /\ db'.project = db.project
             /\ db'.vers = Pruned(db.vers)
  BY <1>8, PruneDone DEF DidPrune, Rest
<1>9. ExecCommit(r) => DidCommit(r)
  BY CommitDone
<1>10. ExecRollback(r) => DidRollback(r)
  BY RollbackDone
<1> QED BY <1>1, <1>2, <1>3, <1>4, <1>5, <1>6, <1>7, <1>8, <1>9, <1>10 DEF Executed

(* Only an insertion makes a version.                                        *)
LEMMA MadeBy ==
  ASSUME Plans, NEW r \in Reqs, Executed(r)
  PROVE  \/ made' = made
         \/ \E v \in Versions :
              /\ made' = made \union {[req |-> r, ver |-> v]}
              /\ db'.vers = db.vers \union {v} /\ disk' = disk
              /\ req[r].kind \in {"save", "restore"}
              /\ req'[r].pc \in {"writing", "done"} /\ req'[r].kind = req[r].kind
              /\ answer'[r] # "ok"
<1>1. CASE ExecInsertVersion(r)
  <2>1. DidInsertVersion(r) /\ VersionNext(req[r].kind, req[r].todo)
        /\ req[r].pc = "writing"
    BY <1>1, InsertVersionDone DEF ExecInsertVersion, Executes
  <2> DEFINE v == [n |-> Stmt(r).n, by |-> Stmt(r).by]
  <2>2. v \in Versions
    BY <2>1, Ops DEF VersionNext, Stmt, Versions
  <2>3. CASE made' # made
    <3>1. /\ made' = made \union {[req |-> r, ver |-> v]} /\ Ran(r, Tail(req[r].todo))
          /\ db'.vers = db.vers \union {v} /\ disk' = disk
      BY <2>1, <2>3 DEF DidInsertVersion
    <3>2. Tail(req[r].todo) # <<>>
      <4>1. Tail(req[r].todo) = <<Commit>> \/ Tail(req[r].todo) = <<Commit, Prune, Commit>>
        BY <2>1, Zenon DEF VersionNext
      <4> QED BY <4>1, Sizes, Zenon
    <3>3. answer[r] = "none"
      BY <2>1 DEF Plans
    <3>4. answer'[r] # "ok" /\ req'[r].pc \in {"writing", "done"} /\ req'[r].kind = req[r].kind
      BY <3>1, <3>2, <3>3 DEF Ran, Went
    <3> HIDE DEF v
    <3> QED BY <2>1, <2>2, <3>1, <3>4 DEF VersionNext
  <2> QED BY <2>3
<1>2. ExecInsertClip(r) => made' = made
  BY InsertClipDone DEF DidInsertClip, Clip, Rest
<1>3. ExecUpdateClip(r) => made' = made
  BY UpdateClipDone DEF DidUpdateClip, Clip, Rest
<1>4. ExecDeleteClip(r) => made' = made
  BY DeleteClipDone DEF DidDeleteClip, Clip, Rest
<1>5. ExecInsertTrack(r) \/ ExecDeleteTrack(r) => made' = made
  BY TrackDone DEF DidTrack, Rest
<1>6. ExecUpdateProject(r) => made' = made
  BY UpdateProjectDone DEF DidUpdateProject, Rest
<1>7. ExecDeleteProject(r) => made' = made
  BY DeleteProjectDone DEF DidDeleteProject, Rest
<1>8. ExecPrune(r) => made' = made
  BY PruneDone DEF DidPrune, Rest
<1>9. ExecCommit(r) => made' = made
  BY CommitDone DEF DidCommit, history
<1>10. ExecRollback(r) => made' = made
  BY RollbackDone DEF DidRollback
<1> QED BY <1>1, <1>2, <1>3, <1>4, <1>5, <1>6, <1>7, <1>8, <1>9, <1>10 DEF Executed

(* A request is answered when its last COMMIT has run.                       *)
LEMMA Answers ==
  ASSUME Plans, NEW r \in Reqs, Executed(r), NEW q \in Reqs, req[q].kind # "timeline",
         answer'[q] = "ok"
  PROVE  answer[q] = "ok" \/ (q = r /\ DidCommit(r) /\ req[r].todo = <<Commit>>)
<1>1. PICK t : Ran(r, t)
  BY Bearing
<1>2. CASE q = r
  <2>1. req[r].pc = "writing" /\ answer[r] = "none"
    BY <1>1 DEF Ran, Plans
  <2>2. t = <<>>
    BY <1>1, <1>2, <2>1 DEF Ran, Went
  <2>3. t = Tail(req[r].todo)
    <3>1. ~Escapes(r, t)
      BY <2>2, Sizes, Zenon DEF Escapes
    <3> QED BY <1>1, <3>1 DEF Ran
  <2>4. req[r].todo = <<Commit>> /\ Head(req[r].todo) = Commit
    BY <1>2, <2>1, <2>2, <2>3, LastSteps
  <2>5. DidCommit(r)
    BY <2>4, HeadRuns, Ops, CommitDone
  <2> QED BY <1>2, <2>4, <2>5
<1>3. CASE q # r
  BY <1>1, <1>3 DEF Ran, Went, Others
<1> QED BY <1>2, <1>3

LEMMA SavedExecuted ==
  ASSUME Plans, Saved, NEW r \in Reqs, Executed(r)
  PROVE  Saved'
<1>1. PICK t : Ran(r, t)
  BY Bearing
<1>2. ASSUME NEW m \in made
      PROVE  /\ m.req \in Reqs /\ req'[m.req].pc \in {"writing", "done"}
             /\ req'[m.req].kind \in {"save", "restore"} /\ m.ver \in Versions
             /\ ~clobbered' =>
                  /\ (req'[m.req].pc = "writing" \/ answer'[m.req] = "ok") /\ db'.project =>
                       Stands(db'.vers, m.ver)
                  /\ answer'[m.req] = "ok" /\ disk'.project => Stands(disk'.vers, m.ver)
  <2> DEFINE q == m.req
  <2>1. /\ q \in Reqs /\ req[q].pc \in {"writing", "done"} /\ m.ver \in Versions
        /\ req[q].kind \in {"save", "restore"}
    BY DEF Saved
  <2>2. ~clobbered =>
          /\ (req[q].pc = "writing" \/ answer[q] = "ok") /\ db.project => Stands(db.vers, m.ver)
          /\ answer[q] = "ok" /\ disk.project => Stands(disk.vers, m.ver)
    BY DEF Saved
  <2> HIDE DEF q
  <2>3. req'[q].pc \in {"writing", "done"} /\ req'[q].kind = req[q].kind
    BY <1>1, <2>1 DEF Ran, Went, Others
  <2>4. answer'[q] = "ok" => answer[q] = "ok" \/ (q = r /\ DidCommit(r))
    BY <2>1, Answers
  <2>5. req'[q].pc = "writing" \/ answer'[q] = "ok" => req[q].pc = "writing" \/ answer[q] = "ok"
    BY <1>1, <2>1, <2>4 DEF Ran, Went, Others
  <2>6. ASSUME ~clobbered'
        PROVE  /\ (req'[q].pc = "writing" \/ answer'[q] = "ok") /\ db'.project =>
                    Stands(db'.vers, m.ver)
               /\ answer'[q] = "ok" /\ disk'.project => Stands(disk'.vers, m.ver)
    <3>1. CASE DidRollback(r)
      <4>1. /\ db' = disk /\ disk' = disk /\ ~clobbered /\ q # r
            /\ \A p \in Reqs : p # r => req[p].pc # "writing"
        BY <2>1, <2>6, <3>1 DEF DidRollback, Plans
      <4>2. answer'[q] = "ok" => answer[q] = "ok"
        BY <2>4, <4>1
      <4> QED BY <2>1, <2>2, <2>4, <2>5, <4>1, <4>2
    <3>2. CASE DidCommit(r)
      <4>1. db' = db /\ disk' = db /\ clobbered' = clobbered
        BY <3>2 DEF DidCommit, history
      <4> QED BY <2>2, <2>5, <2>6, <4>1
    <3>3. CASE ~DidRollback(r) /\ ~DidCommit(r)
      <4>1. /\ disk' = disk /\ clobbered' = clobbered
            /\ db'.project => db.project
            /\ \/ ~db'.project
               \/ db'.vers = db.vers \/ db'.vers = Pruned(db.vers)
               \/ \E u \in Versions : db'.vers = db.vers \union {u}
        BY <3>3, VersionsAfter
      <4>2. db.vers \in SUBSET Versions
        BY DEF Plans, Sound, DbRec
      <4>3. db'.project /\ Stands(db.vers, m.ver) => Stands(db'.vers, m.ver)
        BY <2>1, <4>1, <4>2, StandsMore, StandsPruned
      <4> QED BY <2>2, <2>4, <2>5, <2>6, <3>3, <4>1, <4>3
    <3> QED BY <3>1, <3>2, <3>3
  <2> QED BY <2>1, <2>3, <2>6 DEF q
<1>3. CASE made' = made
  BY <1>2, <1>3 DEF Saved
<1>4. CASE made' # made
  <2>1. PICK v \in Versions :
          /\ made' = made \union {[req |-> r, ver |-> v]}
          /\ db'.vers = db.vers \union {v} /\ disk' = disk
          /\ req[r].kind \in {"save", "restore"}
          /\ req'[r].pc \in {"writing", "done"} /\ req'[r].kind = req[r].kind
          /\ answer'[r] # "ok"
    BY <1>4, MadeBy
  <2>2. Stands(db'.vers, v)
    BY <2>1 DEF Stands
  <2> DEFINE new == [req |-> r, ver |-> v]
  <2>3. new.req = r /\ new.ver = v /\ made' = made \union {new}
    BY <2>1
  <2> HIDE DEF new
  <2>4. /\ new.req \in Reqs /\ req'[new.req].pc \in {"writing", "done"}
        /\ req'[new.req].kind \in {"save", "restore"} /\ new.ver \in Versions
        /\ Stands(db'.vers, new.ver) /\ answer'[new.req] # "ok"
    BY <2>1, <2>2, <2>3
  <2> QED BY <1>2, <2>3, <2>4 DEF Saved
<1> QED BY <1>3, <1>4

LEMMA SavedBegan ==
  ASSUME Plans, Saved, NEW r \in Reqs, Began(r)
  PROVE  Saved'
<1>1. /\ \A q \in Reqs : q # r => req'[q] = req[q]
      /\ UNCHANGED <<db, disk, answer, made, clobbered>> /\ req[r].pc = "new"
  BY DEF Began, Started, Others, Newest
<1>2. \A m \in made : m.req # r
  BY <1>1 DEF Saved
<1> QED BY <1>1, <1>2 DEF Saved

LEMMA SavedSecond ==
  ASSUME Plans, Saved, NEW r \in Reqs, ReadClips(r) \/ ReadMax(r)
  PROVE  Saved'
<1>1. /\ UNCHANGED <<db, disk, made, clobbered>> /\ req[r].pc = "reading"
      /\ \A q \in Reqs : q # r => req'[q] = req[q] /\ answer'[q] = answer[q]
  <2>1. CASE ReadClips(r)
    BY <2>1, ReadClipsDone DEF DidReadClips, Decided, Others, history
  <2>2. CASE ReadMax(r)
    BY <2>2, ReadMaxDone DEF DidReadMax, Decided, Others, history
  <2> QED BY <2>1, <2>2
<1>2. \A m \in made : m.req # r
  BY <1>1 DEF Saved
<1> QED BY <1>1, <1>2 DEF Saved

LEMMA SavedCrash ==
  ASSUME Plans, Saved, Crash
  PROVE  Saved'
<1>1. Crashed
  BY CrashDone
<1>2. \A q \in Reqs : /\ req'[q].kind = req[q].kind /\ req'[q].pc # "writing"
                      /\ req[q].pc \in {"writing", "done"} => req'[q].pc = "done"
  BY <1>1 DEF Crashed, Active
<1> QED BY <1>1, <1>2 DEF Saved, Crashed

LEMMA SavedStep == Plans /\ Saved /\ [Next]_vars => Saved'
<1> SUFFICES ASSUME Plans, Saved, [Next]_vars
             PROVE  Saved'
  OBVIOUS
<1>1. CASE \E r \in Reqs : Begins(r)
  BY <1>1, BeginsWell, SavedBegan
<1>2. CASE \E r \in Reqs : ReadClips(r) \/ ReadMax(r)
  BY <1>2, SavedSecond
<1>3. CASE \E r \in Reqs : Executed(r)
  BY <1>3, SavedExecuted
<1>4. CASE Crash
  BY <1>4, SavedCrash
<1>5. CASE UNCHANGED vars
  BY <1>5, Zenon DEF vars, Saved
<1> QED BY <1>1, <1>2, <1>3, <1>4, <1>5 DEF Next

LEMMA SavedInit == Init => Saved
BY DEF Init, Saved
-----------------------------------------------------------------------------
(* Answered effects and transitions stand, where requests did not overlap.    *)

Quiet ==
  \A q, r \in Reqs :
    q # r /\ Active(q) /\ Active(r) /\ req[q].target = req[r].target
      /\ req[r].target # NoTarget => req[r].target \in contended

Has(d, r) ==
  /\ req[r].kind = "effect" /\ Exists(d, req[r].target) =>
       r \in ToSet(d.clips[req[r].target].fx)
  /\ req[r].kind = "transition" /\ d.project => r \in d.trans

(* What q is about to write carries the edit of r.                           *)
Carries(q, r) ==
  /\ \A s \in Pending(req[q]) :
       /\ s.op = "updateClip" /\ req[r].kind = "effect" => r \in ToSet(s.row.fx)
       /\ s.op = "updateProject" /\ req[r].kind = "transition" => r \in s.trans
  /\ req[q].pc = "reading" /\ req[q].kind = "transition" /\ req[r].kind = "transition"
       /\ q # r => r \in req[q].copy

Counts(r) == /\ ~clobbered /\ r \notin removed /\ req[r].target \notin contended
             /\ req[r].kind \in {"effect", "transition"}

Edits ==
  /\ Quiet
  /\ \A r \in Reqs : Counts(r) =>
       /\ req[r].pc = "writing" /\ req[r].todo = <<Commit>> => Has(db, r)
       /\ answer[r] = "ok" => Has(db, r) /\ Has(disk, r)
       /\ \A q \in Reqs : (q = r \/ answer[r] = "ok") /\ req[q].target = req[r].target =>
            Carries(q, r)

(* What a statement of p can do to effects and transitions.                  *)
ClipsEdited(p) ==
  \A c \in Clips : Exists(db', c) =>
    \/ db'.clips[c] = db.clips[c]
    \/ c \in {HalfA(p), HalfB(p)} /\ Awaits(req[p], c)
    \/ /\ c = req[p].target /\ Exists(db, c)
       /\ \E s \in Pending(req[p]) : s.op = "updateClip" /\ db'.clips[c] = s.row

TransEdited(p) ==
  /\ db'.project => db.project
  /\ db'.project =>
       \/ db'.trans = db.trans
       \/ /\ req[p].target = ProjectRow
          /\ \E s \in Pending(req[p]) : s.op = "updateProject" /\ db'.trans = s.trans

LEMMA EditsAfter ==
  ASSUME Plans, NEW p \in Reqs, Executed(p)
  PROVE  /\ removed' = removed /\ contended' = contended
         /\ \/ DidRollback(p) \/ DidCommit(p)
            \/ disk' = disk /\ clobbered' = clobbered /\ ClipsEdited(p) /\ TransEdited(p)
<1>0. Head(req[p].todo) \in Pending(req[p]) /\ req[p].pc = "writing"
  <2>1. PICK t : Ran(p, t)
    BY Bearing
  <2> QED BY <2>1, PendingAfter DEF Ran
<1>1. CASE ExecInsertClip(p)
  <2>1. DidInsertClip(p) /\ InsertNext(p, req[p].kind, req[p].target, req[p].todo)
    BY <1>1, InsertClipDone
  <2>2. CASE ~db.project
    <3>1. db' = db /\ Rest
      BY <2>1, <2>2 DEF DidInsertClip
    <3> QED BY <3>1 DEF Rest, ClipsEdited, TransEdited
  <2>3. CASE db.project
    <3>1. /\ Ran(p, Tail(req[p].todo)) /\ Rest /\ Same(db, db')
          /\ db'.clips = [db.clips EXCEPT ![Stmt(p).id] = Stmt(p).row]
      BY <2>1, <2>3 DEF DidInsertClip, Clip
    <3>2. /\ Stmt(p).id \in {HalfA(p), HalfB(p)} /\ Awaits(req[p], Stmt(p).id)
      BY <1>0, <2>1, <3>1, Inserts DEF Awaits
    <3>3. \A c \in Clips : c # Stmt(p).id => db'.clips[c] = db.clips[c]
      BY <3>1 DEF Plans, Sound, DbRec
    <3>4. ClipsEdited(p)
      BY <3>2, <3>3 DEF ClipsEdited
    <3> QED BY <3>1, <3>4 DEF Rest, TransEdited, Same
  <2> QED BY <2>2, <2>3
<1>2. CASE ExecUpdateClip(p)
  <2>1. DidUpdateClip(p) /\ UpdateNext(req[p].kind, req[p].target, req[p].todo)
    BY <1>2, UpdateClipDone
  <2>2. CASE ~Exists(db, Stmt(p).id)
    <3>1. db' = db /\ Rest
      BY <2>1, <2>2 DEF DidUpdateClip
    <3> QED BY <3>1 DEF Rest, ClipsEdited, TransEdited
  <2>3. CASE Exists(db, Stmt(p).id)
    <3>1. /\ Rest /\ Same(db, db')
          /\ db'.clips = [db.clips EXCEPT ![Stmt(p).id] = Stmt(p).row]
      BY <2>1, <2>3 DEF DidUpdateClip, Clip
    <3>2. Stmt(p).id = req[p].target /\ Stmt(p).op = "updateClip" /\ Stmt(p) \in Pending(req[p])
      BY <1>0, <2>1, Ops DEF UpdateNext, Stmt
    <3>3. \A c \in Clips : \/ db'.clips[c] = db.clips[c]
                           \/ c = Stmt(p).id /\ db'.clips[c] = Stmt(p).row
      BY <3>1 DEF Plans, Sound, DbRec
    <3>4. ClipsEdited(p)
      BY <2>3, <3>2, <3>3 DEF ClipsEdited
    <3> QED BY <3>1, <3>4 DEF Rest, TransEdited, Same
  <2> QED BY <2>2, <2>3
<1>3. CASE ExecDeleteClip(p)
  <2>1. /\ Rest /\ Same(db, db')
        /\ db'.clips = [db.clips EXCEPT ![Stmt(p).id] = NoClip]
    BY <1>3, DeleteClipDone DEF DidDeleteClip, Clip
  <2>2. \A c \in Clips : Exists(db', c) => db'.clips[c] = db.clips[c]
    BY <2>1 DEF Exists, Plans, Sound, DbRec
  <2>3. ClipsEdited(p)
    BY <2>2 DEF ClipsEdited
  <2> QED BY <2>1, <2>3 DEF Rest, TransEdited, Same
<1>4. CASE ExecInsertTrack(p) \/ ExecDeleteTrack(p)
  <2>1. DidTrack(p)
    BY <1>4, TrackDone
  <2> QED BY <2>1 DEF DidTrack, StillClips, Rest, ClipsEdited, TransEdited
<1>5. CASE ExecUpdateProject(p)
  <2>1. DidUpdateProject(p) /\ ShareNext(req[p].kind, req[p].todo)
    BY <1>5, UpdateProjectDone
  <2>2. req[p].target = ProjectRow /\ Stmt(p).op = "updateProject" /\ Stmt(p) \in Pending(req[p])
    BY <1>0, <2>1, Ops, Writer DEF ShareNext, Stmt, Aim
  <2>3. ClipsEdited(p) /\ Rest
    BY <2>1 DEF DidUpdateProject, StillClips, ClipsEdited
  <2>4. TransEdited(p)
    BY <2>1, <2>2 DEF DidUpdateProject, TransEdited
  <2> QED BY <2>3, <2>4 DEF Rest
<1>6. CASE ExecDeleteProject(p)
  BY <1>6, DeleteProjectDone DEF DidDeleteProject, Rest, ClipsEdited, TransEdited
<1>7. CASE ExecInsertVersion(p)
  BY <1>7, InsertVersionDone DEF DidInsertVersion, StillClips, ClipsEdited, TransEdited
<1>8. CASE ExecPrune(p)
  BY <1>8, PruneDone DEF DidPrune, StillClips, Rest, ClipsEdited, TransEdited
<1>9. CASE ExecCommit(p)
  BY <1>9, CommitDone DEF DidCommit, history
<1>10. CASE ExecRollback(p)
  BY <1>10, RollbackDone DEF DidRollback
<1> QED BY <1>1, <1>2, <1>3, <1>4, <1>5, <1>6, <1>7, <1>8, <1>9, <1>10 DEF Executed

(* What is in the database stays there when p's statement runs, if r was      *)
(* answered, or waits only for its COMMIT.                                    *)
LEMMA HasKept ==
  ASSUME Plans, Births, Edits, NEW p \in Reqs, Executed(p), NEW r \in Reqs,
         Counts(r), ~clobbered',
         \/ answer[r] = "ok"
         \/ r # p /\ req[r].pc = "writing" /\ req[r].todo = <<Commit>>
  PROVE  Has(db', r)
<1>1. req[p].pc = "writing" /\ Has(db, r) /\ (answer[r] = "ok" => Has(disk, r))
  BY HeadRuns DEF Edits
<1>2. /\ req[r].kind = "effect" => req[r].target \in Clips
      /\ req[r].kind = "transition" => req[r].target = ProjectRow
  BY DEF Plans, RequestOK, Aim, Rewriting, Sharing
<1>3. CASE DidRollback(p)
  <2>1. db' = disk /\ (r # p => req[r].pc # "writing")
    BY <1>3 DEF DidRollback, Plans
  <2> QED BY <1>1, <2>1
<1>4. CASE DidCommit(p)
  BY <1>1, <1>4 DEF DidCommit
<1>5. CASE ClipsEdited(p) /\ TransEdited(p)
  <2>1. ASSUME req[p].target = req[r].target
        PROVE  Carries(p, r)
    <3>1. CASE answer[r] = "ok"
      BY <2>1, <3>1 DEF Edits
    <3>2. CASE r # p /\ req[r].pc = "writing"
      <4>1. req[r].target # NoTarget
        BY <1>2 DEF Counts, Clips, ProjectRow, NoTarget
      <4> QED BY <1>1, <2>1, <3>2, <4>1 DEF Edits, Quiet, Active, Counts
    <3> QED BY <3>1, <3>2
  <2>2. ASSUME req[r].kind = "effect", Exists(db', req[r].target)
        PROVE  r \in ToSet(db'.clips[req[r].target].fx)
    <3> DEFINE c == req[r].target
    <3>1. c \in Clips /\ (Exists(db, c) => r \in ToSet(db.clips[c].fx))
      BY <1>1, <1>2, <2>2 DEF Has
    <3> HIDE DEF c
    <3>2. \/ db'.clips[c] = db.clips[c]
          \/ c \in {HalfA(p), HalfB(p)} /\ Awaits(req[p], c)
          \/ /\ c = req[p].target /\ Exists(db, c)
             /\ \E s \in Pending(req[p]) : s.op = "updateClip" /\ db'.clips[c] = s.row
      BY <1>5, <2>2, <3>1 DEF ClipsEdited, c
    <3>3. CASE db'.clips[c] = db.clips[c]
      BY <2>2, <3>1, <3>3 DEF Exists, c
    <3>4. CASE c \in {HalfA(p), HalfB(p)} /\ Awaits(req[p], c)
      <4>1. r = p
        BY <3>4 DEF Births, Unborn, c
      <4>2. req[p].kind \in {"add", "split"}
        BY <3>4, AwaitsOwn
      <4> QED BY <2>2, <4>1, <4>2
    <3>5. CASE c = req[p].target
               /\ \E s \in Pending(req[p]) : s.op = "updateClip" /\ db'.clips[c] = s.row
      BY <2>1, <2>2, <3>5 DEF Carries, c
    <3> QED BY <3>2, <3>3, <3>4, <3>5 DEF c
  <2>3. ASSUME req[r].kind = "transition", db'.project
        PROVE  r \in db'.trans
    <3>1. db.project /\ r \in db.trans
      BY <1>1, <1>5, <2>3 DEF Has, TransEdited
    <3>2. CASE db'.trans = db.trans
      BY <3>1, <3>2
    <3>3. CASE req[p].target = ProjectRow
               /\ \E s \in Pending(req[p]) : s.op = "updateProject" /\ db'.trans = s.trans
      BY <1>2, <2>1, <2>3, <3>3 DEF Carries
    <3> QED BY <1>5, <2>3, <3>2, <3>3 DEF TransEdited
  <2> QED BY <2>2, <2>3 DEF Has
<1> QED BY <1>3, <1>4, <1>5, EditsAfter

(* The statement before the COMMIT of r puts its edit into the database.      *)
LEMMA HasPut ==
  ASSUME Plans, Edits, NEW r \in Reqs, Executed(r), Counts(r),
         req'[r].pc = "writing", req'[r].todo = <<Commit>>
  PROVE  Has(db', r)
<1> DEFINE u == req[r].todo
<1>1. PICK t : Ran(r, t)
  BY Bearing
<1>2. req[r].pc = "writing" /\ req[r].kind \in {"effect", "transition"} /\ Carries(r, r)
  BY HeadRuns DEF Edits, Counts
<1>3. t = <<Commit>>
  BY <1>1 DEF Ran, Went
<1>4. t = Tail(u)
  <2>1. ~Escapes(r, t)
    BY <1>3, Sizes, Zenon DEF Escapes
  <2> QED BY <1>1, <2>1 DEF Ran
<1>5. Head(u) \in Pending(req[r])
  BY <1>1, PendingAfter
<1>6. ASSUME ~Ran(r, <<Commit, Raise>>)
      PROVE  Has(db', r)
  <2>1. CASE req[r].kind = "effect"
    <3>1. PICK x : Full(x) /\ Head(u) = UpdateClip(req[r].target, x)
      BY <1>2, <1>3, <1>4, <2>1, LastSteps DEF Rewriting
    <3>2. ExecUpdateClip(r)
      BY <3>1, HeadRuns, Ops
    <3>3. DidUpdateClip(r)
      BY <3>2, UpdateClipDone
    <3>4. Stmt(r).id = req[r].target /\ Stmt(r).row = x /\ r \in ToSet(x.fx)
      BY <1>2, <1>5, <2>1, <3>1, Ops DEF Stmt, Carries
    <3>5. db'.clips = [db.clips EXCEPT ![req[r].target] = x]
      BY <1>6, <3>3, <3>4 DEF DidUpdateClip, Clip
    <3>6. req[r].target \in Clips
      BY <2>1 DEF Plans, RequestOK, Aim, Rewriting
    <3>7. db'.clips[req[r].target] = x
      BY <3>5, <3>6 DEF Plans, Sound, DbRec
    <3> QED BY <2>1, <3>4, <3>7 DEF Has
  <2>2. CASE req[r].kind = "transition"
    <3>1. PICK x \in SUBSET Reqs : Head(u) = UpdateProject(x)
      BY <1>2, <1>3, <1>4, <2>2, LastSteps DEF Sharing
    <3>2. ExecUpdateProject(r)
      BY <3>1, HeadRuns, Ops
    <3>3. DidUpdateProject(r)
      BY <3>2, UpdateProjectDone
    <3>4. Stmt(r).trans = x /\ r \in x
      BY <1>2, <1>5, <2>2, <3>1, Ops DEF Stmt, Carries
    <3> QED BY <1>6, <2>2, <3>3, <3>4 DEF DidUpdateProject, Has
  <2> QED BY <1>2, <2>1, <2>2
<1>7. ~Ran(r, <<Commit, Raise>>)
  <2>1. SUFFICES ASSUME Ran(r, <<Commit, Raise>>)
                 PROVE  FALSE
    OBVIOUS
  <2>2. <<Commit, Raise>> \notin {<<>>, <<Raise>>}
    BY Sizes, Zenon
  <2>3. req'[r].todo = <<Commit, Raise>>
    BY <2>1, <2>2 DEF Ran, Went
  <2> QED BY <2>3, Sizes, Zenon
<1> QED BY <1>6, <1>7

LEMMA EditsExecuted ==
  ASSUME Plans, Births, Edits, NEW p \in Reqs, Executed(p)
  PROVE  Edits'
<1>1. PICK t : Ran(p, t)
  BY Bearing
<1>2. \A q \in Reqs : req'[q].kind = req[q].kind /\ req'[q].target = req[q].target
  BY <1>1 DEF Ran, Went, Others
<1>3. \A q \in Reqs : /\ Active(q)' => Active(q)
                      /\ q # p => req'[q] = req[q] /\ answer'[q] = answer[q]
  BY <1>1 DEF Ran, Went, Others, Active
<1>4. removed' = removed /\ contended' = contended
  BY EditsAfter
<1>5. Quiet'
  BY <1>2, <1>3, <1>4 DEF Edits, Quiet
<1>6. SUFFICES ASSUME NEW r \in Reqs, Counts(r)'
               PROVE  /\ req'[r].pc = "writing" /\ req'[r].todo = <<Commit>> => Has(db', r)
                      /\ answer'[r] = "ok" => Has(db', r) /\ Has(disk', r)
                      /\ \A q \in Reqs :
                           (q = r \/ answer'[r] = "ok") /\ req[q].target = req[r].target =>
                             Carries(q, r)'
  <2>1. \A d : \A r \in Reqs : Has(d, r)' <=> Has(d', r)
    BY <1>2 DEF Has, Exists
  <2> QED BY <1>2, <1>5, <1>6, <2>1 DEF Edits
<1>7. Counts(r) /\ ~clobbered'
  <2>1. ~clobbered
    <3>1. CASE DidRollback(p)
      BY <1>6, <3>1 DEF Counts, DidRollback, Plans
    <3>2. CASE ~DidRollback(p)
      BY <1>6, <3>2, StillWhole DEF Counts
    <3> QED BY <3>1, <3>2
  <2> QED BY <1>2, <1>4, <1>6, <2>1 DEF Counts
<1>8. req'[r].pc = "writing" /\ req'[r].todo = <<Commit>> => Has(db', r)
  <2>1. CASE r = p
    BY <1>7, <2>1, HasPut
  <2>2. CASE r # p
    BY <1>3, <1>7, <2>2, HasKept
  <2> QED BY <2>1, <2>2
<1>9. answer'[r] = "ok" => answer[r] = "ok" \/ (r = p /\ DidCommit(p) /\ req[p].todo = <<Commit>>)
  <2>1. req[r].kind # "timeline"
    BY <1>7 DEF Counts
  <2> QED BY <2>1, Answers
<1>10. ASSUME answer'[r] = "ok"
       PROVE  Has(db', r) /\ Has(disk', r)
  <2>1. CASE answer[r] = "ok"
    <3>1. Has(db', r) /\ Has(disk, r) /\ Has(db, r)
      BY <1>7, <2>1, HasKept DEF Edits
    <3> QED BY <3>1, Bearing
  <2>2. CASE r = p /\ DidCommit(p) /\ req[p].todo = <<Commit>>
    <3>1. Has(db, r)
      BY <1>1, <1>7, <2>2 DEF Edits, Ran
    <3> QED BY <2>2, <3>1 DEF DidCommit
  <2> QED BY <1>9, <1>10, <2>1, <2>2
<1>11. ASSUME NEW q \in Reqs, q = r \/ answer'[r] = "ok", req[q].target = req[r].target
       PROVE  Carries(q, r)'
  <2>1. Carries(q, r)
    <3>1. CASE q = r \/ answer[r] = "ok"
      BY <1>7, <1>11, <3>1 DEF Edits
    <3>2. CASE q # r /\ r = p
      <4>1. req[r].target # NoTarget
        BY <1>7 DEF Plans, RequestOK, Aim, Counts, Rewriting, Sharing, Clips, ProjectRow, NoTarget
      <4>2. ~Active(q)
        <5>1. Active(r)
          BY <1>1, <3>2 DEF Ran, Active
        <5> QED BY <1>7, <1>11, <3>2, <4>1, <5>1 DEF Edits, Quiet, Counts
      <4> QED BY <4>2 DEF Carries, Pending, Active
    <3> QED BY <1>9, <1>11, <3>1, <3>2
  <2>2. \A s \in Pending(req'[q]) : s \in Pending(req[q]) \/ s \in {Commit, Raise, Rollback}
    <3>1. CASE q = p
      <4>1. \/ Pending(req'[p]) \subseteq Pending(req[p])
            \/ Pending(req'[p]) \subseteq {Commit, Raise}
            \/ Pending(req'[p]) = {Rollback, Raise}
        BY <1>1, PendingAfter, Zenon
      <4> QED BY <3>1, <4>1
    <3>2. CASE q # p
      BY <1>3, <3>2
    <3> QED BY <3>1, <3>2
  <2>3. \A s \in {Commit, Raise, Rollback} : s.op \notin {"updateClip", "updateProject"}
    BY Ops
  <2>4. req'[q].pc = "reading" => req'[q] = req[q]
    BY <1>1, <1>3 DEF Ran, Went
  <2> QED BY <1>2, <2>1, <2>2, <2>3, <2>4 DEF Carries
<1> QED BY <1>8, <1>10, <1>11

LEMMA MeansUpdates ==
  ASSUME NEW p, NEW k, NEW c, NEW todo, Means(p, k, c, todo), NEW s \in Elems(todo)
  PROVE  /\ s.op = "updateClip" => k \in Rewriting
         /\ s.op = "updateProject" => k \in Sharing
         /\ s.op = "deleteClip" => k \in {"delete", "split"}
<1>1. CASE k = "add"
  BY <1>1, TupleElems, Ops DEF Means
<1>2. CASE k \in Rewriting
  BY <1>2, TupleElems, Ops DEF Means, MeansRewrite
<1>3. CASE k = "delete"
  BY <1>3, TupleElems, Ops DEF Means
<1>4. CASE k = "split"
  BY <1>4, TupleElems, Ops DEF Means, MeansSplit
<1>5. CASE k \in Sharing
  BY <1>5, TupleElems, Ops DEF Means, MeansShare
<1>6. CASE k = "drop"
  BY <1>6, TupleElems, Ops DEF Means
<1>7. CASE k = "timeline"
  BY <1>7 DEF Means, TimelinePlan, Elems
<1> QED BY <1>1, <1>2, <1>3, <1>4, <1>5, <1>6, <1>7 DEF Means, AllKinds, Rewriting, Sharing

LEMMA EditsBegan ==
  ASSUME Plans, Births, Edits, NEW p \in Reqs, Began(p)
  PROVE  Edits'
<1>1. PICK k, c, pc, copy, todo :
         /\ Started(p, k, c, pc, copy, todo)
         /\ \/ pc = "writing" /\ Means(p, k, c, todo)
            \/ /\ pc = "reading" /\ k = "transition" /\ c = ProjectRow
               /\ db.project /\ copy = db.trans
            \/ pc = "reading" /\ k \in {"save", "restore"} /\ c = NoTarget
  BY DEF Began
<1>2. /\ \A q \in Reqs : q # p => req'[q] = req[q]
      /\ UNCHANGED <<db, disk, answer, clobbered>>
      /\ req'[p].pc = pc /\ req'[p].kind = k /\ req'[p].target = c
      /\ req'[p].copy = copy /\ req'[p].todo = todo
      /\ contended \subseteq contended'
      /\ c # NoTarget /\ c \notin contended' => \A q \in Reqs : Active(q) => req[q].target # c
      /\ req[p].pc = "new" /\ answer[p] = "none"
  BY <1>1 DEF Started, Others, Newest, Plans
<1>3. removed \subseteq removed'
  BY DEF Began
<1>4. Quiet'
  <2> SUFFICES ASSUME NEW q \in Reqs, NEW r \in Reqs, q # r, Active(q)', Active(r)',
                      req'[q].target = req'[r].target, req'[r].target # NoTarget,
                      req'[r].target \notin contended'
               PROVE  FALSE
    BY DEF Quiet
  <2>1. CASE q # p /\ r # p
    BY <1>2, <2>1 DEF Edits, Quiet, Active
  <2>2. CASE q = p
    BY <1>2, <2>2 DEF Active
  <2>3. CASE r = p
    BY <1>2, <2>3 DEF Active
  <2> QED BY <2>1, <2>2, <2>3
<1>5. SUFFICES ASSUME NEW r \in Reqs, Counts(r)'
               PROVE  /\ req'[r].pc = "writing" /\ req'[r].todo = <<Commit>> => Has(db, r)'
                      /\ answer'[r] = "ok" => Has(db, r)' /\ Has(disk, r)'
                      /\ \A q \in Reqs :
                           (q = r \/ answer'[r] = "ok") /\ req'[q].target = req'[r].target =>
                             Carries(q, r)'
  BY <1>4 DEF Edits
<1>6. CASE r = p
  <2>1. k = "effect" => \E x : todo = <<UpdateClip(c, x), Commit>> /\ p \in ToSet(x.fx)
    <3>1. k = "effect" => pc = "writing" /\ MeansRewrite(p, c, todo)
      BY <1>1 DEF Means, Rewriting
    <3> QED BY <1>2, <3>1 DEF MeansRewrite
  <2>2. k \in {"effect", "transition"}
    BY <1>2, <1>5, <1>6 DEF Counts
  <2>3. k = "transition" => pc = "reading"
    BY <1>1 DEF Means, Sharing
  <2>4. ~(req'[p].pc = "writing" /\ req'[p].todo = <<Commit>>)
    <3>1. \A x : <<UpdateClip(c, x), Commit>> # <<Commit>>
      BY Sizes, Zenon
    <3> QED BY <1>2, <2>1, <2>2, <2>3, <3>1
  <2>5. Carries(p, p)'
    <3>1. CASE k = "effect"
      <4>1. PICK x : todo = <<UpdateClip(c, x), Commit>> /\ p \in ToSet(x.fx)
        BY <2>1, <3>1
      <4>2. \A s \in Pending(req'[p]) : s \in {UpdateClip(c, x), Commit}
        <5>1. Elems(<<UpdateClip(c, x), Commit>>) = {UpdateClip(c, x), Commit}
          BY TupleElems, Zenon
        <5> QED BY <1>2, <4>1, <5>1 DEF Pending
      <4> QED BY <1>2, <3>1, <4>1, <4>2, Ops DEF Carries
    <3>2. CASE k = "transition"
      BY <1>2, <2>3, <3>2 DEF Carries, Pending
    <3> QED BY <2>2, <3>1, <3>2
  <2> QED BY <1>2, <1>6, <2>4, <2>5
<1>7. CASE r # p
  <2>1. Counts(r) /\ req'[r] = req[r] /\ answer'[r] = answer[r]
    BY <1>2, <1>3, <1>5, <1>7 DEF Counts
  <2>2. \A d : Has(d, r)' <=> Has(d', r)
    BY <2>1 DEF Has, Exists
  <2>3. /\ req[r].pc = "writing" /\ req[r].todo = <<Commit>> => Has(db, r)
        /\ answer[r] = "ok" => Has(db, r) /\ Has(disk, r)
        /\ \A q \in Reqs : (q = r \/ answer[r] = "ok") /\ req[q].target = req[r].target =>
             Carries(q, r)
    BY <2>1 DEF Edits
  <2>4. ASSUME NEW q \in Reqs, q = r \/ answer'[r] = "ok", req'[q].target = req'[r].target
        PROVE  Carries(q, r)'
    <3>1. CASE q # p
      <4>1. Carries(q, r) /\ req'[q] = req[q]
        BY <1>2, <2>1, <2>3, <2>4, <3>1
      <4> QED BY <2>1, <4>1 DEF Carries
    <3>2. CASE q = p
      <4>1. Has(db, r) /\ c = req[r].target /\ r \notin removed'
            /\ req[r].kind \in {"effect", "transition"}
        BY <1>2, <1>5, <1>7, <2>1, <2>3, <2>4, <3>2 DEF Counts
      <4>2. req[r].kind = "effect" => req[r].target \in Clips
        BY DEF Plans, RequestOK, Aim, Rewriting
      <4>3. req[r].kind = "transition" => req[r].target = ProjectRow
        BY DEF Plans, RequestOK, Aim, Sharing
      <4>4. ASSUME NEW s \in Pending(req'[p]), s.op = "updateClip", req[r].kind = "effect"
            PROVE  r \in ToSet(s.row.fx)
        <5>1. Means(p, k, c, todo) /\ s \in Elems(todo)
          BY <1>1, <1>2, <4>4 DEF Pending
        <5>2. k \in Rewriting
          BY <4>4, <5>1, MeansUpdates
        <5>3. PICK x : /\ todo = <<UpdateClip(c, x), Commit>>
                       /\ (ToSet(db.clips[c].fx) \ removed') \subseteq ToSet(x.fx)
          BY <5>1, <5>2 DEF Means, MeansRewrite
        <5>4. s = UpdateClip(c, x)
          BY <4>4, <5>1, <5>3, TupleElems, Ops
        <5>5. r \in ToSet(db.clips[c].fx)
          BY <4>1, <4>4, <5>1, <5>2 DEF Has, Means
        <5> QED BY <4>1, <5>3, <5>4, <5>5, Ops
      <4>5. ASSUME NEW s \in Pending(req'[p]), s.op = "updateProject", req[r].kind = "transition"
            PROVE  r \in s.trans
        <5>1. Means(p, k, c, todo) /\ s \in Elems(todo)
          BY <1>1, <1>2, <4>5 DEF Pending
        <5>2. k \in Sharing
          BY <4>5, <5>1, MeansUpdates
        <5>3. PICK x \in SUBSET Reqs : todo = <<UpdateProject(x), Commit>> /\ db.trans \ removed' \subseteq x
          BY <5>1, <5>2 DEF Means, MeansShare
        <5>4. s = UpdateProject(x)
          BY <4>5, <5>1, <5>3, TupleElems, Ops
        <5>5. r \in db.trans
          BY <4>1, <4>5, <5>1, <5>2 DEF Has, Means
        <5> QED BY <4>1, <5>3, <5>4, <5>5, Ops
      <4>6. pc = "reading" /\ k = "transition" /\ req[r].kind = "transition" => r \in copy
        BY <1>1, <4>1 DEF Has
      <4> QED BY <1>2, <2>1, <3>2, <4>4, <4>5, <4>6 DEF Carries
    <3> QED BY <3>1, <3>2
  <2> QED BY <1>2, <2>1, <2>2, <2>3, <2>4
<1> QED BY <1>6, <1>7

LEMMA EditsSecond ==
  ASSUME Plans, Edits, NEW p \in Reqs, ReadClips(p) \/ ReadMax(p)
  PROVE  Edits'
<1>1. /\ UNCHANGED <<db, disk, removed, contended, clobbered>> /\ req[p].pc = "reading"
      /\ \A q \in Reqs : q # p => req'[q] = req[q] /\ answer'[q] = answer[q]
      /\ req'[p].kind = req[p].kind /\ req'[p].target = req[p].target
      /\ req'[p].pc \in {"writing", "done"} /\ answer'[p] # "ok"
      /\ req'[p].pc = "writing" =>
           \/ /\ req[p].kind = "transition"
              /\ req'[p].todo = <<UpdateProject(req[p].copy \union {p}), Commit>>
           \/ req[p].kind \in {"save", "restore"}
  <2>1. answer[p] = "none"
    BY DEF Plans, ReadClips, ReadMax
  <2>2. CASE ReadClips(p)
    BY <2>1, <2>2, ReadClipsDone DEF DidReadClips, Decided, Others, history
  <2>3. CASE ReadMax(p)
    BY <2>1, <2>3, ReadMaxDone DEF DidReadMax, Decided, Others, history
  <2> QED BY <2>2, <2>3
<1>2. \A q \in Reqs : /\ req'[q].kind = req[q].kind /\ req'[q].target = req[q].target
                      /\ Active(q)' => Active(q)
                      /\ answer'[q] = "ok" => answer[q] = "ok"
  BY <1>1 DEF Active
<1>3. Quiet'
  BY <1>1, <1>2 DEF Edits, Quiet
<1>4. \A d : \A r \in Reqs : Has(d, r)' <=> Has(d', r)
  BY <1>2 DEF Has, Exists
<1>5. SUFFICES ASSUME NEW r \in Reqs, Counts(r)'
               PROVE  /\ req'[r].pc = "writing" /\ req'[r].todo = <<Commit>> => Has(db', r)
                      /\ answer'[r] = "ok" => Has(db', r) /\ Has(disk', r)
                      /\ \A q \in Reqs :
                           (q = r \/ answer'[r] = "ok") /\ req[q].target = req[r].target =>
                             Carries(q, r)'
  BY <1>2, <1>3, <1>4 DEF Edits
<1>6. Counts(r)
  BY <1>1, <1>2, <1>5 DEF Counts
<1>7. /\ req[r].pc = "writing" /\ req[r].todo = <<Commit>> => Has(db, r)
      /\ answer[r] = "ok" => Has(db, r) /\ Has(disk, r)
      /\ \A q \in Reqs : (q = r \/ answer[r] = "ok") /\ req[q].target = req[r].target =>
           Carries(q, r)
  BY <1>6 DEF Edits
<1>8. ~(req'[p].pc = "writing" /\ req'[p].todo = <<Commit>> /\ r = p)
  <2>1. <<UpdateProject(req[p].copy \union {p}), Commit>> # <<Commit>>
    BY Sizes, Zenon
  <2> QED BY <1>1, <1>6, <2>1 DEF Counts
<1>9. ASSUME NEW q \in Reqs, q = r \/ answer'[r] = "ok", req[q].target = req[r].target
      PROVE  Carries(q, r)'
  <2>1. Carries(q, r)
    BY <1>2, <1>7, <1>9
  <2>2. CASE q # p
    BY <1>1, <1>2, <2>1, <2>2 DEF Carries
  <2>3. CASE q = p
    <3>1. CASE req'[p].pc # "writing"
      BY <1>1, <2>3, <3>1 DEF Carries, Pending
    <3>2. CASE req'[p].pc = "writing"
      <4>1. req[p].kind = "transition"
        <5>1. req[p].kind \in {"save", "restore"} => req[p].target = NoTarget
          BY DEF Plans, RequestOK, Aim, Elsewise
        <5>2. req[r].target # NoTarget
          BY <1>6 DEF Plans, RequestOK, Aim, Counts, Rewriting, Sharing, Clips, ProjectRow, NoTarget
        <5> QED BY <1>1, <1>9, <2>3, <3>2, <5>1, <5>2
      <4>2. Pending(req'[p]) = {UpdateProject(req[p].copy \union {p}), Commit}
        <5>1. req'[p].todo = <<UpdateProject(req[p].copy \union {p}), Commit>>
          BY <1>1, <3>2, <4>1
        <5> QED BY <3>2, <5>1, TupleElems DEF Pending
      <4>3. req[r].kind = "transition" => r \in req[p].copy \union {p}
        BY <1>1, <2>1, <2>3, <4>1 DEF Carries
      <4> QED BY <1>1, <1>2, <2>3, <3>2, <4>2, <4>3, Ops DEF Carries
    <3> QED BY <3>1, <3>2
  <2> QED BY <2>2, <2>3
<1> QED BY <1>1, <1>2, <1>7, <1>8, <1>9

LEMMA EditsCrash ==
  ASSUME Plans, Edits, Crash
  PROVE  Edits'
<1>1. Crashed
  BY CrashDone
<1>2. \A q \in Reqs : /\ req'[q].kind = req[q].kind /\ req'[q].target = req[q].target
                      /\ req'[q].pc \notin {"reading", "writing"} /\ Pending(req'[q]) = {}
  BY <1>1 DEF Crashed, Active, Pending
<1>3. \A d : \A r \in Reqs : Has(d, r)' <=> Has(d', r)
  BY <1>2 DEF Has, Exists
<1>4. \A r \in Reqs : Counts(r)' => Counts(r)
  BY <1>1, <1>2 DEF Counts, Crashed
<1>5. \A q, r \in Reqs : Carries(q, r)'
  BY <1>2 DEF Carries
<1>6. \A r \in Reqs : Counts(r) /\ answer'[r] = "ok" => Has(disk, r)
  BY <1>1 DEF Crashed, Edits
<1>7. Quiet'
  BY <1>2 DEF Quiet, Active
<1>8. db' = disk /\ disk' = disk
  BY <1>1 DEF Crashed
<1> QED BY <1>2, <1>3, <1>4, <1>5, <1>6, <1>7, <1>8 DEF Edits

LEMMA EditsStep == Plans /\ Births /\ Edits /\ [Next]_vars => Edits'
<1> SUFFICES ASSUME Plans, Births, Edits, [Next]_vars
             PROVE  Edits'
  OBVIOUS
<1>1. CASE \E r \in Reqs : Begins(r)
  BY <1>1, BeginsWell, EditsBegan
<1>2. CASE \E r \in Reqs : ReadClips(r) \/ ReadMax(r)
  BY <1>2, EditsSecond
<1>3. CASE \E r \in Reqs : Executed(r)
  BY <1>3, EditsExecuted
<1>4. CASE Crash
  BY <1>4, EditsCrash
<1>5. CASE UNCHANGED vars
  <2>1. UNCHANGED <<db, disk, req, answer, removed, contended, clobbered>>
    BY <1>5 DEF vars
  <2>2. Quiet'
    BY <2>1 DEF Edits, Quiet, Active
  <2>3. \A q, r \in Reqs : /\ Counts(r)' <=> Counts(r)
                           /\ Carries(q, r)' <=> Carries(q, r)
                           /\ Has(db, r)' <=> Has(db, r)
                           /\ Has(disk, r)' <=> Has(disk, r)
    BY <2>1 DEF Counts, Has, Exists, Carries
  <2> QED BY <2>1, <2>2, <2>3 DEF Edits
<1> QED BY <1>1, <1>2, <1>3, <1>4, <1>5 DEF Next

LEMMA EditsInit == Init => Edits
<1> SUFFICES ASSUME Init
             PROVE  Edits
  OBVIOUS
<1>1. \A r \in Reqs : req[r].pc = "new" /\ req[r].kind = "none"
  BY DEF Init, Idle
<1> QED BY <1>1 DEF Edits, Quiet, Active, Counts
-----------------------------------------------------------------------------
(* Material.  Every clip that ever existed has frames that it was made to     *)
(* show (nat); what nobody asked to cut is in its row, and a split that has   *)
(* still to delete its clip has halves that show the frames instead.          *)

Frm == 0 .. Length - 1

Material(nat) ==
  /\ \A c \in Clips : Exists(db, c) => nat[c] \ cut \subseteq Span(db.clips[c])
  /\ \A c \in Clips : Exists(disk, c) => nat[c] \ cut \subseteq Span(disk.clips[c])
  /\ \A q \in Reqs : \A s \in Pending(req[q]) :
       /\ s.op = "insertClip" => nat[s.id] \ cut \subseteq Span(s.row)
       /\ s.op = "rollback" => Frm \subseteq cut
       /\ s.op = "deleteClip" /\ req[q].kind = "split" =>
            \A f \in nat[req[q].target] \ cut :
              \E d \in Clips : /\ d > req[q].target /\ f \in nat[d]
                               /\ Exists(db, d) \/ Awaits(req[q], d)
  /\ \A f \in Frm \ cut : /\ \E c \in Clips : Exists(db, c) /\ f \in nat[c]
                          /\ \E c \in Clips : Exists(disk, c) /\ f \in nat[c]
  /\ ~db.project \/ ~disk.project => Frm \subseteq cut

Natures   == [Clips -> SUBSET Frm]
Materials == \E nat \in Natures : Material(nat)

LEMMA PendingTypes ==
  ASSUME Plans
  PROVE  /\ \A q \in Reqs : \A s \in Pending(req[q]) :
              s \in Statement /\ (s.op = "insertClip" => s.id \in Clips)
         /\ \A q \in Reqs : req[q].kind = "split" => req[q].target \in Clips
<1>1. \A q \in Reqs : req[q] \in ReqRec /\ RequestOK(q, req[q])
  BY DEF Plans
<1>2. ASSUME NEW q \in Reqs, NEW s \in Pending(req[q])
      PROVE  s \in Statement
  BY <1>1, <1>2 DEF Pending, Elems, ReqRec
<1>3. \A s \in Statement : s.op = "insertClip" => s.id \in Clips
  BY DEF Statement
<1> QED BY <1>1, <1>2, <1>3 DEF RequestOK, Aim

(* When everything was asked to be cut there is nothing left to lose.        *)
LEMMA NothingLeft ==
  ASSUME Plans', NEW nat \in Natures, Frm \subseteq cut'
  PROVE  Material(nat)'
<1>1. (/\ \A q \in Reqs : \A s \in Pending(req[q]) :
              s \in Statement /\ (s.op = "insertClip" => s.id \in Clips)
       /\ \A q \in Reqs : req[q].kind = "split" => req[q].target \in Clips)'
  BY PendingTypes, PTL
<1>2. \A c \in Clips : nat[c] \ cut' = {}
  BY DEF Natures
<1> QED BY <1>1, <1>2 DEF Material

(* A step after which requests have no more to insert, delete or roll back,   *)
(* and every frame of a clip is still shown by it or by a later one.          *)
LEMMA MaterialKept ==
  ASSUME Plans, Plans', NEW nat \in Natures, Material(nat), cut \subseteq cut',
         \A q \in Reqs : /\ req'[q].kind = req[q].kind /\ req'[q].target = req[q].target
                         /\ \A s \in Pending(req'[q]) :
                              s.op \in {"insertClip", "rollback", "deleteClip"} =>
                                s \in Pending(req[q]),
         disk' \in {disk, db},
         db'.project \/ Frm \subseteq cut',
         \A c \in Clips : Exists(db', c) => nat[c] \ cut' \subseteq Span(db'.clips[c]),
         \A c \in Clips : \A f \in nat[c] \ cut' : Exists(db, c) =>
           \E e \in Clips : e >= c /\ f \in nat[e] /\ Exists(db', e),
         \A q \in Reqs : \A d \in Clips : Awaits(req[q], d) =>
           \/ Awaits(req'[q], d) \/ Exists(db', d)
           \/ \A s \in Pending(req'[q]) : s.op # "deleteClip"
  PROVE  Material(nat)'
<1>1. CASE Frm \subseteq cut'
  BY <1>1, NothingLeft
<1>2. CASE ~(Frm \subseteq cut')
  <2>1. ~(Frm \subseteq cut) /\ db.project /\ disk.project
    BY <1>2 DEF Material
  <2>2. \A c \in Clips : Exists(disk', c) => nat[c] \ cut' \subseteq Span(disk'.clips[c])
    <3>1. CASE disk' = disk
      BY <3>1 DEF Material
    <3>2. CASE disk' = db
      BY <3>2 DEF Material
    <3> QED BY <3>1, <3>2
  <2>3. ASSUME NEW q \in Reqs, NEW s \in Pending(req'[q])
        PROVE  /\ s.op = "insertClip" => nat[s.id] \ cut' \subseteq Span(s.row)
               /\ s.op # "rollback"
               /\ s.op = "deleteClip" /\ req'[q].kind = "split" =>
                    \A f \in nat[req'[q].target] \ cut' :
                      \E d \in Clips : /\ d > req'[q].target /\ f \in nat[d]
                                       /\ Exists(db', d) \/ Awaits(req'[q], d)
    <3>1. s.op \in {"insertClip", "rollback", "deleteClip"} => s \in Pending(req[q])
      BY <2>3
    <3>2. s.op = "insertClip" => nat[s.id] \ cut' \subseteq Span(s.row)
      BY <3>1 DEF Material
    <3>3. s.op # "rollback"
      BY <2>1, <3>1 DEF Material
    <3>4. ASSUME s.op = "deleteClip", req'[q].kind = "split",
                 NEW f \in nat[req'[q].target] \ cut'
          PROVE  \E d \in Clips : /\ d > req'[q].target /\ f \in nat[d]
                                  /\ Exists(db', d) \/ Awaits(req'[q], d)
      <4>1. req'[q].target = req[q].target /\ req[q].kind = "split"
        BY <3>4
      <4>2. PICK d \in Clips : /\ d > req[q].target /\ f \in nat[d]
                               /\ Exists(db, d) \/ Awaits(req[q], d)
        BY <3>1, <3>4, <4>1 DEF Material
      <4>3. CASE Exists(db, d)
        <5>1. PICK e \in Clips : e >= d /\ f \in nat[e] /\ Exists(db', e)
          BY <3>4, <4>2, <4>3
        <5>2. req[q].target \in Clips
          BY <4>1, PendingTypes
        <5>3. e > req[q].target
          BY <4>2, <5>1, <5>2 DEF Clips
        <5> QED BY <4>1, <5>1, <5>3
      <4>4. CASE Awaits(req[q], d)
        BY <2>3, <3>4, <4>1, <4>2, <4>4
      <4> QED BY <4>2, <4>3, <4>4
    <3> QED BY <3>2, <3>3, <3>4
  <2>4. ASSUME NEW f \in Frm \ cut'
        PROVE  /\ \E c \in Clips : Exists(db', c) /\ f \in nat[c]
               /\ \E c \in Clips : Exists(disk', c) /\ f \in nat[c]
    <3>1. /\ \E c \in Clips : Exists(db, c) /\ f \in nat[c]
          /\ \E c \in Clips : Exists(disk, c) /\ f \in nat[c]
      BY <2>4 DEF Material
    <3>2. \E c \in Clips : Exists(db', c) /\ f \in nat[c]
      BY <2>4, <3>1
    <3> QED BY <3>1, <3>2
  <2>5. db'.project /\ disk'.project
    BY <1>2, <2>1
  <2> QED BY <2>2, <2>3, <2>4, <2>5 DEF Material
<1> QED BY <1>1, <1>2

(* Requests after an executed statement, if the project is there.            *)
LEMMA PendingKept ==
  ASSUME Plans, NEW r \in Reqs, NEW t, Ran(r, t), db.project, NEW q \in Reqs
  PROVE  /\ req'[q].kind = req[q].kind /\ req'[q].target = req[q].target
         /\ \A s \in Pending(req'[q]) :
              s.op \in {"insertClip", "rollback", "deleteClip"} => s \in Pending(req[q])
<1>1. req'[q].kind = req[q].kind /\ req'[q].target = req[q].target
  BY DEF Ran, Went, Others
<1>2. CASE q = r
  <2>1. Pending(req'[r]) \subseteq Pending(req[r]) \/ Pending(req'[r]) \subseteq {Commit, Raise}
    BY PendingAfter, Zenon
  <2>2. \A s \in {Commit, Raise} : s.op \notin {"insertClip", "rollback", "deleteClip"}
    BY Ops
  <2> QED BY <1>1, <1>2, <2>1, <2>2
<1>3. CASE q # r
  BY <1>1, <1>3 DEF Ran, Went, Others
<1> QED BY <1>2, <1>3

(* When the statement is not one on clips, clips are what they were.          *)
LEMMA MaterialStill ==
  ASSUME Plans, Plans', NEW nat \in Natures, Material(nat), NEW r \in Reqs, NEW t, Ran(r, t),
         cut' = cut, db'.clips = db.clips, db'.project = db.project, disk' \in {disk, db},
         \A d \in Clips : Awaits(req[r], d) => Awaits(req'[r], d)
  PROVE  Material(nat)'
<1>1. CASE ~db.project
  BY <1>1, NothingLeft DEF Material
<1>2. CASE db.project
  <2>1. \A q \in Reqs : /\ req'[q].kind = req[q].kind /\ req'[q].target = req[q].target
                        /\ \A s \in Pending(req'[q]) :
                             s.op \in {"insertClip", "rollback", "deleteClip"} =>
                               s \in Pending(req[q])
    BY <1>2, PendingKept
  <2>2. \A c \in Clips : Exists(db', c) <=> Exists(db, c)
    BY DEF Exists
  <2>3. \A c \in Clips : Exists(db', c) => nat[c] \ cut' \subseteq Span(db'.clips[c])
    BY <2>2 DEF Material
  <2>4. \A c \in Clips : \A f \in nat[c] \ cut' : Exists(db, c) =>
           \E e \in Clips : e >= c /\ f \in nat[e] /\ Exists(db', e)
    BY <2>2 DEF Clips
  <2>5. \A q \in Reqs : \A d \in Clips : Awaits(req[q], d) => Awaits(req'[q], d)
    BY DEF Ran, Went, Others
  <2> QED BY <1>2, <2>1, <2>3, <2>4, <2>5, MaterialKept
<1> QED BY <1>1, <1>2

LEMMA MaterialInsert ==
  ASSUME Plans, Plans', NEW nat \in Natures, Material(nat), NEW r \in Reqs, ExecInsertClip(r)
  PROVE  Material(nat)'
<1>1. DidInsertClip(r) /\ InsertNext(r, req[r].kind, req[r].target, req[r].todo)
      /\ req[r].pc = "writing"
  BY InsertClipDone DEF ExecInsertClip, Executes
<1>2. CASE ~db.project
  <2>1. cut' = cut
    BY <1>1, <1>2 DEF DidInsertClip
  <2> QED BY <1>2, <2>1, NothingLeft DEF Material
<1>3. CASE db.project
  <2> DEFINE c == Stmt(r).id
             x == Stmt(r).row
  <2>1. /\ cut' = cut /\ Ran(r, Tail(req[r].todo)) /\ disk' = disk
        /\ db'.clips = [db.clips EXCEPT ![c] = x] /\ db'.project = db.project
    BY <1>1, <1>3 DEF DidInsertClip, Clip, Same, Rest
  <2>2. /\ c \in Clips /\ Full(x) /\ Stmt(r) \in Pending(req[r]) /\ Stmt(r).op = "insertClip"
        /\ req[r].kind = "split" => \A d : Awaits(req[r], d) => d = c \/ Awaits(req'[r], d)
    BY <1>1, <2>1, Inserts
  <2>3. nat[c] \ cut \subseteq Span(x)
    BY <2>2 DEF Material
  <2> HIDE DEF c, x
  <2>4. /\ db'.clips[c] = x /\ Exists(db', c)
        /\ \A d \in Clips : d # c => db'.clips[d] = db.clips[d]
    BY <2>1, <2>2, FullExists DEF Exists, Plans, Sound, DbRec
  <2>5. \A d \in Clips : Exists(db', d) => nat[d] \ cut' \subseteq Span(db'.clips[d])
    BY <2>1, <2>3, <2>4 DEF Material, Exists
  <2>6. \A d \in Clips : \A f \in nat[d] \ cut' : Exists(db, d) =>
           \E e \in Clips : e >= d /\ f \in nat[e] /\ Exists(db', e)
    BY <2>4 DEF Exists, Clips
  <2>7. \A q \in Reqs : /\ req'[q].kind = req[q].kind /\ req'[q].target = req[q].target
                        /\ \A s \in Pending(req'[q]) :
                             s.op \in {"insertClip", "rollback", "deleteClip"} =>
                               s \in Pending(req[q])
    BY <1>3, <2>1, PendingKept
  <2>8. ASSUME NEW q \in Reqs, NEW d \in Clips, Awaits(req[q], d)
        PROVE  \/ Awaits(req'[q], d) \/ Exists(db', d)
               \/ \A s \in Pending(req'[q]) : s.op # "deleteClip"
    <3>1. CASE q # r
      BY <2>1, <2>8, <3>1 DEF Ran, Went, Others
    <3>2. CASE q = r /\ req[r].kind = "split"
      BY <2>2, <2>4, <2>8, <3>2
    <3>3. CASE q = r /\ req[r].kind # "split"
      <4>1. Tail(req[r].todo) = <<Commit>>
        BY <1>1, <3>3 DEF InsertNext
      <4>2. \A s \in Pending(req'[r]) : s = Commit
        <5>1. req'[r].pc = "writing" => req'[r].todo = <<Commit>>
          BY <2>1, <4>1 DEF Ran, Went
        <5> QED BY <5>1, TupleElems DEF Pending
      <4> QED BY <3>3, <4>2, Ops
    <3> QED BY <3>1, <3>2, <3>3
  <2> QED BY <1>3, <2>1, <2>5, <2>6, <2>7, <2>8, MaterialKept
<1> QED BY <1>2, <1>3

LEMMA MaterialUpdate ==
  ASSUME Plans, Plans', NEW nat \in Natures, Material(nat), NEW r \in Reqs, ExecUpdateClip(r)
  PROVE  Material(nat)'
<1>1. DidUpdateClip(r) /\ UpdateNext(req[r].kind, req[r].target, req[r].todo)
      /\ req[r].pc = "writing"
  BY UpdateClipDone DEF ExecUpdateClip, Executes
<1>2. \A d : ~Awaits(req[r], d)
  BY <1>1, AwaitsOwn DEF UpdateNext, Rewriting
<1>3. CASE ~Exists(db, Stmt(r).id)
  <2>1. db' = db /\ cut' = cut /\ disk' = disk /\ Ran(r, <<Commit, Raise>>)
    BY <1>1, <1>3 DEF DidUpdateClip, Rest
  <2> QED BY <1>2, <2>1, MaterialStill
<1>4. CASE Exists(db, Stmt(r).id)
  <2> DEFINE c == Stmt(r).id
             x == Stmt(r).row
  <2>1. /\ cut' = cut \union (Span(db.clips[c]) \ Span(x)) /\ Ran(r, Tail(req[r].todo))
        /\ disk' = disk
        /\ db'.clips = [db.clips EXCEPT ![c] = x] /\ db'.project = db.project
    BY <1>1, <1>4 DEF DidUpdateClip, Clip, Same, Rest
  <2>2. c \in Clips /\ Full(x)
    <3>1. req[r].target \in Clips
      BY <1>1, Writer DEF UpdateNext, Aim
    <3> QED BY <1>1, <3>1, Ops DEF UpdateNext, Stmt
  <2> HIDE DEF c, x
  <2>3. Exists(db, c)
    BY <1>4 DEF c
  <2>4. /\ db'.clips[c] = x /\ Exists(db', c)
        /\ \A d \in Clips : d # c => db'.clips[d] = db.clips[d]
    BY <2>1, <2>2, FullExists DEF Exists, Plans, Sound, DbRec
  <2>5. nat[c] \ cut' \subseteq Span(x) /\ cut \subseteq cut'
    BY <2>1, <2>2, <2>3 DEF Material
  <2>6. \A d \in Clips : Exists(db', d) => nat[d] \ cut' \subseteq Span(db'.clips[d])
    BY <2>4, <2>5 DEF Material, Exists
  <2>7. \A d \in Clips : \A f \in nat[d] \ cut' : Exists(db, d) =>
           \E e \in Clips : e >= d /\ f \in nat[e] /\ Exists(db', e)
    BY <2>4 DEF Exists, Clips
  <2>8. CASE ~db.project
    BY <2>5, <2>8, NothingLeft DEF Material
  <2>9. CASE db.project
    <3>1. \A q \in Reqs : /\ req'[q].kind = req[q].kind /\ req'[q].target = req[q].target
                          /\ \A s \in Pending(req'[q]) :
                               s.op \in {"insertClip", "rollback", "deleteClip"} =>
                                 s \in Pending(req[q])
      BY <2>1, <2>9, PendingKept
    <3>2. \A q \in Reqs : \A d \in Clips : Awaits(req[q], d) => Awaits(req'[q], d)
      BY <1>2, <2>1 DEF Ran, Went, Others
    <3> QED BY <2>1, <2>5, <2>6, <2>7, <2>9, <3>1, <3>2, MaterialKept
  <2> QED BY <2>8, <2>9
<1> QED BY <1>3, <1>4

LEMMA MaterialDelete ==
  ASSUME Plans, Plans', NEW nat \in Natures, Material(nat), NEW r \in Reqs, ExecDeleteClip(r)
  PROVE  Material(nat)'
<1> DEFINE c == req[r].target
<1>1. DidDeleteClip(r) /\ DeleteNext(req[r].kind, req[r].target, req[r].todo)
      /\ req[r].pc = "writing"
  BY DeleteClipDone DEF ExecDeleteClip, Executes
<1>2. c \in Clips /\ Stmt(r).id = c /\ req[r].kind \in {"delete", "split"}
  <2>1. Head(req[r].todo) = DeleteClip(c) /\ req[r].kind \in {"delete", "split"}
    BY <1>1 DEF DeleteNext
  <2> QED BY <1>1, <2>1, Ops, Writer DEF Stmt, Aim
<1>3. /\ cut' = cut \union (IF req[r].kind = "delete" THEN Span(db.clips[c]) ELSE {})
      /\ Ran(r, Tail(req[r].todo)) /\ disk' = disk
      /\ db'.clips = [db.clips EXCEPT ![c] = NoClip] /\ db'.project = db.project
  BY <1>1, <1>2 DEF DidDeleteClip, Clip, Same, Rest
<1>4. Pending(req[r]) = {DeleteClip(c), Commit}
      /\ \A s \in Pending(req'[r]) : s = Commit
  <2>1. Elems(req[r].todo) = {Head(req[r].todo)} \union Elems(Tail(req[r].todo))
    BY <1>1, Writer, ElemsHead
  <2>2. Head(req[r].todo) = DeleteClip(c) /\ Elems(Tail(req[r].todo)) = {Commit}
    BY <1>1, TupleElems DEF DeleteNext
  <2>3. req'[r].pc = "writing" => req'[r].todo = Tail(req[r].todo)
    BY <1>3 DEF Ran, Went
  <2> QED BY <1>1, <2>1, <2>2, <2>3 DEF Pending
<1> HIDE DEF c
<1>5. \A d \in Clips : /\ Exists(db', d) <=> Exists(db, d) /\ d # c
                       /\ d # c => db'.clips[d] = db.clips[d]
  BY <1>2, <1>3 DEF Exists, Plans, Sound, DbRec
<1>6. \A d \in Clips : Exists(db', d) => nat[d] \ cut' \subseteq Span(db'.clips[d])
  BY <1>3, <1>5 DEF Material
<1>7. ASSUME NEW d \in Clips, NEW f \in nat[d] \ cut', Exists(db, d)
      PROVE  \E e \in Clips : e >= d /\ f \in nat[e] /\ Exists(db', e)
  <2>1. CASE d # c
    <3>1. d >= d
      BY DEF Clips
    <3> QED BY <1>5, <1>7, <2>1, <3>1
  <2>2. CASE d = c /\ req[r].kind = "delete"
    BY <1>3, <1>7, <2>2 DEF Material
  <2>3. CASE d = c /\ req[r].kind = "split"
    <3>1. DeleteClip(c) \in Pending(req[r]) /\ DeleteClip(c).op = "deleteClip"
      BY <1>4, Ops
    <3>2. f \in nat[req[r].target] \ cut
      BY <1>3, <1>7, <2>3 DEF c
    <3>3. PICK e \in Clips : /\ e > req[r].target /\ f \in nat[e]
                             /\ Exists(db, e) \/ Awaits(req[r], e)
      BY <2>3, <3>1, <3>2 DEF Material
    <3>4. ~Awaits(req[r], e)
      BY <1>4, Ops DEF Awaits
    <3>5. e > c /\ e >= d
      BY <2>3, <3>3 DEF c, Clips
    <3>6. e # c
      BY <1>2, <3>5 DEF Clips
    <3> QED BY <1>5, <3>3, <3>4, <3>5, <3>6
  <2> QED BY <1>2, <2>1, <2>2, <2>3
<1>8. CASE ~db.project
  BY <1>3, <1>8, NothingLeft DEF Material
<1>9. CASE db.project
  <2>1. \A q \in Reqs : /\ req'[q].kind = req[q].kind /\ req'[q].target = req[q].target
                        /\ \A s \in Pending(req'[q]) :
                             s.op \in {"insertClip", "rollback", "deleteClip"} =>
                               s \in Pending(req[q])
    BY <1>3, <1>9, PendingKept
  <2>2. ASSUME NEW q \in Reqs, NEW d \in Clips, Awaits(req[q], d)
        PROVE  Awaits(req'[q], d) \/ \A s \in Pending(req'[q]) : s.op # "deleteClip"
    <3>1. CASE q = r
      BY <1>4, <3>1, Ops
    <3>2. CASE q # r
      BY <1>3, <2>2, <3>2 DEF Ran, Went, Others
    <3> QED BY <3>1, <3>2
  <2> QED BY <1>3, <1>6, <1>7, <1>9, <2>1, <2>2, MaterialKept
<1> QED BY <1>8, <1>9

LEMMA MaterialExecuted ==
  ASSUME Plans, Plans', NEW nat \in Natures, Material(nat), NEW r \in Reqs, Executed(r)
  PROVE  Material(nat)'
<1>1. CASE ExecInsertClip(r)
  BY <1>1, MaterialInsert
<1>2. CASE ExecUpdateClip(r)
  BY <1>2, MaterialUpdate
<1>3. CASE ExecDeleteClip(r)
  BY <1>3, MaterialDelete
<1>4. CASE ExecRollback(r)
  <2>1. DidRollback(r) /\ Stmt(r) \in Pending(req[r]) /\ Stmt(r).op = "rollback"
    <3>1. DidRollback(r)
      BY <1>4, RollbackDone
    <3> QED BY <3>1, PendingAfter, Ops DEF DidRollback, Stmt
  <2>2. Frm \subseteq cut /\ cut' = cut
    BY <2>1 DEF Material, DidRollback
  <2> QED BY <2>2, NothingLeft
<1>5. CASE ExecDeleteProject(r)
  <2>1. Frm \subseteq cut'
    BY <1>5, DeleteProjectDone DEF DidDeleteProject, Frm
  <2> QED BY <2>1, NothingLeft
<1>6. CASE \/ ExecInsertTrack(r) \/ ExecDeleteTrack(r) \/ ExecUpdateProject(r)
           \/ ExecInsertVersion(r) \/ ExecPrune(r) \/ ExecCommit(r)
  <2>1. /\ cut' = cut /\ db'.clips = db.clips /\ db'.project = db.project /\ disk' \in {disk, db}
        /\ \E t : Ran(r, t)
    <3>1. CASE ExecInsertTrack(r) \/ ExecDeleteTrack(r)
      BY <3>1, TrackDone DEF DidTrack, StillClips, Rest
    <3>2. CASE ExecUpdateProject(r)
      BY <3>2, UpdateProjectDone DEF DidUpdateProject, StillClips, Rest
    <3>3. CASE ExecInsertVersion(r)
      BY <3>3, InsertVersionDone DEF DidInsertVersion, StillClips
    <3>4. CASE ExecPrune(r)
      BY <3>4, PruneDone DEF DidPrune, StillClips, Rest
    <3>5. CASE ExecCommit(r)
      BY <3>5, CommitDone DEF DidCommit, history
    <3> QED BY <1>6, <3>1, <3>2, <3>3, <3>4, <3>5
  <2>2. \A d \in Clips : Awaits(req[r], d) => Awaits(req'[r], d)
    <3> SUFFICES ASSUME NEW d \in Clips, Awaits(req[r], d)
                 PROVE  FALSE
      OBVIOUS
    <3>1. req[r].kind \in {"add", "split"} /\ req[r].pc = "writing"
      BY AwaitsOwn
    <3>2. CASE ExecInsertTrack(r) \/ ExecDeleteTrack(r)
      BY <3>1, <3>2, TrackDone DEF TimelineNext
    <3>3. CASE ExecUpdateProject(r)
      BY <3>1, <3>3, UpdateProjectDone DEF ShareNext, Sharing
    <3>4. CASE ExecInsertVersion(r)
      BY <3>1, <3>4, InsertVersionDone DEF VersionNext
    <3>5. CASE ExecPrune(r)
      BY <3>1, <3>5, PruneDone DEF PruneNext
    <3>6. CASE ExecCommit(r)
      <4>1. req[r].todo = <<Commit>>
        BY <3>1, <3>6, CommitDone DEF CommitNext, TimelineNext, Rewriting, Sharing, Ending
      <4>2. Pending(req[r]) = {Commit}
        BY <3>1, <4>1, TupleElems DEF Pending
      <4> QED BY <4>2, Ops DEF Awaits
    <3> QED BY <1>6, <3>2, <3>3, <3>4, <3>5, <3>6
  <2> QED BY <2>1, <2>2, MaterialStill
<1> QED BY <1>1, <1>2, <1>3, <1>4, <1>5, <1>6 DEF Executed

LEMMA MaterialSecond ==
  ASSUME Plans, Plans', NEW nat \in Natures, Material(nat), NEW p \in Reqs,
         ReadClips(p) \/ ReadMax(p)
  PROVE  Material(nat)'
<1>1. /\ UNCHANGED <<db, disk, cut>> /\ req[p].pc = "reading"
      /\ \A q \in Reqs : q # p => req'[q] = req[q]
      /\ req'[p].kind = req[p].kind /\ req'[p].target = req[p].target
      /\ req'[p].pc \in {"writing", "done"}
      /\ req[p].kind \in {"transition", "save", "restore"}
  <2>1. CASE ReadClips(p)
    BY <2>1, ReadClipsDone DEF DidReadClips, Decided, Others, history
  <2>2. CASE ReadMax(p)
    BY <2>2, ReadMaxDone DEF DidReadMax, Decided, Others, history
  <2> QED BY <2>1, <2>2
<1>2. \A s \in Pending(req'[p]) : s.op \notin {"insertClip", "rollback", "deleteClip"}
  <2>1. CASE ReadClips(p)
    <3>1. req'[p].pc = "writing" =>
            req'[p].todo = <<UpdateProject(req[p].copy \union {p}), Commit>>
      BY <2>1, ReadClipsDone DEF DidReadClips, Decided
    <3>2. \A s \in Elems(<<UpdateProject(req[p].copy \union {p}), Commit>>) :
            s.op \notin {"insertClip", "rollback", "deleteClip"}
      BY TupleElems, Ops
    <3> QED BY <3>1, <3>2 DEF Pending
  <2>2. CASE ReadMax(p)
    <3>1. \E by \in Reqs : \/ req'[p].todo = <<InsertVersion(NextVersion, by), Commit>>
                           \/ req'[p].todo = <<InsertVersion(NextVersion, by), Commit, Prune, Commit>>
      BY <2>2, ReadMaxDone DEF DidReadMax, Decided
    <3> HIDE DEF NextVersion
    <3>2. \A by : \A s \in Elems(<<InsertVersion(NextVersion, by), Commit>>)
                            \union Elems(<<InsertVersion(NextVersion, by), Commit, Prune, Commit>>) :
            s.op \notin {"insertClip", "rollback", "deleteClip"}
      BY TupleElems, Ops
    <3> QED BY <3>1, <3>2 DEF Pending
  <2> QED BY <2>1, <2>2
<1>3. CASE ~db.project
  BY <1>1, <1>3, NothingLeft DEF Material
<1>4. CASE db.project
  <2>1. \A q \in Reqs : /\ req'[q].kind = req[q].kind /\ req'[q].target = req[q].target
                        /\ \A s \in Pending(req'[q]) :
                             s.op \in {"insertClip", "rollback", "deleteClip"} =>
                               s \in Pending(req[q])
    BY <1>1, <1>2
  <2>2. \A q \in Reqs : \A d \in Clips : Awaits(req[q], d) => Awaits(req'[q], d)
    BY <1>1 DEF Awaits, Pending
  <2>3. \A d \in Clips : Exists(db', d) => nat[d] \ cut' \subseteq Span(db'.clips[d])
    BY <1>1 DEF Material
  <2>4. \A d \in Clips : \A f \in nat[d] \ cut' : Exists(db, d) =>
          \E e \in Clips : e >= d /\ f \in nat[e] /\ Exists(db', e)
    BY <1>1 DEF Clips
  <2> QED BY <1>1, <1>4, <2>1, <2>2, <2>3, <2>4, MaterialKept
<1> QED BY <1>3, <1>4

(* When p begins to add or to split, the clips it will make get a nature.     *)
Named(nat, p, X, Y) ==
  [c \in Clips |-> IF c = HalfA(p) THEN X ELSE IF c = HalfB(p) THEN Y ELSE nat[c]]

Renewed(nat, p, X, Y, new) ==
  /\ new \in Natures /\ new[HalfA(p)] = X /\ new[HalfB(p)] = Y
  /\ \A c \in Clips : Exists(db, c) \/ Exists(disk, c) => new[c] = nat[c]
  /\ \A q \in Reqs : q # p =>
       /\ \A c \in Clips : Awaits(req[q], c) => new[c] = nat[c]
       /\ req[q].target \in Clips => new[req[q].target] = nat[req[q].target]

LEMMA NamedFacts ==
  ASSUME Plans, Births, NEW nat \in Natures, NEW p \in Reqs, req[p].pc = "new"
  PROVE  \A X, Y \in SUBSET Frm : Renewed(nat, p, X, Y, Named(nat, p, X, Y))
<1> SUFFICES ASSUME NEW X \in SUBSET Frm, NEW Y \in SUBSET Frm
             PROVE  Renewed(nat, p, X, Y, Named(nat, p, X, Y))
  OBVIOUS
<1>1. HalfA(p) \in Clips /\ HalfB(p) \in Clips /\ HalfA(p) # HalfB(p)
  BY Apart
<1>2. \A c \in Clips : c \notin {HalfA(p), HalfB(p)} => Named(nat, p, X, Y)[c] = nat[c]
  BY DEF Named
<1>3. /\ Named(nat, p, X, Y) \in Natures
      /\ Named(nat, p, X, Y)[HalfA(p)] = X /\ Named(nat, p, X, Y)[HalfB(p)] = Y
  BY <1>1 DEF Named, Natures
<1>4. Unborn(p, HalfA(p)) /\ Unborn(p, HalfB(p))
  BY DEF Births
<1>5. ASSUME NEW q \in Reqs, q # p, NEW c \in Clips, Awaits(req[q], c)
      PROVE  c \notin {HalfA(p), HalfB(p)}
  <2>1. c \in {HalfA(q), HalfB(q)}
    BY <1>5, AwaitsOwn
  <2>2. /\ HalfA(q) # HalfA(p) /\ HalfB(q) # HalfB(p)
        /\ HalfA(q) # HalfB(p) /\ HalfB(q) # HalfA(p)
    BY <1>5 DEF HalfA, HalfB, Reqs
  <2> QED BY <2>1, <2>2
<1> QED BY <1>2, <1>3, <1>4, <1>5 DEF Unborn, Renewed

LEMMA MaterialBegan ==
  ASSUME Plans, Births, NEW nat \in Natures, Material(nat), NEW p \in Reqs, Began(p)
  PROVE  \E new \in Natures : Material(new)'
<1>1. PICK k, c, pc, copy, todo :
         /\ Started(p, k, c, pc, copy, todo)
         /\ \/ pc = "writing" /\ Means(p, k, c, todo)
            \/ pc = "reading" /\ k \in {"transition", "save", "restore"}
  BY DEF Began
<1>2. /\ \A q \in Reqs : q # p => req'[q] = req[q]
      /\ UNCHANGED <<db, disk, cut>> /\ req[p].pc = "new" /\ Newest(p)
      /\ req'[p].pc = pc /\ req'[p].kind = k /\ req'[p].target = c /\ req'[p].todo = todo
  BY <1>1 DEF Started, Others, Newest
<1>3. \A s \in Pending(req'[p]) : s.op # "rollback" /\ (s.op = "insertClip" => k \in {"add", "split"})
  BY <1>1, <1>2, MeansElems DEF Pending
<1>4. \A X, Y \in SUBSET Frm : Renewed(nat, p, X, Y, Named(nat, p, X, Y))
  BY <1>2, NamedFacts
<1>5. CASE k \notin {"add", "split"}
  <2>1. \A q \in Reqs : \A s \in Pending(req'[q]) :
          \/ s \in Pending(req[q]) /\ req'[q] = req[q]
          \/ s.op \notin {"rollback", "insertClip"} /\ req'[q].kind # "split"
    BY <1>2, <1>3, <1>5
  <2>2. Material(nat)'
    BY <1>2, <2>1 DEF Material
  <2> QED BY <2>2
<1>6. CASE k \in {"add", "split"}
  <2>1. pc = "writing" /\ Means(p, k, c, todo) /\ Pending(req'[p]) = Elems(todo)
    BY <1>1, <1>2, <1>6 DEF Pending
  <2>2. PICK X \in SUBSET Frm, Y \in SUBSET Frm :
          LET new == Named(nat, p, X, Y)
          IN \A s \in Elems(todo) :
               /\ s.op = "insertClip" => new[s.id] \subseteq Span(s.row)
               /\ s.op = "deleteClip" =>
                    /\ k = "split"
                    /\ \A f \in new[c] \ cut :
                         \E d \in Clips : d > c /\ f \in new[d] /\ Awaits(req'[p], d)
    <3>1. CASE k = "add"
      <4> DEFINE x == Row(0, 0, 1, NoTrack, <<>>)
      <4>1. Elems(todo) = {InsertClip(HalfA(p), x), Commit}
        <5>1. todo = <<InsertClip(HalfA(p), x), Commit>>
          BY <2>1, <3>1 DEF Means
        <5> HIDE DEF x
        <5> QED BY <5>1, TupleElems
      <4>2. Named(nat, p, {}, {})[HalfA(p)] = {} /\ {} \in SUBSET Frm
        <5>1. {} \in SUBSET Frm
          OBVIOUS
        <5> QED BY <1>4, <5>1 DEF Renewed
      <4> HIDE DEF x
      <4>3. LET new == Named(nat, p, {}, {})
            IN \A s \in Elems(todo) : /\ s.op = "insertClip" => new[s.id] \subseteq Span(s.row)
                                      /\ s.op # "deleteClip"
        BY <4>1, <4>2, Ops
      <4> QED BY <4>2, <4>3
    <3>2. CASE k = "split"
      <4>1. PICK x, y : /\ Full(x) /\ Full(y) /\ Span(db.clips[c]) \subseteq Span(x) \union Span(y)
                        /\ todo = <<InsertClip(HalfA(p), x), InsertClip(HalfB(p), y),
                                    DeleteClip(c), Commit>>
        BY <2>1, <3>2 DEF Means, MeansSplit
      <4> DEFINE new == Named(nat, p, Span(x), Span(y))
      <4>2. Elems(todo) = {InsertClip(HalfA(p), x), InsertClip(HalfB(p), y), DeleteClip(c), Commit}
        BY <4>1, TupleElems
      <4>3. Span(x) \in SUBSET Frm /\ Span(y) \in SUBSET Frm
        BY <4>1, SpanFits DEF Full, Frm
      <4>4. /\ new[HalfA(p)] = Span(x) /\ new[HalfB(p)] = Span(y)
            /\ \A d \in Clips : Exists(db, d) => new[d] = nat[d]
        <5>1. Renewed(nat, p, Span(x), Span(y), new)
          BY <1>4, <4>3, Zenon
        <5> HIDE DEF new
        <5> QED BY <5>1 DEF Renewed
      <4>5. Exists(db, c) /\ c \in Clips
        <5>1. RequestOK(p, req'[p])
          BY DEF Began
        <5> QED BY <1>2, <2>1, <3>2, <5>1 DEF Means, RequestOK, Aim
      <4>6. /\ c < HalfA(p) /\ HalfA(p) \in Clips /\ HalfB(p) \in Clips /\ HalfB(p) > c
        <5>1. c < HalfA(p)
          BY <1>2, <4>5, Older
        <5> QED BY <4>5, <5>1, Apart DEF Clips
      <4>7. Awaits(req'[p], HalfA(p)) /\ Awaits(req'[p], HalfB(p))
        BY <2>1, <4>2, Ops DEF Awaits
      <4> HIDE DEF new
      <4>8. ASSUME NEW f \in new[c] \ cut
            PROVE  \E d \in Clips : d > c /\ f \in new[d] /\ Awaits(req'[p], d)
        <5>1. f \in Span(x) \union Span(y)
          BY <4>1, <4>4, <4>5, <4>8 DEF Material
        <5> QED BY <4>4, <4>6, <4>7, <5>1
      <4>9. \A s \in Elems(todo) :
              /\ s.op = "insertClip" => new[s.id] \subseteq Span(s.row)
              /\ s.op = "deleteClip" =>
                   /\ k = "split"
                   /\ \A f \in new[c] \ cut :
                        \E d \in Clips : d > c /\ f \in new[d] /\ Awaits(req'[p], d)
        BY <3>2, <4>2, <4>4, <4>8, Ops
      <4> QED BY <4>3, <4>9 DEF new
    <3> QED BY <1>6, <3>1, <3>2
  <2> DEFINE new == Named(nat, p, X, Y)
  <2>3. /\ new \in Natures
        /\ \A d \in Clips : Exists(db, d) \/ Exists(disk, d) => new[d] = nat[d]
        /\ \A q \in Reqs : q # p =>
             /\ \A d \in Clips : Awaits(req[q], d) => new[d] = nat[d]
             /\ req[q].target \in Clips => new[req[q].target] = nat[req[q].target]
    <3>1. Renewed(nat, p, X, Y, new)
      BY <1>4, Zenon
    <3> HIDE DEF new
    <3> QED BY <3>1 DEF Renewed
  <2>4. \A s \in Elems(todo) :
          /\ s.op = "insertClip" => new[s.id] \subseteq Span(s.row)
          /\ s.op = "deleteClip" =>
               \A f \in new[c] \ cut : \E d \in Clips : d > c /\ f \in new[d] /\ Awaits(req'[p], d)
    BY <2>2
  <2> HIDE DEF new
  <2>5. ASSUME NEW q \in Reqs, NEW s \in Pending(req'[q])
        PROVE  /\ s.op = "insertClip" => new[s.id] \ cut \subseteq Span(s.row)
               /\ s.op = "rollback" => Frm \subseteq cut
               /\ s.op = "deleteClip" /\ req'[q].kind = "split" =>
                    \A f \in new[req'[q].target] \ cut :
                      \E d \in Clips : /\ d > req'[q].target /\ f \in new[d]
                                       /\ Exists(db, d) \/ Awaits(req'[q], d)
    <3>1. CASE q = p
      BY <1>2, <1>3, <2>1, <2>4, <2>5, <3>1
    <3>2. CASE q # p
      <4>1. req'[q] = req[q] /\ s \in Pending(req[q])
        BY <1>2, <2>5, <3>2
      <4>2. /\ s.op = "insertClip" => nat[s.id] \ cut \subseteq Span(s.row)
            /\ s.op = "rollback" => Frm \subseteq cut
            /\ s.op = "deleteClip" /\ req[q].kind = "split" =>
                 \A f \in nat[req[q].target] \ cut :
                   \E d \in Clips : /\ d > req[q].target /\ f \in nat[d]
                                    /\ Exists(db, d) \/ Awaits(req[q], d)
        BY <4>1 DEF Material
      <4>3. s.op = "insertClip" => new[s.id] = nat[s.id]
        <5>1. s.op = "insertClip" => s.id \in Clips /\ Awaits(req[q], s.id)
          BY <4>1, PendingTypes DEF Awaits
        <5> QED BY <2>3, <3>2, <5>1
      <4>4. req[q].kind = "split" => new[req[q].target] = nat[req[q].target]
        BY <2>3, <3>2, PendingTypes
      <4>5. \A d \in Clips : Exists(db, d) \/ Awaits(req[q], d) => new[d] = nat[d]
        BY <2>3, <3>2
      <4> QED BY <4>1, <4>2, <4>3, <4>4, <4>5
    <3> QED BY <3>1, <3>2
  <2>6. /\ \A d \in Clips : Exists(db, d) => new[d] \ cut \subseteq Span(db.clips[d])
        /\ \A d \in Clips : Exists(disk, d) => new[d] \ cut \subseteq Span(disk.clips[d])
        /\ \A f \in Frm \ cut : /\ \E d \in Clips : Exists(db, d) /\ f \in new[d]
                                /\ \E d \in Clips : Exists(disk, d) /\ f \in new[d]
        /\ ~db.project \/ ~disk.project => Frm \subseteq cut
    BY <2>3 DEF Material
  <2>7. Material(new)'
    BY <1>2, <2>5, <2>6 DEF Material
  <2> QED BY <2>3, <2>7
<1> QED BY <1>5, <1>6

LEMMA MaterialCrash ==
  ASSUME Plans, Plans', NEW nat \in Natures, Material(nat), Crash
  PROVE  Material(nat)'
<1>1. Crashed
  BY CrashDone
<1>2. db' = disk /\ disk' = disk /\ cut' = cut
  BY <1>1 DEF Crashed
<1>3. \A q \in Reqs : Pending(req'[q]) = {}
  BY <1>1 DEF Crashed, Active, Pending
<1>4. /\ \A c \in Clips : Exists(disk, c) => nat[c] \ cut \subseteq Span(disk.clips[c])
      /\ \A f \in Frm \ cut : \E c \in Clips : Exists(disk, c) /\ f \in nat[c]
      /\ ~disk.project => Frm \subseteq cut
  BY DEF Material
<1> QED BY <1>2, <1>3, <1>4 DEF Material

LEMMA MaterialsStep == Plans /\ Plans' /\ Births /\ Materials /\ [Next]_vars => Materials'
<1> SUFFICES ASSUME Plans, Plans', Births, Materials, [Next]_vars
             PROVE  \E new \in Natures : Material(new)'
  BY DEF Materials
<1>1. PICK nat \in Natures : Material(nat)
  BY DEF Materials
<1>2. CASE \E r \in Reqs : Begins(r)
  BY <1>1, <1>2, BeginsWell, MaterialBegan
<1>3. CASE \E r \in Reqs : ReadClips(r) \/ ReadMax(r)
  BY <1>1, <1>3, MaterialSecond
<1>4. CASE \E r \in Reqs : Executed(r)
  BY <1>1, <1>4, MaterialExecuted
<1>5. CASE Crash
  BY <1>1, <1>5, MaterialCrash
<1>6. CASE UNCHANGED vars
  <2>1. UNCHANGED <<db, disk, req, cut>>
    BY <1>6 DEF vars
  <2>2. Material(nat)'
    BY <1>1, <2>1 DEF Material, Exists
  <2> QED BY <1>1, <2>2
<1> QED BY <1>2, <1>3, <1>4, <1>5, <1>6 DEF Next

LEMMA MaterialsInit == Init => Materials
<1> SUFFICES ASSUME Init
             PROVE  Materials
  OBVIOUS
<1> DEFINE nat == [c \in Clips |-> IF c = FirstClip THEN Frm ELSE {}]
           whole == Row(FirstClip, 0, Length, NoTrack, <<>>)
<1>1. nat \in Natures /\ FirstClip \in Clips /\ nat[FirstClip] = Frm
      /\ \A c \in Clips : c # FirstClip => nat[c] = {}
  BY EditingAssumption DEF Natures, FirstClip, Clips
<1>2. disk = db /\ cut = {} /\ db.project
      /\ \A q \in Reqs : Pending(req[q]) = {}
  BY DEF Init, Pending, Idle
<1>3. whole # NoClip /\ Span(whole) = Frm
  <2>1. whole.src = 1 /\ whole.in = 0 /\ whole.out = Length /\ NoClip.src = 0
    BY DEF Row, FirstClip, NoClip
  <2> HIDE DEF whole
  <2> QED BY <2>1 DEF Span, FirstClip, Frm
<1>4. db.clips[FirstClip] = whole /\ Exists(db, FirstClip)
      /\ \A c \in Clips : Exists(db, c) => c = FirstClip
  BY <1>1, <1>3 DEF Init, Exists
<1> HIDE DEF nat, whole
<1>5. Material(nat)
  BY <1>1, <1>2, <1>3, <1>4 DEF Material
<1> QED BY <1>1, <1>5 DEF Materials

-----------------------------------------------------------------------------
(* The theorems.                                                             *)

EInv == Plans /\ Births /\ Removals /\ Saved /\ Edits /\ Materials

LEMMA EInvInit == Init => EInv
BY PlansInit, BirthsInit, RemovalsInit, SavedInit, EditsInit, MaterialsInit DEF EInv

LEMMA EInvStep == EInv /\ [Next]_vars => EInv'
<1> SUFFICES ASSUME EInv, [Next]_vars
             PROVE  EInv'
  OBVIOUS
<1>1. Plans' /\ Births'
  BY PlansStep, BirthsStep DEF EInv
<1>2. Removals' /\ Saved' /\ Edits'
  BY RemovalsStep, SavedStep, EditsStep DEF EInv
<1>3. Materials'
  BY <1>1, MaterialsStep DEF EInv
<1> QED BY <1>1, <1>2, <1>3 DEF EInv

LEMMA EInvHolds == Spec => []EInv
BY EInvInit, EInvStep, PTL DEF Spec

(* Rows, statements and answers are well formed, and no frame that nobody     *)
(* asked to cut is lost, in memory or on disk: however splits, trims,         *)
(* deletions, commits of others, rollbacks and crashes interleave.            *)
THEOREM Frames == Spec => []FramesKept
<1>1. EInv => FramesKept
  <2> SUFFICES ASSUME EInv
               PROVE  FramesKept
    OBVIOUS
  <2>1. TypeOK
    BY PlansTypes DEF EInv
  <2>2. PICK nat \in Natures : Material(nat)
    BY DEF EInv, Materials
  <2>3. ASSUME NEW f \in 0 .. Length - 1, f \notin cut
        PROVE  f \in Shown(db) /\ f \in Shown(disk)
    <3>1. PICK c \in Clips : Exists(db, c) /\ f \in nat[c]
      BY <2>2, <2>3 DEF Material, Frm
    <3>2. PICK d \in Clips : Exists(disk, d) /\ f \in nat[d]
      BY <2>2, <2>3 DEF Material, Frm
    <3>3. f \in Span(db.clips[c]) /\ f \in Span(disk.clips[d])
      BY <2>2, <2>3, <3>1, <3>2 DEF Material
    <3> QED BY <3>3 DEF Shown
  <2> QED BY <2>1, <2>3 DEF FramesKept
<1> QED BY <1>1, EInvHolds, PTL

(* A clip whose deletion or split was answered never comes back, from a stale *)
(* update, another request's commit or a crash.                               *)
THEOREM Gone == Spec => []GoneForGood
<1>1. EInv => GoneForGood
  BY DEF EInv, Removals, GoneForGood
<1> QED BY <1>1, EInvHolds, PTL

(* An answered effect or transition is on disk until a request removes it, if *)
(* no two requests overlapped on its row.                                     *)
THEOREM EditsStand == Spec => []AnsweredEditsStand
<1>1. EInv => AnsweredEditsStand
  <2> SUFFICES ASSUME EInv, NEW r \in Reqs, answer[r] = "ok", ~clobbered, r \notin removed,
                      req[r].target \notin contended
               PROVE  /\ req[r].kind = "effect" /\ Exists(disk, req[r].target) =>
                           r \in ToSet(disk.clips[req[r].target].fx)
                      /\ req[r].kind = "transition" /\ disk.project => r \in disk.trans
    BY DEF AnsweredEditsStand
  <2>1. req[r].kind \in {"effect", "transition"} => Has(disk, r)
    BY DEF EInv, Edits, Counts
  <2> QED BY <2>1 DEF Has
<1> QED BY <1>1, EInvHolds, PTL

(* An answered version is on disk, with its number and content, until Keep    *)
(* later ones exist, although two saves may have read the same maximum.       *)
THEOREM VersionsStand == Spec => []AnsweredVersionsStand
<1>1. EInv => AnsweredVersionsStand
  BY DEF EInv, Saved, AnsweredVersionsStand, Stands, Later
<1> QED BY <1>1, EInvHolds, PTL
=============================================================================
