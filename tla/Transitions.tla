---------------------------- MODULE Transitions ----------------------------
(* The clips and the transitions of a project, from the routes that edit     *)
(* them, through the job that takes a copy of the transitions, to the        *)
(* crossfades of the FFmpeg command that the worker and the Rust translator  *)
(* build from that copy and the clips they find then.  A handler is one step *)
(* here; how the statements of two handlers mix is in Editing.               *)
EXTENDS Integers, Sequences, FiniteSets

CONSTANTS
  ClipCount,     \* bound: clips ever created, numbered as they are
  TrackCount,    \* bound: tracks, numbered by z_index
  SourceFrames,  \* bound: frames of a source video, and the last frame asked for
  LastPosition,  \* bound: the last timeline_position asked for
  LastTime,      \* bound: the last tick asked for on a track
  LongestFade,   \* bound: the longest transition asked for, in ticks
  MaxEdits,      \* bound: requests that edit the project
  FileTicks,     \* ticks a frame of a source video lasts
  OutputTicks,   \* ticks a frame of the output lasts
  Second         \* ticks of a second

ASSUME TransitionAssumption ==
  /\ {ClipCount, TrackCount, SourceFrames, LastPosition, LastTime, LongestFade, MaxEdits} \subseteq Nat
  /\ {FileTicks, OutputTicks, Second} \subseteq Nat \ {0}

VARIABLES
  rows,    \* the clips: the rows of the table, by number
  born,    \* how many were created
  saved,   \* project.transitions
  edits,   \* how many requests edited the project so far
  job,     \* a render job: its copy of the transitions, then its command
  answer   \* what the last delete of a transition was answered

transVars == <<rows, born, saved, edits, job, answer>>

Clips == 1..ClipCount
None == -1
Kinds == {"file", "mute", "generator", "image", "lost"}  \* mute: a file without sound;
                                                         \* lost: an image without its asset
Row == [kind : Kinds \cup {"none"}, position : Nat, in : Nat, out : Nat,
        track : 0..TrackCount, start : Nat \cup {None}, end : Nat \cup {None}]
NoRow == [kind |-> "none", position |-> 0, in |-> 0, out |-> 0,
          track |-> 0, start |-> None, end |-> None]
OfFile(r) == r.kind \in {"file", "mute"}
Timed(r) == None \notin {r.start, r.end}
(* A row the routes let be: the Rust validation of file clips, and the check *)
(* of the times of a clip on a track.                                        *)
Valid(r) ==
  /\ r.kind = "none" => r = NoRow
  /\ OfFile(r) => r.in < r.out /\ r.out <= SourceFrames
  /\ r.track # 0 /\ Timed(r) => r.start < r.end

Types == {"fade", "hlwind"}        \* TransitionType parses both
XfadeTypes == {"fade"}             \* VALID_XFADE_TRANSITIONS lacks the winds
Timeline(from, to, type, lasts) ==
  [route |-> "timeline", from |-> from, to |-> to, type |-> type, lasts |-> lasts]
Effect(from, to) ==
  [route |-> "effects", from |-> from, to |-> to, type |-> "fade", lasts |-> 0]
Saved == [route : {"timeline", "effects"}, from : Clips, to : Clips,
          type : Types, lasts : 0..LongestFade]
NoJob == [status |-> "none", plan |-> <<>>, inputs |-> <<>>, video |-> <<>>, audio |-> <<>>]
NoAnswer == [code |-> 0, lasts |-> 0]

-----------------------------------------------------------------------------
(* The project's two orders.  They are columns that no route ties together.  *)

Present == {c \in Clips : rows[c].kind # "none"}
OnTracks == {c \in Clips : rows[c].track # 0 /\ Timed(rows[c])}
(* The clips that come before a clip.                                        *)
ByPosition == [c \in Clips |->
  {d \in Clips : \/ rows[d].position < rows[c].position
                 \/ rows[d].position = rows[c].position /\ d < c}]
ByTrack == [c \in Clips |->
  {d \in Clips : \/ rows[d].track < rows[c].track
                 \/ /\ rows[d].track = rows[c].track
                    /\ \/ rows[d].start < rows[c].start
                       \/ rows[d].start = rows[c].start /\ d \in ByPosition[c]}]
(* The k-th of some clips is the one with k - 1 of them before it.           *)
Sorted(S, before) ==
  [k \in 1..Cardinality(S) |-> CHOOSE c \in S : Cardinality(before[c] \cap S) = k - 1]

Listed == Sorted(Present, ByPosition)      \* list_by_project
AlongTracks == Sorted(OnTracks, ByTrack)   \* _get_clips_by_track, track after track

-----------------------------------------------------------------------------

(* A project as requests before have left it: transitions outlive the clips  *)
(* and the places they were asked for.                                       *)
TransInit ==
  /\ born \in 0..ClipCount
  /\ rows \in [Clips -> Row] /\ \A c \in Clips : Valid(rows[c]) /\ (c > born => rows[c] = NoRow)
  /\ saved \in Seq(Saved)
  /\ \A i \in DOMAIN saved : \E x, y \in 1..born :
       /\ x # y
       /\ saved[i] \in {Effect(x, y)} \cup
            {Timeline(x, y, type, lasts) : type \in Types, lasts \in 1..LongestFade}
  /\ edits = 0 /\ job = NoJob /\ answer = NoAnswer

Edit == edits < MaxEdits /\ edits' = edits + 1
Insert(r) == born < ClipCount /\ born' = born + 1 /\ rows' = [rows EXCEPT ![born + 1] = r]
Write(c, r) == c \in Present /\ rows' = [rows EXCEPT ![c] = r] /\ UNCHANGED born
OrElse(x, y) == IF x = None THEN y ELSE x

(* A clip may be added at any position, also between two others.             *)
AddClip(kind, position, in, out) ==
  /\ Edit
  /\ kind # "generator" => in < out /\ out <= SourceFrames
  /\ Insert([NoRow EXCEPT !.kind = kind, !.position = position, !.in = in, !.out = out])
  /\ UNCHANGED <<saved, job, answer>>

(* An image alone may bring its times, and its points are not looked at.     *)
AddImage(position, in, out, start, end) ==
  /\ Edit
  /\ OrElse(start, 0) < end
  /\ Insert([NoRow EXCEPT !.kind = "image", !.position = position, !.in = in, !.out = out,
               !.start = start, !.end = end])
  /\ UNCHANGED <<saved, job, answer>>

(* Not of an image: the route looks for its video and answers 404.           *)
UpdateClip(c, in, out, position) ==
  /\ Edit
  /\ LET r == [rows[c] EXCEPT !.in = OrElse(in, @), !.out = OrElse(out, @),
                              !.position = OrElse(position, @)]
     IN /\ r.kind # "generator" => OfFile(r) /\ r.in < r.out /\ r.out <= SourceFrames
        /\ Write(c, r)
  /\ UNCHANGED <<saved, job, answer>>

(* Two new clips, without track and asset; the second begins where the first *)
(* ends, in frames of the output whatever the frames of its source are.      *)
SplitClip(c, frame) ==
  /\ Edit
  /\ rows[c].in < frame /\ frame < rows[c].out
  /\ born + 2 <= ClipCount
  /\ LET cut == IF rows[c].start = None THEN None
                ELSE rows[c].start + (frame - rows[c].in) * OutputTicks
         half == [rows[c] EXCEPT !.kind = IF @ = "image" THEN "lost" ELSE @, !.track = 0]
     IN rows' = [rows EXCEPT ![c] = NoRow,
                   ![born + 1] = [half EXCEPT !.out = frame, !.end = cut],
                   ![born + 2] = [half EXCEPT !.in = frame, !.start = cut,
                                    !.position = @ + (frame - rows[c].in)]]
  /\ born' = born + 2
  /\ UNCHANGED <<saved, job, answer>>

DeleteClip(c) ==
  /\ Edit
  /\ Write(c, NoRow)
  /\ UNCHANGED <<saved, job, answer>>

(* Its times have nothing to do with what the clip shows.                    *)
AddTimelineClip(c, track, start, end) ==
  /\ Edit
  /\ rows[c].track = 0 /\ start < end
  /\ Write(c, [rows[c] EXCEPT !.track = track, !.start = start, !.end = end])
  /\ UNCHANGED <<saved, job, answer>>

UpdateTimelineClip(c, track, start, end) ==
  /\ Edit
  /\ LET r == [rows[c] EXCEPT !.track = OrElse(track, @), !.start = OrElse(start, @),
                              !.end = OrElse(end, @)]
     IN (Timed(r) => r.start < r.end) /\ Write(c, r)
  /\ UNCHANGED <<saved, job, answer>>

RemoveTimelineClip(c) ==
  /\ Edit
  /\ Write(c, [rows[c] EXCEPT !.track = 0, !.start = None, !.end = None])
  /\ UNCHANGED <<saved, job, answer>>

-----------------------------------------------------------------------------

(* One has to end where the other begins; which one, the route works out,    *)
(* and stores them as they came.                                             *)
AddTransition(x, y, type, lasts) ==
  /\ Edit
  /\ {x, y} \subseteq OnTracks /\ rows[x].track = rows[y].track
  /\ IF rows[x].start > rows[y].start THEN rows[y].end = rows[x].start
                                      ELSE rows[x].end = rows[y].start
  /\ saved' = Append(saved, Timeline(x, y, type, lasts))
  /\ UNCHANGED <<rows, born, job, answer>>

(* The route of the effects page: neighbours in the list, and another shape. *)
ApplyTransition(k) ==
  /\ Edit
  /\ k + 1 \in DOMAIN Listed
  /\ saved' = Append(saved, Effect(Listed[k], Listed[k + 1]))
  /\ UNCHANGED <<rows, born, job, answer>>

Least(p, q) == IF p <= q THEN p ELSE q
Long(c) == rows[c].end - rows[c].start
Fitted(wanted, c, d) == Least(Least(wanted, Long(c)), Long(d))

(* calculate_timeline_duration pairs the k-th transition with the k-th pair. *)
PlannedLength(order, list) ==
  LET upTo[n \in 0..Len(order)] ==
        IF n = 0 THEN 0
        ELSE upTo[n - 1] + Long(order[n])
             - (IF 2 <= n /\ n - 1 <= Len(list)
                THEN Fitted(list[n - 1].lasts, order[n - 1], order[n]) ELSE 0)
  IN upTo[Len(order)]

(* The row is written and committed before the duration is worked out, and a *)
(* remaining transition of the other shape has no duration to work with.     *)
DeleteTransition(i) ==
  /\ Edit
  /\ LET rest == [k \in 1..(Len(saved) - 1) |-> saved[IF k < i THEN k ELSE k + 1]]
     IN /\ saved' = rest
        /\ answer' = IF \E k \in DOMAIN rest : rest[k].route = "effects"
                     THEN [code |-> 500, lasts |-> 0]
                     ELSE [code |-> 200, lasts |-> PlannedLength(AlongTracks, rest)]
  /\ UNCHANGED <<rows, born, job>>

(* The submission copies the transitions; the clips are read by the worker.  *)
SubmitRender ==
  /\ job.status = "none" /\ Present # {}
  /\ job' = [NoJob EXCEPT !.status = "queued", !.plan = saved]
  /\ UNCHANGED <<rows, born, saved, edits, answer>>

-----------------------------------------------------------------------------
(* What the worker makes of a clip: how long it shows it, and how much of    *)
(* its source the input option lets through, which is all of it where the    *)
(* clip starts at the first frame.                                           *)
Shown(r) ==
  CASE r.kind = "image" -> OrElse(r.end, 0) - OrElse(r.start, 0)
    [] r.kind = "generator" -> (r.out - r.in) * OutputTicks
    [] OTHER -> (r.out - r.in) * FileTicks
Feeds(r) == IF OfFile(r) /\ r.in = 0 THEN SourceFrames * FileTicks ELSE Shown(r)
Input(c) == [clip |-> c, kind |-> rows[c].kind, lasts |-> Shown(rows[c]), feeds |-> Feeds(rows[c])]
Inputs == [k \in DOMAIN Listed |-> Input(Listed[k])]

(* Mutated: the first transition of a clip wins.                             *)
OutgoingFirst(plan, c) ==
  plan[CHOOSE i \in DOMAIN plan : plan[i].from = c /\ \A j \in 1..(i - 1) : plan[j].from # c]

(* transition_lookup: by clip_a_id, and the last one wins; clip_b_id is not  *)
(* looked at.                                                                *)
Own(plan, c) == {i \in DOMAIN plan : plan[i].from = c}
Outgoing(plan, c) == plan[CHOOSE i \in Own(plan, c) : \A j \in Own(plan, c) : j <= i]

(* Where none was saved, the translator takes a second ...                   *)
PictureDefault == Second
(* ... and _get_transition_duration, for the sound, one of its own.          *)
SoundDefault == Second

(* RenderGraphTranslator: the crossfade of the clip, or the default.         *)
CrossfadeAfter(plan, c) ==
  IF Own(plan, c) # {}
  THEN [type |-> Outgoing(plan, c).type, lasts |-> Outgoing(plan, c).lasts]
  ELSE [type |-> "fade", lasts |-> PictureDefault]

(* How long the picture is after k crossfades; nothing is clamped.           *)
Accumulated(plan, inputs) ==
  LET accumulated[k \in 0..(Len(inputs) - 1)] ==
        IF k = 0 THEN inputs[1].lasts
        ELSE accumulated[k - 1] - CrossfadeAfter(plan, inputs[k].clip).lasts + inputs[k + 1].lasts
  IN accumulated

VideoFades(plan, inputs) ==
  [k \in 1..(Len(inputs) - 1) |->
    LET fade == CrossfadeAfter(plan, inputs[k].clip)
    IN [type |-> fade.type, lasts |-> fade.lasts,
        offset |-> Accumulated(plan, inputs)[k - 1] - fade.lasts]]

(* The sound of clips none of which has any is left out (-an).               *)
AudioFades(plan, inputs) ==
  IF \A k \in DOMAIN inputs : inputs[k].kind # "file" THEN <<>>
  ELSE [k \in 1..(Len(inputs) - 1) |->
         IF Own(plan, inputs[k].clip) # {} THEN Outgoing(plan, inputs[k].clip).lasts
         ELSE SoundDefault]

(* The lookup wants clip_a_id of every transition of the project, and        *)
(* RenderTransition a type it knows of those it uses; a clip alone is        *)
(* rendered without looking at either, nor at its length.                    *)
Buildable(plan, inputs) ==
  /\ \A k \in DOMAIN inputs : inputs[k].kind # "lost"
  /\ Len(inputs) > 1 =>
       /\ \A k \in DOMAIN inputs : inputs[k].lasts > 0
       /\ \A i \in DOMAIN plan : plan[i].route = "timeline"
       /\ \A k \in DOMAIN inputs : Own(plan, inputs[k].clip) # {} =>
            Outgoing(plan, inputs[k].clip).type \in XfadeTypes

BuildCommand ==
  /\ job.status = "queued" /\ Present # {} /\ Buildable(job.plan, Inputs)
  /\ job' = [job EXCEPT !.status = "built", !.inputs = Inputs,
               !.video = VideoFades(job.plan, Inputs), !.audio = AudioFades(job.plan, Inputs)]
  /\ UNCHANGED <<rows, born, saved, edits, answer>>

(* As above, or for a video or an asset that is gone from the library.       *)
BuildFails ==
  /\ job.status = "queued"
  /\ job' = [job EXCEPT !.status = "failed"]
  /\ UNCHANGED <<rows, born, saved, edits, answer>>

EditClips ==
  \/ \E position \in 0..LastPosition, in, out \in 0..SourceFrames :
       \/ \E kind \in {"file", "mute", "generator"} : AddClip(kind, position, in, out)
       \/ \E start \in None..LastTime, end \in 1..LastTime : AddImage(position, in, out, start, end)
  \/ \E c \in Clips, in, out \in None..SourceFrames, position \in None..LastPosition :
       UpdateClip(c, in, out, position)
  \/ \E c \in Clips, frame \in 1..SourceFrames : SplitClip(c, frame)
  \/ \E c \in Clips : DeleteClip(c)

EditTimeline ==
  \/ \E c \in Clips, track \in 1..TrackCount, start \in 0..LastTime, end \in 1..LastTime :
       AddTimelineClip(c, track, start, end)
  \/ \E c \in Clips, track \in {None} \cup 1..TrackCount, start \in None..LastTime,
        end \in {None} \cup 1..LastTime : UpdateTimelineClip(c, track, start, end)
  \/ \E c \in Clips : RemoveTimelineClip(c)

EditTransitions ==
  \/ \E x, y \in Clips, type \in Types, lasts \in 1..LongestFade : AddTransition(x, y, type, lasts)
  \/ \E k \in DOMAIN Listed : ApplyTransition(k)
  \/ \E i \in DOMAIN saved : DeleteTransition(i)

TransNext ==
  \/ EditClips \/ EditTimeline \/ EditTransitions
  \/ SubmitRender \/ BuildCommand \/ BuildFails

TransSpec == TransInit /\ [][TransNext]_transVars

-----------------------------------------------------------------------------

TransTypeOK ==
  /\ born \in 0..ClipCount
  /\ rows \in [Clips -> Row] /\ \A c \in Clips : Valid(rows[c]) /\ (c > born => rows[c] = NoRow)
  /\ saved \in Seq(Saved) /\ job.plan \in Seq(Saved)
  /\ edits \in 0..MaxEdits
  /\ job.status \in {"none", "queued", "built", "failed"}
  /\ job.inputs \in Seq([clip : Clips, kind : Kinds, lasts : Int, feeds : Int])
  /\ job.video \in Seq([type : XfadeTypes, lasts : Nat, offset : Int]) /\ job.audio \in Seq(Nat)
  /\ answer.code \in {0, 200, 500} /\ answer.lasts \in Int

Faded == job.status = "built" /\ Len(job.inputs) > 1

(* FFmpeg's acrossfade lays the beginning of one sound over the end of what  *)
(* it has, so that the sound after k crossfades is this long.                *)
Heard(inputs, audio) ==
  LET sound(k) == IF inputs[k].kind = "file" THEN inputs[k].feeds ELSE inputs[k].lasts
      heard[k \in 0..(Len(inputs) - 1)] ==
        IF k = 0 THEN sound(1) ELSE heard[k - 1] - audio[k] + sound(k + 1)
  IN heard

(* Every clip before the k-th crossfade is cut where its picture is, and the *)
(* crossfades fit into them.                                                 *)
Trim(k) ==
  /\ \A j \in 1..k : job.inputs[j].kind = "file" => job.inputs[j].feeds = job.inputs[j].lasts
  /\ \A j \in 1..k : job.video[j].lasts <= job.inputs[j].lasts
                     /\ job.video[j].lasts <= job.inputs[j + 1].lasts

(* Sound and picture, chained by Python and by Rust with a default of their  *)
(* own each, stay together: if any clip has sound, every pair of clips fades *)
(* as long in the one as in the other, and where the clips before are cut    *)
(* where their picture is, the sound of the next begins when its picture     *)
(* does.                                                                     *)
SoundFollowsPicture ==
  Faded =>
    IF \A k \in DOMAIN job.inputs : job.inputs[k].kind # "file" THEN job.audio = <<>>
    ELSE /\ Len(job.audio) = Len(job.inputs) - 1
         /\ \A k \in DOMAIN job.audio :
              /\ job.audio[k] = job.video[k].lasts
              /\ Trim(k) => Heard(job.inputs, job.audio)[k - 1] - job.audio[k] = job.video[k].offset

(* Whatever happened to clips, places and transitions after they were saved  *)
(* and until the render read them: two clips that are shown one after the    *)
(* other fade with the youngest transition that the copy of the project has  *)
(* for the two, and with the default if it has none.  Two cases are          *)
(* excepted, in which the lookup by clip_a_id alone does something else: a   *)
(* younger transition, or the only one, leads from the first clip to some    *)
(* other clip, as after an insertion or a move; and the youngest was asked   *)
(* for in reverse.                                                           *)
Between(plan, x, y) == {i \in DOMAIN plan : {plan[i].from, plan[i].to} = {x, y}}
Elsewhere(plan, x, y) ==
  \E i \in Own(plan, x) : plan[i].to # y /\ \A j \in Between(plan, x, y) : j < i
LastOf(S) == CHOOSE i \in S : \A j \in S : j <= i
Reversed(plan, x, y) == Between(plan, x, y) # {} /\ plan[LastOf(Between(plan, x, y))].from = y
Lands(k) ==
  LET x == job.inputs[k].clip
      y == job.inputs[k + 1].clip
      mine == Between(job.plan, x, y)
      fade == job.video[k]
  IN Elsewhere(job.plan, x, y) \/ Reversed(job.plan, x, y) \/
     IF mine = {} THEN fade.lasts = Second /\ fade.type = "fade"
     ELSE LET last == job.plan[LastOf(mine)] IN fade.lasts = last.lasts /\ fade.type = last.type
TransitionsLand == Faded => \A k \in DOMAIN job.video : Lands(k)

(* Where the order of the list is that along the tracks, every clip shows as *)
(* long as its place, the last is cut there, and every pair has its          *)
(* transition in this order, none longer than its clips: then the duration   *)
(* that a delete would answer is the length of what would be rendered.       *)
InPairs(list, order) ==
  /\ Len(list) = Len(order) - 1
  /\ \A k \in DOMAIN list :
       /\ list[k].route = "timeline" /\ list[k].from = order[k] /\ list[k].to = order[k + 1]
       /\ list[k].lasts <= Long(order[k]) /\ list[k].lasts <= Long(order[k + 1])
RenderedLength(plan, inputs) ==
  LET last == Len(inputs) IN VideoFades(plan, inputs)[last - 1].offset + inputs[last].feeds
PairedLengthRenders ==
  /\ Len(Listed) > 1 /\ AlongTracks = Listed
  /\ \A c \in Present : Long(c) = Shown(rows[c])
  /\ Feeds(rows[Listed[Len(Listed)]]) = Shown(rows[Listed[Len(Listed)]])
  /\ InPairs(saved, Listed)
  => PlannedLength(AlongTracks, saved) = RenderedLength(saved, Inputs)

(* What is saved is what is rendered: each of the formulas above.            *)
SavedFadesRender ==
  TransTypeOK /\ SoundFollowsPicture /\ TransitionsLand /\ PairedLengthRenders
=============================================================================
