----------------------------- MODULE MCTimeline -----------------------------
(* TLC's instances of the three pieces of timeline arithmetic.  They share   *)
(* no state, so that a behaviour follows one of them while the others idle   *)
(* at an empty or minimal input.                                             *)
EXTENDS TimeRanges, RenderPlan, Transitions

CONSTANT Parts  \* bound: which of "ranges", "plan" and "transitions" to run

VARIABLE part

(* The projects that the edits start from: clips placed end to end on the    *)
(* first track, in the order of the list, and shown as long as their places. *)
FirstFrame(kind) == [NoRow EXCEPT !.kind = kind, !.out = 1]
SecondFrame(kind) == [NoRow EXCEPT !.kind = kind, !.in = 1, !.out = 2]
At(r, place, length) ==
  [r EXCEPT !.position = place, !.track = 1, !.start = place, !.end = place + length]
Project(list) == [c \in Clips |-> IF c <= Len(list) THEN list[c] ELSE NoRow]
Starts ==
  {<<At(SecondFrame("file"), 0, 1), At(FirstFrame("mute"), 1, 1), At(SecondFrame("mute"), 2, 1)>>,
   <<At([FirstFrame("image") EXCEPT !.out = 2], 0, 1), At(FirstFrame("generator"), 1, 2)>>}

Init ==
  /\ part \in Parts
  /\ part = "ranges" \/ ranges = <<>>
  /\ RangeInit
  /\ part = "plan" \/ (clips = <<1>> /\ transitions = <<>>)
  /\ PlanInit
  /\ part = "plan" \/ placed[1].start = 0
  /\ \E list \in (IF part = "transitions" THEN Starts ELSE {<<>>}) :
       rows = Project(list) /\ born = Len(list)
  /\ saved = IF part = "transitions" THEN <<Timeline(1, 2, "fade", 1)>> ELSE <<>>
  /\ TransInit

Next ==
  \/ part = "ranges" /\ RangeNext /\ UNCHANGED <<part, planVars, transVars>>
  \/ part = "plan" /\ PlanNext /\ UNCHANGED <<part, rangeVars, transVars>>
  \/ part = "transitions" /\ TransNext /\ UNCHANGED <<part, rangeVars, planVars>>

Spec == Init /\ [][Next]_<<part, rangeVars, planVars, transVars>>
=============================================================================
