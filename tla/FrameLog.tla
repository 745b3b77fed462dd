------------------------------ MODULE FrameLog ------------------------------
(***************************************************************************)
(* What a pipeline is promised of the track of its participant: a log to   *)
(* which frames are appended, each spoken after those that are in it.      *)
(* Frames may be left out, but none is taken back.                         *)
(***************************************************************************)
EXTENDS Integers, Sequences

VARIABLES
  spoken, \* the number of the last frame that was spoken
  taken   \* the frames that were taken over, in that order

lvars == <<spoken, taken>>

Init == spoken = 0 /\ taken = <<>>

\* The frames that are later than all that were taken over.
Later == {f \in 1 .. spoken : \A i \in 1 .. Len(taken) : taken[i] < f}

\* A frame is spoken, or one that was spoken is taken over, or both.
Next ==
  /\ spoken' \in {spoken, spoken + 1}
  /\ taken' \in {taken} \cup {Append(taken, f) : f \in Later}

Spec == Init /\ [][Next]_lvars
=============================================================================
