----------------------------- MODULE LossyPipe -----------------------------
(***************************************************************************)
(* What a way for live speech promises: of the frames that are spoken, one *)
(* after the other, some are heard, each as soon as it may be; a frame may *)
(* be lost, but none is heard before it was spoken, or after a later one.  *)
(***************************************************************************)
EXTENDS Integers

VARIABLES
  spoken, \* the number of the last frame that was spoken
  heard   \* the number of the last frame that was heard

lvars == <<spoken, heard>>

Init == spoken = 0 /\ heard = 0

\* A frame is spoken, or one that was spoken is heard, or both.
Next ==
  /\ spoken' \in {spoken, spoken + 1}
  /\ heard' \in heard .. spoken

Spec == Init /\ [][Next]_lvars
=============================================================================
