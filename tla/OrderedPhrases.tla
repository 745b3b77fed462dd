--------------------------- MODULE OrderedPhrases ---------------------------
(***************************************************************************)
(* What TranslateStream promises (docs/adr/0006): phrases may be           *)
(* translated in any order, but they come out in the order in which they   *)
(* were spoken, as text and as audio.  A phrase may be left out, as text   *)
(* or as audio; none comes out twice, early or late.  A stream that was    *)
(* not cancelled ends when every phrase has had its turn.                  *)
(***************************************************************************)
EXTENDS Naturals, Sequences

CONSTANT Phrase \* what may be said

VARIABLES
  accepted,  \* the phrases to be translated, in the order they were spoken
  turn,      \* how many of them have had their turn
  texts,     \* the translations written out, as indices of accepted
  audio,     \* the chunks of speech written out, as indices of accepted
  cancelled, \* the listener has gone
  ended      \* nothing more will come out

ovars == <<accepted, turn, texts, audio, cancelled, ended>>

Init ==
  /\ accepted = <<>>
  /\ turn = 0
  /\ texts = <<>>
  /\ audio = <<>>
  /\ cancelled = FALSE
  /\ ended = FALSE

\* Nothing is taken that could never come out, unless the listener has gone.
Accept ==
  /\ ended => cancelled
  /\ \E p \in Phrase : accepted' = Append(accepted, p)
  /\ UNCHANGED <<turn, texts, audio, cancelled, ended>>

\* The next phrase has its turn: its text comes out, or it is left out.
TakeTurn ==
  /\ ~ended
  /\ turn < Len(accepted)
  /\ turn' = turn + 1
  /\ texts' \in {texts, Append(texts, turn')}
  /\ UNCHANGED <<accepted, audio, cancelled, ended>>

\* A chunk of speech comes out, of the phrase whose turn it is.
Speak ==
  /\ ~ended
  /\ turn > 0
  /\ audio' = Append(audio, turn)
  /\ UNCHANGED <<accepted, turn, texts, cancelled, ended>>

Cancel ==
  /\ cancelled' = TRUE
  /\ UNCHANGED <<accepted, turn, texts, audio, ended>>

End ==
  /\ cancelled \/ turn = Len(accepted)
  /\ ended' = TRUE
  /\ UNCHANGED <<accepted, turn, texts, audio, cancelled>>

Next == Accept \/ TakeTurn \/ Speak \/ Cancel \/ End

Spec == Init /\ [][Next]_ovars
=============================================================================
