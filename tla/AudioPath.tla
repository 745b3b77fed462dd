----------------------------- MODULE AudioPath -----------------------------
(***************************************************************************)
(* The way of a participant's speech from the remote track to Whisper:     *)
(* AudioTrack and AudioHalf side by side, for one pipeline, Me, of those   *)
(* that the track serves one after the other.  They share the opusCh of    *)
(* that pipeline, whether it is closed, and ctx: a step in which a         *)
(* callback forwards a frame is Capture in the half, one in which the      *)
(* decoder takes it is Decode in the track.                                *)
(*                                                                         *)
(* A frame has two numbers: in AudioTrack, its place in the speech; in     *)
(* AudioHalf, which does not see what was dropped before opusCh, its place *)
(* in what the pipeline has taken over, Taken(Me).                         *)
(***************************************************************************)
EXTENDS AudioTrackProofs

CONSTANTS
  Me,        \* the pipeline
  MaxTexts, PcmCap, SttCap, OutCap, FrameSize, Chunk \* of AudioHalf

VARIABLES \* of AudioHalf
  run, result, decoder, decoding, pcmCh, bridge, fresh, bpCh, sender, sending,
  lastSent, wire, receiver, texts, sttCh, translator, speech, encoder, accum,
  opusOutCh, forwarder, wg, stopped

\* The frames in opusCh, by their places in Taken(Me).
Numbered == [i \in 1 .. Len(opusCh[Me]) |-> Len(decoded[Me]) + i]

Half == INSTANCE AudioHalfProofs
  WITH cancelled <- Me \in ctxDone,
       frames <- Len(Taken(Me)),
       opusCh <- Numbered,
       opusClosed <- Me \in opusClosed,
       decoded <- decoding,
       audioCh <- speech

\* The last frame that Whisper was sent, by its place in the speech.
Heard == IF lastSent = 0 THEN 0 ELSE Taken(Me)[lastSent]

Path == INSTANCE LossyPipe WITH spoken <- frames, heard <- Heard

\* What is assumed of the constants: that of AudioHalf, and that Me is one of
\* the pipelines.
Constants ==
  /\ Me \in Pipelines
  /\ MaxTexts \in Nat
  /\ {PcmCap, SttCap, OutCap, FrameSize} \subseteq Nat \ {0}
  /\ Chunk \subseteq Nat

-----------------------------------------------------------------------------
(* A LossyPipe that is fed from a FrameLog.                                *)

\* The log holds frames that were spoken, in their order, and Whisper has
\* heard one of them.
LogInv(spoken, taken, heard) ==
  /\ spoken \in Nat
  /\ taken \in Seq(Nat)
  /\ \A i \in 1 .. Len(taken) : taken[i] \in 1 .. spoken
  /\ \A i, j \in 1 .. Len(taken) : i < j => taken[i] < taken[j]
  /\ heard \in 0 .. Len(taken)

Nth(taken, i) == IF i = 0 THEN 0 ELSE taken[i]

\* A frame is appended to the log, or none, while a later one is heard, or none.
LEMMA LogStep ==
  ASSUME NEW spoken, NEW taken, NEW heard, LogInv(spoken, taken, heard),
         NEW spoken2 \in {spoken, spoken + 1},
         NEW taken2,
         taken2 \in {taken} \cup
           {Append(taken, f) :
              f \in {g \in 1 .. spoken : \A i \in 1 .. Len(taken) : taken[i] < g}},
         NEW heard2 \in heard .. Len(taken)
  PROVE  /\ LogInv(spoken2, taken2, heard2)
         /\ Nth(taken2, heard2) \in Nth(taken, heard) .. spoken
<1>1. /\ spoken \in Nat /\ spoken2 \in Nat /\ spoken <= spoken2
      /\ taken \in Seq(Nat) /\ Len(taken) \in Nat
      /\ heard \in Nat /\ heard2 \in Nat /\ heard <= heard2 /\ heard2 <= Len(taken)
  BY LenProperties DEF LogInv
<1>2. CASE taken2 = taken
  <2>1. LogInv(spoken2, taken2, heard2)
    BY <1>1, <1>2 DEF LogInv
  <2>2. Nth(taken2, heard2) \in Nth(taken, heard) .. spoken
    BY <1>1, <1>2 DEF LogInv, Nth
  <2> QED
    BY <2>1, <2>2
<1>3. ASSUME NEW f \in 1 .. spoken,
             \A i \in 1 .. Len(taken) : taken[i] < f,
             taken2 = Append(taken, f)
      PROVE  /\ LogInv(spoken2, taken2, heard2)
             /\ Nth(taken2, heard2) \in Nth(taken, heard) .. spoken
  <2>1. f \in Nat
    BY <1>1
  <2>2. /\ taken2 \in Seq(Nat)
        /\ Len(taken2) = Len(taken) + 1
        /\ \A i \in 1 .. Len(taken) : taken2[i] = taken[i]
        /\ taken2[Len(taken) + 1] = f
    BY <1>1, <1>3, <2>1, AppendProperties
  <2>3. \A i \in 1 .. Len(taken2) :
          \/ i \in 1 .. Len(taken) /\ taken2[i] = taken[i]
          \/ i = Len(taken) + 1 /\ taken2[i] = f
    BY <1>1, <2>2
  <2>4. \A i \in 1 .. Len(taken2) : taken2[i] \in 1 .. spoken2
    BY <1>1, <2>3 DEF LogInv
  <2>5. \A i, j \in 1 .. Len(taken2) : i < j => taken2[i] < taken2[j]
    BY <1>1, <1>3, <2>2, <2>3 DEF LogInv
  <2>6. LogInv(spoken2, taken2, heard2)
    BY <1>1, <2>2, <2>4, <2>5 DEF LogInv
  <2>7. Nth(taken2, heard2) = Nth(taken, heard2)
    BY <1>1, <2>2 DEF Nth
  <2>8. Nth(taken, heard2) \in Nth(taken, heard) .. spoken
    BY <1>1 DEF LogInv, Nth
  <2> QED
    BY <2>6, <2>7, <2>8
<1> QED
  BY <1>2, <1>3

-----------------------------------------------------------------------------
(* The composition.                                                        *)

LEMMA PathStep ==
  ASSUME LogInv(frames, Taken(Me), lastSent),
         [Log(Me)!Next]_(Log(Me)!lvars),
         [Half!Pipe!Next]_(Half!Pipe!lvars)
  PROVE  /\ LogInv(frames, Taken(Me), lastSent)'
         /\ [Path!Next]_(Path!lvars)
<1>1. frames' \in {frames, frames + 1}
  BY DEF Log!Next, Log!lvars
<1>2. Taken(Me)' \in {Taken(Me)} \cup
        {Append(Taken(Me), f) :
           f \in {g \in 1 .. frames : \A i \in 1 .. Len(Taken(Me)) : Taken(Me)[i] < g}}
  BY DEF Log!Next, Log!lvars, Log!Later
<1>3. lastSent' \in lastSent .. Len(Taken(Me))
  BY DEF Half!Pipe!Next, Half!Pipe!lvars, LogInv
<1>4. /\ LogInv(frames', Taken(Me)', lastSent')
      /\ Nth(Taken(Me)', lastSent') \in Nth(Taken(Me), lastSent) .. frames
  BY <1>1, <1>2, <1>3, LogStep
<1>5. Heard = Nth(Taken(Me), lastSent) /\ Heard' = Nth(Taken(Me)', lastSent')
  BY DEF Heard, Nth
<1> QED
  BY <1>1, <1>4, <1>5 DEF LogInv, Path!Next

\* From the track to Whisper, through the dropping channel of OnTrack, the
\* callbacks of successive pipelines, decoder, bridge and sender, frames may be
\* lost, but Whisper hears those that are left in the order they were spoken.
THEOREM SpeechInOrder ==
  ASSUME Constants
  PROVE  Spec /\ Half!Spec => Path!Spec
<1>1. Spec => Refinement
  BY Implements
<1>2. Half!Spec => Half!Refinement
  <2>1. /\ MaxFrames \in Nat /\ MaxTexts \in Nat
        /\ {OpusCap, PcmCap, SttCap, OutCap, FrameSize} \subseteq Nat \ {0}
        /\ Chunk \subseteq Nat
    BY SizesAreNat DEF Constants
  <2> QED
    BY <2>1, Half!Implements
<1>3. Refinement => Log(Me)!Init /\ [][[Log(Me)!Next]_(Log(Me)!lvars)]_vars
  <2>1. Refinement => Log(Me)!Init
    BY DEF Refinement, Constants
  <2>2. [\A p \in Pipelines : [Log(p)!Next]_(Log(p)!lvars)]_vars
          => [[Log(Me)!Next]_(Log(Me)!lvars)]_vars
    BY DEF Constants
  <2> QED
    BY <2>1, <2>2, PTL DEF Refinement
<1>4. Log(Me)!Init /\ Half!Pipe!Init => Path!Init /\ LogInv(frames, Taken(Me), lastSent)
  BY DEF Log!Init, Half!Pipe!Init, Path!Init, LogInv, Heard
<1>5. UNCHANGED vars => [Log(Me)!Next]_(Log(Me)!lvars)
  BY DEF vars, peerVars, pipeVars, Log!lvars, Taken
<1>6. LogInv(frames, Taken(Me), lastSent) /\ [Log(Me)!Next]_(Log(Me)!lvars)
        /\ [Half!Pipe!Next]_(Half!Pipe!lvars)
      => LogInv(frames, Taken(Me), lastSent)' /\ [Path!Next]_(Path!lvars)
  BY PathStep
<1> QED
  BY <1>1, <1>2, <1>3, <1>4, <1>5, <1>6, PTL DEF Half!Refinement, Half!Pipe!Spec, Path!Spec
=============================================================================
