-------------------------- MODULE AudioTrackProofs --------------------------
(***************************************************************************)
(* For any number of pipelines and frames and any capacities: a callback   *)
(* is started once, is not forgotten, and never uses a closed channel.     *)
(***************************************************************************)
EXTENDS AudioTrack, SequenceTheorems, TLAPS

\* Before the track there is nothing of it, and whoever was registered then
\* is what OnTrack finds.
TrackKnown ==
  /\ onTrack = "none" => captured = None /\ reader = "none" /\ ~rawTrack
  /\ audioHandler # None => half[audioHandler] # "none"
  /\ captured # None => half[captured] # "none"
  /\ reader = "reading" /\ peer = "open" => rawTrack

\* Who starts the callback of a pipeline: OnTrack, if the pipeline is the one
\* that it found; OnAudioTrack, if the track was there before.
StarterKnown ==
  \A p \in Pipelines :
    /\ callback[<<p, "OnTrack">>] # "none" => captured = p /\ onTrack = "returned"
    /\ callback[<<p, "OnAudioTrack">>] # "none" =>
         half[p] = "running" /\ onTrack # "none" /\ captured # p
    /\ half[p] = "ready" => onTrack # "none" /\ captured # p

\* The last registered pipeline is the one that OnTrack found, or has been
\* started by OnAudioTrack.
HandlerServed ==
  \A p \in Pipelines :
    /\ captured = p /\ onTrack = "returned" => callback[<<p, "OnTrack">>] # "none"
    /\ (/\ audioHandler = p
        /\ half[p] = "running"
        /\ reader = "reading"
        /\ peer = "open") => captured = p \/ callback[<<p, "OnAudioTrack">>] # "none"

\* opusCh is closed by a callback that has returned.
ClosedByReturned ==
  /\ \A p \in opusClosed : \E s \in Starters : callback[<<p, s>>] = "returned"
  /\ ~panic

\* The inductive invariant.
IInv ==
  /\ TypeOK
  /\ TrackKnown
  /\ StarterKnown
  /\ HandlerServed
  /\ ClosedByReturned

\* Only one callback of a pipeline can have been started.
LEMMA OneStarter ==
  ASSUME StarterKnown, NEW p \in Pipelines
  PROVE  callback[<<p, "OnTrack">>] = "none" \/ callback[<<p, "OnAudioTrack">>] = "none"
  BY DEF StarterKnown

LEMMA InitIInv ==
  ASSUME Init
  PROVE  IInv
<1>1. TypeOK
  <2>1. Len(<<>>) = 0 /\ \A S : <<>> \in Seq(S)
    OBVIOUS
  <2>2. 0 \in 0 .. MaxFrames /\ 0 <= TrackCap /\ 0 <= OpusCap
    BY SizesAreNat
  <2> QED
    BY <2>1, <2>2 DEF Init, TypeOK
<1>2. TrackKnown /\ ClosedByReturned
  BY DEF Init, TrackKnown, ClosedByReturned
<1>3. StarterKnown /\ HandlerServed
  BY NoneIsNoPipeline DEF Init, StarterKnown, HandlerServed, Callbacks, Starters
<1> QED
  BY <1>1, <1>2, <1>3 DEF IInv

-----------------------------------------------------------------------------
(* Types.                                                                  *)

LEMMA PeerType ==
  ASSUME TypeOK, PeerStep, TrackKnown
  PROVE  TypeOK'
<1>1. CASE TrackArrives
  BY <1>1 DEF TrackArrives, TypeOK, halfVars, pipeVars
<1>2. CASE TrackStartsHandler
  <2>1. callback' \in [Callbacks -> {"none", "range", "select", "close", "returned"}]
    BY <1>2 DEF TrackStartsHandler, TypeOK, Start
  <2>2. \A c \in Callbacks : callback'[c] = "select" => callback[c] = "select"
    BY <1>2 DEF TrackStartsHandler, TypeOK, Start
  <2> QED
    BY <1>2, <2>1, <2>2 DEF TrackStartsHandler, TypeOK, halfVars
<1>3. CASE ReadFrame
  <2>1. frames' \in Frame /\ frames' \in 0 .. MaxFrames
    BY <1>3, SizesAreNat DEF ReadFrame, TypeOK, Frame
  <2>2. Len(audioCh) \in Nat /\ TrackCap \in Nat
    BY SizesAreNat, LenProperties DEF TypeOK
  <2>3. /\ Append(audioCh, frames') \in Seq(Frame)
        /\ Len(Append(audioCh, frames')) = Len(audioCh) + 1
    BY <2>1, AppendProperties DEF TypeOK
  <2>4. audioCh' \in Seq(Frame) /\ Len(audioCh') <= TrackCap
    BY <1>3, <2>2, <2>3 DEF ReadFrame, TypeOK
  <2> QED
    BY <1>3, <2>1, <2>4 DEF ReadFrame, TypeOK, halfVars, pipeVars
<1>4. CASE TrackEnds
  BY <1>4 DEF TrackEnds, TypeOK, halfVars, pipeVars
<1>5. CASE TrackForgotten
  BY <1>5 DEF TrackForgotten, TypeOK, halfVars, pipeVars
<1>6. CASE CloseSession
  BY <1>6 DEF CloseSession, TypeOK, halfVars, pipeVars
<1> QED
  BY <1>1, <1>2, <1>3, <1>4, <1>5, <1>6 DEF PeerStep

LEMMA PipelineType ==
  ASSUME TypeOK, NEW p \in Pipelines, PipelineStep(p)
  PROVE  TypeOK'
<1>1. CASE OnAudioTrack(p)
  BY <1>1 DEF OnAudioTrack, TypeOK, pipeVars
<1>2. CASE StartsHandler(p)
  <2>1. callback' \in [Callbacks -> {"none", "range", "select", "close", "returned"}]
    BY <1>2 DEF StartsHandler, TypeOK, Start
  <2>2. half' \in [Pipelines -> {"none", "ready", "running"}]
    BY <1>2 DEF StartsHandler, TypeOK
  <2>3. \A c \in Callbacks : callback'[c] = "select" => callback[c] = "select"
    BY <1>2 DEF StartsHandler, TypeOK, Start
  <2> QED
    BY <1>2, <2>1, <2>2, <2>3 DEF StartsHandler, TypeOK, peerVars
<1>3. CASE Cancel(p)
  BY <1>3 DEF Cancel, TypeOK, peerVars, pipeVars
<1>4. CASE Decode(p)
  <2>1. opusCh[p] \in Seq(Frame) /\ opusCh[p] # <<>>
    BY <1>4 DEF Decode, TypeOK
  <2>2. /\ Head(opusCh[p]) \in Frame
        /\ Tail(opusCh[p]) \in Seq(Frame)
        /\ Len(Tail(opusCh[p])) = Len(opusCh[p]) - 1
        /\ Len(opusCh[p]) \in Nat
    BY <2>1, HeadTailProperties, LenProperties
  <2>3. Append(decoded[p], Head(opusCh[p])) \in Seq(Frame)
    BY <2>2, AppendProperties DEF TypeOK
  <2>4. decoded' \in [Pipelines -> Seq(Frame)]
    BY <1>4, <2>3 DEF Decode, TypeOK
  <2>5. opusCh' \in [Pipelines -> Seq(Frame)]
    BY <1>4, <2>2 DEF Decode, TypeOK
  <2>6. Len(Tail(opusCh[p])) <= OpusCap
    BY <2>2, SizesAreNat DEF TypeOK
  <2>7. \A q \in Pipelines : Len(opusCh'[q]) <= OpusCap
    BY <1>4, <2>6 DEF Decode, TypeOK
  <2> QED
    BY <1>4, <2>4, <2>5, <2>7 DEF Decode, TypeOK, peerVars, halfVars
<1> QED
  BY <1>1, <1>2, <1>3, <1>4 DEF PipelineStep

LEMMA CallbackType ==
  ASSUME TypeOK, NEW p \in Pipelines, NEW s \in Starters, CallbackStep(p, s)
  PROVE  TypeOK'
<1> DEFINE States == {"none", "range", "select", "close", "returned"}
<1>0. <<p, s>> \in Callbacks
  BY DEF Callbacks
<1>1. CASE Receive(p, s)
  <2>1. CASE audioCh = <<>>
    BY <1>1, <2>1 DEF Receive, TypeOK, peerVars, halfVars
  <2>2. CASE audioCh # <<>>
    <3>1. /\ Head(audioCh) \in Frame
          /\ Tail(audioCh) \in Seq(Frame)
          /\ Len(Tail(audioCh)) = Len(audioCh) - 1
          /\ Len(audioCh) \in Nat
      BY <2>2, HeadTailProperties, LenProperties DEF TypeOK
    <3>2. /\ audioCh' = Tail(audioCh)
          /\ holds' = [holds EXCEPT ![<<p, s>>] = Head(audioCh)]
          /\ callback' = [callback EXCEPT ![<<p, s>>] = "select"]
      BY <1>1, <2>2 DEF Receive
    <3>3. holds' \in [Callbacks -> 0 .. MaxFrames]
      <4>1. Head(audioCh) \in 0 .. MaxFrames
        BY <3>1, SizesAreNat DEF Frame
      <4> QED
        BY <3>2, <4>1 DEF TypeOK
    <3>4. /\ callback' \in [Callbacks -> States]
          /\ \A c \in Callbacks : callback'[c] = "select" => holds'[c] \in Frame
      BY <3>1, <3>2 DEF TypeOK
    <3>5. audioCh' \in Seq(Frame) /\ Len(audioCh') <= TrackCap
      BY <3>1, <3>2, SizesAreNat DEF TypeOK
    <3> QED
      BY <1>1, <3>3, <3>4, <3>5 DEF Receive, TypeOK, peerVars, halfVars
  <2> QED
    BY <2>1, <2>2
<1>2. CASE Forward(p, s)
  <2>1. CASE p \in opusClosed
    BY <1>2, <2>1 DEF Forward, TypeOK, peerVars, halfVars
  <2>2. CASE p \notin opusClosed
    <3>1. /\ Len(opusCh[p]) < OpusCap
          /\ opusCh' = [opusCh EXCEPT ![p] = Append(@, holds[<<p, s>>])]
          /\ callback' = [callback EXCEPT ![<<p, s>>] = "range"]
          /\ UNCHANGED panic
      BY <1>2, <2>2 DEF Forward
    <3>2. holds[<<p, s>>] \in Frame
      BY <1>0, <1>2 DEF Forward, TypeOK
    <3>3. /\ opusCh[p] \in Seq(Frame) /\ Len(opusCh[p]) \in Nat
          /\ Append(opusCh[p], holds[<<p, s>>]) \in Seq(Frame)
          /\ Len(Append(opusCh[p], holds[<<p, s>>])) = Len(opusCh[p]) + 1
      <4>1. opusCh[p] \in Seq(Frame)
        BY DEF TypeOK
      <4> QED
        BY <3>2, <4>1, AppendProperties, LenProperties
    <3>4. opusCh' \in [Pipelines -> Seq(Frame)]
      BY <3>1, <3>3 DEF TypeOK
    <3>5. \A q \in Pipelines : Len(opusCh'[q]) <= OpusCap
      <4>1. Len(opusCh[p]) + 1 <= OpusCap
        BY <3>1, <3>3, SizesAreNat
      <4> QED
        BY <3>1, <3>3, <4>1 DEF TypeOK
    <3>6. /\ callback' \in [Callbacks -> States]
          /\ \A c \in Callbacks : callback'[c] = "select" => holds[c] \in Frame
      BY <3>1 DEF TypeOK
    <3> QED
      BY <1>2, <3>1, <3>4, <3>5, <3>6 DEF Forward, TypeOK, peerVars, halfVars
  <2> QED
    BY <2>1, <2>2
<1>3. CASE GiveUp(p, s)
  BY <1>3 DEF GiveUp, TypeOK, peerVars, halfVars
<1>4. CASE CloseOpus(p, s)
  <2>1. panic' \in BOOLEAN
    BY <1>4 DEF CloseOpus
  <2>2. /\ callback' \in [Callbacks -> States]
        /\ \A c \in Callbacks : callback'[c] = "select" => callback[c] = "select"
    BY <1>4 DEF CloseOpus, TypeOK
  <2> QED
    BY <1>4, <2>1, <2>2 DEF CloseOpus, TypeOK, peerVars, halfVars
<1> QED
  BY <1>1, <1>2, <1>3, <1>4 DEF CallbackStep

-----------------------------------------------------------------------------
(* The rest of the invariant.                                              *)

LEMMA PeerRest ==
  ASSUME IInv, PeerStep
  PROVE  TrackKnown' /\ StarterKnown' /\ HandlerServed' /\ ClosedByReturned'
<1>1. UNCHANGED <<half, opusClosed, panic>>
  BY DEF PeerStep, TrackArrives, TrackStartsHandler, ReadFrame, TrackEnds,
         TrackForgotten, CloseSession, halfVars, pipeVars
<1>2. TrackKnown'
  BY <1>1, NoneIsNoPipeline
  DEF IInv, TypeOK, TrackKnown, PeerStep, TrackArrives, TrackStartsHandler,
      ReadFrame, TrackEnds, TrackForgotten, CloseSession
<1>3. CASE TrackStartsHandler
  <2>1. UNCHANGED <<audioHandler, captured, reader, peer>>
        /\ onTrack = "unlocked" /\ onTrack' = "returned"
    BY <1>3 DEF TrackStartsHandler
  <2>2. \A p \in Pipelines :
          /\ callback'[<<p, "OnAudioTrack">>] = callback[<<p, "OnAudioTrack">>]
          /\ callback'[<<p, "OnTrack">>] =
               IF p = captured THEN "range" ELSE callback[<<p, "OnTrack">>]
    BY <1>3, NoneIsNoPipeline
    DEF TrackStartsHandler, Start, IInv, TypeOK, Callbacks, Starters
  <2>3. \A p \in Pipelines : callback[<<p, "OnTrack">>] = "none"
    BY <2>1 DEF IInv, StarterKnown
  <2>4. StarterKnown' /\ HandlerServed'
    BY <1>1, <2>1, <2>2, <2>3 DEF IInv, StarterKnown, HandlerServed
  <2>5. ClosedByReturned'
    <3>1. \A q \in Pipelines, t \in Starters :
            callback[<<q, t>>] = "returned" => callback'[<<q, t>>] = "returned"
      BY <2>2, <2>3 DEF Starters
    <3> QED
      BY <1>1, <3>1 DEF IInv, TypeOK, ClosedByReturned
  <2> QED
    BY <1>2, <2>4, <2>5
<1>4. CASE TrackArrives
  <2>1. UNCHANGED <<callback, audioHandler, peer>>
        /\ onTrack = "none" /\ onTrack' = "unlocked" /\ captured' = audioHandler
    BY <1>4 DEF TrackArrives, pipeVars
  <2>2. StarterKnown' /\ HandlerServed'
    BY <1>1, <2>1 DEF IInv, StarterKnown, HandlerServed
  <2> QED
    BY <1>1, <1>2, <2>1, <2>2 DEF IInv, ClosedByReturned
<1>5. CASE ReadFrame \/ TrackEnds \/ TrackForgotten \/ CloseSession
  <2>1. /\ UNCHANGED <<callback, captured, onTrack>>
        /\ reader' = "reading" => reader = "reading"
        /\ peer' = "open" => peer = "open" /\ UNCHANGED audioHandler
    BY <1>5 DEF ReadFrame, TrackEnds, TrackForgotten, CloseSession, pipeVars
  <2>2. StarterKnown' /\ HandlerServed'
    BY <1>1, <2>1 DEF IInv, StarterKnown, HandlerServed
  <2> QED
    BY <1>1, <1>2, <2>1, <2>2 DEF IInv, ClosedByReturned
<1> QED
  BY <1>3, <1>4, <1>5 DEF PeerStep

LEMMA PipelineRest ==
  ASSUME IInv, NEW p \in Pipelines, PipelineStep(p)
  PROVE  TrackKnown' /\ StarterKnown' /\ HandlerServed' /\ ClosedByReturned'
<1>1. CASE OnAudioTrack(p)
  <2>1. /\ UNCHANGED <<callback, captured, onTrack, reader, peer, rawTrack,
                       opusClosed, panic>>
        /\ audioHandler' = p
        /\ half[p] = "none"
        /\ half'[p] = IF rawTrack THEN "ready" ELSE "running"
        /\ \A q \in Pipelines \ {p} : half'[q] = half[q]
    BY <1>1 DEF OnAudioTrack, pipeVars, IInv, TypeOK
  <2>2. TrackKnown'
    BY <2>1, NoneIsNoPipeline DEF IInv, TrackKnown, TypeOK
  <2>3. StarterKnown'
    BY <2>1, NoneIsNoPipeline DEF IInv, TrackKnown, StarterKnown, TypeOK
  <2>4. HandlerServed'
    BY <2>1 DEF IInv, TrackKnown, HandlerServed
  <2> QED
    BY <2>1, <2>2, <2>3, <2>4 DEF IInv, ClosedByReturned
<1>2. CASE StartsHandler(p)
  <2>1. /\ UNCHANGED <<peerVars, opusClosed, panic>>
        /\ half[p] = "ready" /\ half'[p] = "running"
        /\ \A q \in Pipelines \ {p} : half'[q] = half[q]
    BY <1>2 DEF StartsHandler, IInv, TypeOK
  <2>2. \A q \in Pipelines :
          /\ callback'[<<q, "OnTrack">>] = callback[<<q, "OnTrack">>]
          /\ callback'[<<q, "OnAudioTrack">>] =
               IF q = p THEN "range" ELSE callback[<<q, "OnAudioTrack">>]
    BY <1>2 DEF StartsHandler, Start, IInv, TypeOK, Callbacks, Starters
  <2>3. /\ callback[<<p, "OnAudioTrack">>] = "none"
        /\ callback[<<p, "OnTrack">>] = "none"
    BY <2>1 DEF IInv, StarterKnown
  <2>4. TrackKnown'
    BY <2>1 DEF IInv, TrackKnown, peerVars, TypeOK
  <2>5. StarterKnown' /\ HandlerServed'
    BY <2>1, <2>2 DEF IInv, StarterKnown, HandlerServed, peerVars
  <2>6. ClosedByReturned'
    <3>1. \A q \in Pipelines, t \in Starters :
            callback[<<q, t>>] = "returned" => callback'[<<q, t>>] = "returned"
      BY <2>2, <2>3 DEF Starters
    <3> QED
      BY <2>1, <3>1 DEF IInv, TypeOK, ClosedByReturned
  <2> QED
    BY <2>4, <2>5, <2>6
<1>3. CASE Cancel(p) \/ Decode(p)
  <2>1. UNCHANGED <<peerVars, half, callback, opusClosed, panic>>
    BY <1>3 DEF Cancel, Decode, pipeVars, halfVars
  <2> QED
    BY <2>1 DEF IInv, TrackKnown, StarterKnown, HandlerServed,
                ClosedByReturned, peerVars
<1> QED
  BY <1>1, <1>2, <1>3 DEF PipelineStep

LEMMA CallbackRest ==
  ASSUME IInv, NEW p \in Pipelines, NEW s \in Starters, CallbackStep(p, s)
  PROVE  TrackKnown' /\ StarterKnown' /\ HandlerServed' /\ ClosedByReturned'
<1>1. UNCHANGED <<peerVars, half>>
  BY DEF CallbackStep, Receive, Forward, GiveUp, CloseOpus, halfVars
<1>2. <<p, s>> \in Callbacks
  BY DEF Callbacks
<1>3. /\ callback[<<p, s>>] \in {"range", "select", "close"}
      /\ callback'[<<p, s>>] # "none"
      /\ \A c \in Callbacks \ {<<p, s>>} : callback'[c] = callback[c]
  BY <1>2 DEF CallbackStep, Receive, Forward, GiveUp, CloseOpus, IInv, TypeOK
<1>4. \A c \in Callbacks : callback'[c] # "none" <=> callback[c] # "none"
  BY <1>3
<1>5. \A q \in Pipelines :
        /\ callback'[<<q, "OnTrack">>] # "none" <=>
             callback[<<q, "OnTrack">>] # "none"
        /\ callback'[<<q, "OnAudioTrack">>] # "none" <=>
             callback[<<q, "OnAudioTrack">>] # "none"
  BY <1>4 DEF Callbacks, Starters
<1>6. TrackKnown'
  BY <1>1 DEF IInv, TrackKnown, peerVars
<1>7. StarterKnown' /\ HandlerServed'
  BY <1>1, <1>5 DEF IInv, StarterKnown, HandlerServed, peerVars
<1>8. p \notin opusClosed
  <2> SUFFICES ASSUME p \in opusClosed PROVE FALSE
    OBVIOUS
  <2>1. PICK t \in Starters : callback[<<p, t>>] = "returned"
    BY DEF IInv, ClosedByReturned
  <2>2. t # s
    BY <1>3, <2>1
  <2> QED
    BY <1>3, <2>1, <2>2, OneStarter DEF IInv, Starters
<1>9. ClosedByReturned'
  <2>1. CASE CloseOpus(p, s)
    <3>1. /\ opusClosed' = opusClosed \cup {p}
          /\ callback'[<<p, s>>] = "returned"
          /\ ~panic'
      BY <1>2, <1>8, <2>1 DEF CloseOpus, IInv, TypeOK
    <3>2. \A q \in opusClosed : \E t \in Starters : callback'[<<q, t>>] = "returned"
      <4> SUFFICES ASSUME NEW q \in opusClosed
                   PROVE  \E t \in Starters : callback'[<<q, t>>] = "returned"
        OBVIOUS
      <4>1. PICK t \in Starters : callback[<<q, t>>] = "returned"
        BY DEF IInv, ClosedByReturned
      <4>2. q \in Pipelines /\ q # p
        BY <1>8 DEF IInv, TypeOK
      <4>3. <<q, t>> \in Callbacks \ {<<p, s>>}
        BY <4>2 DEF Callbacks
      <4> QED
        BY <1>3, <4>1, <4>3
    <3> QED
      BY <3>1, <3>2 DEF ClosedByReturned
  <2>2. CASE Receive(p, s) \/ Forward(p, s) \/ GiveUp(p, s)
    <3>1. UNCHANGED <<opusClosed, panic>>
      BY <1>8, <2>2 DEF Receive, Forward, GiveUp
    <3>2. \A q \in opusClosed : \E t \in Starters : callback'[<<q, t>>] = "returned"
      <4> SUFFICES ASSUME NEW q \in opusClosed
                   PROVE  \E t \in Starters : callback'[<<q, t>>] = "returned"
        OBVIOUS
      <4>1. PICK t \in Starters : callback[<<q, t>>] = "returned"
        BY DEF IInv, ClosedByReturned
      <4>2. q \in Pipelines /\ q # p
        BY <1>8 DEF IInv, TypeOK
      <4>3. <<q, t>> \in Callbacks \ {<<p, s>>}
        BY <4>2 DEF Callbacks
      <4> QED
        BY <1>3, <4>1, <4>3
    <3> QED
      BY <3>1, <3>2 DEF IInv, ClosedByReturned
  <2> QED
    BY <2>1, <2>2 DEF CallbackStep
<1> QED
  BY <1>6, <1>7, <1>9

LEMMA NextIInv ==
  ASSUME IInv, [Next]_vars
  PROVE  IInv'
<1>1. CASE PeerStep
  BY <1>1, PeerType, PeerRest DEF IInv
<1>2. ASSUME NEW p \in Pipelines, PipelineStep(p) PROVE IInv'
  BY <1>2, PipelineType, PipelineRest DEF IInv
<1>3. ASSUME NEW p \in Pipelines, NEW s \in Starters, CallbackStep(p, s)
      PROVE  IInv'
  BY <1>3, CallbackType, CallbackRest DEF IInv
<1>4. CASE UNCHANGED vars
  BY <1>4 DEF vars, peerVars, halfVars, pipeVars, IInv, TypeOK, TrackKnown,
              StarterKnown, HandlerServed, ClosedByReturned
<1> QED
  BY <1>1, <1>2, <1>3, <1>4 DEF Next

LEMMA Inductive == Spec => []IInv
<1>1. Init => IInv
  BY InitIInv
<1>2. IInv /\ [Next]_vars => IInv'
  BY NextIInv
<1> QED
  BY <1>1, <1>2, PTL DEF Spec

\* The types, and the capacities of the channels.
THEOREM TypeCorrect == Spec => []TypeOK
<1>1. IInv => TypeOK
  BY DEF IInv
<1> QED
  BY <1>1, Inductive, PTL

\* OnTrack and OnAudioTrack never both start a callback.
THEOREM CallbackStartsOnce == Spec => []StartedOnce
<1>1. IInv => StartedOnce
  BY OneStarter DEF IInv, StartedOnce, Starters
<1> QED
  BY <1>1, Inductive, PTL

\* No callback closes opusCh twice, or sends on it after it was closed.
THEOREM NeverPanics == Spec => []NoPanic
<1>1. IInv => NoPanic
  BY DEF IInv, ClosedByReturned, NoPanic
<1> QED
  BY <1>1, Inductive, PTL

\* The callback of the last registered pipeline runs while the track lives.
THEOREM TrackIsNotMissed == Spec => []NoMissedTrack
<1>1. IInv => NoMissedTrack
  BY DEF IInv, HandlerServed, NoMissedTrack, Started, Starters
<1> QED
  BY <1>1, Inductive, PTL

-----------------------------------------------------------------------------
(* Order.                                                                  *)

\* The frames on the track are in order, and later than all that were taken.
TrackAhead ==
  /\ \A i, j \in 1 .. Len(audioCh) : i < j => audioCh[i] < audioCh[j]
  /\ \A i \in 1 .. Len(audioCh) : audioCh[i] <= frames
  /\ \A c \in Callbacks : callback[c] = "select" =>
       /\ holds[c] <= frames
       /\ \A j \in 1 .. Len(audioCh) : holds[c] < audioCh[j]
  /\ \A p \in Pipelines : \A i \in 1 .. Len(Taken(p)) :
       /\ Taken(p)[i] <= frames
       /\ \A j \in 1 .. Len(audioCh) : Taken(p)[i] < audioCh[j]

\* A frame in a callback's hands is later than those of its pipeline, and in
\* nobody else's hands.
HeldApart ==
  /\ \A p \in Pipelines, s \in Starters : callback[<<p, s>>] = "select" =>
       \A i \in 1 .. Len(Taken(p)) : Taken(p)[i] < holds[<<p, s>>]
  /\ \A p, q \in Pipelines, s \in Starters :
       p # q /\ callback[<<p, s>>] = "select" =>
         \A i \in 1 .. Len(Taken(q)) : Taken(q)[i] # holds[<<p, s>>]
  /\ \A c, d \in Callbacks :
       c # d /\ callback[c] = "select" /\ callback[d] = "select" =>
         holds[c] # holds[d]

\* The inductive invariant of InOrderOnce, together with IInv.
OrderInv == TrackAhead /\ HeldApart /\ InOrderOnce

\* What a pipeline has taken over is a sequence of frames.
LEMMA TakenType ==
  ASSUME TypeOK, NEW p \in Pipelines
  PROVE  /\ Taken(p) \in Seq(Frame)
         /\ Len(Taken(p)) \in Nat
         /\ \A i \in 1 .. Len(Taken(p)) : Taken(p)[i] \in Nat
<1>1. decoded[p] \in Seq(Frame) /\ opusCh[p] \in Seq(Frame)
  BY DEF TypeOK
<1>2. Taken(p) \in Seq(Frame)
  BY <1>1, ConcatProperties DEF Taken
<1> QED
  BY <1>2, LenProperties, ElementOfSeq, SizesAreNat DEF Frame

\* Decoding moves the first frame of opusCh to the end of decoded.
LEMMA DecodeKeepsTaken ==
  ASSUME TypeOK, NEW p \in Pipelines, Decode(p), NEW q \in Pipelines
  PROVE  Taken(q)' = Taken(q)
<1>1. /\ opusCh[p] # <<>>
      /\ decoded' = [decoded EXCEPT ![p] = Append(@, Head(opusCh[p]))]
      /\ opusCh' = [opusCh EXCEPT ![p] = Tail(@)]
  BY DEF Decode
<1>2. CASE q # p
  BY <1>1, <1>2 DEF Taken, TypeOK
<1>3. CASE q = p
  <2> DEFINE d == decoded[p]  o == opusCh[p]
  <2>1. d \in Seq(Frame) /\ o \in Seq(Frame) /\ o # <<>>
    BY <1>1 DEF TypeOK
  <2>2. decoded'[p] = Append(d, Head(o)) /\ opusCh'[p] = Tail(o)
    BY <1>1 DEF TypeOK
  <2> HIDE DEF d, o
  <2>3. Append(d, Head(o)) \o Tail(o) = d \o o
    BY <2>1
  <2> QED
    BY <1>3, <2>2, <2>3 DEF Taken, d, o
<1> QED
  BY <1>2, <1>3

\* Forwarding appends the frame in the callback's hands.
LEMMA ForwardAppends ==
  ASSUME IInv, NEW p \in Pipelines, NEW s \in Starters, Forward(p, s),
         p \notin opusClosed, NEW q \in Pipelines
  PROVE  Taken(q)' = IF q = p THEN Append(Taken(p), holds[<<p, s>>]) ELSE Taken(q)
<1>1. /\ opusCh' = [opusCh EXCEPT ![p] = Append(@, holds[<<p, s>>])]
      /\ UNCHANGED decoded
  BY DEF Forward
<1>2. CASE q # p
  BY <1>1, <1>2 DEF Taken, IInv, TypeOK
<1>3. CASE q = p
  <2> DEFINE d == decoded[p]  o == opusCh[p]  h == holds[<<p, s>>]
  <2>1. d \in Seq(Frame) /\ o \in Seq(Frame)
    BY DEF IInv, TypeOK
  <2>2. h \in Frame
    BY DEF Forward, IInv, TypeOK, Callbacks
  <2>3. decoded'[p] = d /\ opusCh'[p] = Append(o, h)
    BY <1>1 DEF IInv, TypeOK
  <2> HIDE DEF d, o, h
  <2>4. d \o Append(o, h) = Append(d \o o, h)
    BY <2>1, <2>2
  <2> QED
    BY <1>3, <2>3, <2>4 DEF Taken, d, o, h
<1> QED
  BY <1>2, <1>3

LEMMA InitOrder ==
  ASSUME Init
  PROVE  OrderInv
<1>1. \A p \in Pipelines : Taken(p) = <<>> /\ Len(Taken(p)) = 0
  <2>1. <<>> \o <<>> = <<>> /\ Len(<<>>) = 0
    OBVIOUS
  <2>2. \A p \in Pipelines : Taken(p) = <<>> \o <<>>
    BY DEF Init, Taken
  <2> QED
    BY <2>1, <2>2
<1>2. Len(audioCh) = 0
  BY DEF Init
<1>3. TrackAhead /\ InOrderOnce
  BY <1>1, <1>2 DEF Init, TrackAhead, InOrderOnce
<1>4. HeldApart
  BY DEF Init, HeldApart, Callbacks
<1> QED
  BY <1>3, <1>4 DEF OrderInv

\* A step that takes no frame from anybody.
LEMMA NothingMoves ==
  ASSUME IInv, OrderInv,
         UNCHANGED <<audioCh, frames, holds>>,
         \A p \in Pipelines : Taken(p)' = Taken(p),
         \A c \in Callbacks : callback'[c] = "select" => callback[c] = "select"
  PROVE  OrderInv'
<1>1. \A p \in Pipelines, s \in Starters :
        callback'[<<p, s>>] = "select" => callback[<<p, s>>] = "select"
  BY DEF Callbacks
<1>2. TrackAhead'
  BY DEF OrderInv, TrackAhead
<1>3. HeldApart'
  BY <1>1 DEF OrderInv, HeldApart
<1>4. InOrderOnce'
  BY DEF OrderInv, InOrderOnce
<1> QED
  BY <1>2, <1>3, <1>4 DEF OrderInv

LEMMA ReadFrameOrder ==
  ASSUME IInv, OrderInv, ReadFrame
  PROVE  OrderInv'
<1>1. /\ frames' = frames + 1
      /\ frames \in Nat
      /\ audioCh \in Seq(Frame)
      /\ Len(audioCh) \in Nat
      /\ audioCh' = audioCh \/ audioCh' = Append(audioCh, frames')
      /\ UNCHANGED <<callback, holds, opusCh, decoded>>
  BY SizesAreNat, LenProperties DEF ReadFrame, pipeVars, IInv, TypeOK
<1>2. \A p \in Pipelines : Taken(p)' = Taken(p)
  BY <1>1 DEF Taken
<1>3. \A j \in 1 .. Len(audioCh') :
        \/ j \in 1 .. Len(audioCh) /\ audioCh'[j] = audioCh[j]
        \/ /\ j = Len(audioCh) + 1
           /\ audioCh'[j] = frames + 1
  BY <1>1, AppendProperties
<1>4. \A j \in 1 .. Len(audioCh) : audioCh[j] \in Nat
  BY <1>1, ElementOfSeq, SizesAreNat DEF Frame
<1>5. \A c \in Callbacks : holds[c] \in Nat
  BY SizesAreNat DEF IInv, TypeOK
<1>6. \A p \in Pipelines : \A i \in 1 .. Len(Taken(p)) : Taken(p)[i] \in Nat
  BY TakenType DEF IInv
<1>7. TrackAhead'
  <2>1. \A i, j \in 1 .. Len(audioCh') : i < j => audioCh'[i] < audioCh'[j]
    BY <1>1, <1>3, <1>4 DEF OrderInv, TrackAhead
  <2>2. \A i \in 1 .. Len(audioCh') : audioCh'[i] <= frames'
    BY <1>1, <1>3, <1>4 DEF OrderInv, TrackAhead
  <2>3. \A c \in Callbacks : callback'[c] = "select" =>
          /\ holds'[c] <= frames'
          /\ \A j \in 1 .. Len(audioCh') : holds'[c] < audioCh'[j]
    BY <1>1, <1>3, <1>5 DEF OrderInv, TrackAhead
  <2>4. \A p \in Pipelines : \A i \in 1 .. Len(Taken(p)) :
          /\ Taken(p)[i] <= frames'
          /\ \A j \in 1 .. Len(audioCh') : Taken(p)[i] < audioCh'[j]
    BY <1>1, <1>3, <1>6 DEF OrderInv, TrackAhead
  <2> QED
    BY <1>2, <2>1, <2>2, <2>3, <2>4 DEF TrackAhead
<1>8. HeldApart' /\ InOrderOnce'
  BY <1>1, <1>2 DEF OrderInv, HeldApart, InOrderOnce
<1> QED
  BY <1>7, <1>8 DEF OrderInv

LEMMA ReceiveOrder ==
  ASSUME IInv, OrderInv, NEW p \in Pipelines, NEW s \in Starters, Receive(p, s)
  PROVE  OrderInv'
<1>0. <<p, s>> \in Callbacks
  BY DEF Callbacks
<1>1. UNCHANGED <<frames, decoded, opusCh>>
  BY DEF Receive, peerVars
<1>2. \A q \in Pipelines : Taken(q)' = Taken(q)
  BY <1>1 DEF Taken
<1>3. CASE audioCh = <<>>
  <2>1. UNCHANGED <<audioCh, holds>>
        /\ callback' = [callback EXCEPT ![<<p, s>>] = "close"]
    BY <1>3 DEF Receive
  <2>2. \A c \in Callbacks : callback'[c] = "select" => callback[c] = "select"
    BY <2>1 DEF IInv, TypeOK
  <2> QED
    BY <1>1, <1>2, <2>1, <2>2, NothingMoves
<1>4. CASE audioCh # <<>>
  <2> DEFINE h == Head(audioCh)
  <2>1. /\ audioCh' = Tail(audioCh)
        /\ \A c \in Callbacks : holds'[c] = IF c = <<p, s>> THEN h ELSE holds[c]
        /\ \A c \in Callbacks :
             callback'[c] = IF c = <<p, s>> THEN "select" ELSE callback[c]
    BY <1>0, <1>4 DEF Receive, IInv, TypeOK
  <2>2. /\ audioCh \in Seq(Frame)
        /\ Len(audioCh) \in Nat \ {0}
        /\ h = audioCh[1]
        /\ h \in Nat
    BY <1>4, HeadTailProperties, LenProperties, EmptySeq, SizesAreNat
    DEF IInv, TypeOK, Frame
  <2>3. \A j \in 1 .. Len(audioCh') :
          /\ j + 1 \in 1 .. Len(audioCh)
          /\ audioCh'[j] = audioCh[j + 1]
    BY <1>4, <2>1, <2>2, HeadTailProperties
  <2> HIDE DEF h
  <2>4. 1 \in 1 .. Len(audioCh)
    BY <2>2
  <2>5. h <= frames /\ \A j \in 1 .. Len(audioCh') : h < audioCh'[j]
    <3>1. \A j \in 1 .. Len(audioCh') : 1 < j + 1
      BY <2>2, <2>3
    <3> QED
      BY <2>2, <2>3, <2>4, <3>1 DEF OrderInv, TrackAhead
  <2>6. TrackAhead'
    <3>1. \A i, j \in 1 .. Len(audioCh') : i < j => audioCh'[i] < audioCh'[j]
      <4> SUFFICES ASSUME NEW i \in 1 .. Len(audioCh'), NEW j \in 1 .. Len(audioCh'), i < j
                   PROVE  audioCh'[i] < audioCh'[j]
        OBVIOUS
      <4>1. i + 1 \in 1 .. Len(audioCh) /\ j + 1 \in 1 .. Len(audioCh) /\ i + 1 < j + 1
        BY <2>3
      <4>2. audioCh[i + 1] < audioCh[j + 1]
        BY <4>1 DEF OrderInv, TrackAhead
      <4> QED
        BY <2>3, <4>2
    <3>2. \A i \in 1 .. Len(audioCh') : audioCh'[i] <= frames'
      BY <1>1, <2>3 DEF OrderInv, TrackAhead
    <3>3. \A c \in Callbacks : callback'[c] = "select" =>
            /\ holds'[c] <= frames'
            /\ \A j \in 1 .. Len(audioCh') : holds'[c] < audioCh'[j]
      BY <1>1, <2>1, <2>3, <2>5 DEF OrderInv, TrackAhead
    <3>4. \A q \in Pipelines : \A i \in 1 .. Len(Taken(q)) :
            /\ Taken(q)[i] <= frames'
            /\ \A j \in 1 .. Len(audioCh') : Taken(q)[i] < audioCh'[j]
      BY <1>1, <2>3 DEF OrderInv, TrackAhead
    <3> QED
      BY <1>2, <3>1, <3>2, <3>3, <3>4 DEF TrackAhead
  <2>7. \A q \in Pipelines : \A i \in 1 .. Len(Taken(q)) :
          Taken(q)[i] < h /\ Taken(q)[i] # h
    BY <2>2, <2>4, TakenType DEF OrderInv, TrackAhead, IInv
  <2>8. \A c \in Callbacks : callback[c] = "select" => holds[c] # h
    <3>1. \A c \in Callbacks : holds[c] \in Nat
      BY SizesAreNat DEF IInv, TypeOK
    <3> QED
      BY <2>2, <2>4, <3>1 DEF OrderInv, TrackAhead
  <2>9. HeldApart'
    <3>1. \A q \in Pipelines, t \in Starters :
            callback'[<<q, t>>] = "select" =>
              \A i \in 1 .. Len(Taken(q)) : Taken(q)[i] < holds'[<<q, t>>]
      BY <2>1, <2>7 DEF OrderInv, HeldApart, Callbacks
    <3>2. \A q, r \in Pipelines, t \in Starters :
            q # r /\ callback'[<<q, t>>] = "select" =>
              \A i \in 1 .. Len(Taken(r)) : Taken(r)[i] # holds'[<<q, t>>]
      BY <2>1, <2>7 DEF OrderInv, HeldApart, Callbacks
    <3>3. \A c, d \in Callbacks :
            c # d /\ callback'[c] = "select" /\ callback'[d] = "select" =>
              holds'[c] # holds'[d]
      BY <2>1, <2>8 DEF OrderInv, HeldApart
    <3> QED
      BY <1>2, <3>1, <3>2, <3>3 DEF HeldApart
  <2>10. InOrderOnce'
    BY <1>2 DEF OrderInv, InOrderOnce
  <2> QED
    BY <2>6, <2>9, <2>10 DEF OrderInv
<1> QED
  BY <1>3, <1>4

LEMMA ForwardOrder ==
  ASSUME IInv, OrderInv, NEW p \in Pipelines, NEW s \in Starters, Forward(p, s)
  PROVE  OrderInv'
<1>0. <<p, s>> \in Callbacks /\ callback[<<p, s>>] = "select"
  BY DEF Callbacks, Forward
<1>1. UNCHANGED <<frames, audioCh, holds>>
  BY DEF Forward, peerVars
<1>2. CASE p \in opusClosed
  <2>1. UNCHANGED <<callback, opusCh, decoded>>
    BY <1>2 DEF Forward
  <2> QED
    BY <1>1, <2>1, NothingMoves DEF Taken
<1>3. CASE p \notin opusClosed
  <2> DEFINE h == holds[<<p, s>>]
             T(q) == Taken(q)'
  <2>1. \A c \in Callbacks :
          callback'[c] = IF c = <<p, s>> THEN "range" ELSE callback[c]
    BY <1>0, <1>3 DEF Forward, IInv, TypeOK
  <2>2. \A t \in Starters : callback'[<<p, t>>] # "select"
    BY <1>0, <2>1, OneStarter DEF IInv, Starters, Callbacks
  <2>3. \A q \in Pipelines \ {p} : T(q) = Taken(q)
    BY <1>3, ForwardAppends
  <2>4. T(p) = Append(Taken(p), h)
    BY <1>3, ForwardAppends
  <2>5. h \in Frame /\ h \in Nat
    BY <1>0, SizesAreNat DEF IInv, TypeOK, Frame
  <2>6. Taken(p) \in Seq(Frame) /\ Len(Taken(p)) \in Nat
    BY TakenType DEF IInv
  <2> HIDE DEF T
  <2>7. \A i \in 1 .. Len(T(p)) :
          \/ i \in 1 .. Len(Taken(p)) /\ T(p)[i] = Taken(p)[i]
          \/ i = Len(Taken(p)) + 1 /\ T(p)[i] = h
    BY <2>4, <2>5, <2>6, AppendProperties
  <2>8. \A i \in 1 .. Len(Taken(p)) : Taken(p)[i] < h
    BY <1>0 DEF OrderInv, HeldApart
  <2>9. \A q \in Pipelines \ {p} : \A i \in 1 .. Len(Taken(q)) : Taken(q)[i] # h
    BY <1>0 DEF OrderInv, HeldApart
  <2>10. h <= frames /\ \A j \in 1 .. Len(audioCh) : h < audioCh[j]
    BY <1>0 DEF OrderInv, TrackAhead
  <2>11. \A q \in Pipelines : \A i \in 1 .. Len(T(q)) :
           /\ T(q)[i] <= frames
           /\ \A j \in 1 .. Len(audioCh) : T(q)[i] < audioCh[j]
    BY <2>3, <2>7, <2>10 DEF OrderInv, TrackAhead
  <2>12. TrackAhead'
    <3>1. \A c \in Callbacks : callback'[c] = "select" => callback[c] = "select"
      BY <2>1
    <3> QED
      BY <1>1, <2>11, <3>1 DEF OrderInv, TrackAhead, T
  <2>13. HeldApart'
    <3>1. \A q \in Pipelines, t \in Starters : callback'[<<q, t>>] = "select" =>
            /\ q # p
            /\ callback[<<q, t>>] = "select"
            /\ holds[<<q, t>>] # h
      BY <1>0, <2>1, <2>2 DEF OrderInv, HeldApart, Callbacks
    <3>2. \A q \in Pipelines, t \in Starters : callback'[<<q, t>>] = "select" =>
            \A i \in 1 .. Len(T(q)) : T(q)[i] < holds[<<q, t>>]
      BY <2>3, <3>1 DEF OrderInv, HeldApart
    <3>3. \A q, r \in Pipelines, t \in Starters :
            q # r /\ callback'[<<q, t>>] = "select" =>
              \A i \in 1 .. Len(T(r)) : T(r)[i] # holds[<<q, t>>]
      BY <2>3, <2>7, <3>1 DEF OrderInv, HeldApart
    <3>4. \A c, d \in Callbacks :
            c # d /\ callback'[c] = "select" /\ callback'[d] = "select" =>
              holds[c] # holds[d]
      BY <2>1 DEF OrderInv, HeldApart
    <3> QED
      BY <1>1, <3>2, <3>3, <3>4 DEF HeldApart, T
  <2>14. InOrderOnce'
    <3>1. \A i, j \in 1 .. Len(T(p)) : i < j => T(p)[i] < T(p)[j]
      <4> SUFFICES ASSUME NEW i \in 1 .. Len(T(p)), NEW j \in 1 .. Len(T(p)), i < j
                   PROVE  T(p)[i] < T(p)[j]
        OBVIOUS
      <4>1. i \in 1 .. Len(Taken(p)) /\ T(p)[i] = Taken(p)[i]
        BY <2>4, <2>5, <2>6, <2>7, AppendProperties
      <4>2. CASE j \in 1 .. Len(Taken(p)) /\ T(p)[j] = Taken(p)[j]
        BY <4>1, <4>2 DEF OrderInv, InOrderOnce
      <4>3. CASE T(p)[j] = h
        BY <2>8, <4>1, <4>3
      <4> QED
        BY <2>7, <4>2, <4>3
    <3>2. \A q \in Pipelines : \A i, j \in 1 .. Len(T(q)) : i < j => T(q)[i] < T(q)[j]
      BY <2>3, <3>1 DEF OrderInv, InOrderOnce
    <3>3. \A q, r \in Pipelines : q # r =>
            \A i \in 1 .. Len(T(q)), j \in 1 .. Len(T(r)) : T(q)[i] # T(r)[j]
      BY <2>3, <2>7, <2>9 DEF OrderInv, InOrderOnce
    <3> QED
      BY <3>2, <3>3 DEF InOrderOnce, T
  <2> QED
    BY <2>12, <2>13, <2>14 DEF OrderInv
<1> QED
  BY <1>2, <1>3

LEMMA NextOrder ==
  ASSUME IInv, OrderInv, [Next]_vars
  PROVE  OrderInv'
<1>1. CASE ReadFrame
  BY <1>1, ReadFrameOrder
<1>2. CASE TrackArrives \/ TrackEnds \/ TrackForgotten \/ CloseSession
  <2>1. UNCHANGED <<audioCh, frames, pipeVars>>
    BY <1>2 DEF TrackArrives, TrackEnds, TrackForgotten, CloseSession
  <2> QED
    BY <2>1, NothingMoves DEF pipeVars, Taken
<1>3. CASE TrackStartsHandler
  <2>1. /\ UNCHANGED <<audioCh, frames, holds, opusCh, decoded>>
        /\ callback' = callback \/ callback' = [callback EXCEPT ![<<captured, "OnTrack">>] = "range"]
    BY <1>3 DEF TrackStartsHandler, Start
  <2>2. \A c \in Callbacks : callback'[c] = "select" => callback[c] = "select"
    BY <2>1 DEF IInv, TypeOK
  <2> QED
    BY <2>1, <2>2, NothingMoves DEF Taken
<1>4. ASSUME NEW p \in Pipelines, OnAudioTrack(p) \/ Cancel(p)
      PROVE  OrderInv'
  <2>1. UNCHANGED <<audioCh, frames, pipeVars>>
    BY <1>4 DEF OnAudioTrack, Cancel, peerVars
  <2> QED
    BY <2>1, NothingMoves DEF pipeVars, Taken
<1>5. ASSUME NEW p \in Pipelines, StartsHandler(p)
      PROVE  OrderInv'
  <2>1. /\ UNCHANGED <<audioCh, frames, holds, opusCh, decoded>>
        /\ callback' = [callback EXCEPT ![<<p, "OnAudioTrack">>] = "range"]
    BY <1>5 DEF StartsHandler, Start, peerVars
  <2>2. \A c \in Callbacks : callback'[c] = "select" => callback[c] = "select"
    BY <2>1 DEF IInv, TypeOK
  <2> QED
    BY <2>1, <2>2, NothingMoves DEF Taken
<1>6. ASSUME NEW p \in Pipelines, Decode(p)
      PROVE  OrderInv'
  <2>1. UNCHANGED <<audioCh, frames, holds, callback>>
    BY <1>6 DEF Decode, peerVars
  <2>2. \A q \in Pipelines : Taken(q)' = Taken(q)
    BY <1>6, DecodeKeepsTaken DEF IInv
  <2> QED
    BY <2>1, <2>2, NothingMoves
<1>7. ASSUME NEW p \in Pipelines, NEW s \in Starters, GiveUp(p, s) \/ CloseOpus(p, s)
      PROVE  OrderInv'
  <2>1. /\ UNCHANGED <<audioCh, frames, holds, opusCh, decoded>>
        /\ callback' = [callback EXCEPT ![<<p, s>>] = "returned"]
    BY <1>7 DEF GiveUp, CloseOpus, peerVars
  <2>2. \A c \in Callbacks : callback'[c] = "select" => callback[c] = "select"
    BY <2>1 DEF IInv, TypeOK
  <2> QED
    BY <2>1, <2>2, NothingMoves DEF Taken
<1>8. CASE UNCHANGED vars
  <2>1. UNCHANGED <<audioCh, frames, pipeVars>>
    BY <1>8 DEF vars, peerVars
  <2> QED
    BY <2>1, NothingMoves DEF pipeVars, Taken
<1> QED
  BY <1>1, <1>2, <1>3, <1>4, <1>5, <1>6, <1>7, <1>8, ReceiveOrder, ForwardOrder
  DEF Next, PeerStep, PipelineStep, CallbackStep

LEMMA OrderInductive == Spec => [](IInv /\ OrderInv)
<1>1. Init => IInv /\ OrderInv
  BY InitIInv, InitOrder
<1>2. (IInv /\ OrderInv) /\ [Next]_vars => (IInv /\ OrderInv)'
  BY NextIInv, NextOrder
<1> QED
  BY <1>1, <1>2, PTL DEF Spec

\* Every frame is translated at most once, and each pipeline gets its frames in
\* the order in which they were spoken, for any number of successive pipelines,
\* frames and places in the channels.
THEOREM FramesInOrderOnce == Spec => []InOrderOnce
<1>1. OrderInv => InOrderOnce
  BY DEF OrderInv
<1> QED
  BY <1>1, OrderInductive, PTL

-----------------------------------------------------------------------------
(* The refinement of FrameLog.                                             *)

\* What a callback hands on to its pipeline belongs at the end of the log.
LEMMA ForwardLogged ==
  ASSUME IInv, OrderInv, NEW p \in Pipelines, NEW s \in Starters, Forward(p, s),
         NEW q \in Pipelines
  PROVE  Taken(q)' \in {Taken(q)} \cup {Append(Taken(q), f) : f \in Log(q)!Later}
<1>1. CASE p \in opusClosed
  <2>1. UNCHANGED <<opusCh, decoded>>
    BY <1>1 DEF Forward
  <2> QED
    BY <2>1 DEF Taken
<1>2. CASE p \notin opusClosed /\ q # p
  BY <1>2, ForwardAppends
<1>3. CASE p \notin opusClosed /\ q = p
  <2> DEFINE h == holds[<<p, s>>]
  <2>1. Taken(p)' = Append(Taken(p), h)
    BY <1>3, ForwardAppends
  <2>2. <<p, s>> \in Callbacks /\ callback[<<p, s>>] = "select"
    BY DEF Callbacks, Forward
  <2>3. h \in Frame /\ h <= frames /\ frames \in Nat
    BY <2>2, SizesAreNat DEF OrderInv, TrackAhead, IInv, TypeOK
  <2>4. \A i \in 1 .. Len(Taken(p)) : Taken(p)[i] < h
    BY <2>2 DEF OrderInv, HeldApart
  <2>5. h \in Log(p)!Later
    BY <2>3, <2>4, SizesAreNat DEF Log!Later, Frame
  <2> QED
    BY <1>3, <2>1, <2>5
<1> QED
  BY <1>1, <1>2, <1>3

\* A step that brings a pipeline no frame.
LEMMA NothingLogged ==
  ASSUME UNCHANGED <<frames, decoded, opusCh>>, NEW q \in Pipelines
  PROVE  UNCHANGED Log(q)!lvars
BY DEF Log!lvars, Taken

LEMMA NextLogged ==
  ASSUME IInv, OrderInv, [Next]_vars, NEW q \in Pipelines
  PROVE  [Log(q)!Next]_(Log(q)!lvars)
<1>1. CASE ReadFrame
  <2>1. frames' = frames + 1 /\ Taken(q)' = Taken(q)
    BY <1>1 DEF ReadFrame, pipeVars, Taken
  <2> QED
    BY <2>1 DEF Log!Next
<1>2. ASSUME NEW p \in Pipelines, Decode(p)
      PROVE  UNCHANGED Log(q)!lvars
  <2>1. frames' = frames /\ Taken(q)' = Taken(q)
    BY <1>2, DecodeKeepsTaken DEF Decode, peerVars, IInv
  <2> QED
    BY <2>1 DEF Log!lvars
<1>3. ASSUME NEW p \in Pipelines, NEW s \in Starters, Forward(p, s)
      PROVE  Log(q)!Next
  <2>1. frames' = frames
    BY <1>3 DEF Forward, peerVars
  <2>2. Taken(q)' \in {Taken(q)} \cup {Append(Taken(q), f) : f \in Log(q)!Later}
    BY <1>3, ForwardLogged
  <2> QED
    BY <2>1, <2>2 DEF Log!Next
<1>4. CASE \/ TrackArrives \/ TrackStartsHandler \/ TrackEnds \/ TrackForgotten
           \/ CloseSession \/ UNCHANGED vars
  BY <1>4, NothingLogged
  DEF TrackArrives, TrackStartsHandler, TrackEnds, TrackForgotten, CloseSession, vars,
      peerVars, pipeVars
<1>5. ASSUME NEW p \in Pipelines, OnAudioTrack(p) \/ StartsHandler(p) \/ Cancel(p)
      PROVE  UNCHANGED Log(q)!lvars
  BY <1>5, NothingLogged DEF OnAudioTrack, StartsHandler, Cancel, peerVars, pipeVars
<1>6. ASSUME NEW p \in Pipelines, NEW s \in Starters,
             Receive(p, s) \/ GiveUp(p, s) \/ CloseOpus(p, s)
      PROVE  UNCHANGED Log(q)!lvars
  BY <1>6, NothingLogged DEF Receive, GiveUp, CloseOpus, peerVars
<1> QED
  BY <1>1, <1>2, <1>3, <1>4, <1>5, <1>6 DEF Next, PeerStep, PipelineStep, CallbackStep

\* What reaches the decoder of a pipeline is a log of frames that only grows,
\* each later than all before it: OnTrack's channel and the callbacks never
\* bring a frame late, again, or in the place of another.
THEOREM Implements == Spec => Refinement
<1>1. Init => \A p \in Pipelines : Log(p)!Init
  <2>1. <<>> \o <<>> = <<>>
    OBVIOUS
  <2> QED
    BY <2>1 DEF Init, Log!Init, Taken
<1>2. IInv /\ OrderInv /\ [Next]_vars
        => [\A p \in Pipelines : [Log(p)!Next]_(Log(p)!lvars)]_vars
  BY NextLogged
<1> QED
  BY <1>1, <1>2, OrderInductive, PTL DEF Spec, Refinement
=============================================================================
