-------------------------- MODULE AudioHalfProofs --------------------------
(***************************************************************************)
(* For any number of frames and texts and any capacities: the frames keep  *)
(* their order up to Whisper, drainOldest keeps the newest, the last one   *)
(* is sent, and the wait group counts the goroutines that are there.       *)
(***************************************************************************)
EXTENDS AudioHalf, SequenceTheorems, TLAPS

\* The goroutines of a stage are started when runHalf gets to it.
StagesKnown ==
  /\ run = "decode" => bridge = "none" /\ decoder = "none"
  /\ run \in {"decode", "translate"} => forwarder = "none" /\ sender = "none"
  /\ sender = "none" <=> wire = "none"
  /\ decoder = "none" <=> bridge = "none"

\* What drainOldest has done with the frame it was given.
BridgeKnown ==
  /\ bridge = "none" => bpCh = <<>> /\ fresh = 0
  /\ bridge = "offerAgain" => bpCh = <<>>
  /\ bridge \in {"receive", "exit"} =>
       \/ bpCh = <<fresh>>
       \/ bpCh = <<>> /\ sending = fresh

\* What the sender has done with the frame that it took.
SenderKnown ==
  /\ sender = "none" => sending = 0
  /\ sender \in {"none", "select"} => lastSent = sending
  /\ wire = "closing" => sender \in {"wait", "exit"}

\* A goroutine that is about to hand on a frame has one.
HandsFull ==
  /\ decoder = "send" => decoded \in Frame
  /\ bridge \in {"offer", "drain", "offerAgain"} => fresh \in Frame

WaitGroup == StopIsLast /\ StagesKnown

FrameInv == BridgeKnown /\ SenderKnown /\ LastFrameSent

-----------------------------------------------------------------------------
(* Order, by the sets of frames that each place holds.                     *)

Elems(s) == {s[i] : i \in 1 .. Len(s)}

Held(condition, f) == IF condition THEN {f} ELSE {}

Before(A, B) == \A a \in A, b \in B : a < b

InSender == Held(sender = "write", sending)
InBridge == Held(bridge \in {"offer", "drain", "offerAgain"}, fresh)
InDecoder == Held(decoder = "send", decoded)

\* The frames that have not got to a place yet.
BeforeDecoder == Elems(opusCh)
BeforePcm == InDecoder \cup BeforeDecoder
BeforeBridge == Elems(pcmCh) \cup BeforePcm
BeforeBp == InBridge \cup BeforeBridge
BeforeSender == Elems(bpCh) \cup BeforeBp
BeforeWhisper == InSender \cup BeforeSender

Placed ==
  /\ Increasing(opusCh)
  /\ Increasing(pcmCh)
  /\ Before(InDecoder, BeforeDecoder)
  /\ Before(Elems(pcmCh), BeforePcm)
  /\ Before(InBridge, BeforeBridge)
  /\ Before(Elems(bpCh), BeforeBp)
  /\ Before(InSender, BeforeSender)
  /\ Before({lastSent}, BeforeWhisper)
  /\ \A f \in {lastSent} \cup BeforeWhisper : f <= frames

\* The inductive invariant.
IInv == TypeOK /\ HandsFull /\ WaitGroup /\ FrameInv /\ Placed

-----------------------------------------------------------------------------
(* Types.                                                                  *)

LEMMA InitType ==
  ASSUME Init
  PROVE  TypeOK /\ HandsFull
<1>1. <<>> \in Seq(Frame) /\ Len(<<>>) = 0
  OBVIOUS
<1>2. /\ 0 \in 0 .. MaxFrames /\ 0 \in 0 .. MaxTexts /\ 0 \in 0 .. SttCap
      /\ 0 \in 0 .. OutCap /\ 0 <= OpusCap /\ 0 <= PcmCap
  BY BoundsAreNat, SizesArePositive
<1>3. {FALSE} \subseteq BOOLEAN /\ {0} \subseteq 0 .. MaxFrames /\ 0 \in Nat /\ 1 \in 0 .. 3
  BY <1>2
<1>4. HandsFull
  BY DEF Init, HandsFull
<1>5. {cancelled, opusClosed, stopped} = {FALSE} /\ {decoded, fresh, sending, lastSent} = {0}
  BY DEF Init
<1>6. /\ {cancelled, opusClosed, stopped} \subseteq BOOLEAN
      /\ {decoded, fresh, sending, lastSent} \subseteq 0 .. MaxFrames
  BY <1>3, <1>5
<1>7. /\ opusCh \in Seq(Frame) /\ Len(opusCh) <= OpusCap
      /\ pcmCh \in Seq(Frame) /\ Len(pcmCh) <= PcmCap
      /\ bpCh \in Seq(Frame) /\ Len(bpCh) <= 1
  BY <1>1, <1>2 DEF Init
<1>8. /\ frames \in 0 .. MaxFrames /\ texts \in 0 .. MaxTexts /\ sttCh \in 0 .. SttCap
      /\ audioCh \in 0 .. OutCap /\ opusOutCh \in 0 .. OutCap /\ accum \in Nat
      /\ wg \in 0 .. 3
  BY <1>2 DEF Init
<1>9. TypeOK
  BY <1>6, <1>7, <1>8 DEF Init, TypeOK
<1> QED
  BY <1>4, <1>9

LEMMA OutsideType ==
  ASSUME TypeOK, HandsFull, Capture \/ TrackEnds \/ Cancel \/ PipelineStop \/ WhisperCloses
  PROVE  TypeOK' /\ HandsFull'
<1>1. CASE Capture
  <2>1. frames' \in Frame /\ frames' \in 0 .. MaxFrames
    BY <1>1, BoundsAreNat DEF Capture, TypeOK, Frame
  <2>2. /\ Append(opusCh, frames') \in Seq(Frame)
        /\ Len(Append(opusCh, frames')) = Len(opusCh) + 1
        /\ Len(opusCh) \in Nat
    BY <2>1, AppendProperties, LenProperties DEF TypeOK
  <2>3. Len(opusCh') <= OpusCap /\ opusCh' \in Seq(Frame)
    BY <1>1, <2>2, SizesArePositive DEF Capture
  <2> QED
    BY <1>1, <2>1, <2>3
    DEF Capture, TypeOK, HandsFull, runVars, bridgeVars, sttVars, outVars
<1>2. CASE TrackEnds
  BY <1>2 DEF TrackEnds, TypeOK, HandsFull, runVars, bridgeVars, sttVars, outVars
<1>3. CASE Cancel
  BY <1>3 DEF Cancel, TypeOK, HandsFull, runVars, inVars, bridgeVars, sttVars, outVars
<1>4. CASE PipelineStop
  BY <1>4 DEF PipelineStop, TypeOK, HandsFull, inVars, bridgeVars, sttVars, outVars
<1>5. CASE WhisperCloses
  BY <1>5 DEF WhisperCloses, TypeOK, HandsFull, runVars, inVars, bridgeVars, outVars
<1> QED
  BY <1>1, <1>2, <1>3, <1>4, <1>5

LEMMA RunType ==
  ASSUME TypeOK, HandsFull, StopIsLast', RunStep \/ ForwarderEnds
  PROVE  TypeOK' /\ HandsFull'
<1>1. wg' \in 0 .. 3
  BY DEF StopIsLast, Counted
<1>2. CASE StartDecode
  BY <1>1, <1>2 DEF StartDecode, Return, TypeOK, HandsFull, sttVars, outVars
<1>3. CASE StartTranslate
  BY <1>1, <1>3 DEF StartTranslate, Return, TypeOK, HandsFull, inVars, bridgeVars
<1>4. CASE StartEncode
  BY <1>1, <1>4 DEF StartEncode, Return, TypeOK, HandsFull, inVars, bridgeVars, sttVars
<1>5. CASE SendFrame
  <2>1. opusOutCh' \in 0 .. OutCap
    BY <1>5, SizesArePositive DEF SendFrame, TypeOK
  <2> QED
    BY <1>5, <2>1 DEF SendFrame, TypeOK, HandsFull, runVars, inVars, bridgeVars, sttVars
<1>6. CASE SendEnds
  BY <1>1, <1>6 DEF SendEnds, Return, TypeOK, HandsFull, inVars, bridgeVars, sttVars, outVars
<1>7. CASE ForwarderEnds
  BY <1>1, <1>7 DEF ForwarderEnds, TypeOK, HandsFull, inVars, bridgeVars, sttVars
<1> QED
  BY <1>2, <1>3, <1>4, <1>5, <1>6, <1>7 DEF RunStep

LEMMA DecoderType ==
  ASSUME TypeOK, HandsFull, DecoderStep
  PROVE  TypeOK' /\ HandsFull'
<1>1. CASE DecoderReceives
  <2>1. opusCh \in Seq(Frame) /\ opusCh # <<>>
    BY <1>1 DEF DecoderReceives, TypeOK
  <2>2. /\ Head(opusCh) \in Frame /\ Tail(opusCh) \in Seq(Frame)
        /\ Len(Tail(opusCh)) = Len(opusCh) - 1 /\ Len(opusCh) \in Nat
    BY <2>1, HeadTailProperties, LenProperties
  <2>3. Len(Tail(opusCh)) <= OpusCap
    BY <2>2, SizesArePositive DEF TypeOK
  <2>4. Head(opusCh) \in 0 .. MaxFrames
    BY <2>2, BoundsAreNat DEF Frame
  <2> QED
    BY <1>1, <2>2, <2>3, <2>4
    DEF DecoderReceives, TypeOK, HandsFull, runVars, bridgeVars, sttVars, outVars
<1>2. CASE DecoderSends
  <2>1. pcmCh \in Seq(Frame) /\ decoded \in Frame
    BY <1>2 DEF DecoderSends, TypeOK, HandsFull
  <2>2. /\ Append(pcmCh, decoded) \in Seq(Frame)
        /\ Len(Append(pcmCh, decoded)) = Len(pcmCh) + 1
        /\ Len(pcmCh) \in Nat
    BY <2>1, AppendProperties, LenProperties
  <2>3. Len(pcmCh') <= PcmCap /\ pcmCh' \in Seq(Frame)
    BY <1>2, <2>2, SizesArePositive DEF DecoderSends
  <2> QED
    BY <1>2, <2>3
    DEF DecoderSends, TypeOK, HandsFull, runVars, bridgeVars, sttVars, outVars
<1>3. CASE DecoderEnds
  BY <1>3 DEF DecoderEnds, TypeOK, HandsFull, runVars, bridgeVars, sttVars, outVars
<1> QED
  BY <1>1, <1>2, <1>3 DEF DecoderStep

LEMMA BridgeType ==
  ASSUME TypeOK, HandsFull, StopIsLast', BridgeStep
  PROVE  TypeOK' /\ HandsFull'
<1>0. wg' \in 0 .. 3
  BY DEF StopIsLast, Counted
<1>1. CASE BridgeReceives
  <2>1. pcmCh \in Seq(Frame) /\ pcmCh # <<>>
    BY <1>1 DEF BridgeReceives, TypeOK
  <2>2. /\ Head(pcmCh) \in Frame /\ Tail(pcmCh) \in Seq(Frame)
        /\ Len(Tail(pcmCh)) = Len(pcmCh) - 1 /\ Len(pcmCh) \in Nat
    BY <2>1, HeadTailProperties, LenProperties
  <2>3. Len(Tail(pcmCh)) <= PcmCap
    BY <2>2, SizesArePositive DEF TypeOK
  <2>4. Head(pcmCh) \in 0 .. MaxFrames
    BY <2>2, BoundsAreNat DEF Frame
  <2> QED
    BY <1>1, <2>2, <2>3, <2>4
    DEF BridgeReceives, TypeOK, HandsFull, runVars, sttVars, outVars
<1>2. \A f \in Frame : <<f>> \in Seq(Frame) /\ Len(<<f>>) = 1
  OBVIOUS
<1>3. <<>> \in Seq(Frame) /\ Len(<<>>) = 0
  OBVIOUS
<1>4. CASE BridgeOffers
  <2>1. bpCh' \in Seq(Frame) /\ Len(bpCh') <= 1
    <3>1. CASE bpCh = <<>>
      <4>1. fresh \in Frame /\ bpCh' = <<fresh>>
        BY <1>4, <3>1 DEF BridgeOffers, HandsFull
      <4>2. <<fresh>> \in Seq(Frame) /\ Len(<<fresh>>) = 1
        BY <4>1
      <4> QED
        BY <4>1, <4>2
    <3>2. CASE bpCh # <<>>
      BY <1>4, <3>2 DEF BridgeOffers, TypeOK
    <3> QED
      BY <3>1, <3>2
  <2> QED
    BY <1>4, <2>1 DEF BridgeOffers, TypeOK, HandsFull, runVars, inVars, sttVars, outVars
<1>5. CASE BridgeDrains
  <2>1. bpCh' \in Seq(Frame) /\ Len(bpCh') <= 1
    BY <1>3, <1>5 DEF BridgeDrains
  <2> QED
    BY <1>5, <2>1 DEF BridgeDrains, TypeOK, HandsFull, runVars, inVars, sttVars, outVars
<1>6. CASE BridgeOffersAgain
  <2>1. bpCh' \in Seq(Frame) /\ Len(bpCh') <= 1
    BY <1>2, <1>6 DEF BridgeOffersAgain, TypeOK, HandsFull
  <2> QED
    BY <1>6, <2>1 DEF BridgeOffersAgain, TypeOK, HandsFull, runVars, inVars, sttVars, outVars
<1>7. CASE BridgeEnds
  BY <1>0, <1>7 DEF BridgeEnds, TypeOK, HandsFull, inVars, sttVars, outVars
<1> QED
  BY <1>1, <1>4, <1>5, <1>6, <1>7 DEF BridgeStep

LEMMA SenderType ==
  ASSUME TypeOK, HandsFull, SenderStep
  PROVE  TypeOK' /\ HandsFull'
<1>1. CASE SenderReceives
  <2>1. bpCh \in Seq(Frame) /\ bpCh # <<>>
    BY <1>1 DEF SenderReceives, TypeOK
  <2>2. /\ Head(bpCh) \in Frame /\ Tail(bpCh) \in Seq(Frame)
        /\ Len(Tail(bpCh)) = Len(bpCh) - 1 /\ Len(bpCh) \in Nat
    BY <2>1, HeadTailProperties, LenProperties
  <2>3. Len(Tail(bpCh)) <= 1
    BY <2>2 DEF TypeOK
  <2>4. Head(bpCh) \in 0 .. MaxFrames
    BY <2>2, BoundsAreNat DEF Frame
  <2> QED
    BY <1>1, <2>2, <2>3, <2>4
    DEF SenderReceives, TypeOK, HandsFull, runVars, inVars, outVars
<1>2. CASE SenderWrites
  BY <1>2 DEF SenderWrites, TypeOK, HandsFull, runVars, inVars, bridgeVars, outVars
<1>3. CASE SenderStops
  BY <1>3 DEF SenderStops, TypeOK, HandsFull, runVars, inVars, bridgeVars, outVars
<1>4. CASE SenderEnds
  BY <1>4 DEF SenderEnds, TypeOK, HandsFull, runVars, inVars, bridgeVars, outVars
<1> QED
  BY <1>1, <1>2, <1>3, <1>4 DEF SenderStep

LEMMA ReceiverType ==
  ASSUME TypeOK, HandsFull, ReceiverStep
  PROVE  TypeOK' /\ HandsFull'
<1>1. CASE ReceiverLoops
  BY <1>1 DEF ReceiverLoops, TypeOK, HandsFull, runVars, inVars, bridgeVars, outVars
<1>2. CASE ReceiverReads
  <2>1. texts' \in 0 .. MaxTexts
    BY <1>2, BoundsAreNat DEF ReceiverReads, TypeOK
  <2> QED
    BY <1>2, <2>1 DEF ReceiverReads, TypeOK, HandsFull, runVars, inVars, bridgeVars, outVars
<1>3. CASE ReceiverLost
  BY <1>3 DEF ReceiverLost, TypeOK, HandsFull, runVars, inVars, bridgeVars, outVars
<1>4. CASE ReceiverDelivers
  <2>1. sttCh' \in 0 .. SttCap
    BY <1>4, SizesArePositive DEF ReceiverDelivers, TypeOK
  <2> QED
    BY <1>4, <2>1 DEF ReceiverDelivers, TypeOK, HandsFull, runVars, inVars, bridgeVars, outVars
<1> QED
  BY <1>1, <1>2, <1>3, <1>4 DEF ReceiverStep

LEMMA TranslatorType ==
  ASSUME TypeOK, HandsFull, TranslatorStep
  PROVE  TypeOK' /\ HandsFull'
<1>1. CASE TranslatorReceives
  <2>1. sttCh' \in 0 .. SttCap
    BY <1>1, SizesArePositive DEF TranslatorReceives, TypeOK
  <2> QED
    BY <1>1, <2>1 DEF TranslatorReceives, TypeOK, HandsFull, runVars, inVars, bridgeVars
<1>2. CASE TranslatorSpeaks
  <2>1. audioCh' \in 0 .. OutCap
    BY <1>2, SizesArePositive DEF TranslatorSpeaks, TypeOK
  <2> QED
    BY <1>2, <2>1 DEF TranslatorSpeaks, TypeOK, HandsFull, runVars, inVars, bridgeVars, sttVars
<1>3. CASE TranslatorEnds
  BY <1>3 DEF TranslatorEnds, TypeOK, HandsFull, runVars, inVars, bridgeVars, sttVars
<1> QED
  BY <1>1, <1>2, <1>3 DEF TranslatorStep

LEMMA EncoderType ==
  ASSUME TypeOK, HandsFull, EncoderStep
  PROVE  TypeOK' /\ HandsFull'
<1>0. /\ OutCap \in Nat /\ FrameSize \in Nat /\ \A n \in Chunk : n \in Nat
      /\ accum \in Nat /\ audioCh \in 0 .. OutCap /\ opusOutCh \in 0 .. OutCap
  BY SizesArePositive DEF TypeOK
<1>1. CASE EncoderReceives
  <2>1. audioCh' \in 0 .. OutCap
    BY <1>0, <1>1 DEF EncoderReceives
  <2>2. accum' \in Nat
    BY <1>0, <1>1 DEF EncoderReceives
  <2> QED
    BY <1>1, <2>1, <2>2
    DEF EncoderReceives, TypeOK, HandsFull, runVars, inVars, bridgeVars, sttVars
<1>2. CASE EncoderEncodes
  <2>1. opusOutCh' \in 0 .. OutCap /\ accum' \in Nat
    BY <1>0, <1>2 DEF EncoderEncodes
  <2> QED
    BY <1>2, <2>1
    DEF EncoderEncodes, TypeOK, HandsFull, runVars, inVars, bridgeVars, sttVars
<1>3. CASE EncoderEnds
  BY <1>3 DEF EncoderEnds, TypeOK, HandsFull, runVars, inVars, bridgeVars, sttVars
<1> QED
  BY <1>1, <1>2, <1>3 DEF EncoderStep

-----------------------------------------------------------------------------
(* The wait group.                                                         *)

LEMMA InitGroup ==
  ASSUME Init
  PROVE  WaitGroup
BY DEF Init, WaitGroup, StopIsLast, StagesKnown, Counted

LEMMA RunGroup ==
  ASSUME TypeOK, WaitGroup, RunStep \/ PipelineStop \/ ForwarderEnds
  PROVE  WaitGroup'
<1> USE DEF WaitGroup, StopIsLast, StagesKnown, Counted
<1>1. CASE StartDecode
  BY <1>1 DEF StartDecode, Return, TypeOK, sttVars, outVars
<1>2. CASE StartTranslate
  BY <1>2 DEF StartTranslate, Return, TypeOK, inVars, bridgeVars
<1>3. CASE StartEncode
  BY <1>3 DEF StartEncode, Return, TypeOK, inVars, bridgeVars, sttVars
<1>4. CASE SendFrame
  BY <1>4 DEF SendFrame, runVars, inVars, bridgeVars, sttVars
<1>5. CASE SendEnds
  BY <1>5 DEF SendEnds, Return, TypeOK, inVars, bridgeVars, sttVars, outVars
<1>6. CASE PipelineStop
  BY <1>6 DEF PipelineStop, TypeOK, inVars, bridgeVars, sttVars, outVars
<1>7. CASE ForwarderEnds
  BY <1>7 DEF ForwarderEnds, TypeOK, inVars, bridgeVars, sttVars
<1> QED
  BY <1>1, <1>2, <1>3, <1>4, <1>5, <1>6, <1>7 DEF RunStep

LEMMA InGroup ==
  ASSUME TypeOK, WaitGroup,
         Capture \/ TrackEnds \/ Cancel \/ DecoderStep \/ BridgeStep
  PROVE  WaitGroup'
<1> USE DEF WaitGroup, StopIsLast, StagesKnown, Counted
<1>1. CASE Capture \/ TrackEnds \/ Cancel
  BY <1>1 DEF Capture, TrackEnds, Cancel, runVars, inVars, bridgeVars, sttVars, outVars
<1>2. CASE DecoderStep
  BY <1>2
  DEF DecoderStep, DecoderReceives, DecoderSends, DecoderEnds, runVars, bridgeVars,
      sttVars, outVars
<1>3. CASE BridgeReceives \/ BridgeOffers \/ BridgeDrains \/ BridgeOffersAgain
  BY <1>3
  DEF BridgeReceives, BridgeOffers, BridgeDrains, BridgeOffersAgain, runVars, inVars,
      sttVars, outVars
<1>4. CASE BridgeEnds
  BY <1>4 DEF BridgeEnds, TypeOK, inVars, sttVars, outVars
<1> QED
  BY <1>1, <1>2, <1>3, <1>4 DEF BridgeStep

LEMMA OutGroup ==
  ASSUME WaitGroup,
         SenderStep \/ ReceiverStep \/ WhisperCloses \/ TranslatorStep \/ EncoderStep
  PROVE  WaitGroup'
<1> USE DEF WaitGroup, StopIsLast, StagesKnown, Counted
<1>1. CASE SenderStep
  BY <1>1
  DEF SenderStep, SenderReceives, SenderWrites, SenderStops, SenderEnds, runVars, inVars,
      bridgeVars, outVars
<1>2. CASE ReceiverStep
  BY <1>2
  DEF ReceiverStep, ReceiverLoops, ReceiverReads, ReceiverLost, ReceiverDelivers,
      runVars, inVars, bridgeVars, outVars
<1>3. CASE WhisperCloses
  BY <1>3 DEF WhisperCloses, runVars, inVars, bridgeVars, outVars
<1>4. CASE TranslatorStep
  BY <1>4
  DEF TranslatorStep, TranslatorReceives, TranslatorSpeaks, TranslatorEnds, runVars,
      inVars, bridgeVars, sttVars
<1>5. CASE EncoderStep
  BY <1>5
  DEF EncoderStep, EncoderReceives, EncoderEncodes, EncoderEnds, runVars, inVars,
      bridgeVars, sttVars
<1> QED
  BY <1>1, <1>2, <1>3, <1>4, <1>5

-----------------------------------------------------------------------------
(* The frame that drainOldest was given.                                   *)

LEMMA InitFrame ==
  ASSUME Init
  PROVE  FrameInv
BY DEF Init, FrameInv, BridgeKnown, SenderKnown, LastFrameSent

LEMMA RunFrame ==
  ASSUME WaitGroup, FrameInv,
         \/ Capture \/ TrackEnds \/ Cancel \/ RunStep \/ PipelineStop \/ ForwarderEnds
         \/ DecoderStep
  PROVE  FrameInv'
<1> USE DEF FrameInv, BridgeKnown, SenderKnown, LastFrameSent
<1>1. CASE Capture \/ TrackEnds \/ Cancel
  BY <1>1 DEF Capture, TrackEnds, Cancel, runVars, inVars, bridgeVars, sttVars, outVars
<1>2. CASE StartDecode
  BY <1>2 DEF StartDecode, WaitGroup, StagesKnown, sttVars
<1>3. CASE StartTranslate
  BY <1>3 DEF StartTranslate, WaitGroup, StagesKnown, bridgeVars
<1>4. CASE StartEncode \/ SendFrame \/ SendEnds
  BY <1>4 DEF StartEncode, SendFrame, SendEnds, bridgeVars, sttVars
<1>5. CASE PipelineStop \/ ForwarderEnds
  BY <1>5 DEF PipelineStop, ForwarderEnds, bridgeVars, sttVars
<1>6. CASE DecoderStep
  BY <1>6
  DEF DecoderStep, DecoderReceives, DecoderSends, DecoderEnds, bridgeVars, sttVars
<1> QED
  BY <1>1, <1>2, <1>3, <1>4, <1>5, <1>6 DEF RunStep

LEMMA BridgeFrame ==
  ASSUME TypeOK, WaitGroup, FrameInv, BridgeStep
  PROVE  FrameInv'
<1> USE DEF FrameInv, BridgeKnown, SenderKnown, LastFrameSent
<1>1. CASE BridgeReceives
  BY <1>1 DEF BridgeReceives, sttVars
<1>2. CASE BridgeOffers
  BY <1>2 DEF BridgeOffers, sttVars
<1>3. CASE BridgeDrains
  BY <1>3 DEF BridgeDrains, sttVars
<1>4. CASE BridgeOffersAgain
  BY <1>4 DEF BridgeOffersAgain, sttVars
<1>5. CASE BridgeEnds
  BY <1>5 DEF BridgeEnds, sttVars
<1> QED
  BY <1>1, <1>2, <1>3, <1>4, <1>5 DEF BridgeStep

LEMMA SenderFrame ==
  ASSUME TypeOK, WaitGroup, FrameInv, SenderStep
  PROVE  FrameInv'
<1> USE DEF FrameInv, BridgeKnown, SenderKnown, LastFrameSent
<1>1. CASE SenderReceives
  <2>1. bpCh = <<Head(bpCh)>> /\ Tail(bpCh) = <<>>
    <3>1. bpCh \in Seq(Frame) /\ bpCh # <<>> /\ Len(bpCh) <= 1
      BY <1>1 DEF SenderReceives, TypeOK
    <3>2. Len(bpCh) = 1
      <4>1. Len(bpCh) \in Nat
        BY <3>1, LenProperties
      <4>2. Len(bpCh) # 0
        BY <3>1, EmptySeq
      <4> QED
        BY <3>1, <4>1, <4>2
    <3>3. Tail(bpCh) \in Seq(Frame) /\ Len(Tail(bpCh)) = 0
      BY <3>1, <3>2, HeadTailProperties
    <3>4. Tail(bpCh) = <<>>
      BY <3>3, EmptySeq
    <3>5. bpCh = <<bpCh[1]>> /\ Head(bpCh) = bpCh[1]
      BY <3>1, <3>2
    <3> QED
      BY <3>4, <3>5
  <2>2. bpCh = <<fresh>> => Head(bpCh) = fresh
    OBVIOUS
  <2> QED
    BY <1>1, <2>1, <2>2 DEF SenderReceives
<1>2. CASE SenderWrites
  BY <1>2 DEF SenderWrites, WaitGroup, StagesKnown, bridgeVars
<1>3. CASE SenderStops
  BY <1>3 DEF SenderStops, WaitGroup, StagesKnown, bridgeVars
<1>4. CASE SenderEnds
  BY <1>4 DEF SenderEnds, WaitGroup, StagesKnown, bridgeVars
<1> QED
  BY <1>1, <1>2, <1>3, <1>4 DEF SenderStep

LEMMA OutFrame ==
  ASSUME FrameInv, ReceiverStep \/ WhisperCloses \/ TranslatorStep \/ EncoderStep
  PROVE  FrameInv'
<1> USE DEF FrameInv, BridgeKnown, SenderKnown, LastFrameSent
<1>1. CASE ReceiverStep
  BY <1>1
  DEF ReceiverStep, ReceiverLoops, ReceiverReads, ReceiverLost, ReceiverDelivers, bridgeVars
<1>2. CASE WhisperCloses
  BY <1>2 DEF WhisperCloses, bridgeVars
<1>3. CASE TranslatorStep
  BY <1>3
  DEF TranslatorStep, TranslatorReceives, TranslatorSpeaks, TranslatorEnds, bridgeVars,
      sttVars
<1>4. CASE EncoderStep
  BY <1>4
  DEF EncoderStep, EncoderReceives, EncoderEncodes, EncoderEnds, bridgeVars, sttVars
<1> QED
  BY <1>1, <1>2, <1>3, <1>4

-----------------------------------------------------------------------------
(* Sequences and the sets of their elements.                               *)

LEMMA ElemsEmpty == Elems(<<>>) = {} /\ Increasing(<<>>)
BY DEF Elems, Increasing

LEMMA ElemsSingle ==
  ASSUME NEW e
  PROVE  Elems(<<e>>) = {e} /\ Increasing(<<e>>)
<1>1. Len(<<e>>) = 1 /\ <<e>>[1] = e
  OBVIOUS
<1>2. \A i \in 1 .. 1 : i = 1
  OBVIOUS
<1> QED
  BY <1>1, <1>2 DEF Elems, Increasing

LEMMA ElemsHeld ==
  ASSUME NEW c \in BOOLEAN, NEW e \in Int
  PROVE  /\ If(c, e) \in Seq(Int)
         /\ Elems(If(c, e)) = Held(c, e)
         /\ Increasing(If(c, e))
<1>1. CASE c
  <2>1. If(c, e) = <<e>> /\ Held(c, e) = {e}
    BY <1>1 DEF If, Held
  <2>2. <<e>> \in Seq(Int)
    OBVIOUS
  <2> QED
    BY <2>1, <2>2, ElemsSingle
<1>2. CASE ~c
  <2>1. If(c, e) = <<>> /\ Held(c, e) = {}
    BY <1>2 DEF If, Held
  <2>2. <<>> \in Seq(Int)
    OBVIOUS
  <2> QED
    BY <2>1, <2>2, ElemsEmpty
<1> QED
  BY <1>1, <1>2

LEMMA ElemsIn ==
  ASSUME NEW S, NEW s \in Seq(S)
  PROVE  Elems(s) \subseteq S
BY DEF Elems

LEMMA ElemsAppend ==
  ASSUME NEW s \in Seq(Int), NEW e \in Int
  PROVE  /\ Elems(Append(s, e)) = Elems(s) \cup {e}
         /\ Increasing(s) /\ Before(Elems(s), {e}) => Increasing(Append(s, e))
<1> DEFINE t == Append(s, e)
<1>1. /\ Len(s) \in Nat /\ Len(t) = Len(s) + 1 /\ t[Len(s) + 1] = e
      /\ \A i \in 1 .. Len(s) : t[i] = s[i]
  BY AppendProperties, LenProperties
<1>2. 1 .. Len(t) = (1 .. Len(s)) \cup {Len(s) + 1}
  BY <1>1
<1>3. Elems(t) = Elems(s) \cup {e}
  BY <1>1, <1>2 DEF Elems
<1>4. ASSUME Increasing(s), Before(Elems(s), {e}),
             NEW i \in 1 .. Len(t), NEW j \in 1 .. Len(t), i < j
      PROVE  t[i] < t[j]
  <2>1. i \in 1 .. Len(s) /\ s[i] \in Elems(s)
    BY <1>1, <1>4 DEF Elems
  <2>2. CASE j \in 1 .. Len(s)
    BY <1>1, <1>4, <2>1, <2>2 DEF Increasing
  <2>3. CASE j = Len(s) + 1
    BY <1>1, <1>4, <2>1, <2>3 DEF Before
  <2> QED
    BY <1>2, <2>2, <2>3
<1> QED
  BY <1>3, <1>4 DEF Increasing

LEMMA ElemsTail ==
  ASSUME NEW s \in Seq(Int), s # <<>>
  PROVE  /\ Elems(s) = {Head(s)} \cup Elems(Tail(s))
         /\ Increasing(s) => Increasing(Tail(s)) /\ Before({Head(s)}, Elems(Tail(s)))
<1> DEFINE t == Tail(s)
<1>1. /\ Len(s) \in Nat \ {0} /\ Len(t) = Len(s) - 1 /\ Head(s) = s[1]
      /\ \A i \in 1 .. Len(t) : t[i] = s[i + 1]
  BY HeadTailProperties, LenProperties, EmptySeq
<1>2. Elems(s) \subseteq {s[1]} \cup Elems(t)
  <2> SUFFICES ASSUME NEW i \in 1 .. Len(s), i # 1
               PROVE  s[i] \in Elems(t)
    BY DEF Elems
  <2>1. i - 1 \in 1 .. Len(t) /\ t[i - 1] = s[i]
    BY <1>1
  <2> QED
    BY <2>1 DEF Elems
<1>3. {s[1]} \cup Elems(t) \subseteq Elems(s)
  <2>1. \A i \in 1 .. Len(t) : i + 1 \in 1 .. Len(s)
    BY <1>1
  <2>2. 1 \in 1 .. Len(s)
    BY <1>1
  <2> QED
    BY <1>1, <2>1, <2>2 DEF Elems
<1>4. ASSUME Increasing(s)
      PROVE  Increasing(t) /\ Before({s[1]}, Elems(t))
  <2>1. ASSUME NEW i \in 1 .. Len(t), NEW j \in 1 .. Len(t), i < j
        PROVE  t[i] < t[j]
    BY <1>1, <1>4, <2>1 DEF Increasing
  <2>2. ASSUME NEW i \in 1 .. Len(t)
        PROVE  s[1] < t[i]
    BY <1>1, <1>4 DEF Increasing
  <2> QED
    BY <2>1, <2>2 DEF Increasing, Before, Elems
<1> QED
  BY <1>1, <1>2, <1>3, <1>4

LEMMA ElemsConcat ==
  ASSUME NEW s \in Seq(Int), NEW t \in Seq(Int),
         Increasing(s), Increasing(t), Before(Elems(s), Elems(t))
  PROVE  /\ s \o t \in Seq(Int)
         /\ Elems(s \o t) = Elems(s) \cup Elems(t)
         /\ Increasing(s \o t)
<1> DEFINE u == s \o t
<1>1. /\ u \in Seq(Int) /\ Len(s) \in Nat /\ Len(t) \in Nat /\ Len(u) = Len(s) + Len(t)
      /\ \A i \in 1 .. Len(u) : u[i] = IF i <= Len(s) THEN s[i] ELSE t[i - Len(s)]
  BY ConcatProperties, LenProperties
<1>2. \A i \in 1 .. Len(u) : i \in 1 .. Len(s) \/ i - Len(s) \in 1 .. Len(t)
  BY <1>1
<1>3. Elems(u) \subseteq Elems(s) \cup Elems(t)
  <2> SUFFICES ASSUME NEW i \in 1 .. Len(u)
               PROVE  u[i] \in Elems(s) \cup Elems(t)
    BY DEF Elems
  <2>1. CASE i \in 1 .. Len(s)
    BY <1>1, <2>1 DEF Elems
  <2>2. CASE i - Len(s) \in 1 .. Len(t)
    <3>1. u[i] = t[i - Len(s)]
      BY <1>1, <2>2
    <3> QED
      BY <2>2, <3>1 DEF Elems
  <2> QED
    BY <1>2, <2>1, <2>2
<1>4. Elems(s) \subseteq Elems(u)
  <2>1. \A i \in 1 .. Len(s) : i \in 1 .. Len(u) /\ u[i] = s[i]
    BY <1>1
  <2> QED
    BY <2>1 DEF Elems
<1>5. Elems(t) \subseteq Elems(u)
  <2>1. \A i \in 1 .. Len(t) : Len(s) + i \in 1 .. Len(u) /\ u[Len(s) + i] = t[i]
    BY <1>1
  <2> QED
    BY <2>1 DEF Elems
<1>6. ASSUME NEW i \in 1 .. Len(u), NEW j \in 1 .. Len(u), i < j
      PROVE  u[i] < u[j]
  <2>1. CASE j <= Len(s)
    BY <1>1, <1>6, <2>1 DEF Increasing
  <2>2. CASE i > Len(s)
    <3>1. /\ i - Len(s) \in 1 .. Len(t) /\ j - Len(s) \in 1 .. Len(t)
          /\ i - Len(s) < j - Len(s) /\ u[i] = t[i - Len(s)] /\ u[j] = t[j - Len(s)]
      BY <1>1, <1>6, <2>2
    <3> QED
      BY <3>1 DEF Increasing
  <2>3. CASE i <= Len(s) /\ j > Len(s)
    <3>1. /\ i \in 1 .. Len(s) /\ j - Len(s) \in 1 .. Len(t)
          /\ u[i] = s[i] /\ u[j] = t[j - Len(s)]
      BY <1>1, <2>3
    <3>2. s[i] \in Elems(s) /\ t[j - Len(s)] \in Elems(t)
      BY <3>1 DEF Elems
    <3> QED
      BY <3>1, <3>2 DEF Before
  <2> QED
    BY <1>1, <2>1, <2>2, <2>3
<1> QED
  BY <1>1, <1>3, <1>4, <1>5, <1>6 DEF Increasing

-----------------------------------------------------------------------------
(* The order of the frames.                                                *)

\* All that Placed depends on.
places == <<InSender, InBridge, InDecoder, opusCh, pcmCh, bpCh, lastSent, frames>>

LEMMA Unmoved ==
  ASSUME Placed, UNCHANGED places
  PROVE  Placed'
<1>1. /\ UNCHANGED <<InSender, InBridge, InDecoder, lastSent, frames, opusCh, pcmCh>>
      /\ Elems(bpCh)' = Elems(bpCh) /\ Elems(pcmCh)' = Elems(pcmCh)
      /\ Elems(opusCh)' = Elems(opusCh)
      /\ Increasing(opusCh)' = Increasing(opusCh) /\ Increasing(pcmCh)' = Increasing(pcmCh)
  BY DEF places, Elems, Increasing
<1> QED
  BY <1>1
  DEF Placed, Before, BeforeDecoder, BeforePcm, BeforeBridge, BeforeBp, BeforeSender,
      BeforeWhisper

\* Frames that are taken out of their places leave the others in order.
LEMMA FewerPlaced ==
  ASSUME Placed,
         InSender' \subseteq InSender, InBridge' \subseteq InBridge,
         InDecoder' \subseteq InDecoder,
         opusCh' = opusCh, pcmCh' = pcmCh, lastSent' = lastSent, frames' = frames,
         Elems(bpCh)' \subseteq Elems(bpCh)
  PROVE  Placed'
<1>1. /\ Elems(pcmCh)' = Elems(pcmCh) /\ Elems(opusCh)' = Elems(opusCh)
      /\ Increasing(opusCh)' = Increasing(opusCh) /\ Increasing(pcmCh)' = Increasing(pcmCh)
  BY DEF Elems, Increasing
<1> QED
  BY <1>1
  DEF Placed, Before, BeforeDecoder, BeforePcm, BeforeBridge, BeforeBp, BeforeSender,
      BeforeWhisper

LEMMA InitPlaced ==
  ASSUME Init
  PROVE  Placed
<1>1. /\ InSender = {} /\ InBridge = {} /\ InDecoder = {}
      /\ Elems(opusCh) = {} /\ Elems(pcmCh) = {} /\ Elems(bpCh) = {}
      /\ Increasing(opusCh) /\ Increasing(pcmCh)
      /\ lastSent = 0 /\ frames = 0
  BY ElemsEmpty DEF Init, InSender, InBridge, InDecoder, Held
<1> QED
  BY <1>1
  DEF Placed, Before, BeforeDecoder, BeforePcm, BeforeBridge, BeforeBp, BeforeSender,
      BeforeWhisper

\* The frames that are under way are numbers.
LEMMA PlacesType ==
  ASSUME TypeOK
  PROVE  /\ {opusCh, pcmCh, bpCh} \subseteq Seq(Int)
         /\ decoded \in Int /\ fresh \in Int /\ sending \in Int /\ lastSent \in Int
         /\ frames \in Int
         /\ \A f \in BeforeWhisper : f \in Int
<1>1. /\ opusCh \in Seq(Int) /\ pcmCh \in Seq(Int) /\ bpCh \in Seq(Int)
  BY BoundsAreNat DEF TypeOK, Frame
<1>2. /\ decoded \in Int /\ fresh \in Int /\ sending \in Int /\ lastSent \in Int
      /\ frames \in Int
  BY BoundsAreNat DEF TypeOK
<1>3. Elems(opusCh) \subseteq Int /\ Elems(pcmCh) \subseteq Int /\ Elems(bpCh) \subseteq Int
  BY <1>1, ElemsIn
<1> QED
  BY <1>1, <1>2, <1>3
  DEF BeforeWhisper, BeforeSender, BeforeBp, BeforeBridge, BeforePcm, BeforeDecoder,
      InSender, InBridge, InDecoder, Held

LEMMA CapturePlaced ==
  ASSUME TypeOK, Placed, Capture
  PROVE  Placed'
<1>1. /\ opusCh \in Seq(Int) /\ frames \in Int /\ frames + 1 \in Int
      /\ \A f \in BeforeWhisper : f \in Int
      /\ lastSent \in Int
  BY PlacesType
<1>2. /\ frames' = frames + 1 /\ opusCh' = Append(opusCh, frames + 1)
      /\ UNCHANGED <<pcmCh, bpCh, lastSent>>
      /\ InSender' = InSender /\ InBridge' = InBridge /\ InDecoder' = InDecoder
  BY DEF Capture, bridgeVars, sttVars, InSender, InBridge, InDecoder, Held
<1>3. \A f \in {lastSent} \cup BeforeWhisper : f < frames + 1
  BY <1>1 DEF Placed
<1>4. Before(Elems(opusCh), {frames + 1}) /\ Increasing(opusCh)
  BY <1>3
  DEF Placed, Before, BeforeDecoder, BeforePcm, BeforeBridge, BeforeBp, BeforeSender,
      BeforeWhisper
<1>5. /\ Elems(opusCh)' = Elems(opusCh) \cup {frames + 1} /\ Increasing(opusCh)'
      /\ Elems(pcmCh)' = Elems(pcmCh) /\ Elems(bpCh)' = Elems(bpCh)
      /\ Increasing(pcmCh)' = Increasing(pcmCh)
  BY <1>1, <1>2, <1>4, ElemsAppend DEF Elems, Increasing
<1> QED
  BY <1>1, <1>2, <1>3, <1>5
  DEF Placed, Before, BeforeDecoder, BeforePcm, BeforeBridge, BeforeBp, BeforeSender,
      BeforeWhisper

LEMMA DecoderPlaced ==
  ASSUME TypeOK, Placed, DecoderStep
  PROVE  Placed'
<1>1. CASE DecoderReceives
  <2>1. opusCh \in Seq(Int) /\ opusCh # <<>>
    BY <1>1, PlacesType DEF DecoderReceives
  <2>2. /\ Elems(opusCh) = {Head(opusCh)} \cup Elems(Tail(opusCh))
        /\ Increasing(Tail(opusCh)) /\ Before({Head(opusCh)}, Elems(Tail(opusCh)))
    BY <2>1, ElemsTail DEF Placed
  <2>3. /\ opusCh' = Tail(opusCh) /\ UNCHANGED <<pcmCh, bpCh, lastSent, frames>>
        /\ InSender' = InSender /\ InBridge' = InBridge /\ InDecoder = {}
        /\ InDecoder' \subseteq {Head(opusCh)}
    BY <1>1
    DEF DecoderReceives, bridgeVars, sttVars, InSender, InBridge, InDecoder, Held
  <2>4. /\ Elems(opusCh)' = Elems(Tail(opusCh)) /\ Increasing(opusCh)'
        /\ Elems(pcmCh)' = Elems(pcmCh) /\ Elems(bpCh)' = Elems(bpCh)
        /\ Increasing(pcmCh)' = Increasing(pcmCh)
    BY <2>2, <2>3 DEF Elems, Increasing
  <2> QED
    BY <2>2, <2>3, <2>4
    DEF Placed, Before, BeforeDecoder, BeforePcm, BeforeBridge, BeforeBp, BeforeSender,
        BeforeWhisper
<1>2. CASE DecoderSends
  <2>1. pcmCh \in Seq(Int) /\ decoded \in Int
    BY PlacesType
  <2>2. /\ pcmCh' = Append(pcmCh, decoded) /\ UNCHANGED <<opusCh, bpCh, lastSent, frames>>
        /\ InSender' = InSender /\ InBridge' = InBridge
        /\ InDecoder = {decoded} /\ InDecoder' = {}
    BY <1>2
    DEF DecoderSends, bridgeVars, sttVars, InSender, InBridge, InDecoder, Held
  <2>3. Before(Elems(pcmCh), {decoded}) /\ Increasing(pcmCh)
    BY <2>2 DEF Placed, Before, BeforePcm
  <2>4. /\ Elems(pcmCh)' = Elems(pcmCh) \cup {decoded} /\ Increasing(pcmCh)'
        /\ Elems(opusCh)' = Elems(opusCh) /\ Elems(bpCh)' = Elems(bpCh)
        /\ Increasing(opusCh)' = Increasing(opusCh)
    BY <2>1, <2>2, <2>3, ElemsAppend DEF Elems, Increasing
  <2> QED
    BY <2>2, <2>4
    DEF Placed, Before, BeforeDecoder, BeforePcm, BeforeBridge, BeforeBp, BeforeSender,
        BeforeWhisper
<1>3. CASE DecoderEnds
  <2>1. /\ UNCHANGED <<opusCh, pcmCh, bpCh, lastSent, frames>>
        /\ InSender' = InSender /\ InBridge' = InBridge /\ InDecoder' = {}
        /\ Elems(bpCh)' = Elems(bpCh)
    BY <1>3
    DEF DecoderEnds, bridgeVars, sttVars, InSender, InBridge, InDecoder, Held, Elems
  <2> QED
    BY <2>1, FewerPlaced
<1> QED
  BY <1>1, <1>2, <1>3 DEF DecoderStep

LEMMA BridgePlaced ==
  ASSUME TypeOK, Placed, BridgeStep
  PROVE  Placed'
<1>1. CASE BridgeReceives
  <2>1. pcmCh \in Seq(Int) /\ pcmCh # <<>>
    BY <1>1, PlacesType DEF BridgeReceives
  <2>2. /\ Elems(pcmCh) = {Head(pcmCh)} \cup Elems(Tail(pcmCh))
        /\ Increasing(Tail(pcmCh)) /\ Before({Head(pcmCh)}, Elems(Tail(pcmCh)))
    BY <2>1, ElemsTail DEF Placed
  <2>3. /\ pcmCh' = Tail(pcmCh) /\ UNCHANGED <<opusCh, bpCh, lastSent, frames>>
        /\ InSender' = InSender /\ InDecoder' = InDecoder
        /\ InBridge = {} /\ InBridge' = {Head(pcmCh)}
    BY <1>1 DEF BridgeReceives, sttVars, InSender, InBridge, InDecoder, Held
  <2>4. /\ Elems(pcmCh)' = Elems(Tail(pcmCh)) /\ Increasing(pcmCh)'
        /\ Elems(opusCh)' = Elems(opusCh) /\ Elems(bpCh)' = Elems(bpCh)
        /\ Increasing(opusCh)' = Increasing(opusCh)
    BY <2>2, <2>3 DEF Elems, Increasing
  <2> QED
    BY <2>2, <2>3, <2>4
    DEF Placed, Before, BeforeDecoder, BeforePcm, BeforeBridge, BeforeBp, BeforeSender,
        BeforeWhisper
<1>2. ASSUME bridge \in {"offer", "offerAgain"}, bridge' = "receive",
             bpCh = <<>>, bpCh' = <<fresh>>, UNCHANGED <<runVars, inVars, fresh, sttVars, outVars>>
      PROVE  Placed'
  <2>1. /\ UNCHANGED <<opusCh, pcmCh, lastSent, frames>>
        /\ InSender' = InSender /\ InDecoder' = InDecoder
        /\ InBridge = {fresh} /\ InBridge' = {}
    BY <1>2 DEF inVars, sttVars, InSender, InBridge, InDecoder, Held
  <2>2. /\ Elems(bpCh) = {} /\ Elems(bpCh)' = {fresh}
        /\ Elems(opusCh)' = Elems(opusCh) /\ Elems(pcmCh)' = Elems(pcmCh)
        /\ Increasing(opusCh)' = Increasing(opusCh) /\ Increasing(pcmCh)' = Increasing(pcmCh)
    BY <1>2, <2>1, ElemsEmpty, ElemsSingle DEF Elems, Increasing
  <2> QED
    BY <2>1, <2>2
    DEF Placed, Before, BeforeDecoder, BeforePcm, BeforeBridge, BeforeBp, BeforeSender,
        BeforeWhisper
<1>3. ASSUME UNCHANGED <<runVars, inVars, fresh, sttVars, outVars>>,
             InBridge' \subseteq InBridge, Elems(bpCh)' \subseteq Elems(bpCh)
      PROVE  Placed'
  <2>1. /\ UNCHANGED <<opusCh, pcmCh, lastSent, frames>>
        /\ InSender' = InSender /\ InDecoder' = InDecoder
    BY <1>3 DEF inVars, sttVars, InSender, InDecoder, Held
  <2> QED
    BY <1>3, <2>1, FewerPlaced
<1>4. CASE BridgeOffers
  <2>1. CASE bpCh = <<>>
    BY <1>2, <1>4, <2>1 DEF BridgeOffers
  <2>2. CASE bpCh # <<>>
    <3>1. InBridge' = InBridge /\ Elems(bpCh)' = Elems(bpCh)
      BY <1>4, <2>2 DEF BridgeOffers, InBridge, Held, Elems
    <3> QED
      BY <1>3, <1>4, <3>1 DEF BridgeOffers
  <2> QED
    BY <2>1, <2>2
<1>5. CASE BridgeDrains
  <2>1. InBridge' = InBridge /\ Elems(bpCh)' = {}
    BY <1>5, ElemsEmpty DEF BridgeDrains, InBridge, Held
  <2> QED
    BY <1>3, <1>5, <2>1 DEF BridgeDrains
<1>6. CASE BridgeOffersAgain
  <2>1. CASE bpCh = <<>>
    BY <1>2, <1>6, <2>1 DEF BridgeOffersAgain
  <2>2. CASE bpCh # <<>>
    <3>1. InBridge' = {} /\ Elems(bpCh)' = Elems(bpCh)
      BY <1>6, <2>2 DEF BridgeOffersAgain, InBridge, Held, Elems
    <3> QED
      BY <1>3, <1>6, <3>1 DEF BridgeOffersAgain
  <2> QED
    BY <2>1, <2>2
<1>7. CASE BridgeEnds
  <2>1. UNCHANGED places
    BY <1>7 DEF BridgeEnds, places, inVars, sttVars, InSender, InBridge, InDecoder, Held
  <2> QED
    BY <2>1, Unmoved
<1> QED
  BY <1>1, <1>4, <1>5, <1>6, <1>7 DEF BridgeStep

LEMMA SenderPlaced ==
  ASSUME TypeOK, Placed, SenderStep
  PROVE  Placed'
<1>1. CASE SenderReceives
  <2>1. bpCh \in Seq(Int) /\ bpCh # <<>> /\ Len(bpCh) <= 1
    BY <1>1, PlacesType DEF SenderReceives, TypeOK
  <2>2. Tail(bpCh) \in Seq(Int) /\ Len(Tail(bpCh)) = 0
    <3>1. Tail(bpCh) \in Seq(Int) /\ Len(Tail(bpCh)) = Len(bpCh) - 1
      BY <2>1, HeadTailProperties
    <3>2. Len(bpCh) \in Nat /\ Len(Tail(bpCh)) \in Nat
      BY <2>1, <3>1, LenProperties
    <3> QED
      BY <2>1, <3>1, <3>2
  <2>3. Elems(Tail(bpCh)) = {}
    BY <2>2, EmptySeq, ElemsEmpty
  <2>4. Elems(bpCh) = {Head(bpCh)}
    BY <2>1, <2>3, ElemsTail
  <2>5. /\ bpCh' = Tail(bpCh) /\ UNCHANGED <<opusCh, pcmCh, lastSent, frames>>
        /\ InBridge' = InBridge /\ InDecoder' = InDecoder
        /\ InSender = {} /\ InSender' = {Head(bpCh)}
    BY <1>1 DEF SenderReceives, inVars, InSender, InBridge, InDecoder, Held
  <2>6. /\ Elems(bpCh)' = {} /\ Elems(opusCh)' = Elems(opusCh) /\ Elems(pcmCh)' = Elems(pcmCh)
        /\ Increasing(opusCh)' = Increasing(opusCh) /\ Increasing(pcmCh)' = Increasing(pcmCh)
    BY <2>3, <2>5 DEF Elems, Increasing
  <2> QED
    BY <2>4, <2>5, <2>6
    DEF Placed, Before, BeforeDecoder, BeforePcm, BeforeBridge, BeforeBp, BeforeSender,
        BeforeWhisper
<1>2. CASE SenderWrites
  <2>1. /\ UNCHANGED <<opusCh, pcmCh, bpCh, frames>>
        /\ InBridge' = InBridge /\ InDecoder' = InDecoder
        /\ InSender = {sending} /\ InSender' = {}
        /\ lastSent' \in {lastSent, sending}
    BY <1>2 DEF SenderWrites, inVars, bridgeVars, InSender, InBridge, InDecoder, Held
  <2>2. /\ Elems(bpCh)' = Elems(bpCh) /\ Elems(opusCh)' = Elems(opusCh)
        /\ Elems(pcmCh)' = Elems(pcmCh)
        /\ Increasing(opusCh)' = Increasing(opusCh) /\ Increasing(pcmCh)' = Increasing(pcmCh)
    BY <2>1 DEF Elems, Increasing
  <2> QED
    BY <2>1, <2>2
    DEF Placed, Before, BeforeDecoder, BeforePcm, BeforeBridge, BeforeBp, BeforeSender,
        BeforeWhisper
<1>3. CASE SenderStops \/ SenderEnds
  <2>1. UNCHANGED places
    BY <1>3
    DEF SenderStops, SenderEnds, places, inVars, bridgeVars, InSender, InBridge,
        InDecoder, Held
  <2> QED
    BY <2>1, Unmoved
<1> QED
  BY <1>1, <1>2, <1>3 DEF SenderStep

LEMMA OtherPlaced ==
  ASSUME WaitGroup, Placed,
         \/ TrackEnds \/ Cancel \/ RunStep \/ PipelineStop \/ ForwarderEnds
         \/ ReceiverStep \/ WhisperCloses \/ TranslatorStep \/ EncoderStep
  PROVE  Placed'
<1> SUFFICES UNCHANGED places
  BY Unmoved
<1> USE DEF places, InSender, InBridge, InDecoder, Held
<1>1. CASE TrackEnds \/ Cancel
  BY <1>1 DEF TrackEnds, Cancel, inVars, bridgeVars, sttVars
<1>2. CASE StartDecode
  BY <1>2 DEF StartDecode, WaitGroup, StagesKnown, sttVars
<1>3. CASE StartTranslate
  BY <1>3 DEF StartTranslate, WaitGroup, StagesKnown, inVars, bridgeVars
<1>4. CASE StartEncode \/ SendFrame \/ SendEnds
  BY <1>4 DEF StartEncode, SendFrame, SendEnds, inVars, bridgeVars, sttVars
<1>5. CASE PipelineStop \/ ForwarderEnds
  BY <1>5 DEF PipelineStop, ForwarderEnds, inVars, bridgeVars, sttVars
<1>6. CASE ReceiverStep
  BY <1>6
  DEF ReceiverStep, ReceiverLoops, ReceiverReads, ReceiverLost, ReceiverDelivers, inVars,
      bridgeVars
<1>7. CASE WhisperCloses
  BY <1>7 DEF WhisperCloses, inVars, bridgeVars
<1>8. CASE TranslatorStep
  BY <1>8
  DEF TranslatorStep, TranslatorReceives, TranslatorSpeaks, TranslatorEnds, inVars,
      bridgeVars, sttVars
<1>9. CASE EncoderStep
  BY <1>9
  DEF EncoderStep, EncoderReceives, EncoderEncodes, EncoderEnds, inVars, bridgeVars,
      sttVars
<1> QED
  BY <1>1, <1>2, <1>3, <1>4, <1>5, <1>6, <1>7, <1>8, <1>9 DEF RunStep

LEMMA PlacedInOrder ==
  ASSUME TypeOK, Placed
  PROVE  InOrder
<1> DEFINE inSender == If(sender = "write", sending)
           inBridge == If(bridge \in {"offer", "drain", "offerAgain"}, fresh)
           inDecoder == If(decoder = "send", decoded)
           s1 == inSender \o bpCh
           s2 == s1 \o inBridge
           s3 == s2 \o pcmCh
           s4 == s3 \o inDecoder
           s5 == s4 \o opusCh
<1>1. /\ {opusCh, pcmCh, bpCh} \subseteq Seq(Int)
      /\ decoded \in Int /\ fresh \in Int /\ sending \in Int /\ lastSent \in Int
  BY PlacesType
<1>2. /\ inSender \in Seq(Int) /\ Elems(inSender) = InSender /\ Increasing(inSender)
      /\ inBridge \in Seq(Int) /\ Elems(inBridge) = InBridge /\ Increasing(inBridge)
      /\ inDecoder \in Seq(Int) /\ Elems(inDecoder) = InDecoder /\ Increasing(inDecoder)
  <2>1. /\ (sender = "write") \in BOOLEAN /\ (decoder = "send") \in BOOLEAN
        /\ (bridge \in {"offer", "drain", "offerAgain"}) \in BOOLEAN
    OBVIOUS
  <2> QED
    BY <1>1, <2>1, ElemsHeld DEF InSender, InBridge, InDecoder
<1> HIDE DEF inSender, inBridge, inDecoder
<1>3. Increasing(bpCh)
  <2>1. bpCh \in Seq(Int) /\ Len(bpCh) \in Nat /\ Len(bpCh) <= 1
    BY <1>1, LenProperties DEF TypeOK
  <2> QED
    BY <2>1 DEF Increasing
<1>4. Increasing(opusCh) /\ Increasing(pcmCh)
  BY DEF Placed
<1>5. /\ Before(InSender, Elems(bpCh))
      /\ Before(InSender \cup Elems(bpCh), InBridge)
      /\ Before(InSender \cup Elems(bpCh) \cup InBridge, Elems(pcmCh))
      /\ Before(InSender \cup Elems(bpCh) \cup InBridge \cup Elems(pcmCh), InDecoder)
      /\ Before(InSender \cup Elems(bpCh) \cup InBridge \cup Elems(pcmCh) \cup InDecoder,
                Elems(opusCh))
      /\ Before({lastSent}, InSender \cup Elems(bpCh) \cup InBridge \cup Elems(pcmCh)
                              \cup InDecoder \cup Elems(opusCh))
  BY DEF Placed, Before, BeforeDecoder, BeforePcm, BeforeBridge, BeforeBp, BeforeSender,
         BeforeWhisper
<1>6. s1 \in Seq(Int) /\ Elems(s1) = InSender \cup Elems(bpCh) /\ Increasing(s1)
  BY <1>1, <1>2, <1>3, <1>5, ElemsConcat
<1> HIDE DEF s1
<1>7. s2 \in Seq(Int) /\ Elems(s2) = InSender \cup Elems(bpCh) \cup InBridge /\ Increasing(s2)
  BY <1>2, <1>5, <1>6, ElemsConcat
<1> HIDE DEF s2
<1>8. /\ s3 \in Seq(Int) /\ Increasing(s3)
      /\ Elems(s3) = InSender \cup Elems(bpCh) \cup InBridge \cup Elems(pcmCh)
  BY <1>1, <1>4, <1>5, <1>7, ElemsConcat
<1> HIDE DEF s3
<1>9. /\ s4 \in Seq(Int) /\ Increasing(s4)
      /\ Elems(s4) = InSender \cup Elems(bpCh) \cup InBridge \cup Elems(pcmCh) \cup InDecoder
  <2>1. inDecoder \in Seq(Int) /\ Elems(inDecoder) = InDecoder /\ Increasing(inDecoder)
    BY <1>2
  <2>2. Before(Elems(s3), Elems(inDecoder))
    BY <1>5, <1>8, <2>1
  <2> QED
    BY <1>8, <2>1, <2>2, ElemsConcat
<1> HIDE DEF s4
<1>10. /\ s5 \in Seq(Int) /\ Increasing(s5)
       /\ Elems(s5) = InSender \cup Elems(bpCh) \cup InBridge \cup Elems(pcmCh) \cup InDecoder
                       \cup Elems(opusCh)
  BY <1>1, <1>4, <1>5, <1>9, ElemsConcat
<1> HIDE DEF s5
<1>11. <<lastSent>> \in Seq(Int) /\ Elems(<<lastSent>>) = {lastSent} /\ Increasing(<<lastSent>>)
  BY <1>1, ElemsSingle
<1>12. Increasing(<<lastSent>> \o s5)
  BY <1>5, <1>10, <1>11, ElemsConcat
<1> QED
  BY <1>12 DEF InOrder, UnderWay, s1, s2, s3, s4, s5, inSender, inBridge, inDecoder

-----------------------------------------------------------------------------
(* The theorems.                                                           *)

LEMMA InitInv ==
  ASSUME Init
  PROVE  IInv
BY InitType, InitGroup, InitFrame, InitPlaced DEF IInv

LEMMA StepInv ==
  ASSUME IInv, [Next]_vars
  PROVE  IInv'
<1> USE DEF IInv
<1>1. CASE Capture
  BY <1>1, OutsideType, InGroup, RunFrame, CapturePlaced
<1>2. CASE TrackEnds \/ Cancel
  BY <1>2, OutsideType, InGroup, RunFrame, OtherPlaced
<1>3. CASE PipelineStop
  BY <1>3, OutsideType, RunGroup, RunFrame, OtherPlaced
<1>4. CASE RunStep \/ ForwarderEnds
  <2>1. WaitGroup' /\ StopIsLast'
    BY <1>4, RunGroup DEF WaitGroup
  <2> QED
    BY <1>4, <2>1, RunType, RunFrame, OtherPlaced
<1>5. CASE DecoderStep
  BY <1>5, DecoderType, InGroup, RunFrame, DecoderPlaced
<1>6. CASE BridgeStep
  <2>1. WaitGroup' /\ StopIsLast'
    BY <1>6, InGroup DEF WaitGroup
  <2> QED
    BY <1>6, <2>1, BridgeType, BridgeFrame, BridgePlaced
<1>7. CASE SenderStep
  BY <1>7, SenderType, OutGroup, SenderFrame, SenderPlaced
<1>8. CASE ReceiverStep
  BY <1>8, ReceiverType, OutGroup, OutFrame, OtherPlaced
<1>9. CASE WhisperCloses
  BY <1>9, OutsideType, OutGroup, OutFrame, OtherPlaced
<1>10. CASE TranslatorStep
  BY <1>10, TranslatorType, OutGroup, OutFrame, OtherPlaced
<1>11. CASE EncoderStep
  BY <1>11, EncoderType, OutGroup, OutFrame, OtherPlaced
<1>12. CASE UNCHANGED vars
  <2>1. UNCHANGED places
    BY <1>12
    DEF vars, inVars, bridgeVars, sttVars, places, InSender, InBridge, InDecoder, Held
  <2>2. Placed'
    BY <2>1, Unmoved
  <2>3. TypeOK' /\ HandsFull'
    BY <1>12
    DEF vars, runVars, inVars, bridgeVars, sttVars, outVars, TypeOK, HandsFull
  <2>4. WaitGroup' /\ FrameInv'
    BY <1>12
    DEF vars, runVars, inVars, bridgeVars, sttVars, outVars, WaitGroup, StopIsLast,
        StagesKnown, Counted, FrameInv, BridgeKnown, SenderKnown, LastFrameSent
  <2> QED
    BY <2>2, <2>3, <2>4
<1> QED
  BY <1>1, <1>2, <1>3, <1>4, <1>5, <1>6, <1>7, <1>8, <1>9, <1>10, <1>11, <1>12 DEF Next

LEMMA Inductive == Spec => []IInv
<1>1. Init => IInv
  BY InitInv
<1>2. IInv /\ [Next]_vars => IInv'
  BY StepInv
<1> QED
  BY <1>1, <1>2, PTL DEF Spec

\* The goroutines of a half are where they can be, and no channel of the
\* pipeline holds more than its capacity.
THEOREM HalfTypes == Spec => []TypeOK
<1>1. IInv => TypeOK
  BY DEF IInv
<1> QED
  BY <1>1, Inductive, PTL

\* p.wg counts the goroutines of a half that are there (lines 138, 180 and
\* 212 of pipeline.go), and pipeline_stop is logged when none is left.
THEOREM WaitGroupCounts == Spec => []StopIsLast
<1>1. IInv => StopIsLast
  BY DEF IInv, WaitGroup
<1> QED
  BY <1>1, Inductive, PTL

\* The three selects of drainOldest never lose the frame that they were
\* given, whatever the sender takes between them.
THEOREM NewestFrameKept == Spec => []NewestKept
<1>1. IInv => NewestKept
  BY DEF IInv, FrameInv, BridgeKnown, NewestKept
<1> QED
  BY <1>1, Inductive, PTL

\* The sender of Transcribe sends what is left in bpCh before it closes the
\* connection to Whisper.
THEOREM LastFrameIsSent == Spec => []LastFrameSent
<1>1. IInv => LastFrameSent
  BY DEF IInv, FrameInv
<1> QED
  BY <1>1, Inductive, PTL

\* Whisper hears the frames in the order they were spoken and none twice,
\* through decoder, bridge and sender, whatever drainOldest drops.
THEOREM FramesHeardInOrder == Spec => []InOrder
<1>1. IInv => InOrder
  BY PlacedInOrder DEF IInv
<1> QED
  BY <1>1, Inductive, PTL

-----------------------------------------------------------------------------
(* The refinement of LossyPipe.                                            *)

\* What the sender writes to Whisper is later than what it wrote before.
LEMMA SenderPipes ==
  ASSUME TypeOK, Placed, SenderStep
  PROVE  frames' = frames /\ lastSent' \in lastSent .. frames
<1>1. lastSent \in Int /\ frames \in Int /\ lastSent <= frames
  BY PlacesType DEF Placed
<1>2. CASE SenderWrites
  <2>1. sending \in Int /\ lastSent < sending /\ sending <= frames
    BY <1>2, PlacesType
    DEF SenderWrites, Placed, Before, BeforeWhisper, InSender, Held
  <2> QED
    BY <1>1, <1>2, <2>1 DEF SenderWrites, inVars
<1>3. CASE SenderReceives \/ SenderStops \/ SenderEnds
  BY <1>1, <1>3 DEF SenderReceives, SenderStops, SenderEnds, inVars
<1> QED
  BY <1>2, <1>3 DEF SenderStep

LEMMA StepPipes ==
  ASSUME IInv, [Next]_vars
  PROVE  [Pipe!Next]_(Pipe!lvars)
<1>1. lastSent \in Int /\ frames \in Int /\ lastSent <= frames
  BY PlacesType DEF IInv, Placed
<1>2. CASE Capture
  BY <1>1, <1>2 DEF Capture, sttVars, Pipe!Next
<1>3. CASE SenderStep
  BY <1>1, <1>3, SenderPipes DEF IInv, Pipe!Next
<1>4. CASE TrackEnds \/ Cancel \/ PipelineStop \/ ForwarderEnds \/ WhisperCloses
  BY <1>4
  DEF TrackEnds, Cancel, PipelineStop, ForwarderEnds, WhisperCloses, inVars, sttVars,
      Pipe!lvars
<1>5. CASE RunStep
  BY <1>5
  DEF RunStep, StartDecode, StartTranslate, StartEncode, SendFrame, SendEnds, inVars,
      sttVars, Pipe!lvars
<1>6. CASE DecoderStep \/ BridgeStep
  BY <1>6
  DEF DecoderStep, DecoderReceives, DecoderSends, DecoderEnds, BridgeStep, BridgeReceives,
      BridgeOffers, BridgeDrains, BridgeOffersAgain, BridgeEnds, inVars, sttVars,
      Pipe!lvars
<1>7. CASE ReceiverStep
  BY <1>7
  DEF ReceiverStep, ReceiverLoops, ReceiverReads, ReceiverLost, ReceiverDelivers, inVars,
      Pipe!lvars
<1>8. CASE TranslatorStep \/ EncoderStep
  BY <1>8
  DEF TranslatorStep, TranslatorReceives, TranslatorSpeaks, TranslatorEnds, EncoderStep,
      EncoderReceives, EncoderEncodes, EncoderEnds, inVars, sttVars, Pipe!lvars
<1>9. CASE UNCHANGED vars
  BY <1>9 DEF vars, inVars, sttVars, Pipe!lvars
<1> QED
  BY <1>2, <1>3, <1>4, <1>5, <1>6, <1>7, <1>8, <1>9 DEF Next

\* A half of a pipeline, with its five goroutines between the track and Whisper,
\* is a LossyPipe: frames may be lost, and are heard in their order.
THEOREM Implements == Spec => Refinement
<1>1. Init => Pipe!Init
  BY DEF Init, Pipe!Init
<1>2. IInv /\ [Next]_vars => [Pipe!Next]_(Pipe!lvars)
  BY StepPipes
<1> QED
  BY <1>1, <1>2, Inductive, PTL DEF Spec, Refinement, Pipe!Spec
=============================================================================
