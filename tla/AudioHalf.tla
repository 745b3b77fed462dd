------------------------------ MODULE AudioHalf ------------------------------
(***************************************************************************)
(* One direction of a pipeline, internal/app/roomsvc/pipeline.go: runHalf  *)
(* and the goroutines that it starts, with those of the codec (Decode and  *)
(* Encode), of the Whisper client (Transcribe) and with SendAudio.         *)
(*                                                                         *)
(*   opusCh -> decoder -> pcmCh -> bridge -> bpCh -> sender -> Whisper     *)
(*   Whisper -> receiver -> sttCh -> translator -> audioCh -> encoder      *)
(*     -> opusOutCh -> SendAudio                                           *)
(*                                                                         *)
(* How frames come into opusCh is the subject of module AudioTrack, what   *)
(* happens between sttCh and audioCh that of PipelineTranslator: here the  *)
(* translator takes texts, puts out chunks, and ends.  A step is one       *)
(* operation on a channel or on the WebSocket.  On the way in a frame is a *)
(* number, on the way out data are only counted.                           *)
(***************************************************************************)
EXTENDS Integers, Sequences

CONSTANTS
  MaxFrames, \* bound: frames that the participant speaks
  MaxTexts,  \* bound: events that Whisper sends
  OpusCap,   \* capacity of opusCh (8 in the code)
  PcmCap,    \* capacity of pcmCh (8)
  SttCap,    \* capacity of sttCh (8)
  OutCap,    \* capacity of audioCh and of opusOutCh (8)
  FrameSize, \* samples in an Opus frame: opusFrameSize (480)
  Chunk      \* numbers of samples in a chunk of synthesised speech

ASSUME BoundsAreNat == MaxFrames \in Nat /\ MaxTexts \in Nat

ASSUME SizesArePositive ==
  /\ {OpusCap, PcmCap, SttCap, OutCap, FrameSize} \subseteq Nat \ {0}
  /\ Chunk \subseteq Nat

VARIABLES
  cancelled,  \* ctx is done
  run,        \* the stage that runHalf is at
  result,     \* what it emits at the end
  frames,     \* the frames that were put into opusCh
  opusCh,
  opusClosed, \* the callback has closed opusCh: the track has ended
  decoder,    \* where the decoder goroutine is
  decoded,    \* the frame it holds
  pcmCh,
  bridge,     \* where the bridge goroutine is, in drainOldest or outside
  fresh,      \* the frame that drainOldest was given
  bpCh,
  sender,     \* where the sender of Transcribe is
  sending,    \* the frame it holds
  lastSent,   \* the last frame that Whisper was sent
  wire,       \* the WebSocket, as Whisper sees it
  receiver,   \* where the receiver of Transcribe is
  texts,      \* the events that Whisper has sent
  sttCh,      \* how many texts are in it
  translator, \* whether the goroutines of TranslateStream run
  audioCh,    \* how many chunks are in it
  encoder,    \* where the encoder goroutine is
  accum,      \* the samples in accumBuf
  opusOutCh,  \* how many frames are in it
  forwarder,  \* where the transcript forwarder is
  wg,         \* p.wg, as far as this half counts
  stopped     \* pipeline_stop was logged, as far as this half matters

runVars == <<run, result, wg, stopped>>
inVars == <<frames, opusCh, opusClosed, decoder, decoded, pcmCh>>
bridgeVars == <<bridge, fresh, bpCh>>
sttVars == <<sender, sending, lastSent, wire, receiver, texts, sttCh>>
outVars == <<translator, audioCh, encoder, accum, opusOutCh, forwarder>>
vars == <<cancelled, runVars, inVars, bridgeVars, sttVars, outVars>>

Init ==
  /\ cancelled = FALSE
  /\ run = "decode"
  /\ result = "none"
  /\ frames = 0
  /\ opusCh = <<>>
  /\ opusClosed = FALSE
  /\ decoder = "none"
  /\ decoded = 0
  /\ pcmCh = <<>>
  /\ bridge = "none"
  /\ fresh = 0
  /\ bpCh = <<>>
  /\ sender = "none"
  /\ sending = 0
  /\ lastSent = 0
  /\ wire = "none"
  /\ receiver = "none"
  /\ texts = 0
  /\ sttCh = 0
  /\ translator = "none"
  /\ audioCh = 0
  /\ encoder = "none"
  /\ accum = 0
  /\ opusOutCh = 0
  /\ forwarder = "none"
  /\ wg = 1
  /\ stopped = FALSE

-----------------------------------------------------------------------------
(* The surroundings: the callback of OnAudioTrack and the service.         *)

\* The callback puts a frame into opusCh.
Capture ==
  /\ ~opusClosed
  /\ frames < MaxFrames
  /\ Len(opusCh) < OpusCap
  /\ frames' = frames + 1
  /\ opusCh' = Append(opusCh, frames')
  /\ UNCHANGED <<cancelled, runVars, opusClosed, decoder, decoded, pcmCh,
                 bridgeVars, sttVars, outVars>>

\* The track has ended.
TrackEnds ==
  /\ ~opusClosed
  /\ opusClosed' = TRUE
  /\ UNCHANGED <<cancelled, runVars, frames, opusCh, decoder, decoded, pcmCh,
                 bridgeVars, sttVars, outVars>>

Cancel ==
  /\ ~cancelled
  /\ cancelled' = TRUE
  /\ UNCHANGED <<runVars, inVars, bridgeVars, sttVars, outVars>>

-----------------------------------------------------------------------------
(* runHalf.                                                                *)

\* It returns, having told a participant of an error, or else as "ok".
Return(r) ==
  /\ run' = "done"
  /\ result' = r
  /\ wg' = wg - 1

\* Decode starts the decoder; then comes the bridge.  (opus.NewDecoder and
\* NewEncoder accept the constants that they are given.)
StartDecode ==
  /\ run = "decode"
  /\ \/ /\ run' = "translate"
        /\ decoder' = "receive"
        /\ bridge' = "receive"
        /\ wg' = wg + 1
        /\ UNCHANGED result
     \/ /\ Return("error")
        /\ UNCHANGED <<decoder, bridge>>
  /\ UNCHANGED <<cancelled, stopped, frames, opusCh, opusClosed, decoded, pcmCh,
                 fresh, bpCh, sttVars, outVars>>

\* MUTANT of StartTranslate: p.wg.Add(1) is missing before the forwarder.
StartTranslateUncounted ==
  /\ run = "translate"
  /\ \/ /\ run' = "encode"
        /\ wire' = "open"
        /\ sender' = "select"
        /\ receiver' = "loop"
        /\ translator' = "running"
        /\ forwarder' = "range"
        /\ UNCHANGED <<result, wg>>
     \/ /\ Return("error")
        /\ UNCHANGED <<wire, sender, receiver, translator, forwarder>>
  /\ UNCHANGED <<cancelled, stopped, inVars, bridgeVars, sending, lastSent,
                 texts, sttCh, audioCh, encoder, accum, opusOutCh>>

\* TranslateStream connects to Whisper and starts its goroutines; then comes
\* the forwarder.
StartTranslate ==
  /\ run = "translate"
  /\ \/ /\ run' = "encode"
        /\ wire' = "open"
        /\ sender' = "select"
        /\ receiver' = "loop"
        /\ translator' = "running"
        /\ forwarder' = "range"
        /\ wg' = wg + 1
        /\ UNCHANGED result
     \/ /\ Return("error")
        /\ UNCHANGED <<wire, sender, receiver, translator, forwarder>>
  /\ UNCHANGED <<cancelled, stopped, inVars, bridgeVars, sending, lastSent,
                 texts, sttCh, audioCh, encoder, accum, opusOutCh>>

\* Encode starts the encoder.
StartEncode ==
  /\ run = "encode"
  /\ \/ /\ run' = "send"
        /\ encoder' = "receive"
        /\ UNCHANGED <<result, wg>>
     \/ /\ Return("error")
        /\ UNCHANGED encoder
  /\ UNCHANGED <<cancelled, stopped, inVars, bridgeVars, sttVars, translator,
                 audioCh, accum, opusOutCh, forwarder>>

\* SendAudio writes a frame to the track of the listener.
SendFrame ==
  /\ run = "send"
  /\ opusOutCh > 0
  /\ opusOutCh' = opusOutCh - 1
  /\ UNCHANGED <<cancelled, runVars, inVars, bridgeVars, sttVars, translator,
                 audioCh, encoder, accum, forwarder>>

\* SendAudio returns: at the end of opusOutCh, when ctx is done, or with an
\* error, because there is no track or because the write has failed.
SendEnds ==
  /\ run = "send"
  /\ \/ /\ cancelled \/ (encoder = "exit" /\ opusOutCh = 0)
        /\ Return("ok")
     \/ Return("error")
  /\ UNCHANGED <<cancelled, stopped, inVars, bridgeVars, sttVars, outVars>>

\* The goroutine that startPipeline leaves behind: p.wg.Wait has returned.
PipelineStop ==
  /\ wg = 0
  /\ ~stopped
  /\ stopped' = TRUE
  /\ UNCHANGED <<cancelled, run, result, wg, inVars, bridgeVars, sttVars,
                 outVars>>

\* The forwarder ends when the translator has closed Transcript.
ForwarderEnds ==
  /\ forwarder = "range"
  /\ translator = "ended"
  /\ forwarder' = "exit"
  /\ wg' = wg - 1
  /\ UNCHANGED <<cancelled, run, result, stopped, inVars, bridgeVars,
                 sttVars, translator, audioCh, encoder, accum, opusOutCh>>

-----------------------------------------------------------------------------
(* The decoder.                                                            *)

\* It takes a frame, and drops it if it cannot be decoded.
DecoderReceives ==
  /\ decoder = "receive"
  /\ opusCh # <<>>
  /\ opusCh' = Tail(opusCh)
  /\ \/ /\ decoder' = "send"
        /\ decoded' = Head(opusCh)
     \/ UNCHANGED <<decoder, decoded>>
  /\ UNCHANGED <<cancelled, runVars, frames, opusClosed, pcmCh, bridgeVars,
                 sttVars, outVars>>

DecoderSends ==
  /\ decoder = "send"
  /\ Len(pcmCh) < PcmCap
  /\ pcmCh' = Append(pcmCh, decoded)
  /\ decoder' = "receive"
  /\ UNCHANGED <<cancelled, runVars, frames, opusCh, opusClosed, decoded,
                 bridgeVars, sttVars, outVars>>

\* It closes pcmCh.
DecoderEnds ==
  /\ \/ decoder = "receive" /\ opusClosed /\ opusCh = <<>>
     \/ decoder \in {"receive", "send"} /\ cancelled
  /\ decoder' = "exit"
  /\ UNCHANGED <<cancelled, runVars, frames, opusCh, opusClosed, decoded, pcmCh,
                 bridgeVars, sttVars, outVars>>

-----------------------------------------------------------------------------
(* The bridge: drainOldest(bpCh, frame), which is three selects.           *)

BridgeReceives ==
  /\ bridge = "receive"
  /\ pcmCh # <<>>
  /\ fresh' = Head(pcmCh)
  /\ pcmCh' = Tail(pcmCh)
  /\ bridge' = "offer"
  /\ UNCHANGED <<cancelled, runVars, frames, opusCh, opusClosed, decoder,
                 decoded, bpCh, sttVars, outVars>>

\* MUTANT of BridgeOffers: the "return" is missing.
BridgeOffersTwice ==
  /\ bridge = "offer"
  /\ bpCh' = IF bpCh = <<>> THEN <<fresh>> ELSE bpCh
  /\ bridge' = "drain"
  /\ UNCHANGED <<cancelled, runVars, inVars, fresh, sttVars, outVars>>

\* MUTANT of BridgeOffers: a plain send for drainOldest.
BridgeBlocks ==
  /\ bridge = "offer"
  /\ bpCh = <<>>
  /\ bpCh' = <<fresh>>
  /\ bridge' = "receive"
  /\ UNCHANGED <<cancelled, runVars, inVars, fresh, sttVars, outVars>>

\* "case ch <- v: return"
BridgeOffers ==
  /\ bridge = "offer"
  /\ IF bpCh = <<>>
       THEN bpCh' = <<fresh>> /\ bridge' = "receive"
       ELSE bridge' = "drain" /\ UNCHANGED bpCh
  /\ UNCHANGED <<cancelled, runVars, inVars, fresh, sttVars, outVars>>

\* MUTANT of BridgeDrains: the oldest frame stays, as in a plain
\* non-blocking send.
BridgeKeeps ==
  /\ bridge = "drain"
  /\ bridge' = "offerAgain"
  /\ UNCHANGED <<cancelled, runVars, inVars, fresh, bpCh, sttVars, outVars>>

\* "case <-ch: default:", for the sender may have taken the frame meanwhile.
BridgeDrains ==
  /\ bridge = "drain"
  /\ bpCh' = <<>>
  /\ bridge' = "offerAgain"
  /\ UNCHANGED <<cancelled, runVars, inVars, fresh, sttVars, outVars>>

\* "case ch <- v: default:"
BridgeOffersAgain ==
  /\ bridge = "offerAgain"
  /\ bpCh' = IF bpCh = <<>> THEN <<fresh>> ELSE bpCh
  /\ bridge' = "receive"
  /\ UNCHANGED <<cancelled, runVars, inVars, fresh, sttVars, outVars>>

\* It closes bpCh.
BridgeEnds ==
  /\ bridge = "receive"
  /\ cancelled \/ (decoder = "exit" /\ pcmCh = <<>>)
  /\ bridge' = "exit"
  /\ wg' = wg - 1
  /\ UNCHANGED <<cancelled, run, result, stopped, inVars, fresh, bpCh,
                 sttVars, outVars>>

-----------------------------------------------------------------------------
(* The two goroutines of Transcribe, and Whisper.                          *)

SenderReceives ==
  /\ sender = "select"
  /\ bpCh # <<>>
  /\ sending' = Head(bpCh)
  /\ bpCh' = Tail(bpCh)
  /\ sender' = "write"
  /\ UNCHANGED <<cancelled, runVars, inVars, bridge, fresh, lastSent, wire,
                 receiver, texts, sttCh, outVars>>

\* WriteJSON succeeds, or fails because Whisper has closed the connection.
\* A sender that ends writes a close message, and goes on to
\* receiverDone.Wait.
SenderWrites ==
  /\ sender = "write"
  /\ IF wire = "gone"
       THEN sender' = "wait" /\ UNCHANGED lastSent
       ELSE sender' = "select" /\ lastSent' = sending
  /\ UNCHANGED <<cancelled, runVars, inVars, bridgeVars, sending, wire,
                 receiver, texts, sttCh, outVars>>

\* MUTANT of SenderStops: the sender ends when bpCh is closed, without the
\* frame that is still in it.
SenderStopsEarly ==
  /\ sender = "select"
  /\ cancelled \/ bridge = "exit"
  /\ sender' = "wait"
  /\ wire' = IF wire = "open" THEN "closing" ELSE wire
  /\ UNCHANGED <<cancelled, runVars, inVars, bridgeVars, sending, lastSent,
                 receiver, texts, sttCh, outVars>>

SenderStops ==
  /\ sender = "select"
  /\ cancelled \/ (bridge = "exit" /\ bpCh = <<>>)
  /\ sender' = "wait"
  /\ wire' = IF wire = "open" THEN "closing" ELSE wire
  /\ UNCHANGED <<cancelled, runVars, inVars, bridgeVars, sending, lastSent,
                 receiver, texts, sttCh, outVars>>

\* receiverDone.Wait has returned: conn.Close.
SenderEnds ==
  /\ sender = "wait"
  /\ receiver = "exit"
  /\ sender' = "exit"
  /\ wire' = "gone"
  /\ UNCHANGED <<cancelled, runVars, inVars, bridgeVars, sending, lastSent,
                 receiver, texts, sttCh, outVars>>

\* The receiver looks at ctx before it reads.
ReceiverLoops ==
  /\ receiver = "loop"
  /\ receiver' = IF cancelled THEN "exit" ELSE "read"
  /\ UNCHANGED <<cancelled, runVars, inVars, bridgeVars, sender, sending,
                 lastSent, wire, texts, sttCh, outVars>>

\* An event comes: a transcript to deliver, of audio that was sent; a fatal
\* error; or a transcript that is too short, a warning, or an event of no
\* interest.
ReceiverReads ==
  /\ receiver = "read"
  /\ wire \in {"open", "closing"}
  /\ texts < MaxTexts
  /\ texts' = texts + 1
  /\ \/ receiver' = "deliver" /\ lastSent > 0
     \/ receiver' \in {"exit", "loop"}
  /\ UNCHANGED <<cancelled, runVars, inVars, bridgeVars, sender, sending,
                 lastSent, wire, sttCh, outVars>>

\* ReadJSON fails.
ReceiverLost ==
  /\ receiver = "read"
  /\ wire = "gone"
  /\ receiver' = "exit"
  /\ UNCHANGED <<cancelled, runVars, inVars, bridgeVars, sender, sending,
                 lastSent, wire, texts, sttCh, outVars>>

\* "select { case transcriptCh <- text: case <-ctx.Done(): return }"
ReceiverDelivers ==
  /\ receiver = "deliver"
  /\ \/ /\ sttCh < SttCap
        /\ sttCh' = sttCh + 1
        /\ receiver' = "loop"
     \/ /\ cancelled
        /\ receiver' = "exit"
        /\ UNCHANGED sttCh
  /\ UNCHANGED <<cancelled, runVars, inVars, bridgeVars, sender, sending,
                 lastSent, wire, texts, outVars>>

\* Whisper closes the connection: of its own, or for a close message.
WhisperCloses ==
  /\ wire \in {"open", "closing"}
  /\ wire' = "gone"
  /\ UNCHANGED <<cancelled, runVars, inVars, bridgeVars, sender, sending,
                 lastSent, receiver, texts, sttCh, outVars>>

-----------------------------------------------------------------------------
(* The translator, as module PipelineTranslator has it, and the encoder.   *)

\* A text is translated, and is to be spoken or not.
TranslatorReceives ==
  /\ translator = "running"
  /\ sttCh > 0
  /\ sttCh' = sttCh - 1
  /\ translator' \in {"running", "speaking"}
  /\ UNCHANGED <<cancelled, runVars, inVars, bridgeVars, sender, sending,
                 lastSent, wire, receiver, texts, audioCh, encoder, accum,
                 opusOutCh, forwarder>>

\* The speech of a text is one chunk.
TranslatorSpeaks ==
  /\ translator = "speaking"
  /\ audioCh < OutCap
  /\ audioCh' = audioCh + 1
  /\ translator' = "running"
  /\ UNCHANGED <<cancelled, runVars, inVars, bridgeVars, sttVars, encoder,
                 accum, opusOutCh, forwarder>>

\* It closes Audio and Transcript when sttCh is closed, or ctx done.
TranslatorEnds ==
  /\ \/ translator = "running" /\ receiver = "exit" /\ sttCh = 0
     \/ translator \in {"running", "speaking"} /\ cancelled
  /\ translator' = "ended"
  /\ UNCHANGED <<cancelled, runVars, inVars, bridgeVars, sttVars, audioCh,
                 encoder, accum, opusOutCh, forwarder>>

\* The encoder adds the samples of a chunk to those left over; a chunk with
\* an odd number of bytes adds none.
EncoderReceives ==
  /\ encoder = "receive"
  /\ audioCh > 0
  /\ audioCh' = audioCh - 1
  /\ \/ /\ \E n \in Chunk : accum' = accum + n
        /\ encoder' = "encode"
     \/ UNCHANGED <<accum, encoder>>
  /\ UNCHANGED <<cancelled, runVars, inVars, bridgeVars, sttVars, translator,
                 opusOutCh, forwarder>>

\* "for len(accumBuf) >= opusFrameSize": a frame goes out, or is dropped
\* because it cannot be encoded.
EncoderEncodes ==
  /\ encoder = "encode"
  /\ IF accum >= FrameSize
       THEN /\ \/ /\ opusOutCh < OutCap
                  /\ opusOutCh' = opusOutCh + 1
               \/ UNCHANGED opusOutCh
            /\ accum' = accum - FrameSize
            /\ UNCHANGED encoder
       ELSE /\ encoder' = "receive"
            /\ UNCHANGED <<opusOutCh, accum>>
  /\ UNCHANGED <<cancelled, runVars, inVars, bridgeVars, sttVars, translator,
                 audioCh, forwarder>>

\* It closes opusOutCh; what is left in accumBuf is lost.
EncoderEnds ==
  /\ \/ /\ encoder = "receive"
        /\ translator = "ended"
        /\ audioCh = 0
     \/ /\ encoder \in {"receive", "encode"}
        /\ cancelled
  /\ encoder' = "exit"
  /\ UNCHANGED <<cancelled, runVars, inVars, bridgeVars, sttVars, translator,
                 audioCh, accum, opusOutCh, forwarder>>

-----------------------------------------------------------------------------
RunStep == StartDecode \/ StartTranslate \/ StartEncode \/ SendFrame \/ SendEnds

DecoderStep == DecoderReceives \/ DecoderSends \/ DecoderEnds

BridgeStep ==
  \/ BridgeReceives \/ BridgeOffers \/ BridgeDrains \/ BridgeOffersAgain
  \/ BridgeEnds

SenderStep == SenderReceives \/ SenderWrites \/ SenderStops \/ SenderEnds

ReceiverStep == ReceiverLoops \/ ReceiverReads \/ ReceiverLost \/ ReceiverDelivers

TranslatorStep == TranslatorReceives \/ TranslatorSpeaks \/ TranslatorEnds

EncoderStep == EncoderReceives \/ EncoderEncodes \/ EncoderEnds

Next ==
  \/ Capture \/ TrackEnds \/ Cancel
  \/ RunStep \/ PipelineStop \/ ForwarderEnds
  \/ DecoderStep \/ BridgeStep
  \/ SenderStep \/ ReceiverStep \/ WhisperCloses
  \/ TranslatorStep \/ EncoderStep

Spec == Init /\ [][Next]_vars

\* The scheduler runs every goroutine; a select that always finds a channel
\* ready need not look at ctx, so a step that ctx.Done makes possible is only
\* forced when the goroutine has nothing else to do.  Nothing is assumed of
\* Whisper, nor of the sender, which can be waiting for it.  That the
\* translator ends is what PipelineTranslator shows (StreamEnds).
Fairness ==
  /\ WF_vars(RunStep)
  /\ WF_vars(PipelineStop)
  /\ WF_vars(ForwarderEnds)
  /\ WF_vars(DecoderStep)
  /\ WF_vars(BridgeStep)
  /\ WF_vars(ReceiverLoops \/ ReceiverLost \/ ReceiverDelivers)
  /\ WF_vars(TranslatorStep)
  /\ WF_vars(EncoderStep)

FairSpec == Spec /\ Fairness

-----------------------------------------------------------------------------
(* Properties.                                                             *)

Frame == 1 .. MaxFrames

\* Type invariant: where the goroutines can be, and the capacities.
TypeOK ==
  /\ {cancelled, opusClosed, stopped} \subseteq BOOLEAN
  /\ run \in {"decode", "translate", "encode", "send", "done"}
  /\ result \in {"none", "ok", "error"}
  /\ frames \in 0 .. MaxFrames
  /\ {decoded, fresh, sending, lastSent} \subseteq 0 .. MaxFrames
  /\ opusCh \in Seq(Frame) /\ Len(opusCh) <= OpusCap
  /\ pcmCh \in Seq(Frame) /\ Len(pcmCh) <= PcmCap
  /\ bpCh \in Seq(Frame) /\ Len(bpCh) <= 1
  /\ decoder \in {"none", "receive", "send", "exit"}
  /\ bridge \in {"none", "receive", "offer", "drain", "offerAgain", "exit"}
  /\ sender \in {"none", "select", "write", "wait", "exit"}
  /\ wire \in {"none", "open", "closing", "gone"}
  /\ receiver \in {"none", "loop", "read", "deliver", "exit"}
  /\ texts \in 0 .. MaxTexts
  /\ sttCh \in 0 .. SttCap
  /\ translator \in {"none", "running", "speaking", "ended"}
  /\ audioCh \in 0 .. OutCap
  /\ encoder \in {"none", "receive", "encode", "exit"}
  /\ accum \in Nat
  /\ opusOutCh \in 0 .. OutCap
  /\ forwarder \in {"none", "range", "exit"}
  /\ wg \in 0 .. 3

If(condition, f) == IF condition THEN <<f>> ELSE <<>>

\* The frames that are still on their way to Whisper, from the oldest.
UnderWay ==
  If(sender = "write", sending) \o bpCh
    \o If(bridge \in {"offer", "drain", "offerAgain"}, fresh) \o pcmCh
    \o If(decoder = "send", decoded) \o opusCh

Increasing(s) == \A i, j \in 1 .. Len(s) : i < j => s[i] < s[j]

\* drainOldest lets newer audio overtake older, never the other way round:
\* whatever is dropped, and whoever takes from bpCh between its three
\* selects, Whisper hears the frames in the order they were spoken, and none
\* twice.
InOrder == Increasing(<<lastSent>> \o UnderWay)

Pipe == INSTANCE LossyPipe WITH spoken <- frames, heard <- lastSent

\* From the track to Whisper the half is a LossyPipe: at no step does Whisper
\* hear a frame that it was not the turn of, or that was not yet spoken, while
\* decoder, bridge and sender all run at once.
Refinement == Pipe!Spec

\* drainOldest never drops the frame it was given: the last select (line 49)
\* always succeeds, since only the bridge sends on bpCh.
NewestKept ==
  bridge = "receive" /\ fresh # 0 =>
    \/ bpCh = <<fresh>>
    \/ sending = fresh

\* When the track has ended and nothing failed, the last frame that the bridge
\* was given has been sent, although bpCh was closed with it inside.
LastFrameSent ==
  sender \in {"wait", "exit"} /\ ~cancelled /\ wire = "closing" =>
    bridge = "exit" /\ lastSent = fresh

\* Who still counts in p.wg.
Counted ==
  (IF run = "done" THEN 0 ELSE 1)
    + (IF bridge \in {"none", "exit"} THEN 0 ELSE 1)
    + (IF forwarder = "range" THEN 1 ELSE 0)

\* p.wg counts the goroutines that are there, although they are added one
\* after the other while others end (lines 138, 180, 212): pipeline_stop is
\* logged when all have ended, and no Add comes after Wait.
StopIsLast == wg = Counted /\ (stopped => wg = 0)

\* Why a half has to end: it was cancelled, or the track has ended and Whisper
\* has closed the connection.  A half whose runHalf has failed is another
\* matter: nobody takes what comes out of the channel before it.
HasToEnd == cancelled \/ (opusClosed /\ wire = "gone" /\ result # "error")

\* A half that is cancelled ends (REQ-10 of the translation spec), whatever
\* Whisper does, at every stage of runHalf, and also when a stage has failed;
\* and it ends by itself at the end of the track, unless a stage fails.
HalfEnds == HasToEnd ~> stopped \/ ~HasToEnd
=============================================================================
