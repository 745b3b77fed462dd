----------------------------- MODULE AudioTrack -----------------------------
(***************************************************************************)
(* internal/adapters/webrtc/pion_peer.go and internal/app/roomsvc/         *)
(* pipeline.go: how the audio of one participant gets from its remote      *)
(* track to the pipelines that translate it.                               *)
(*                                                                         *)
(* Pion calls OnTrack when the track arrives; a pipeline calls             *)
(* OnAudioTrack when the room is full.  The two come in any order, each    *)
(* starts the pipeline's callback if the other was there before, and they  *)
(* race with CloseSession and with the end of the track.  A participant    *)
(* sends one track in the life of its session, but may have one partner    *)
(* after the other, and so one pipeline after the other.                   *)
(*                                                                         *)
(* A step is a critical section of PionPeer.mu, an operation on a channel, *)
(* or a packet read from the network.                                      *)
(***************************************************************************)
EXTENDS Naturals, Sequences

CONSTANTS
  Pipelines, \* the pipelines of the session, each with its half of runHalf
  TrackCap,  \* capacity of audioCh (32 in the code)
  OpusCap,   \* capacity of opusCh (8)
  MaxFrames, \* bound: frames that the participant sends
  None       \* no pipeline

ASSUME NoneIsNoPipeline == None \notin Pipelines

ASSUME SizesAreNat ==
  /\ TrackCap \in Nat \ {0}
  /\ OpusCap \in Nat \ {0}
  /\ MaxFrames \in Nat

\* Who starts a callback: the OnTrack closure or OnAudioTrack.
Starters == {"OnTrack", "OnAudioTrack"}
Callbacks == Pipelines \X Starters

VARIABLES
  peer,         \* p.peers has the session, or had it
  audioHandler, \* p.audioHandlers[sessionID]
  rawTrack,     \* p.rawTracks has the session
  onTrack,      \* where the OnTrack closure is
  captured,     \* the handler that it found
  reader,       \* where its reading goroutine is
  frames,       \* the frames that were read
  audioCh,      \* the frames on their way to a callback
  half,         \* where runHalf of each pipeline is
  ctxDone,      \* the pipelines that were cancelled
  callback,     \* where each callback is: on line 146, 153 or 160
  holds,        \* the frame that it has taken
  opusCh,       \* the frames on their way to a decoder
  opusClosed,   \* the pipelines whose opusCh is closed
  decoded,      \* the frames that a decoder has taken
  panic         \* a callback used a closed channel: the process is dead

peerVars == <<peer, audioHandler, rawTrack, onTrack, captured, reader, frames>>
halfVars == <<half, ctxDone>>
pipeVars == <<callback, holds, opusCh, opusClosed, decoded, panic>>
vars == <<peerVars, audioCh, halfVars, pipeVars>>

Init ==
  /\ peer = "open"
  /\ audioHandler = None
  /\ rawTrack = FALSE
  /\ onTrack = "none"
  /\ captured = None
  /\ reader = "none"
  /\ frames = 0
  /\ audioCh = <<>>
  /\ half = [p \in Pipelines |-> "none"]
  /\ ctxDone = {}
  /\ callback = [c \in Callbacks |-> "none"]
  /\ holds = [c \in Callbacks |-> 0]
  /\ opusCh = [p \in Pipelines |-> <<>>]
  /\ opusClosed = {}
  /\ decoded = [p \in Pipelines |-> <<>>]
  /\ panic = FALSE

Start(c) == callback' = [callback EXCEPT ![c] = "range"]

-----------------------------------------------------------------------------
(* PionPeer.                                                               *)

\* MUTANT of TrackArrives: the track is not put into rawTracks.
TrackNotKept ==
  /\ onTrack = "none"
  /\ onTrack' = "unlocked"
  /\ captured' = audioHandler
  /\ reader' = "reading"
  /\ UNCHANGED <<peer, audioHandler, rawTrack, frames, audioCh, halfVars,
                 pipeVars>>

\* Pion calls the OnTrack closure, in a goroutine that may get the lock after
\* CloseSession.  It puts the track into rawTracks and looks for a handler.
TrackArrives ==
  /\ onTrack = "none"
  /\ onTrack' = "unlocked"
  /\ rawTrack' = TRUE
  /\ captured' = audioHandler
  /\ reader' = "reading"
  /\ UNCHANGED <<peer, audioHandler, frames, audioCh, halfVars, pipeVars>>

\* It starts the handler that it found.
TrackStartsHandler ==
  /\ onTrack = "unlocked"
  /\ onTrack' = "returned"
  /\ IF captured = None
       THEN UNCHANGED callback
       ELSE Start(<<captured, "OnTrack">>)
  /\ UNCHANGED <<peer, audioHandler, rawTrack, captured, reader, frames,
                 audioCh, halfVars, holds, opusCh, opusClosed, decoded, panic>>

\* MUTANT of ReadFrame: the payload is not copied (line 136), and the next
\* packet overwrites those that are still on their way.
ReadWithoutCopy ==
  /\ reader = "reading"
  /\ peer = "open"
  /\ frames < MaxFrames
  /\ frames' = frames + 1
  /\ audioCh' = IF Len(audioCh) < TrackCap
                  THEN [i \in 1 .. Len(audioCh) + 1 |-> frames']
                  ELSE [i \in 1 .. Len(audioCh) |-> frames']
  /\ holds' = [c \in Callbacks |->
                 IF callback[c] = "select" THEN frames' ELSE holds[c]]
  /\ UNCHANGED <<peer, audioHandler, rawTrack, onTrack, captured, reader,
                 halfVars, callback, opusCh, opusClosed, decoded, panic>>

\* A packet is read, and dropped if audioCh is full.
ReadFrame ==
  /\ reader = "reading"
  /\ peer = "open"
  /\ frames < MaxFrames
  /\ frames' = frames + 1
  /\ audioCh' = IF Len(audioCh) < TrackCap
                  THEN Append(audioCh, frames')
                  ELSE audioCh
  /\ UNCHANGED <<peer, audioHandler, rawTrack, onTrack, captured, reader,
                 halfVars, pipeVars>>

\* ReadRTP fails: the track has ended or the connection is closed.  The
\* reader closes audioCh and then forgets the track.
TrackEnds ==
  /\ reader = "reading"
  /\ reader' = "closed"
  /\ UNCHANGED <<peer, audioHandler, rawTrack, onTrack, captured, frames,
                 audioCh, halfVars, pipeVars>>

\* MUTANT of TrackForgotten: the entry of an ended track stays.
TrackKept ==
  /\ reader = "closed"
  /\ reader' = "ended"
  /\ UNCHANGED <<peer, audioHandler, rawTrack, onTrack, captured, frames,
                 audioCh, halfVars, pipeVars>>

TrackForgotten ==
  /\ reader = "closed"
  /\ reader' = "ended"
  /\ rawTrack' = FALSE
  /\ UNCHANGED <<peer, audioHandler, onTrack, captured, frames, audioCh,
                 halfVars, pipeVars>>

CloseSession ==
  /\ peer = "open"
  /\ peer' = "closed"
  /\ audioHandler' = None
  /\ rawTrack' = FALSE
  /\ UNCHANGED <<onTrack, captured, reader, frames, audioCh, halfVars, pipeVars>>

-----------------------------------------------------------------------------
(* A pipeline.                                                             *)

\* MUTANT of OnAudioTrack: the handler is registered, and rawTracks is read
\* under a lock of its own later, where a track that came in between starts
\* the handler as well.
OnAudioTrackReadsLater(p) ==
  /\ \/ /\ half[p] = "none"
        /\ half' = [half EXCEPT ![p] = "registered"]
        /\ audioHandler' = p
     \/ /\ half[p] = "registered"
        /\ half' = [half EXCEPT ![p] = IF rawTrack THEN "ready" ELSE "running"]
        /\ UNCHANGED audioHandler
  /\ UNCHANGED <<peer, rawTrack, onTrack, captured, reader, frames, audioCh,
                 ctxDone, pipeVars>>

\* The pipeline registers its callback, whether or not the session still has
\* a peer connection, and learns whether the track is there.
OnAudioTrack(p) ==
  /\ half[p] = "none"
  /\ half' = [half EXCEPT ![p] = IF rawTrack THEN "ready" ELSE "running"]
  /\ audioHandler' = p
  /\ UNCHANGED <<peer, rawTrack, onTrack, captured, reader, frames, audioCh,
                 ctxDone, pipeVars>>

\* "if trackReady { go handler(ch) }"
StartsHandler(p) ==
  /\ half[p] = "ready"
  /\ half' = [half EXCEPT ![p] = "running"]
  /\ Start(<<p, "OnAudioTrack">>)
  /\ UNCHANGED <<peerVars, audioCh, ctxDone, holds, opusCh, opusClosed,
                 decoded, panic>>

\* The pipeline is cancelled: a participant left, or the room was deleted.
Cancel(p) ==
  /\ half[p] # "none"
  /\ p \notin ctxDone
  /\ ctxDone' = ctxDone \cup {p}
  /\ UNCHANGED <<peerVars, audioCh, half, pipeVars>>

\* The decoder takes a frame.
Decode(p) ==
  /\ half[p] = "running"
  /\ opusCh[p] # <<>>
  /\ decoded' = [decoded EXCEPT ![p] = Append(@, Head(opusCh[p]))]
  /\ opusCh' = [opusCh EXCEPT ![p] = Tail(@)]
  /\ UNCHANGED <<peerVars, audioCh, halfVars, callback, holds, opusClosed,
                 panic>>

-----------------------------------------------------------------------------
(* The callback that OnAudioTrack registered, started by s for pipeline p. *)

\* "for frame := range trackCh"
Receive(p, s) ==
  /\ callback[<<p, s>>] = "range"
  /\ \/ /\ audioCh # <<>>
        /\ holds' = [holds EXCEPT ![<<p, s>>] = Head(audioCh)]
        /\ audioCh' = Tail(audioCh)
        /\ callback' = [callback EXCEPT ![<<p, s>>] = "select"]
     \/ /\ audioCh = <<>>
        /\ reader \in {"closed", "ended"}
        /\ callback' = [callback EXCEPT ![<<p, s>>] = "close"]
        /\ UNCHANGED <<audioCh, holds>>
  /\ UNCHANGED <<peerVars, halfVars, opusCh, opusClosed, decoded, panic>>

\* "case opusCh <- frame:", which panics when opusCh is closed.
Forward(p, s) ==
  /\ callback[<<p, s>>] = "select"
  /\ IF p \in opusClosed
       THEN /\ panic' = TRUE
            /\ UNCHANGED <<opusCh, callback>>
       ELSE /\ Len(opusCh[p]) < OpusCap
            /\ opusCh' = [opusCh EXCEPT ![p] = Append(@, holds[<<p, s>>])]
            /\ callback' = [callback EXCEPT ![<<p, s>>] = "range"]
            /\ UNCHANGED panic
  /\ UNCHANGED <<peerVars, audioCh, halfVars, holds, opusClosed, decoded>>

\* MUTANT of GiveUp: the select does not look at ctx.
NeverGiveUp(p, s) ==
  /\ FALSE
  /\ UNCHANGED vars

\* "case <-ctx.Done(): return": the frame is lost and opusCh stays open.
GiveUp(p, s) ==
  /\ callback[<<p, s>>] = "select"
  /\ p \in ctxDone
  /\ callback' = [callback EXCEPT ![<<p, s>>] = "returned"]
  /\ UNCHANGED <<peerVars, audioCh, halfVars, holds, opusCh, opusClosed,
                 decoded, panic>>

\* "close(opusCh)", which panics when it was closed before.
CloseOpus(p, s) ==
  /\ callback[<<p, s>>] = "close"
  /\ callback' = [callback EXCEPT ![<<p, s>>] = "returned"]
  /\ opusClosed' = opusClosed \cup {p}
  /\ panic' = (p \in opusClosed)
  /\ UNCHANGED <<peerVars, audioCh, halfVars, holds, opusCh, decoded>>

-----------------------------------------------------------------------------
PeerStep ==
  \/ TrackArrives \/ TrackStartsHandler \/ ReadFrame \/ TrackEnds
  \/ TrackForgotten \/ CloseSession

PipelineStep(p) ==
  OnAudioTrack(p) \/ StartsHandler(p) \/ Cancel(p) \/ Decode(p)

CallbackStep(p, s) ==
  Receive(p, s) \/ Forward(p, s) \/ GiveUp(p, s) \/ CloseOpus(p, s)

Next ==
  /\ ~panic
  /\ \/ PeerStep
     \/ \E p \in Pipelines : PipelineStep(p)
     \/ \E p \in Pipelines, s \in Starters : CallbackStep(p, s)

Spec == Init /\ [][Next]_vars

\* The scheduler runs every goroutine.  ReadRTP fails on a closed connection.
\* The decoder goes on until it is cancelled.
Fairness ==
  /\ WF_vars(TrackStartsHandler)
  /\ WF_vars(peer = "closed" /\ TrackEnds)
  /\ WF_vars(TrackForgotten)
  /\ \A p \in Pipelines :
       /\ WF_vars(StartsHandler(p))
       /\ WF_vars(p \notin ctxDone /\ Decode(p))
       /\ \A s \in Starters : WF_vars(CallbackStep(p, s))

FairSpec == Spec /\ Fairness

-----------------------------------------------------------------------------
(* Properties.                                                             *)

Frame == 1 .. MaxFrames

\* Type invariant.
TypeOK ==
  /\ peer \in {"open", "closed"}
  /\ audioHandler \in Pipelines \cup {None}
  /\ rawTrack \in BOOLEAN
  /\ onTrack \in {"none", "unlocked", "returned"}
  /\ captured \in Pipelines \cup {None}
  /\ reader \in {"none", "reading", "closed", "ended"}
  /\ frames \in 0 .. MaxFrames
  /\ audioCh \in Seq(Frame)
  /\ Len(audioCh) <= TrackCap
  /\ half \in [Pipelines -> {"none", "ready", "running"}]
  /\ ctxDone \subseteq Pipelines
  /\ callback \in [Callbacks -> {"none", "range", "select", "close", "returned"}]
  /\ holds \in [Callbacks -> 0 .. MaxFrames]
  /\ \A c \in Callbacks : callback[c] = "select" => holds[c] \in Frame
  /\ opusCh \in [Pipelines -> Seq(Frame)]
  /\ \A p \in Pipelines : Len(opusCh[p]) <= OpusCap
  /\ opusClosed \subseteq Pipelines
  /\ decoded \in [Pipelines -> Seq(Frame)]
  /\ panic \in BOOLEAN

Started(p) == \E s \in Starters : callback[<<p, s>>] # "none"

\* A pipeline's callback is never started twice, by OnTrack and by
\* OnAudioTrack (lines 117-120 and 287-294 exclude each other); two would
\* close opusCh twice, or send on it after it was closed.
StartedOnce ==
  \A p \in Pipelines : \E s \in Starters : callback[<<p, s>>] = "none"

NoPanic == ~panic

\* The "race condition fix" of lines 109-111: when the track is there and the
\* two calls are over, the callback of the last registered pipeline runs,
\* whichever came first.
NoMissedTrack ==
  \A p \in Pipelines :
    (/\ audioHandler = p
     /\ half[p] = "running"
     /\ onTrack = "returned"
     /\ reader = "reading"
     /\ peer = "open") => Started(p)

\* Every frame that a pipeline has taken over, in order.
Taken(p) == decoded[p] \o opusCh[p]

\* A frame is translated once, by one pipeline, and in the order in which it
\* was spoken, even while the callbacks of two pipelines take from the track.
InOrderOnce ==
  /\ \A p \in Pipelines : \A i, j \in 1 .. Len(Taken(p)) :
       i < j => Taken(p)[i] < Taken(p)[j]
  /\ \A p, q \in Pipelines : p # q =>
       \A i \in 1 .. Len(Taken(p)), j \in 1 .. Len(Taken(q)) :
         Taken(p)[i] # Taken(q)[j]

Log(p) == INSTANCE FrameLog WITH spoken <- frames, taken <- Taken(p)

\* For each pipeline the track, its channel and the callback implement a log
\* that only grows, by frames later than all that are in it, although two
\* callbacks may take from the channel and either may lose what it has taken.
Refinement ==
  /\ \A p \in Pipelines : Log(p)!Init
  /\ [][\A p \in Pipelines : [Log(p)!Next]_(Log(p)!lvars)]_vars

\* When the track has ended, a callback that was started ends, and the decoder
\* of a pipeline that was not cancelled sees the end of the speech.  No callback
\* waits for ever at the end of the track, cancelled or not.
EndIsPassedOn ==
  \A p \in Pipelines :
    /\ reader = "ended" /\ Started(p) ~> p \in ctxDone \/ p \in opusClosed
    /\ \A s \in Starters :
         reader = "ended" ~> callback[<<p, s>>] \in {"none", "returned"}

\* CloseSession, and a track that arrives just after it, leave no entry in
\* rawTracks for good.
TrackReleased == peer = "closed" ~> []~rawTrack
=============================================================================
