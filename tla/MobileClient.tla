----------------------------- MODULE MobileClient -----------------------------
(***************************************************************************)
(* A call on the phone: mobile/src/screens/ConversationScreen.tsx with     *)
(* useSignaling (the WebSocket), useReconnection (the attempts after a     *)
(* loss), useWebRTC (microphone and offers) and the session store.         *)
(*                                                                         *)
(* JavaScript has one thread: a step is one event handler, timer, promise  *)
(* continuation or effect of React.  Between a change of state and the     *)
(* effect that it causes other steps may run, and an effect that is due    *)
(* may still run after the screen was replaced, until it is unmounted.     *)
(*                                                                         *)
(* The server handles the messages of a socket in order.  It answers a     *)
(* join with "joined" and an offer with "answer", both on the socket that  *)
(* was used, or not at all (an error only gets logged); module Call says   *)
(* which.  A socket that is closing still delivers what was on its way.    *)
(* ICE candidates, names, transcripts and audio levels do not bear on the  *)
(* connection and are left out.                                            *)
(*                                                                         *)
(* The model is the first call after the start of the app: the store is    *)
(* clean.  Each socket, each attempt and each loop has a number, which     *)
(* bounds how many there are; no run reaches the last socket or loop.      *)
(***************************************************************************)
EXTENDS Naturals, Sequences

CONSTANTS
  MaxAttempts, \* of useReconnection (3 in the code)
  MaxSockets,  \* bound: WebSockets opened in the call
  MaxLoops     \* bound: loops of attempts that trigger starts

ASSUME BoundsArePositive ==
  /\ {MaxAttempts, MaxLoops} \subseteq Nat \ {0}
  /\ MaxSockets \in Nat /\ MaxSockets > MaxAttempts

Sockets == 1 .. MaxSockets
Loops == 1 .. MaxLoops

VARIABLES
  screen,          \* the call is shown, was replaced, or is unmounted
  connectionState, \* in the store, shown by ConnectionStatus
  sessionId,       \* whether the store has one
  isConnected,     \* of useSignaling
  socket,          \* state of each WebSocket
  wsRef,           \* the socket in use, 0 when there is none
  asked,           \* what was sent on each socket and not handled yet
  coming,          \* the server's answers on their way on each socket
  hasJoined,       \* hasJoinedRef
  hasSentOffer,    \* hasSentOfferRef
  localStream,     \* whether the microphone is there
  pc,              \* the RTCPeerConnection
  firstOffer,      \* createOffer of the effect: "none", "pending" or "over"
  reconnection,    \* state of useReconnection
  cancelledRef,
  loop             \* where each loop of attempts is

storeVars == <<connectionState, sessionId>>
wireVars == <<asked, coming>>
socketVars == <<isConnected, socket, wsRef, wireVars>>
offerVars == <<hasSentOffer, localStream, pc, firstOffer>>
retryVars == <<reconnection, cancelledRef, loop>>
vars == <<screen, storeVars, socketVars, hasJoined, offerVars, retryVars>>

Init ==
  /\ screen = "call"
  /\ connectionState = "idle"
  /\ sessionId = FALSE
  /\ isConnected = FALSE
  /\ socket = [w \in Sockets |-> IF w = 1 THEN "connecting" ELSE "none"]
  /\ wsRef = 1
  /\ asked = [w \in Sockets |-> <<>>]
  /\ coming = [w \in Sockets |-> <<>>]
  /\ hasJoined = FALSE
  /\ hasSentOffer = FALSE
  /\ localStream = FALSE
  /\ pc = "open"
  /\ firstOffer = "none"
  /\ reconnection = "connected"
  /\ cancelledRef = FALSE
  /\ loop = [l \in Loops |-> [at |-> "none", attempt |-> 0]]

-----------------------------------------------------------------------------
(* WebSockets.                                                             *)

\* ws.close() on the socket in use: its other events may still come.
Closing ==
  IF wsRef # 0 /\ socket[wsRef] \in {"connecting", "open"}
    THEN [socket EXCEPT ![wsRef] = "closing"]
    ELSE socket

\* send: nothing is sent unless the socket in use is open.
Send(message) ==
  asked' = IF wsRef # 0 /\ socket[wsRef] = "open"
             THEN [asked EXCEPT ![wsRef] = Append(@, message)]
             ELSE asked

\* connect, after the socket in use was closed.
Reconnect ==
  \E w \in Sockets :
    /\ socket[w] = "none"
    /\ \A v \in Sockets : v < w => socket[v] # "none"
    /\ socket' = [Closing EXCEPT ![w] = "connecting"]
    /\ wsRef' = w

OnOpen(w) ==
  /\ socket[w] = "connecting"
  /\ socket' = [socket EXCEPT ![w] = "open"]
  /\ isConnected' = TRUE
  /\ UNCHANGED <<screen, storeVars, wsRef, wireVars, hasJoined, offerVars, retryVars>>

\* onclose, or onerror and onclose: also of a socket that is not in use.
OnClose(w) ==
  /\ socket[w] \in {"connecting", "open", "closing"}
  /\ socket' = [socket EXCEPT ![w] = "closed"]
  /\ isConnected' = FALSE
  /\ UNCHANGED <<screen, storeVars, wsRef, wireVars, hasJoined, offerVars, retryVars>>

Delivered(w) == socket[w] \in {"open", "closing"}

Receive(w, answer) ==
  /\ Delivered(w)
  /\ coming[w] # <<>>
  /\ Head(coming[w]) = answer
  /\ coming' = [coming EXCEPT ![w] = Tail(@)]
  /\ UNCHANGED asked

\* onJoined: the store is global and has it even after the call has ended.
OnJoined(w) ==
  /\ Receive(w, "joined")
  /\ connectionState' = "connected"
  /\ sessionId' = TRUE
  /\ UNCHANGED <<screen, isConnected, socket, wsRef, hasJoined, offerVars, retryVars>>

\* onAnswer, which calls reconnection.reset.
OnAnswer(w) ==
  /\ Receive(w, "answer")
  /\ reconnection' = "connected"
  /\ cancelledRef' = FALSE
  /\ UNCHANGED <<screen, storeVars, isConnected, socket, wsRef, hasJoined,
                 offerVars, loop>>

OnPeerLeft(w) ==
  /\ Delivered(w)
  /\ connectionState' = "idle"
  /\ UNCHANGED <<screen, sessionId, socketVars, hasJoined, offerVars, retryVars>>

JoinPending(w) ==
  \/ \E i \in DOMAIN asked[w] : asked[w][i] = "join"
  \/ \E i \in DOMAIN coming[w] : coming[w][i] = "joined"

\* onRoomClosed: disconnect, and to the home screen.  The server tells only
\* sessions, after their "joined".
OnRoomClosed(w) ==
  /\ Delivered(w)
  /\ hasJoined
  /\ ~JoinPending(w)
  /\ connectionState' = "idle"
  /\ sessionId' = FALSE
  /\ screen' = IF screen = "call" THEN "replaced" ELSE screen
  /\ UNCHANGED <<socketVars, hasJoined, offerVars, retryVars>>

-----------------------------------------------------------------------------
(* Effects of the screen.                                                  *)

Mounted == screen # "home"

\* MUTANT of JoinEffect: joins on every socket that opens (no hasJoinedRef).
JoinAgain ==
  /\ Mounted
  /\ isConnected
  /\ connectionState # "connected"
  /\ hasJoined' = TRUE
  /\ connectionState' = "connecting"
  /\ Send("join")
  /\ UNCHANGED <<screen, sessionId, isConnected, socket, wsRef, coming, offerVars,
                 retryVars>>

JoinEffect ==
  /\ Mounted
  /\ isConnected
  /\ ~hasJoined
  /\ hasJoined' = TRUE
  /\ connectionState' = "connecting"
  /\ Send("join")
  /\ UNCHANGED <<screen, sessionId, isConnected, socket, wsRef, coming, offerVars,
                 retryVars>>

OfferEffect ==
  /\ Mounted
  /\ sessionId
  /\ localStream
  /\ ~hasSentOffer
  /\ hasSentOffer' = TRUE
  /\ firstOffer' = "pending"
  /\ UNCHANGED <<screen, storeVars, socketVars, hasJoined, localStream, pc, retryVars>>

\* trigger: a loop starts, unless the user has left.
TriggerEffect ==
  /\ Mounted
  /\ ~isConnected
  /\ connectionState = "connected"
  /\ connectionState' = "reconnecting"
  /\ IF cancelledRef
       THEN UNCHANGED <<reconnection, loop>>
       ELSE /\ reconnection' = "reconnecting"
            /\ \E l \in Loops :
                 /\ loop[l].at = "none"
                 /\ \A k \in Loops : k < l => loop[k].at # "none"
                 /\ loop' = [loop EXCEPT ![l] = [at |-> "waiting", attempt |-> 1]]
  /\ UNCHANGED <<screen, sessionId, socketVars, hasJoined, offerVars, cancelledRef>>

\* getUserMedia has succeeded.
StreamReady ==
  /\ ~localStream
  /\ pc = "open"
  /\ localStream' = TRUE
  /\ UNCHANGED <<screen, storeVars, socketVars, hasJoined, hasSentOffer, pc,
                 firstOffer, retryVars>>

\* createOffer of the effect has settled: the offer is sent, or it failed.
FirstOfferSettles ==
  /\ firstOffer = "pending"
  /\ firstOffer' = "over"
  /\ \/ pc = "open" /\ Send("offer")
     \/ UNCHANGED asked
  /\ UNCHANGED <<screen, storeVars, isConnected, socket, wsRef, coming, hasJoined,
                 hasSentOffer, localStream, pc, retryVars>>

-----------------------------------------------------------------------------
(* The attempts of useReconnection.                                        *)

At(l, place) == loop' = [loop EXCEPT ![l].at = place]

\* onReconnect has resolved.
Resolved(l) ==
  /\ reconnection' = "connected"
  /\ At(l, "over")

\* The timer of an attempt: onReconnect, up to its await.
TimerFires(l) ==
  /\ loop[l].at = "waiting"
  /\ IF cancelledRef
       THEN At(l, "over") /\ UNCHANGED <<socket, wsRef, reconnection>>
       ELSE /\ Reconnect
            /\ IF sessionId
                 THEN At(l, "offering") /\ UNCHANGED reconnection
                 ELSE Resolved(l)
  /\ UNCHANGED <<screen, storeVars, isConnected, wireVars, hasJoined, offerVars,
                 cancelledRef>>

\* createOffer has succeeded; the offer is lost if the new socket is not open.
OfferMade(l) ==
  /\ loop[l].at = "offering"
  /\ pc = "open"
  /\ Send("offer")
  /\ Resolved(l)
  /\ UNCHANGED <<screen, storeVars, isConnected, socket, wsRef, coming, hasJoined,
                 offerVars, cancelledRef>>

\* createOffer has failed and was the last attempt: onFailed.
GivesUp(l) ==
  /\ loop[l].attempt + 1 > MaxAttempts
  /\ At(l, "over")
  /\ reconnection' = "failed"
  /\ connectionState' = "failed"

\* MUTANT of TriesAgain: without the comparison with maxAttempts.
TriesForever(l) ==
  /\ loop' = [loop EXCEPT ![l] = [at |-> "waiting", attempt |-> @.attempt + 1]]
  /\ UNCHANGED <<reconnection, connectionState>>

\* MUTANT of TriesAgain: attemptConnect(currentAttempt), without the + 1.
TriesTheSame(l) ==
  /\ loop[l].attempt + 1 <= MaxAttempts
  /\ loop' = [loop EXCEPT ![l].at = "waiting"]
  /\ UNCHANGED <<reconnection, connectionState>>

TriesAgain(l) ==
  /\ loop[l].attempt + 1 <= MaxAttempts
  /\ loop' = [loop EXCEPT ![l] = [at |-> "waiting", attempt |-> @.attempt + 1]]
  /\ UNCHANGED <<reconnection, connectionState>>

OfferFails(l) ==
  /\ loop[l].at = "offering"
  /\ IF cancelledRef
       THEN At(l, "over") /\ UNCHANGED <<reconnection, connectionState>>
       ELSE GivesUp(l) \/ TriesAgain(l)
  /\ UNCHANGED <<screen, sessionId, socketVars, hasJoined, offerVars, cancelledRef>>

-----------------------------------------------------------------------------
(* The end of the call.                                                    *)

\* handleEndCall: cancel, leave, close everything, disconnect.
EndCall ==
  /\ screen = "call"
  /\ screen' = "replaced"
  /\ cancelledRef' = TRUE
  /\ reconnection' = "connected"
  /\ pc' = "closed"
  /\ localStream' = FALSE
  /\ IF sessionId THEN Send("leave") ELSE UNCHANGED asked
  /\ socket' = Closing
  /\ wsRef' = 0
  /\ connectionState' = "idle"
  /\ sessionId' = FALSE
  /\ UNCHANGED <<isConnected, coming, hasJoined, hasSentOffer, firstOffer, loop>>

\* The clean-ups of useSignaling and useWebRTC.
Unmount ==
  /\ screen = "replaced"
  /\ screen' = "home"
  /\ socket' = Closing
  /\ pc' = "closed"
  /\ UNCHANGED <<storeVars, isConnected, wsRef, wireVars, hasJoined, hasSentOffer,
                 localStream, firstOffer, retryVars>>

-----------------------------------------------------------------------------
(* The server: HandleSignaling, one message after the other.               *)

\* What the server may answer, "" being nothing or an error.
Answers(message) ==
  CASE message = "join" -> {"joined", ""}
    [] message = "offer" -> {"answer", ""}
    [] message = "leave" -> {""}

Handle(w, answer) ==
  /\ asked[w] # <<>>
  /\ answer \in Answers(Head(asked[w]))
  /\ asked' = [asked EXCEPT ![w] = Tail(@)]
  /\ coming' = IF answer = "" THEN coming
                ELSE [coming EXCEPT ![w] = Append(@, answer)]
  /\ UNCHANGED <<screen, storeVars, isConnected, socket, wsRef, hasJoined,
                 offerVars, retryVars>>

-----------------------------------------------------------------------------
Message(w) == OnJoined(w) \/ OnAnswer(w)

News(w) == OnPeerLeft(w) \/ OnRoomClosed(w)

Effect == JoinEffect \/ OfferEffect \/ TriggerEffect \/ Unmount

Attempt(l) == TimerFires(l) \/ OfferMade(l) \/ OfferFails(l)

Next ==
  \/ \E w \in Sockets : OnOpen(w) \/ OnClose(w) \/ Message(w) \/ News(w)
  \/ \E w \in Sockets, answer \in {"joined", "answer", ""} : Handle(w, answer)
  \/ Effect
  \/ StreamReady
  \/ FirstOfferSettles
  \/ \E l \in Loops : Attempt(l)
  \/ EndCall

Spec == Init /\ [][Next]_vars

\* Effects run, timers fire and promises settle, whatever the server and the
\* network do.
Fairness ==
  /\ WF_vars(Effect)
  /\ WF_vars(FirstOfferSettles)
  /\ \A l \in Loops : WF_vars(Attempt(l))

FairSpec == Spec /\ Fairness

-----------------------------------------------------------------------------
(* Properties.                                                             *)

\* Type invariant.
TypeOK ==
  /\ screen \in {"call", "replaced", "home"}
  /\ connectionState \in {"idle", "connecting", "connected", "reconnecting", "failed"}
  /\ {sessionId, isConnected, hasJoined, hasSentOffer, localStream, cancelledRef}
       \subseteq BOOLEAN
  /\ socket \in [Sockets -> {"none", "connecting", "open", "closing", "closed"}]
  /\ wsRef \in 0 .. MaxSockets
  /\ wsRef # 0 => socket[wsRef] # "none"
  /\ asked \in [Sockets -> Seq({"join", "offer", "leave"})]
  /\ coming \in [Sockets -> Seq({"joined", "answer"})]
  /\ pc \in {"open", "closed"}
  /\ firstOffer \in {"none", "pending", "over"}
  /\ reconnection \in {"connected", "reconnecting", "failed"}
  /\ loop \in [Loops -> [at : {"none", "waiting", "offering", "over"},
                         attempt : 0 .. MaxAttempts]]

Opened == {w \in Sockets : socket[w] # "none"}

\* Beside the first socket, no more are opened than attempts are allowed
\* (REQ-B05: "max 3 attempts").  cancel does not stop the timer of an attempt,
\* and a late answer takes the cancellation back: the attempts then go on, but
\* nothing starts to count them anew.
SocketsBounded == Opened \subseteq 1 .. MaxAttempts + 1

\* A call is given up only after all attempts (REQ-B05: "max 3 attempts"), each
\* with a socket of its own, and there are no more: trigger does not look whether
\* a loop runs, but only one loop is ever started, since the screen joins once.
FailedAfterAll ==
  connectionState = "failed" => Opened = 1 .. MaxAttempts + 1

\* A call that was lost never counts as connected again: only "joined" sets
\* "connected", and the screen joins once.  (REQ-B05 has the transition.)
NotConnectedAgain ==
  [][connectionState = "reconnecting" => connectionState' # "connected"]_vars

\* A loop of attempts comes to an end, whatever the network does and whoever
\* leaves meanwhile.
LoopEnds == \A l \in Loops : loop[l].at = "waiting" ~> loop[l].at = "over"

=============================================================================
