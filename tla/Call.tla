-------------------------------- MODULE Call --------------------------------
(***************************************************************************)
(* A phone and the server in one call: the phone of module MobileClient,   *)
(* and what cmd/server does with its sockets.  The readPump of each        *)
(* connection hands its messages to HandleSignaling in order; the hub      *)
(* loop unregisters a lost connection and reports it to OnDisconnect,      *)
(* which arms the grace timer of the session.                              *)
(*                                                                         *)
(* A call of the room service is one step here: how JoinRoom, LeaveRoom,   *)
(* DeleteRoom and a timer interleave is the subject of RoomService, and    *)
(* what happens to messages inside the hub the subject of Hub.  The phone  *)
(* joins once, so that it has one session.  The other participant, and     *)
(* DELETE and the sweep, are the environment.                              *)
(***************************************************************************)
EXTENDS MobileClient

VARIABLES
  room,      \* "open", "expired" by the phone's grace timer, or "deleted"
  session,   \* the phone's: "none", "live" (with its PeerConnection) or "gone"
  bound,     \* sockets whose Client.sessionID is the phone's session
  route,     \* Hub.sessionClients of the session, 0 when there is none
  timer,     \* the grace timer of the session
  lost,      \* sockets that the hub has unregistered
  notice,    \* sockets that were sent "room-closed"
  regained   \* sockets on which an answer came that are not bound: the call is back

serverVars == <<room, session, bound, route, timer, lost, notice>>
callVars == <<vars, serverVars, regained>>

CallInit ==
  /\ Init
  /\ room = "open"
  /\ session = "none"
  /\ bound = {}
  /\ route = 0
  /\ timer = "off"
  /\ lost = {}
  /\ notice = {}
  /\ regained = {}

-----------------------------------------------------------------------------
(* HandleSignaling, called by the readPump of socket w.                    *)

Takes(w, message) ==
  /\ w \notin lost
  /\ asked[w] # <<>>
  /\ Head(asked[w]) = message

\* JoinRoom cancels the grace timers of the room; dispatch binds the session to
\* the connection.
Joins(w) ==
  /\ Takes(w, "join")
  /\ room = "open"
  /\ Handle(w, "joined")
  /\ session' = "live"
  /\ bound' = bound \cup {w}
  /\ route' = w
  /\ timer' = IF timer = "armed" THEN "off" ELSE timer
  /\ UNCHANGED <<room, lost, notice, regained>>

\* JoinRoom: no such room, the room is full, or no PeerConnection could be made.
JoinRefused(w) ==
  /\ Takes(w, "join")
  /\ Handle(w, "")
  /\ UNCHANGED <<serverVars, regained>>

\* HandleOffer looks for the PeerConnection of the session that the message
\* names, whichever connection the message came on.
Offered(w) ==
  /\ Takes(w, "offer")
  /\ \/ session = "live" /\ Handle(w, "answer")
     \/ Handle(w, "")
  /\ UNCHANGED <<serverVars, regained>>

\* LeaveRoom; a grace timer stays.
Leaves(w) ==
  /\ Takes(w, "leave")
  /\ Handle(w, "")
  /\ session' = IF session = "live" THEN "gone" ELSE session
  /\ UNCHANGED <<room, bound, route, timer, lost, notice, regained>>

-----------------------------------------------------------------------------
(* The hub loop, the grace timer and the others.                           *)

\* The readPump of w has ended: unregister, and OnDisconnect.
Unregister(w) ==
  /\ w \notin lost
  /\ socket[w] \in {"open", "closing", "closed"}
  /\ lost' = lost \cup {w}
  /\ route' = IF w \in bound THEN 0 ELSE route
  /\ timer' = IF w \in bound /\ session = "live" /\ timer = "off"
                THEN "armed" ELSE timer
  /\ UNCHANGED <<vars, room, session, bound, notice, regained>>

\* DeleteRoom, and NotifySession with "room-closed" of the session itself.
GraceFires ==
  /\ timer = "armed"
  /\ timer' = "over"
  /\ room' = IF room = "open" THEN "expired" ELSE room
  /\ session' = "gone"
  /\ notice' = notice \cup ({route} \ {0})
  /\ UNCHANGED <<vars, bound, route, lost, regained>>

\* JoinRoom of the other participant cancels the timers of the room's sessions.
PeerJoins ==
  /\ room = "open"
  /\ session = "live"
  /\ timer = "armed"
  /\ timer' = "off"
  /\ UNCHANGED <<vars, room, session, bound, route, lost, notice, regained>>

\* DeleteRoom by DELETE, by the sweep or by the timer of the other participant:
\* nobody tells the phone.
RoomDeleted ==
  /\ room = "open"
  /\ room' = "deleted"
  /\ session' = IF session = "live" THEN "gone" ELSE session
  /\ UNCHANGED <<vars, bound, route, timer, lost, notice, regained>>

-----------------------------------------------------------------------------
(* The phone.                                                              *)

AnswerComes(w) ==
  /\ OnAnswer(w)
  /\ regained' = regained \cup ({w} \ bound)
  /\ UNCHANGED serverVars

ClosedComes(w) ==
  /\ w \in notice
  /\ OnRoomClosed(w)
  /\ UNCHANGED <<serverVars, regained>>

PhoneSteps ==
  /\ \/ \E w \in Sockets : OnOpen(w) \/ OnClose(w) \/ OnJoined(w) \/ OnPeerLeft(w)
     \/ Effect
     \/ StreamReady
     \/ FirstOfferSettles
     \/ \E l \in Loops : Attempt(l)
     \/ EndCall
  /\ UNCHANGED <<serverVars, regained>>

-----------------------------------------------------------------------------
ReadPump(w) == Joins(w) \/ JoinRefused(w) \/ Offered(w) \/ Leaves(w)

CallNext ==
  \/ PhoneSteps
  \/ \E w \in Sockets : AnswerComes(w) \/ ClosedComes(w)
  \/ \E w \in Sockets : ReadPump(w) \/ Unregister(w)
  \/ GraceFires \/ PeerJoins \/ RoomDeleted

CallSpec == CallInit /\ [][CallNext]_callVars

-----------------------------------------------------------------------------
(* Properties.                                                             *)

\* Type invariant of the server's side.
CallTypeOK ==
  /\ TypeOK
  /\ room \in {"open", "expired", "deleted"}
  /\ session \in {"none", "live", "gone"}
  /\ route \in Sockets \cup {0}
  /\ timer \in {"off", "armed", "over"}
  /\ bound \subseteq Sockets /\ lost \subseteq Sockets
  /\ notice \subseteq Sockets /\ regained \subseteq Sockets

\* While the grace timer runs no connection is bound to the session: so the
\* "room-closed" that the timer sends reaches nobody.
NobodyIsTold ==
  /\ timer = "armed" => route = 0
  /\ notice = {}

\* A phone that came back within the grace period (its restart offer was answered
\* on a new socket, which is still open) does not lose its room to the grace timer
\* of its old socket.
KeptAfterReconnect ==
  room = "expired" => \A w \in regained : socket[w] # "open"

=============================================================================
