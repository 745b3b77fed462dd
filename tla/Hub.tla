-------------------------------- MODULE Hub --------------------------------
(***************************************************************************)
(* internal/adapters/signaling: the hub loop, the read and write pump of   *)
(* every WebSocket client, and NotifySession, which any goroutine may      *)
(* call.                                                                   *)
(*                                                                         *)
(* A step is a critical section of Hub.mu or one operation on a channel.   *)
(* Messages are only counted.  HandleSignaling is the subject of module    *)
(* RoomService; here it answers a message with any session, with a         *)
(* response or an error, or with an acknowledgement, which leaves no       *)
(* trace.  RunCtx ends only with the process (cmd/server/main.go), which   *)
(* is not modelled.                                                        *)
(***************************************************************************)
EXTENDS Naturals, FiniteSets

CONSTANTS
  Clients,    \* Client objects: one for each WebSocket connection
  Rooms,      \* the room ids of the URLs that clients connect to
  Sessions,   \* the session ids that HandleSignaling answers with
  Notifiers,  \* goroutines that call NotifySession
  SendBuffer, \* sendBufferSize
  None        \* no session, no client

ASSUME SendBufferIsPositive == SendBuffer \in Nat \ {0}

ASSUME NoneIsNothing == None \notin Clients \cup Sessions

VARIABLES
  room,           \* Client.roomID
  reader,         \* where ServeWS and then the readPump of a client are
  writer,         \* the writePump of a client
  session,        \* Client.sessionID
  send,           \* the number of messages in Client.send
  closed,         \* the clients whose send channel is closed
  clients,        \* Hub.clients
  roomClients,    \* Hub.roomClients
  sessionClients, \* Hub.sessionClients
  hub,            \* where the hub loop is, and its local variables
  notifier,       \* where a call of NotifySession is, and its client
  reported,       \* the clients whose loss was given to OnDisconnect
  panic           \* who sent on, or closed, a closed channel: the process is dead

clientVars == <<room, reader, writer, session, send, closed>>
hubVars == <<clients, roomClients, sessionClients, hub>>
vars == <<clientVars, hubVars, notifier, reported, panic>>

Selecting == [pc |-> "select", client |-> None, todo |-> {}]
Resting == [pc |-> "idle", client |-> None]

Init ==
  /\ room \in [Clients -> Rooms]
  /\ reader = [c \in Clients |-> "unborn"]
  /\ writer = [c \in Clients |-> "none"]
  /\ session = [c \in Clients |-> None]
  /\ send = [c \in Clients |-> 0]
  /\ closed = {}
  /\ clients = {}
  /\ roomClients = [r \in Rooms |-> {}]
  /\ sessionClients = [s \in Sessions |-> None]
  /\ hub = Selecting
  /\ notifier = [n \in Notifiers |-> Resting]
  /\ reported = {}
  /\ panic = "no"

-----------------------------------------------------------------------------
(* Channels.  The process is dead after a panic: no step is possible.      *)

\* A message is put into the channel of c, which is open and has room.
Enqueue(c) == send' = [send EXCEPT ![c] = @ + 1]

\* "select { case c.send <- data: default: }" in goroutine who.
TrySend(who, c) ==
  \/ /\ c \in closed
     /\ panic' = who
     /\ UNCHANGED send
  \/ /\ c \notin closed
     /\ send[c] < SendBuffer
     /\ Enqueue(c)
     /\ UNCHANGED panic
  \/ /\ c \notin closed
     /\ send[c] = SendBuffer
     /\ UNCHANGED <<send, panic>>

-----------------------------------------------------------------------------
(* ServeWS and readPump.                                                   *)

\* The connection is upgraded, and ServeWS waits for the hub loop.
Connect(c) ==
  /\ panic = "no"
  /\ reader[c] = "unborn"
  /\ reader' = [reader EXCEPT ![c] = "registering"]
  /\ UNCHANGED <<room, writer, session, send, closed, hubVars, notifier, reported, panic>>

\* dispatch: a response or an error that is not "joined" will be sent.
Answer(c) ==
  /\ panic = "no"
  /\ reader[c] = "reading"
  /\ reader' = [reader EXCEPT ![c] = "respond"]
  /\ UNCHANGED <<room, writer, session, send, closed, hubVars, notifier, reported, panic>>

\* dispatch: "joined" binds the session to the client.  A reconnecting user is
\* given the session that another client was bound to.
Joined(c, s) ==
  /\ panic = "no"
  /\ reader[c] = "reading"
  /\ session' = [session EXCEPT ![c] = s]
  /\ sessionClients' = [sessionClients EXCEPT ![s] = c]
  /\ reader' = [reader EXCEPT ![c] = "respond"]
  /\ UNCHANGED <<room, writer, send, closed, clients, roomClients, hub,
                 notifier, reported, panic>>

\* dispatch and sendError: the blocking send of the response.
Respond(c) ==
  /\ panic = "no"
  /\ reader[c] = "respond"
  /\ \/ /\ c \in closed
        /\ panic' = "dispatch"
        /\ UNCHANGED <<send, reader>>
     \/ /\ c \notin closed
        /\ send[c] < SendBuffer
        /\ Enqueue(c)
        /\ reader' = [reader EXCEPT ![c] = "reading"]
        /\ UNCHANGED panic
  /\ UNCHANGED <<room, writer, session, closed, hubVars, notifier, reported>>

\* ReadMessage fails: the client went away, the pong is overdue, or the
\* writePump closed the connection.  The deferred unregister follows.
ReadFails(c) ==
  /\ panic = "no"
  /\ reader[c] = "reading"
  /\ reader' = [reader EXCEPT ![c] = "ending"]
  /\ UNCHANGED <<room, writer, session, send, closed, hubVars, notifier, reported, panic>>

-----------------------------------------------------------------------------
(* writePump                                                               *)

\* MUTANT of Write: messages are held back until the client has joined.
WriteAfterJoin(c) ==
  /\ panic = "no"
  /\ writer[c] = "running"
  /\ session[c] # None
  /\ send[c] > 0
  /\ send' = [send EXCEPT ![c] = @ - 1]
  /\ UNCHANGED <<room, reader, writer, session, closed, hubVars, notifier, reported, panic>>

Write(c) ==
  /\ panic = "no"
  /\ writer[c] = "running"
  /\ send[c] > 0
  /\ send' = [send EXCEPT ![c] = @ - 1]
  /\ UNCHANGED <<room, reader, writer, session, closed, hubVars, notifier, reported, panic>>

\* MUTANT of WriteFails: the failing writePump unregisters the client as well.
WriteFailsUnregisters(c) ==
  /\ panic = "no"
  /\ writer[c] = "running"
  /\ writer' = [writer EXCEPT ![c] = "dead"]
  /\ clients' = clients \ {c}
  /\ closed' = closed \cup {c}
  /\ UNCHANGED <<room, reader, session, send, roomClients, sessionClients, hub,
                 notifier, reported, panic>>

\* The write of a message or of a ping fails; the pump closes the connection.
WriteFails(c) ==
  /\ panic = "no"
  /\ writer[c] = "running"
  /\ writer' = [writer EXCEPT ![c] = "dead"]
  /\ \/ UNCHANGED send
     \/ /\ send[c] > 0
        /\ send' = [send EXCEPT ![c] = @ - 1]
  /\ UNCHANGED <<room, reader, session, closed, hubVars, notifier, reported, panic>>

\* The channel is closed and drained.
WriterEnds(c) ==
  /\ panic = "no"
  /\ writer[c] = "running"
  /\ c \in closed
  /\ send[c] = 0
  /\ writer' = [writer EXCEPT ![c] = "dead"]
  /\ UNCHANGED <<room, reader, session, send, closed, hubVars, notifier, reported, panic>>

-----------------------------------------------------------------------------
(* RunCtx, the hub loop.                                                   *)

\* ServeWS goes on when the hub has taken the client, and starts its pumps.
Register(c) ==
  /\ panic = "no"
  /\ hub.pc = "select"
  /\ reader[c] = "registering"
  /\ clients' = clients \cup {c}
  /\ roomClients' = [roomClients EXCEPT ![room[c]] = @ \cup {c}]
  /\ reader' = [reader EXCEPT ![c] = "reading"]
  /\ writer' = [writer EXCEPT ![c] = "running"]
  /\ UNCHANGED <<room, session, send, closed, sessionClients, hub, notifier, reported, panic>>

\* What the loop does next for the client it has just unregistered.
AfterUnregister(c, peers) ==
  CASE session[c] = None -> Selecting
    [] session[c] # None /\ peers = {} -> [pc |-> "report", client |-> c, todo |-> {}]
    [] OTHER -> [pc |-> "peerLeft", client |-> c, todo |-> peers]

\* MUTANTS of Unregister: the client stays in the list of its room; its session
\* keeps the route; it is reported only when someone is left in its room.
UnregisterKeepsRoom(c) ==
  /\ panic = "no"
  /\ hub.pc = "select"
  /\ reader[c] = "ending"
  /\ clients' = clients \ {c}
  /\ closed' = closed \cup {c}
  /\ sessionClients' = [s \in Sessions |-> IF s = session[c] THEN None ELSE sessionClients[s]]
  /\ hub' = AfterUnregister(c, roomClients[room[c]] \ {c})
  /\ reader' = [reader EXCEPT ![c] = "gone"]
  /\ UNCHANGED <<room, writer, session, send, roomClients, notifier, reported, panic>>

UnregisterKeepsRoute(c) ==
  LET peers == roomClients[room[c]] \ {c}
  IN  /\ panic = "no"
      /\ hub.pc = "select"
      /\ reader[c] = "ending"
      /\ clients' = clients \ {c}
      /\ closed' = closed \cup {c}
      /\ roomClients' = [roomClients EXCEPT ![room[c]] = peers]
      /\ hub' = AfterUnregister(c, peers)
      /\ reader' = [reader EXCEPT ![c] = "gone"]
      /\ UNCHANGED <<room, writer, session, send, sessionClients, notifier, reported, panic>>

UnregisterQuietly(c) ==
  LET peers == roomClients[room[c]] \ {c}
  IN  /\ panic = "no"
      /\ hub.pc = "select"
      /\ reader[c] = "ending"
      /\ clients' = clients \ {c}
      /\ closed' = closed \cup {c}
      /\ sessionClients' = [s \in Sessions |-> IF s = session[c] THEN None ELSE sessionClients[s]]
      /\ roomClients' = [roomClients EXCEPT ![room[c]] = peers]
      /\ hub' = IF peers = {} THEN Selecting ELSE AfterUnregister(c, peers)
      /\ reader' = [reader EXCEPT ![c] = "gone"]
      /\ UNCHANGED <<room, writer, session, send, notifier, reported, panic>>

\* One critical section: the client is forgotten, its channel is closed, its
\* session loses its route (whoever the route leads to by now), and the peers
\* of the room are collected.
Unregister(c) ==
  LET peers == roomClients[room[c]] \ {c}
  IN  /\ panic = "no"
      /\ hub.pc = "select"
      /\ reader[c] = "ending"
      /\ clients' = clients \ {c}
      /\ closed' = IF c \in clients THEN closed \cup {c} ELSE closed
      /\ sessionClients' = [s \in Sessions |-> IF s = session[c] THEN None ELSE sessionClients[s]]
      /\ roomClients' = [roomClients EXCEPT ![room[c]] = peers]
      /\ hub' = AfterUnregister(c, peers)
      /\ reader' = [reader EXCEPT ![c] = "gone"]
      /\ UNCHANGED <<room, writer, session, send, notifier, reported, panic>>

\* The loop over the peers, outside the mutex.
PeerLeft(p) ==
  /\ panic = "no"
  /\ hub.pc = "peerLeft"
  /\ p \in hub.todo
  /\ TrySend("hub", p)
  /\ hub' = [hub EXCEPT !.todo = @ \ {p},
                        !.pc = IF hub.todo = {p} THEN "report" ELSE "peerLeft"]
  /\ UNCHANGED <<room, reader, writer, session, closed, clients, roomClients,
                 sessionClients, notifier, reported>>

\* OnDisconnect, outside the mutex.
Report ==
  /\ panic = "no"
  /\ hub.pc = "report"
  /\ reported' = reported \cup {hub.client}
  /\ hub' = Selecting
  /\ UNCHANGED <<clientVars, clients, roomClients, sessionClients, notifier, panic>>

-----------------------------------------------------------------------------
(* NotifySession: the route is read under the lock, the send is outside.   *)
NotifyLookup(n, s) ==
  /\ panic = "no"
  /\ notifier[n].pc = "idle"
  /\ sessionClients[s] # None
  /\ notifier' = [notifier EXCEPT ![n] = [pc |-> "send", client |-> sessionClients[s]]]
  /\ UNCHANGED <<clientVars, hubVars, reported, panic>>

NotifySend(n) ==
  /\ panic = "no"
  /\ notifier[n].pc = "send"
  /\ TrySend("notify", notifier[n].client)
  /\ notifier' = [notifier EXCEPT ![n] = Resting]
  /\ UNCHANGED <<room, reader, writer, session, closed, hubVars, reported>>

-----------------------------------------------------------------------------
ReadStep(c) ==
  \/ Connect(c)
  \/ Answer(c)
  \/ \E s \in Sessions : Joined(c, s)
  \/ Respond(c)
  \/ ReadFails(c)

WriteStep(c) == Write(c) \/ WriteFails(c) \/ WriterEnds(c)

HubStep ==
  \/ \E c \in Clients : Register(c) \/ Unregister(c) \/ PeerLeft(c)
  \/ Report

NotifyStep(n) == (\E s \in Sessions : NotifyLookup(n, s)) \/ NotifySend(n)

Next ==
  \/ \E c \in Clients : ReadStep(c) \/ WriteStep(c)
  \/ HubStep
  \/ \E n \in Notifiers : NotifyStep(n)

Spec == Init /\ [][Next]_vars

(* The hub loop and the pumps are goroutines that the scheduler runs.  A   *)
(* blocked sender of an unbuffered or full channel waits in a queue: it is *)
(* served although NotifySession competes for the free place.  A read      *)
(* fails at the latest when the connection has been closed.                *)
Fairness ==
  /\ WF_vars(HubStep)
  /\ \A c \in Clients :
       /\ SF_vars(Unregister(c))
       /\ SF_vars(Respond(c))
       /\ WF_vars(Write(c))
       /\ WF_vars(WriterEnds(c))
       /\ WF_vars(writer[c] = "dead" /\ ReadFails(c))

FairSpec == Spec /\ Fairness
-----------------------------------------------------------------------------
(* Properties                                                              *)

\* Types, and what the position of a goroutine says of the client it is about.
TypeOK ==
  /\ room \in [Clients -> Rooms]
  /\ reader \in [Clients -> {"unborn", "registering", "reading", "respond", "ending", "gone"}]
  /\ writer \in [Clients -> {"none", "running", "dead"}]
  /\ session \in [Clients -> Sessions \cup {None}]
  /\ send \in [Clients -> 0 .. SendBuffer]
  /\ closed \subseteq Clients
  /\ clients \subseteq Clients
  /\ roomClients \in [Rooms -> SUBSET Clients]
  /\ sessionClients \in [Sessions -> Clients \cup {None}]
  /\ hub \in [pc : {"select", "peerLeft", "report"}, client : Clients \cup {None},
              todo : SUBSET Clients]
  /\ hub.pc # "select" => hub.client \in Clients
  /\ notifier \in [Notifiers -> [pc : {"idle", "send"}, client : Clients \cup {None}]]
  /\ \A n \in Notifiers : notifier[n].pc = "send" => notifier[n].client \in Clients
  /\ reported \subseteq Clients
  /\ panic \in {"no", "hub", "dispatch", "notify"}

\* Neither the hub loop, which sends peer-left outside the mutex, nor dispatch,
\* whose client the hub may unregister, ever sends on a closed channel.
OwnSendsSafe == panic \notin {"hub", "dispatch"}

\* peer-left goes to the clients that are connected to the room: the list of a
\* room holds exactly the registered clients of that room, and their channels
\* are open.
RoomListExact ==
  /\ \A r \in Rooms : roomClients[r] = {c \in clients : room[c] = r}
  /\ clients \cap closed = {}

\* A session leads to a client that has been bound to it, and to one that is
\* still registered unless that client has joined again with another session.
RouteSound ==
  \A s \in Sessions :
    LET c == sessionClients[s]
    IN  c # None => session[c] # None /\ (session[c] = s => c \in clients)

\* A client with a session whose readPump has ended is given to OnDisconnect:
\* the grace period of the session starts, however many clients come and go.
LossReported ==
  \A c \in Clients :
    (reader[c] = "ending" /\ session[c] # None) ~> (c \in reported \/ panic # "no")

\* A readPump does not hang in the send of a response while its writePump
\* lives, whoever else fills the buffer.
ResponseSent ==
  \A c \in Clients :
    (reader[c] = "respond") ~> (reader[c] # "respond" \/ writer[c] = "dead" \/ panic # "no")

(* What a comment of the code says, and the code does not do.              *)

\* hub.go:232: "If the session is not connected or the client send buffer is
\* full, the message is silently dropped."
NotifyDropsSilently == panic # "notify"
=============================================================================
