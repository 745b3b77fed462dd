---------------------------- MODULE RoomService ----------------------------
(***************************************************************************)
(* The room life cycle of internal/app/roomsvc: JoinRoom, LeaveRoom,       *)
(* DeleteRoom, OnDisconnect with its grace timer, the expiration sweep and *)
(* the start of a pipeline, as they interleave when several WebSocket      *)
(* connections, HTTP handlers, timers and the sweep run at the same time.  *)
(*                                                                         *)
(* The grain of atomicity is the critical section: one step per section of *)
(* Service.mu, Service.graceTimersMu, Room.mu, the mutex of the repository *)
(* or the call to the WebRTC peer.  Between two of them any other          *)
(* goroutine may run.  A call that returns before it changed anything      *)
(* (missing or unsupported language, unknown room, unknown session) is a   *)
(* stuttering step.                                                        *)
(*                                                                         *)
(* The repository stores pointers: there is one Room object per room id,   *)
(* and a goroutine that found it keeps using it after Delete.  Hence the   *)
(* fields of a Room are functions on Rooms and the repository is a set.    *)
(* InMemoryRoomRepository.Save never fails (repository.go:29-34), so the   *)
(* error branches after Save are not reachable and are left out.           *)
(***************************************************************************)
EXTENDS Naturals, FiniteSets

CONSTANTS
  Rooms,     \* room ids, each drawn once by uuid.NewString in CreateRoom
  Users,     \* user ids, chosen by the clients
  Sessions,  \* session ids, each drawn once by uuid.NewString in JoinRoom
  Conns,     \* WebSocket connections: readPump goroutines, one call at a time
  Admins,    \* HTTP DELETE handlers and the goroutine of the sweep
  Timers,    \* timer objects made by time.AfterFunc
  Capacity,  \* defaultCapacity of a room
  PeerFailures, \* whether peer.CreateSession may return an error
  Sweeps,    \* whether StartExpirationSweep was called
  None       \* the absence of a session, timer, room or user

Procs == Conns \cup Admins \cup Timers

ASSUME CapacityIsPositive == Capacity \in Nat \ {0}

ASSUME SwitchesAreBoolean == {PeerFailures, Sweeps} \subseteq BOOLEAN

ASSUME ProcsAreDistinct ==
  /\ Conns \cap Admins = {}
  /\ Conns \cap Timers = {}
  /\ Admins \cap Timers = {}

ASSUME NoneIsNothing ==
  None \notin Rooms \cup Users \cup Sessions \cup Timers \cup (Rooms \X Users)

VARIABLES
  status,       \* Room.Active, and whether CreateRoom has made the room yet
  participants, \* Room.Participants
  activity,     \* Room.LastActivity relative to the TTL
  repo,         \* the keys of InMemoryRoomRepository.rooms
  owner,        \* Session.RoomID and Session.UserID of each session created
  sessions,     \* the keys of Service.sessions
  lookup,       \* Service.lookup
  peers,        \* sessions with an open PeerConnection
  graceTimers,  \* Service.graceTimers
  pipelines,    \* Service.pipelines: the pipeline registered for each room
  pipe,         \* life cycle of the pipeline that the join of a session starts
  bound,        \* Client.sessionID of each connection
  proc,         \* where each goroutine is, and its local variables
  hub,          \* where the hub loop is in OnDisconnect
  notified      \* sessions given to NotifySession with "room-closed"

roomVars == <<status, participants, activity, repo>>
sessionVars == <<owner, sessions, lookup, peers>>
pipeVars == <<pipelines, pipe>>
vars == <<roomVars, sessionVars, graceTimers, pipeVars, bound, proc, hub, notified>>

JoinLabels == {"admit", "collect", "cancel", "resume", "again", "create",
               "save", "register", "touch", "full", "pair"}
LeaveLabels == {"find", "close", "fetch", "leave", "store", "unregister"}
DeleteLabels == {"lookFor", "shut", "cleanup", "remove"}
TimerLabels == {"armed", "fired", "notify"}

\* The locals of a goroutine that is in no call.
Idle == [pc |-> "idle", room |-> None, user |-> None, sess |-> None,
         rejoin |-> FALSE, batch |-> {}, todo |-> {}]

Locals == [pc : {"idle"} \cup JoinLabels \cup LeaveLabels \cup DeleteLabels
                  \cup TimerLabels,
           room : Rooms \cup {None}, user : Users \cup {None},
           sess : Sessions \cup {None}, rejoin : BOOLEAN,
           batch : SUBSET Sessions, todo : SUBSET Rooms]

At(p, label) == proc[p].pc = label
Move(p, locals) == proc' = [proc EXCEPT ![p] = locals]
Goto(p, label) == Move(p, [proc[p] EXCEPT !.pc = label])
Return(p) == Move(p, Idle)
Key(p) == <<proc[p].room, proc[p].user>>
Created == {s \in Sessions : owner[s] # None}
SessionsOf(r) == {s \in Created : owner[s][1] = r}

Init ==
  /\ status = [r \in Rooms |-> "unborn"]
  /\ participants = [r \in Rooms |-> {}]
  /\ activity = [r \in Rooms |-> "zero"]
  /\ repo = {}
  /\ owner = [s \in Sessions |-> None]
  /\ sessions = {}
  /\ lookup = [k \in Rooms \X Users |-> None]
  /\ peers = {}
  /\ graceTimers = [s \in Sessions |-> None]
  /\ pipelines = [r \in Rooms |-> None]
  /\ pipe = [s \in Sessions |-> "none"]
  /\ bound = [c \in Conns |-> None]
  /\ proc = [p \in Procs |-> Idle]
  /\ hub = [pc |-> "loop", sess |-> None]
  /\ notified = {}

-----------------------------------------------------------------------------
(* CreateRoom: the room object becomes visible when it is saved.  The draw *)
(* of its short code is left out: nothing else here depends on it.         *)
CreateRoom(r) ==
  /\ status[r] = "unborn"
  /\ status' = [status EXCEPT ![r] = "active"]
  /\ repo' = repo \cup {r}
  /\ UNCHANGED <<participants, activity, sessionVars, graceTimers, pipeVars,
                 bound, proc, hub, notified>>

(* Time passes: RoomTTL elapses without a TouchActivity.  Only the sweep   *)
(* can tell, so without it rooms do not age.                               *)
BecomeStale(r) ==
  /\ Sweeps
  /\ activity[r] = "fresh"
  /\ activity' = [activity EXCEPT ![r] = "stale"]
  /\ UNCHANGED <<status, participants, repo, sessionVars, graceTimers, pipeVars,
                 bound, proc, hub, notified>>

-----------------------------------------------------------------------------
(* JoinRoom, called by readPump for a "join" message.                      *)

\* The room is found in the repository.
JoinFind(c, r, u) ==
  /\ At(c, "idle")
  /\ r \in repo
  /\ Move(c, [proc[c] EXCEPT !.pc = "admit", !.room = r, !.user = u])
  /\ UNCHANGED <<roomVars, sessionVars, graceTimers, pipeVars, bound, hub, notified>>

\* Room.Join; ErrAlreadyInRoom makes the call a reconnection.
JoinRefused(c) ==
  /\ At(c, "admit")
  /\ \/ status[proc[c].room] # "active"
     \/ /\ proc[c].user \notin participants[proc[c].room]
        /\ Cardinality(participants[proc[c].room]) >= Capacity
  /\ Return(c)
  /\ UNCHANGED <<roomVars, sessionVars, graceTimers, pipeVars, bound, hub, notified>>

\* MUTANT of JoinAdmit: Room.Active is not looked at.
AdmitToClosed(c) ==
  LET r == proc[c].room
      u == proc[c].user
  IN  /\ At(c, "admit")
      /\ u \notin participants[r] => Cardinality(participants[r]) < Capacity
      /\ participants' = [participants EXCEPT ![r] = @ \cup {u}]
      /\ Move(c, [proc[c] EXCEPT !.pc = "collect", !.rejoin = u \in participants[r]])
      /\ UNCHANGED <<status, activity, repo, sessionVars, graceTimers, pipeVars,
                     bound, hub, notified>>

JoinAdmit(c) ==
  LET r == proc[c].room
      u == proc[c].user
  IN  /\ At(c, "admit")
      /\ status[r] = "active"
      /\ u \notin participants[r] => Cardinality(participants[r]) < Capacity
      /\ participants' = [participants EXCEPT ![r] = @ \cup {u}]
      /\ Move(c, [proc[c] EXCEPT !.pc = "collect", !.rejoin = u \in participants[r]])
      /\ UNCHANGED <<status, activity, repo, sessionVars, graceTimers, pipeVars,
                     bound, hub, notified>>

\* cancelGraceTimersForRoom, first lock: the ids of the sessions of the room.
JoinCollect(c) ==
  /\ At(c, "collect")
  /\ Move(c, [proc[c] EXCEPT !.pc = "cancel", !.batch = sessions \cap SessionsOf(proc[c].room)])
  /\ UNCHANGED <<roomVars, sessionVars, graceTimers, pipeVars, bound, hub, notified>>

\* MUTANT of JoinCancel: the entries are deleted, but no timer is stopped.
CancelWithoutStop(c) ==
  /\ At(c, "cancel")
  /\ graceTimers' = [s \in Sessions |-> IF s \in proc[c].batch THEN None ELSE graceTimers[s]]
  /\ Move(c, [proc[c] EXCEPT !.pc = IF proc[c].rejoin THEN "resume" ELSE "create",
                             !.batch = {}])
  /\ UNCHANGED <<roomVars, sessionVars, pipeVars, bound, hub, notified>>

\* Second lock: Stop every timer collected.  Stop has no effect on a timer that
\* has already fired, but its entry is deleted all the same.
JoinCancel(c) ==
  LET batch == proc[c].batch
      stopped == {t \in Timers : At(t, "armed") /\ \E s \in batch : graceTimers[s] = t}
      next == IF proc[c].rejoin THEN "resume" ELSE "create"
  IN  /\ At(c, "cancel")
      /\ graceTimers' = [s \in Sessions |-> IF s \in batch THEN None ELSE graceTimers[s]]
      /\ proc' = [p \in Procs |->
                    CASE p \in stopped -> Idle
                      [] p = c -> [proc[c] EXCEPT !.pc = next, !.batch = {}]
                      [] OTHER -> proc[p]]
      /\ UNCHANGED <<roomVars, sessionVars, pipeVars, bound, hub, notified>>

\* Reconnection: return the session that lookup has, or make a new one.
JoinResume(c) ==
  /\ At(c, "resume")
  /\ \/ /\ lookup[Key(c)] # None
        /\ bound' = [bound EXCEPT ![c] = lookup[Key(c)]]
        /\ Return(c)
     \/ /\ lookup[Key(c)] = None
        /\ Goto(c, "again")
        /\ UNCHANGED bound
  /\ UNCHANGED <<roomVars, sessionVars, graceTimers, pipeVars, hub, notified>>

\* The second Room.Join of a reconnection, whose result is ignored.
JoinAgain(c) ==
  LET r == proc[c].room
  IN  /\ At(c, "again")
      /\ participants' = [participants EXCEPT
                            ![r] = IF status[r] = "active" /\ Cardinality(@) < Capacity
                                     THEN @ \cup {proc[c].user}
                                     ELSE @]
      /\ Goto(c, "create")
      /\ UNCHANGED <<status, activity, repo, sessionVars, graceTimers, pipeVars,
                     bound, hub, notified>>

\* NewSession and peer.CreateSession.
JoinCreate(c, s) ==
  /\ At(c, "create")
  /\ owner[s] = None
  /\ owner' = [owner EXCEPT ![s] = Key(c)]
  /\ peers' = peers \cup {s}
  /\ Move(c, [proc[c] EXCEPT !.pc = "save", !.sess = s])
  /\ UNCHANGED <<roomVars, sessions, lookup, graceTimers, pipeVars, bound, hub, notified>>

\* MUTANT of JoinCreateFails: the place is not given back.
FailsWithoutRollback(c) ==
  /\ PeerFailures
  /\ At(c, "create")
  /\ Return(c)
  /\ UNCHANGED <<roomVars, sessionVars, graceTimers, pipeVars, bound, hub, notified>>

\* CreateSession fails: Leave again, unless the call is a reconnection.
JoinCreateFails(c) ==
  LET r == proc[c].room
  IN  /\ PeerFailures
      /\ At(c, "create")
      /\ participants' = [participants EXCEPT
                            ![r] = IF proc[c].rejoin THEN @ ELSE @ \ {proc[c].user}]
      /\ Return(c)
      /\ UNCHANGED <<status, activity, repo, sessionVars, graceTimers, pipeVars,
                     bound, hub, notified>>

JoinSave(c) ==
  /\ At(c, "save")
  /\ repo' = repo \cup {proc[c].room}
  /\ Goto(c, "register")
  /\ UNCHANGED <<status, participants, activity, sessionVars, graceTimers, pipeVars,
                 bound, hub, notified>>

JoinRegister(c) ==
  /\ At(c, "register")
  /\ sessions' = sessions \cup {proc[c].sess}
  /\ lookup' = [lookup EXCEPT ![Key(c)] = proc[c].sess]
  /\ Goto(c, "touch")
  /\ UNCHANGED <<roomVars, owner, peers, graceTimers, pipeVars, bound, hub, notified>>

\* TouchActivity and the second Save.
JoinTouch(c) ==
  /\ At(c, "touch")
  /\ activity' = [activity EXCEPT ![proc[c].room] = "fresh"]
  /\ repo' = repo \cup {proc[c].room}
  /\ Goto(c, "full")
  /\ UNCHANGED <<status, participants, sessionVars, graceTimers, pipeVars,
                 bound, hub, notified>>

\* The end of a join that made a session: dispatch binds it to the connection.
BindAndReturn(c) ==
  /\ bound' = [bound EXCEPT ![c] = proc[c].sess]
  /\ Return(c)

JoinFull(c) ==
  /\ At(c, "full")
  /\ \/ /\ Cardinality(participants[proc[c].room]) >= Capacity
        /\ Goto(c, "pair")
        /\ UNCHANGED bound
     \/ /\ Cardinality(participants[proc[c].room]) < Capacity
        /\ BindAndReturn(c)
  /\ UNCHANGED <<roomVars, sessionVars, graceTimers, pipeVars, hub, notified>>

\* The other session of the room, if there is one, and "go startPipeline".
JoinPair(c) ==
  LET s == proc[c].sess
      others == (sessions \cap SessionsOf(proc[c].room)) \ {s}
  IN  /\ At(c, "pair")
      /\ pipe' = [pipe EXCEPT ![s] = IF others = {} THEN @ ELSE "spawned"]
      /\ BindAndReturn(c)
      /\ UNCHANGED <<roomVars, sessionVars, graceTimers, pipelines, hub, notified>>

-----------------------------------------------------------------------------
(* startPipeline: the goroutine started by the join of s.                  *)
StartPipeline(s) ==
  /\ pipe[s] = "spawned"
  /\ pipe' = [pipe EXCEPT ![s] = "running"]
  /\ pipelines' = [pipelines EXCEPT ![owner[s][1]] = s]
  /\ UNCHANGED <<roomVars, sessionVars, graceTimers, bound, proc, hub, notified>>

\* MUTANT of CancelPipeline: the cancelled pipeline stays registered.
CancelKeepsEntry(r) ==
  /\ pipe' = [s \in Sessions |-> IF pipelines[r] = s THEN "cancelled" ELSE pipe[s]]
  /\ UNCHANGED pipelines

\* p.cancel() and the removal from s.pipelines, in the same critical section.
CancelPipeline(r) ==
  /\ pipe' = [s \in Sessions |-> IF pipelines[r] = s THEN "cancelled" ELSE pipe[s]]
  /\ pipelines' = [pipelines EXCEPT ![r] = None]

-----------------------------------------------------------------------------
(* LeaveRoom, called by readPump for a "leave" message that carries the    *)
(* session id of the connection.                                           *)
LeaveCall(c) ==
  /\ At(c, "idle")
  /\ bound[c] \in sessions
  /\ Move(c, [proc[c] EXCEPT !.pc = "find", !.room = owner[bound[c]][1],
                             !.user = owner[bound[c]][2]])
  /\ UNCHANGED <<roomVars, sessionVars, graceTimers, pipeVars, bound, hub, notified>>

\* MUTANT of LeaveFind: the session is searched for by room only.
LeaveFindAnyOfRoom(c) ==
  /\ At(c, "find")
  /\ \E s \in sessions \cap SessionsOf(proc[c].room) :
       Move(c, [proc[c] EXCEPT !.pc = "close", !.sess = s])
  /\ UNCHANGED <<roomVars, sessionVars, graceTimers, pipeVars, bound, hub, notified>>

\* lookup by "roomID:userID"; ErrSessionNotFound if there is none.
LeaveFind(c) ==
  /\ At(c, "find")
  /\ \/ /\ lookup[Key(c)] # None
        /\ Move(c, [proc[c] EXCEPT !.pc = "close", !.sess = lookup[Key(c)]])
     \/ /\ lookup[Key(c)] = None
        /\ Return(c)
  /\ UNCHANGED <<roomVars, sessionVars, graceTimers, pipeVars, bound, hub, notified>>

\* MUTANT of LeaveClose: the PeerConnection is not closed.
LeaveWithoutClose(c) ==
  /\ At(c, "close")
  /\ Goto(c, "fetch")
  /\ UNCHANGED <<roomVars, sessionVars, graceTimers, pipeVars, bound, hub, notified>>

LeaveClose(c) ==
  /\ At(c, "close")
  /\ peers' = peers \ {proc[c].sess}
  /\ Goto(c, "fetch")
  /\ UNCHANGED <<roomVars, owner, sessions, lookup, graceTimers, pipeVars,
                 bound, hub, notified>>

\* repo.FindByID; on ErrRoomNotFound the maps are left as they are.
LeaveFetch(c) ==
  /\ At(c, "fetch")
  /\ \/ proc[c].room \in repo /\ Goto(c, "leave")
     \/ proc[c].room \notin repo /\ Return(c)
  /\ UNCHANGED <<roomVars, sessionVars, graceTimers, pipeVars, bound, hub, notified>>

LeaveLeave(c) ==
  /\ At(c, "leave")
  /\ participants' = [participants EXCEPT ![proc[c].room] = @ \ {proc[c].user}]
  /\ Goto(c, "store")
  /\ UNCHANGED <<status, activity, repo, sessionVars, graceTimers, pipeVars,
                 bound, hub, notified>>

LeaveStore(c) ==
  /\ At(c, "store")
  /\ repo' = repo \cup {proc[c].room}
  /\ Goto(c, "unregister")
  /\ UNCHANGED <<status, participants, activity, sessionVars, graceTimers, pipeVars,
                 bound, hub, notified>>

\* MUTANT of LeaveUnregister: the key stays in lookup.
UnregisterKeepsKey(c) ==
  /\ At(c, "unregister")
  /\ sessions' = sessions \ {proc[c].sess}
  /\ CancelPipeline(proc[c].room)
  /\ Return(c)
  /\ UNCHANGED <<roomVars, owner, lookup, peers, graceTimers, bound, hub, notified>>

LeaveUnregister(c) ==
  /\ At(c, "unregister")
  /\ sessions' = sessions \ {proc[c].sess}
  /\ lookup' = [lookup EXCEPT ![Key(c)] = None]
  /\ CancelPipeline(proc[c].room)
  /\ Return(c)
  /\ UNCHANGED <<roomVars, owner, peers, graceTimers, bound, hub, notified>>

-----------------------------------------------------------------------------
(* DeleteRoom, called by an HTTP handler, the sweep or a grace timer.      *)

\* Callers that have found the room, or have not looked for it yet.
DeleteCall(a, r) ==
  /\ At(a, "idle")
  /\ proc[a].todo = {}
  /\ r \in repo
  /\ Move(a, [proc[a] EXCEPT !.pc = "shut", !.room = r])
  /\ UNCHANGED <<roomVars, sessionVars, graceTimers, pipeVars, bound, hub, notified>>

\* The end of DeleteRoom for each kind of caller: a timer notifies, an HTTP
\* handler is done, the sweep is back at its loop with the rest of its list.
AfterDelete(p) ==
  \/ p \in Timers /\ Goto(p, "notify")
  \/ p \in Admins /\ Move(p, [Idle EXCEPT !.todo = proc[p].todo])

\* repo.FindByID; ErrRoomNotFound ends the call.
DeleteFind(p) ==
  /\ At(p, "lookFor")
  /\ \/ proc[p].room \in repo /\ Goto(p, "shut")
     \/ proc[p].room \notin repo /\ AfterDelete(p)
  /\ UNCHANGED <<roomVars, sessionVars, graceTimers, pipeVars, bound, hub, notified>>

\* Room.Close
DeleteShut(p) ==
  /\ At(p, "shut")
  /\ status' = [status EXCEPT ![proc[p].room] = "closed"]
  /\ participants' = [participants EXCEPT ![proc[p].room] = {}]
  /\ Goto(p, "cleanup")
  /\ UNCHANGED <<activity, repo, sessionVars, graceTimers, pipeVars, bound, hub, notified>>

\* One critical section: every session that lookup has for the room is closed
\* and forgotten, and the registered pipeline is cancelled.
DeleteCleanup(p) ==
  LET r == proc[p].room
      gone == {s \in sessions : \E u \in Users : lookup[<<r, u>>] = s}
  IN  /\ At(p, "cleanup")
      /\ peers' = peers \ gone
      /\ sessions' = sessions \ gone
      /\ lookup' = [k \in Rooms \X Users |-> IF k[1] = r THEN None ELSE lookup[k]]
      /\ CancelPipeline(r)
      /\ Goto(p, "remove")
      /\ UNCHANGED <<roomVars, owner, graceTimers, bound, hub, notified>>

\* repo.Delete
DeleteRemove(p) ==
  /\ At(p, "remove")
  /\ repo' = repo \ {proc[p].room}
  /\ AfterDelete(p)
  /\ UNCHANGED <<status, participants, activity, sessionVars, graceTimers, pipeVars,
                 bound, hub, notified>>

(* sweepExpiredRooms: ListExpired, then DeleteRoom for each room listed.   *)
Expired == {r \in repo : activity[r] = "stale"}

SweepList(a) ==
  /\ At(a, "idle")
  /\ proc[a].todo = {}
  /\ Expired # {}
  /\ Move(a, [proc[a] EXCEPT !.todo = Expired])
  /\ UNCHANGED <<roomVars, sessionVars, graceTimers, pipeVars, bound, hub, notified>>

SweepNext(a) ==
  /\ At(a, "idle")
  /\ \E r \in proc[a].todo :
       Move(a, [proc[a] EXCEPT !.pc = "lookFor", !.room = r, !.todo = @ \ {r}])
  /\ UNCHANGED <<roomVars, sessionVars, graceTimers, pipeVars, bound, hub, notified>>

-----------------------------------------------------------------------------
(* OnDisconnect, called by the hub loop when a connection drops, and the   *)
(* callback of the grace timer.                                            *)

\* The hub unregisters a connection whose readPump has ended and finds its
\* session.  BOUND: only when a timer object is left (pool Timers).
Drop(c) ==
  /\ At(c, "idle")
  /\ bound[c] # None
  /\ hub.pc = "loop"
  /\ \E t \in Timers : At(t, "idle")
  /\ bound' = [bound EXCEPT ![c] = None]
  /\ hub' = IF bound[c] \in sessions
              THEN [pc |-> "arm", sess |-> bound[c]]
              ELSE hub
  /\ UNCHANGED <<roomVars, sessionVars, graceTimers, pipeVars, proc, notified>>

\* Under graceTimersMu: start a timer unless the session has one.
ArmTimer(t) ==
  LET s == hub.sess
  IN  /\ hub.pc = "arm"
      /\ At(t, "idle")
      /\ graceTimers[s] = None
      /\ graceTimers' = [graceTimers EXCEPT ![s] = t]
      /\ Move(t, [proc[t] EXCEPT !.pc = "armed", !.sess = s, !.room = owner[s][1]])
      /\ hub' = [pc |-> "loop", sess |-> None]
      /\ UNCHANGED <<roomVars, sessionVars, pipeVars, bound, notified>>

AlreadyArmed ==
  /\ hub.pc = "arm"
  /\ graceTimers[hub.sess] # None
  /\ hub' = [pc |-> "loop", sess |-> None]
  /\ UNCHANGED <<roomVars, sessionVars, graceTimers, pipeVars, bound, proc, notified>>

\* The grace period ends: from now on Stop comes too late.
Fire(t) ==
  /\ At(t, "armed")
  /\ Goto(t, "fired")
  /\ UNCHANGED <<roomVars, sessionVars, graceTimers, pipeVars, bound, hub, notified>>

\* MUTANTS of GraceExpired: the entry is not deleted; the callback gives up when
\* the session is gone.
ExpiredKeepsEntry(t) ==
  /\ At(t, "fired")
  /\ Goto(t, "lookFor")
  /\ UNCHANGED <<roomVars, sessionVars, graceTimers, pipeVars, bound, hub, notified>>

ExpiredOnlyIfKnown(t) ==
  /\ At(t, "fired")
  /\ graceTimers' = [graceTimers EXCEPT ![proc[t].sess] = None]
  /\ IF proc[t].sess \in sessions THEN Goto(t, "lookFor") ELSE Return(t)
  /\ UNCHANGED <<roomVars, sessionVars, pipeVars, bound, hub, notified>>

\* The callback deletes the entry of its session, then calls DeleteRoom.
GraceExpired(t) ==
  /\ At(t, "fired")
  /\ graceTimers' = [graceTimers EXCEPT ![proc[t].sess] = None]
  /\ Goto(t, "lookFor")
  /\ UNCHANGED <<roomVars, sessionVars, pipeVars, bound, hub, notified>>

\* NotifySession(sessionID, "room-closed")
Notify(t) ==
  /\ At(t, "notify")
  /\ notified' = notified \cup {proc[t].sess}
  /\ Return(t)
  /\ UNCHANGED <<roomVars, sessionVars, graceTimers, pipeVars, bound, hub>>

-----------------------------------------------------------------------------
JoinStep(c) ==
  \/ \E r \in Rooms, u \in Users : JoinFind(c, r, u)
  \/ JoinRefused(c)
  \/ JoinAdmit(c)
  \/ JoinCollect(c)
  \/ JoinCancel(c)
  \/ JoinResume(c)
  \/ JoinAgain(c)
  \/ \E s \in Sessions : JoinCreate(c, s)
  \/ JoinCreateFails(c)
  \/ JoinSave(c)
  \/ JoinRegister(c)
  \/ JoinTouch(c)
  \/ JoinFull(c)
  \/ JoinPair(c)

LeaveStep(c) ==
  \/ LeaveCall(c)
  \/ LeaveFind(c)
  \/ LeaveClose(c)
  \/ LeaveFetch(c)
  \/ LeaveLeave(c)
  \/ LeaveStore(c)
  \/ LeaveUnregister(c)

DeleteStep(p) ==
  \/ DeleteFind(p)
  \/ DeleteShut(p)
  \/ DeleteCleanup(p)
  \/ DeleteRemove(p)

AdminCall(a) ==
  \/ \E r \in Rooms : DeleteCall(a, r)
  \/ SweepList(a)
  \/ SweepNext(a)

TimerStep(t) ==
  \/ Fire(t)
  \/ GraceExpired(t)
  \/ Notify(t)

Next ==
  \/ \E r \in Rooms : CreateRoom(r) \/ BecomeStale(r)
  \/ \E c \in Conns : JoinStep(c) \/ LeaveStep(c) \/ Drop(c)
  \/ \E a \in Admins : AdminCall(a)
  \/ \E p \in Admins \cup Timers : DeleteStep(p)
  \/ \E t \in Timers : ArmTimer(t) \/ TimerStep(t)
  \/ AlreadyArmed
  \/ \E s \in Sessions : StartPipeline(s)

Spec == Init /\ [][Next]_vars

(* The Go scheduler runs every goroutine that is ready, and the runtime    *)
(* fires every timer that is not stopped.  Calls and drops may never come. *)
Fairness ==
  /\ \A p \in Admins \cup Timers : WF_vars(DeleteStep(p))
  /\ \A a \in Admins : WF_vars(SweepNext(a))
  /\ \A t \in Timers : WF_vars(TimerStep(t))
  /\ \A s \in Sessions : WF_vars(StartPipeline(s))

FairSpec == Spec /\ Fairness
-----------------------------------------------------------------------------
(* Properties                                                              *)

\* The labels at which a goroutine goes on with a session it created or found.
Holding == {"save", "register", "touch", "full", "pair",
            "close", "fetch", "leave", "store", "unregister"}

RoomTypes ==
  /\ status \in [Rooms -> {"unborn", "active", "closed"}]
  /\ participants \in [Rooms -> SUBSET Users]
  /\ activity \in [Rooms -> {"zero", "fresh", "stale"}]
  /\ repo \subseteq Rooms

SessionTypes ==
  /\ owner \in [Sessions -> (Rooms \X Users) \cup {None}]
  /\ sessions \subseteq Created
  /\ lookup \in [Rooms \X Users -> Created \cup {None}]
  /\ peers \subseteq Created
  /\ bound \in [Conns -> Created \cup {None}]
  /\ notified \subseteq Created

PipeTypes ==
  /\ pipelines \in [Rooms -> Created \cup {None}]
  /\ pipe \in [Sessions -> {"none", "spawned", "running", "cancelled"}]
  /\ \A s \in Sessions : pipe[s] # "none" => s \in Created

TimerTypes ==
  /\ graceTimers \in [Sessions -> Timers \cup {None}]
  /\ hub \in [pc : {"loop", "arm"}, sess : Created \cup {None}]
  /\ hub.pc = "arm" => hub.sess # None

\* What a label says of the locals: who is in which call, and that the call has
\* the room, user and session which its later steps use.
ConnOK(c) ==
  /\ proc[c].pc \in {"idle"} \cup JoinLabels \cup LeaveLabels
  /\ proc[c].pc # "idle" => proc[c].room \in Rooms /\ proc[c].user \in Users
  /\ proc[c].pc \in Holding => proc[c].sess \in Created

AdminOK(a) ==
  /\ proc[a].pc \in {"idle"} \cup DeleteLabels
  /\ proc[a].pc # "idle" => proc[a].room \in Rooms

TimerOK(t) ==
  /\ proc[t].pc \in {"idle"} \cup DeleteLabels \cup TimerLabels
  /\ proc[t].pc # "idle" => proc[t].room \in Rooms /\ proc[t].sess \in Created

ProcTypes ==
  /\ proc \in [Procs -> Locals]
  /\ \A c \in Conns : ConnOK(c)
  /\ \A a \in Admins : AdminOK(a)
  /\ \A t \in Timers : TimerOK(t)

TypeOK == RoomTypes /\ SessionTypes /\ PipeTypes /\ TimerTypes /\ ProcTypes

\* A room never holds more participants than its capacity, and a closed room
\* holds none, whatever joins, leaves and rollbacks cross Room.Close.
RoomDiscipline ==
  \A r \in Rooms :
    /\ Cardinality(participants[r]) <= Capacity
    /\ status[r] # "active" => participants[r] = {}

\* What lookup says of a user in a room is a session that the service still
\* has and that belongs to that user and that room: LeaveRoom dereferences
\* s.sessions[sessID] without a check (service.go:284-287), and a reconnecting
\* user is given lookup's session as its own (service.go:197-203).
LookupSound ==
  \A r \in Rooms, u \in Users :
    LET s == lookup[<<r, u>>]
    IN  s # None => s \in sessions /\ owner[s] = <<r, u>>

\* An open PeerConnection always has someone who can close it: its session is
\* registered, or the JoinRoom that opened it has not registered it yet.  No
\* crossing of a leave, a rejoin and a deletion leaves one behind.
NoStrayPeer ==
  \A s \in peers :
    \/ s \in sessions
    \/ \E c \in Conns : proc[c].pc \in {"save", "register"} /\ proc[c].sess = s

\* A JoinRoom that is going to register a session for its user.
Backs(c) ==
  \/ proc[c].pc \in {"create", "save", "register"}
  \/ proc[c].pc \in {"collect", "cancel"} /\ ~proc[c].rejoin

\* A LeaveRoom that has given the place back and is about to forget its session.
Ends(c) == proc[c].pc \in {"store", "unregister"}

\* Who stands behind a place in a room: a registered session of its user, which
\* nobody is about to forget, or a JoinRoom that is still going to register one.
Backed(r, u) ==
  \/ \E s \in sessions : owner[s] = <<r, u>> /\ \A c \in Conns : Ends(c) => proc[c].sess # s
  \/ \E c \in Conns : Backs(c) /\ Key(c) = <<r, u>>

\* A place taken in a room is backed.  Otherwise it stays taken and the room
\* refuses a user who could talk.  So it is unless CreateSession fails.
PlacesBacked == \A r \in Rooms : \A u \in participants[r] : Backed(r, u)

\* And if CreateSession fails (service.go:210-214): a place that is newly taken
\* is backed, and one that is backed stays so, but for one step, a failure in
\* a call that was a reconnection.  Nothing else ever strands a place, however
\* joins, rejoins, leaves, rollbacks and deletions cross.
StrandedOnlyByFailure ==
  [][\A r \in Rooms : \A u \in participants'[r] :
       \/ Backed(r, u)'
       \/ u \in participants[r] /\ ~Backed(r, u)
       \/ \E c \in Conns :
            /\ At(c, "create") /\ proc'[c].pc = "idle"
            /\ proc[c].rejoin /\ Key(c) = <<r, u>>]_vars

\* An entry of graceTimers is a timer of that session which has not run its
\* callback yet: cancelGraceTimersForRoom stops what it means to stop, and
\* OnDisconnect is never held back by a timer that is over.
TimerEntrySound ==
  \A s \in Sessions :
    LET t == graceTimers[s]
    IN  t # None => proc[t].sess = s /\ proc[t].pc \in {"armed", "fired"}

\* A timer that still runs can be stopped: it is the one that graceTimers has
\* for its session, so that a rejoin finds it, unless the room is closed or an
\* earlier callback, which took the entry for its own, is about to close it
\* (service.go:396).
RunningTimerKnown ==
  \A t \in Timers : At(t, "armed") =>
    \/ graceTimers[proc[t].sess] = t
    \/ status[proc[t].room] = "closed"
    \/ \E e \in Timers : proc[e].room = proc[t].room /\ proc[e].pc \in {"lookFor", "shut"}

\* A callback that has begun does not end before its room is closed, whoever
\* else deletes the room or saves it again meanwhile (service.go:394-419).
ExpiryCloses ==
  [][\A t \in Timers :
       /\ proc[t].pc \in {"fired", "lookFor", "shut", "cleanup", "remove", "notify"}
       /\ proc'[t].pc = "idle"
       => status[proc[t].room] = "closed"]_vars

\* Where a session is in the life that RoomLife gives it.
Stage(s) ==
  CASE s \notin Created -> "none"
    [] s \in peers \ sessions -> "open"
    [] s \in peers \cap sessions -> "live"
    [] s \in sessions \ peers -> "closing"
    [] OTHER -> "gone"

Life == INSTANCE RoomLife WITH stage <- [s \in Sessions |-> Stage(s)]

\* The service implements RoomLife: with joins, leaves, deletions, the sweep and
\* grace timers crossing in any way, a room keeps to its capacity and is never
\* open again, and a session is registered once, never forgotten with its
\* PeerConnection open, and cut off by a deletion only in a closed room.
Refinement == Life!Spec

\* The pipeline registered for a room is a running pipeline of that room: a
\* LeaveRoom or DeleteRoom never cancels the pipeline of someone else, and a
\* cancelled pipeline is never left registered.
PipelineEntrySound ==
  \A r \in Rooms :
    LET s == pipelines[r]
    IN  s # None => pipe[s] = "running" /\ owner[s] # None /\ owner[s][1] = r

\* A PeerConnection is closed only when its own user leaves or when its room
\* has been closed: a leave never cuts the other participant off.
ClosedByOwner ==
  [][\A s \in peers \ peers' :
       \/ status[owner[s][1]] = "closed"
       \/ \E c \in Conns : At(c, "close") /\ Key(c) = owner[s]]_vars

\* A grace period that has run out closes its room, whatever deletes, sweeps
\* and leaves the callback meets on the way (service.go:394-419).
GraceCloses ==
  \A t \in Timers, r \in Rooms :
    (At(t, "fired") /\ proc[t].room = r) ~> (status[r] = "closed")

-----------------------------------------------------------------------------
(* What comments of the code say, and the code does not do: each is        *)
(* refuted by a run of its own.                                            *)

\* service.go:192-193: the timers of the room are cancelled "so the room isn't
\* deleted while we're rejoining": when that is done, no grace callback is left
\* that is on its way to delete it.
CancelPreventsDeletion ==
  [][\A c \in Conns :
       At(c, "cancel") /\ proc'[c].pc # "cancel" =>
         ~ \E t \in Timers :
             /\ proc[t].room = proc[c].room
             /\ proc[t].pc \in {"fired"} \cup DeleteLabels]_vars

\* service.go:360: when the timer fires, OnDisconnect "notifies the
\* remaining peer", that is the connected sessions of the room other than the
\* one that was lost.
RemainingPeerNotified ==
  [][\A t \in Timers :
       At(t, "notify") /\ proc'[t].pc = "idle" =>
         \A c \in Conns :
           bound[c] \in SessionsOf(proc[t].room) \ {proc[t].sess} =>
             bound[c] \in notified']_vars
=============================================================================
