------------------------------- MODULE Server -------------------------------
(***************************************************************************)
(* The server process: cmd/server/main.go wires the parts together, starts *)
(* the hub loop and waits in ListenAndServe of internal/adapters/http for  *)
(* SIGINT or SIGTERM; meanwhile net/http runs a goroutine per request.     *)
(*                                                                         *)
(* POST /rooms passes the rate limiter (the actions of RateLimiter), then  *)
(* CreateRoom draws a short code, looks it up and saves the room: three    *)
(* steps between which other requests run.  GET /ws/{roomID} looks the     *)
(* room up, takes the connection over and hands it to the hub loop (its    *)
(* own limiter is another instance of the same code).  The requests that   *)
(* only read (health, lookup by code, feedback) are stuttering steps.      *)
(*                                                                         *)
(* Two channels receive each signal: main's, whose goroutine cancels ctx,  *)
(* and the one that ListenAndServe registers when it is reached.           *)
(***************************************************************************)
EXTENDS RateLimiter

CONSTANTS
  Requests,           \* requests, each served by its own goroutine
  Codes,              \* short codes
  MaxShortCodeRetries \* of ServiceConfig (5 in main.go)

ASSUME RetriesArePositive == MaxShortCodeRetries \in Nat \ {0}

ASSUME NoneIsNoCode == None \notin Codes

VARIABLES
  request,  \* where each request is, and the draws its CreateRoom has made
  code,     \* Room.ShortCode of the room that each POST /rooms makes
  active,   \* rooms saved whose Room.Active still holds
  saved,    \* the keys of InMemoryRoomRepository.rooms
  met,      \* history: pairs of creations that were in progress together
  quit,     \* the channels in which a signal waits
  early,    \* history: a signal came before ListenAndServe registered its channel
  ctx,      \* the context of main
  main,     \* where run is
  listener, \* the goroutine of srv.ListenAndServe
  hubLoop   \* Hub.RunCtx

roomVars == <<code, active, saved, met>>
processVars == <<quit, early, ctx, main, listener, hubLoop>>
serverVars == <<request, roomVars, processVars>>
allVars == <<vars, serverVars>>

At(q, pc) == request[q].pc = pc
Goto(q, pc) == request' = [request EXCEPT ![q].pc = pc]
Creating(q) == request[q].pc \in {"draw", "save"}
Made(q) == code[q] # None /\ At(q, "done")

\* A request that Shutdown waits for; it does not wait for a WebSocket.
Busy(q) == request[q].pc \in {"draw", "save", "upgrade"}

ServerInit ==
  /\ Init
  /\ request = [q \in Requests |-> [pc |-> "new", attempt |-> 0]]
  /\ code = [q \in Requests |-> None]
  /\ active = {}
  /\ saved = {}
  /\ met = {}
  /\ quit = {}
  /\ early = FALSE
  /\ ctx = "live"
  /\ main = "wiring"
  /\ listener = "none"
  /\ hubLoop = "running"

-----------------------------------------------------------------------------
(* POST /rooms.  A room has the name of the request that makes it.         *)

\* The middleware lets the request through to CreateRoom, or answers 429.
Post(q) ==
  /\ listener = "up"
  /\ At(q, "new")
  /\ \E ip \in IPs :
       \/ /\ AllowNewWindow(ip) \/ AllowCounted(ip)
          /\ Goto(q, "draw")
          /\ met' = met \cup {{p, q} : p \in {p \in Requests : Creating(p)}}
       \/ /\ Refuse(ip)
          /\ Goto(q, "done")
          /\ UNCHANGED met
  /\ UNCHANGED <<code, active, saved, processVars>>

\* 400: the body or a language is not valid.
Invalid(q) ==
  /\ At(q, "draw")
  /\ request[q].attempt = 0
  /\ Goto(q, "done")
  /\ UNCHANGED <<vars, roomVars, processVars>>

\* FindByShortCode, which does not look at Room.Active.
Taken(c) == \E r \in saved : code[r] = c

\* MUTANT of Draw: a code that is taken is used all the same.
DrawUnchecked(q) ==
  /\ At(q, "draw")
  /\ \E c \in Codes : code' = [code EXCEPT ![q] = c]
  /\ Goto(q, "save")
  /\ UNCHANGED <<vars, active, saved, met, processVars>>

\* One draw of GenerateShortCode and the lookup of what it drew.  All draws
\* taken: ErrShortCodeExhausted, 500.
Draw(q) ==
  /\ At(q, "draw")
  /\ \/ /\ request[q].attempt = MaxShortCodeRetries
        /\ Goto(q, "done")
        /\ UNCHANGED code
     \/ /\ request[q].attempt < MaxShortCodeRetries
        /\ \E c \in Codes :
             \/ /\ Taken(c)
                /\ request' = [request EXCEPT ![q].attempt = @ + 1]
                /\ UNCHANGED code
             \/ /\ ~Taken(c)
                /\ code' = [code EXCEPT ![q] = c]
                /\ Goto(q, "save")
  /\ UNCHANGED <<vars, active, saved, met, processVars>>

\* repo.Save, 201.
Save(q) ==
  /\ At(q, "save")
  /\ saved' = saved \cup {q}
  /\ active' = active \cup {q}
  /\ Goto(q, "done")
  /\ UNCHANGED <<vars, code, met, processVars>>

(* DeleteRoom closes the room, then removes it (RoomService.tla); the Save *)
(* of a JoinRoom or LeaveRoom that found it before can come after that.    *)
Close(r) ==
  /\ r \in saved
  /\ active' = active \ {r}
  /\ UNCHANGED <<vars, request, code, saved, met, processVars>>

Remove(r) ==
  /\ Made(r)
  /\ r \notin active
  /\ saved' = saved \ {r}
  /\ UNCHANGED <<vars, request, code, active, met, processVars>>

LateSave(r) ==
  /\ Made(r)
  /\ saved' = saved \cup {r}
  /\ UNCHANGED <<vars, request, code, active, met, processVars>>

-----------------------------------------------------------------------------
(* GET /ws/{roomID}                                                        *)

\* RoomExists, 404 otherwise.
WsRequest(q) ==
  /\ listener = "up"
  /\ At(q, "new")
  /\ \/ saved # {} /\ Goto(q, "upgrade")
     \/ Goto(q, "done")
  /\ UNCHANGED <<vars, roomVars, processVars>>

\* ServeWS: the connection is taken over from net/http, or the upgrade fails.
Upgrade(q) ==
  /\ At(q, "upgrade")
  /\ Goto(q, "register") \/ Goto(q, "done")
  /\ UNCHANGED <<vars, roomVars, processVars>>

\* "h.register <- c": the hub loop takes the client, and its pumps start.
Register(q) ==
  /\ At(q, "register")
  /\ hubLoop = "running"
  /\ Goto(q, "connected")
  /\ UNCHANGED <<vars, roomVars, processVars>>

-----------------------------------------------------------------------------
(* The process.                                                            *)

\* run has wired everything and reaches ListenAndServe: signal.Notify, the
\* goroutine of the listener, and "<-quit".
Listening ==
  /\ main = "wiring"
  /\ main' = "waiting"
  /\ listener' = "starting"
  /\ UNCHANGED <<vars, request, roomVars, quit, early, ctx, hubLoop>>

\* srv.ListenAndServe: an error (the port is taken) is logged, nothing else; a
\* server that shuts down does not listen any more.
Listen ==
  /\ listener = "starting"
  /\ \/ main # "draining" /\ listener' \in {"up", "failed"}
     \/ main = "draining" /\ listener' = "closed"
  /\ UNCHANGED <<vars, request, roomVars, quit, early, ctx, main, hubLoop>>

\* MUTANT of Signal: ListenAndServe has registered for another signal.
SignalToMain ==
  /\ quit' = quit \cup {"main"}
  /\ early' = (early \/ main = "wiring")
  /\ UNCHANGED <<vars, request, roomVars, ctx, main, listener, hubLoop>>

\* SIGINT or SIGTERM, to every channel registered by now.
Signal ==
  /\ quit' = {"main"} \cup IF main = "waiting" THEN {"http"} ELSE quit
  /\ early' = (early \/ main = "wiring")
  /\ UNCHANGED <<vars, request, roomVars, ctx, main, listener, hubLoop>>

\* The goroutine of main receives once.
Cancel ==
  /\ "main" \in quit
  /\ ctx = "live"
  /\ quit' = quit \ {"main"}
  /\ ctx' = "cancelled"
  /\ UNCHANGED <<vars, request, roomVars, early, main, listener, hubLoop>>

\* RunCtx returns: clients are neither closed nor told.
HubStops ==
  /\ ctx = "cancelled"
  /\ hubLoop = "running"
  /\ hubLoop' = "over"
  /\ UNCHANGED <<vars, request, roomVars, quit, early, ctx, main, listener>>

\* srv.Shutdown closes the listener.
Shutdown ==
  /\ main = "waiting"
  /\ "http" \in quit
  /\ quit' = quit \ {"http"}
  /\ main' = "draining"
  /\ listener' = IF listener = "up" THEN "closed" ELSE listener
  /\ UNCHANGED <<vars, request, roomVars, early, ctx, hubLoop>>

Exit(status) ==
  /\ main = "draining"
  /\ main' = status
  /\ UNCHANGED <<vars, request, roomVars, quit, early, ctx, listener, hubLoop>>

\* No connection is busy.
ShutdownDone == (\A q \in Requests : ~Busy(q)) /\ Exit("exit 0")

\* MUTANT of ShutdownCut: Shutdown(context.Background()).
ShutdownForever == FALSE

\* shutCtx is over: after ShutdownTimeout, and as soon as ctx is cancelled.
ShutdownCut == (\E q \in Requests : Busy(q)) /\ Exit("exit 1")

-----------------------------------------------------------------------------
Alive == main \notin {"exit 0", "exit 1"}

Handler(q) ==
  \/ Post(q)
  \/ Invalid(q)
  \/ Draw(q)
  \/ Save(q)
  \/ WsRequest(q)
  \/ Upgrade(q)

RoomGoes(r) == Close(r) \/ Remove(r) \/ LateSave(r)

Process ==
  \/ Listening
  \/ Listen
  \/ Cancel
  \/ HubStops
  \/ Shutdown
  \/ ShutdownDone
  \/ ShutdownCut

ServerNext ==
  /\ Alive
  /\ \/ (Tick \/ Cleanup) /\ UNCHANGED serverVars
     \/ \E q \in Requests : Handler(q) \/ Register(q) \/ RoomGoes(q)
     \/ Process
     \/ Signal

ServerSpec == ServerInit /\ [][ServerNext]_allVars

\* Goroutines of the process that are ready run; the timeout of Shutdown comes.
\* Nothing is assumed of handlers, which read from their clients.
ServerFairness ==
  /\ WF_allVars(Alive /\ Listening)
  /\ WF_allVars(Alive /\ Cancel)
  /\ WF_allVars(Alive /\ Shutdown)
  /\ WF_allVars(ShutdownDone \/ ShutdownCut)
  /\ \A q \in Requests : WF_allVars(Alive /\ Register(q))

FairServerSpec == ServerSpec /\ ServerFairness
-----------------------------------------------------------------------------
(* Properties                                                              *)

RequestTypes ==
  request \in [Requests ->
                 [pc : {"new", "draw", "save", "upgrade", "register", "connected", "done"},
                  attempt : 0 .. MaxShortCodeRetries]]

RoomTypes ==
  /\ code \in [Requests -> Codes \cup {None}]
  /\ \A q \in Requests : code[q] # None => At(q, "save") \/ At(q, "done")
  /\ \A q \in Requests : At(q, "save") => code[q] # None
  /\ saved \subseteq {q \in Requests : Made(q)}
  /\ active \subseteq saved

ProcessTypes ==
  /\ quit \subseteq {"main", "http"}
  /\ early \in BOOLEAN
  /\ ctx \in {"live", "cancelled"}
  /\ main \in {"wiring", "waiting", "draining", "exit 0", "exit 1"}
  /\ listener \in {"none", "starting", "up", "failed", "closed"}
  /\ hubLoop \in {"running", "over"}

\* Types.  A room that still admits participants is in the repository.
ServerTypeOK == TypeOK /\ RequestTypes /\ RoomTypes /\ ProcessTypes

\* Two open rooms share a short code only if their creations were in progress at
\* the same time: the lookup before Save keeps every other pair apart, also when
\* rooms are deleted, and when a late Save brings a deleted one back.
ClashMeansOverlap ==
  \A p, q \in active : p # q /\ code[p] = code[q] => {p, q} \in met

\* The two goroutines that receive signals agree: Shutdown begins only when ctx is
\* cancelled or about to be, and ctx is cancelled only when Shutdown has begun or
\* is about to, unless a signal came before ListenAndServe had registered for it
\* (main.go:162, server.go:107).  The hub loop never returns before that.
HandlersAgree ==
  LET cancelling == ctx = "cancelled" \/ "main" \in quit
      stopping == "http" \in quit \/ main \notin {"wiring", "waiting"}
  IN  /\ stopping => cancelling
      /\ cancelling /\ ~early => stopping
      /\ hubLoop = "over" => ctx = "cancelled"

\* A signal ends the process, whatever the requests do, unless it came before
\* ListenAndServe had registered for it (server.go:107).
SignalEnds == ("main" \in quit /\ ~early) ~> ~Alive

\* A WebSocket that was accepted gets to the hub, or the process ends: a
\* handler is not left waiting for a hub loop that has returned, except after a
\* signal that came too early.
SocketsServed ==
  \A q \in Requests : At(q, "register") ~> (At(q, "connected") \/ ~Alive \/ early)
=============================================================================
