------------------------------ MODULE RoomLife ------------------------------
(***************************************************************************)
(* What the room service promises of rooms and of sessions, whichever of   *)
(* its goroutines are at work (domain/room/room.go, domain/session,        *)
(* ports/driving/room_manager.go).                                         *)
(*                                                                         *)
(* A room is made, is open for participants up to its capacity, and is     *)
(* closed for good.  A session goes through its stages in one direction:   *)
(*                                                                         *)
(*   "none" -> "open" -> "live" -> "closing" -> "gone"                     *)
(*                                                                         *)
(* open has a PeerConnection, live is registered as well, closing is still *)
(* registered, gone is neither.  None is forgotten while its               *)
(* PeerConnection is open, and a live session is cut off at once only if   *)
(* its room is closed.                                                     *)
(***************************************************************************)
EXTENDS Naturals, FiniteSets

CONSTANTS Rooms, Users, Sessions, Capacity, None

VARIABLES
  status,       \* "unborn", "active" or "closed"
  participants, \* who has a place in a room
  owner,        \* the room and user of each session
  stage         \* where each session is in its life

lvars == <<status, participants, owner, stage>>

Init ==
  /\ status = [r \in Rooms |-> "unborn"]
  /\ participants = [r \in Rooms |-> {}]
  /\ owner = [s \in Sessions |-> None]
  /\ stage = [s \in Sessions |-> "none"]

MakeRoom(r) ==
  /\ status[r] = "unborn"
  /\ status' = [status EXCEPT ![r] = "active"]
  /\ UNCHANGED <<participants, owner, stage>>

Enter(r, u) ==
  /\ status[r] = "active"
  /\ u \notin participants[r]
  /\ Cardinality(participants[r]) < Capacity
  /\ participants' = [participants EXCEPT ![r] = @ \cup {u}]
  /\ UNCHANGED <<status, owner, stage>>

Exit(r, u) ==
  /\ u \in participants[r]
  /\ participants' = [participants EXCEPT ![r] = @ \ {u}]
  /\ UNCHANGED <<status, owner, stage>>

CloseRoom(r) ==
  /\ status[r] = "active"
  /\ status' = [status EXCEPT ![r] = "closed"]
  /\ participants' = [participants EXCEPT ![r] = {}]
  /\ UNCHANGED <<owner, stage>>

Begin(s, r, u) ==
  /\ stage[s] = "none"
  /\ status[r] # "unborn"
  /\ owner' = [owner EXCEPT ![s] = <<r, u>>]
  /\ stage' = [stage EXCEPT ![s] = "open"]
  /\ UNCHANGED <<status, participants>>

Advance(s, from, to) ==
  /\ stage[s] = from
  /\ stage' = [stage EXCEPT ![s] = to]
  /\ UNCHANGED <<status, participants, owner>>

Register(s) == Advance(s, "open", "live")
HangUp(s) == Advance(s, "live", "closing")
Forget(s) == Advance(s, "closing", "gone")

\* Sessions of a closed room end, some or all of them.
EndCalls(r) ==
  /\ status[r] = "closed"
  /\ \E ended \in SUBSET {s \in Sessions : /\ stage[s] \in {"live", "closing"}
                                           /\ owner[s][1] = r} :
       stage' = [s \in Sessions |-> IF s \in ended THEN "gone" ELSE stage[s]]
  /\ UNCHANGED <<status, participants, owner>>

Next ==
  \/ \E r \in Rooms : MakeRoom(r) \/ CloseRoom(r) \/ EndCalls(r)
  \/ \E r \in Rooms, u \in Users :
       \/ Enter(r, u) \/ Exit(r, u)
       \/ \E s \in Sessions : Begin(s, r, u)
  \/ \E s \in Sessions : Register(s) \/ HangUp(s) \/ Forget(s)

Spec == Init /\ [][Next]_lvars
=============================================================================
