--------------------------- MODULE MCRoomService ---------------------------
(* Small instances of RoomService for TLC.                                 *)
EXTENDS RoomService, TLC

\* User, session, connection, handler and timer ids are drawn or chosen freely
\* and only compared: the safety runs identify states that differ by a
\* permutation of them.
Symmetry == Permutations(Users) \cup Permutations(Sessions)
              \cup Permutations(Conns) \cup Permutations(Admins)
              \cup Permutations(Timers)
=============================================================================
