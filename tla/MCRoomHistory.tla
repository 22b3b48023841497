-------------------------- MODULE MCRoomHistory --------------------------
(* Small instances of RoomHistory for TLC.                                 *)
EXTENDS RoomHistory, TLC

CONSTANTS p1, r1, r2

(* One line of a member and one of our own.                                *)
Authors == r1 :> p1 @@ r2 :> Self

(* Handles are alike.                                                      *)
Alike == Permutations(Handles)
=============================================================================
