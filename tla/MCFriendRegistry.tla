-------------------------- MODULE MCFriendRegistry --------------------------
(* Small instances of FriendRegistry for TLC.                              *)
EXTENDS FriendRegistry
=============================================================================
