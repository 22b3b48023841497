---------------------------- MODULE MCFriendLink ----------------------------
(* Small instances of FriendLink for TLC.                                  *)
EXTENDS FriendLink

CONSTANTS ann, ben, t1, t2, t3, t4

(* Every text is ann's.                                                    *)
AnnWrites == [t \in Texts |-> ann]

(* Two each.                                                               *)
BothWrite == [t \in Texts |-> IF t \in {t1, t2} THEN ann ELSE ben]
=============================================================================
