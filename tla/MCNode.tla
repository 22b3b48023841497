------------------------------- MODULE MCNode -------------------------------
(***************************************************************************)
(* What the members of a channel get from each other, on small instances:  *)
(* the author's announcements, and files.  Here they share no variable, so *)
(* their steps commute: a behaviour is one of one part, chosen at the      *)
(* start, with the other at rest.                                          *)
(***************************************************************************)
EXTENDS Announcements, FileTransfer, TLC

CONSTANTS a1, a2, b1, b2, p1

VARIABLE part

nodeVars == <<part, announcementVars, vars>>

(* Both files are of one sender.                                           *)
OneSender == a1 :> p1 @@ a2 :> p1

NodeInit ==
    /\ part \in {"announcements", "files"}
    /\ AnnouncementInit /\ Init
    /\ part # "announcements" => ~keyFile

OthersRest ==
    /\ UNCHANGED part
    /\ part # "announcements" => UNCHANGED announcementVars
    /\ part # "files" => UNCHANGED vars

NodeNext ==
    /\ OthersRest
    /\ \/ part = "announcements" /\ AnnouncementNext
       \/ part = "files" /\ Next

NodeSpec == NodeInit /\ [][NodeNext]_nodeVars

(* The variables of the part that moves keep their types.                  *)
NodeTypeOK ==
    /\ part = "announcements" => AnnouncementTypeOK
    /\ part = "files" => TypeOK

(* Signers are alike and so are members; the two files are the same model  *)
(* values as the signers.                                                  *)
Alike == Permutations({a1, a2}) \cup Permutations({b1, b2})
=============================================================================
