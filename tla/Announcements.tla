---------------------------- MODULE Announcements ----------------------------
(***************************************************************************)
(* An author's announcements and the nodes that show them (author.rs, and  *)
(* author_join, author_announce, author_frame and author_reoffer in        *)
(* node.rs).                                                               *)
(*                                                                         *)
(* What `sign' printed is pasted into a node, kept, shown, and travels     *)
(* through the author's room; a member keeps it, shows it, and offers the  *)
(* newest ones again to every new neighbour.  Gossip may lose a frame,     *)
(* repeat it and bring it late.  The rooms of a node are tasks of their    *)
(* own and share the table; the process may die between keeping and        *)
(* showing.                                                                *)
(***************************************************************************)
EXTENDS AuthorSequence

CONSTANTS
    Members,   \* nodes in the author's channel
    Joiners,   \* callers of author_join; a room is named after the caller that made it
    Program,   \* the caller of author_announce
    Strangers, \* other keys: what they sign is in the channel too
    Reoffered  \* the number of announcements offered again: 3

ASSUME ProgramAssumption == Program \notin Joiners
ASSUME StrangersAssumption == Strangers \cap Signers = {}
ASSUME ReofferedAssumption == Reoffered \in Nat

VARIABLES
    authorRooms, \* rooms of a node for the author's channel
    joining,     \* callers that found no room, before they make one
    kept,        \* table announcements
    fresh,       \* the announcement a room's task or the caller kept as news, before it is shown
    publishing,  \* the announcement author_announce was called with, before it is sent
    wire,        \* frames that were sent into the channel
    shown        \* how often a node showed an announcement

memberVars == <<authorRooms, joining, kept, fresh, publishing, wire, shown>>
announcementVars == <<sequenceVars, memberVars>>

Workers == Joiners \cup {Program}
NoAnnouncement == [seq |-> 0, text |-> NoSigner]
Foreign == [seq : Seqs, text : Strangers]

AnnouncementInit ==
    /\ SequenceInit
    /\ authorRooms = [n \in Members |-> {}]
    /\ joining = [n \in Members |-> {}]
    /\ kept = [n \in Members |-> {}]
    /\ fresh = [n \in Members |-> [w \in Workers |-> NoAnnouncement]]
    /\ publishing = [n \in Members |-> NoAnnouncement]
    /\ wire = Foreign
    /\ shown = [n \in Members |-> [a \in Announcements |-> 0]]

(* SignedAnnouncement::verify: is it signed by the author's key?           *)
Verified(a) == a.text \in Signers

(* Mutation: whether the row is new is not asked.                          *)
AlwaysNews(n, a) == TRUE

(* Store::announcement_put: a number is kept once.                         *)
IsNews(n, a) == \A b \in kept[n] : b.seq # a.seq

-----------------------------------------------------------------------------
(* author_join: a room of this author will do...                           *)
JoinFind(n, c) ==
    /\ authorRooms[n] = {} /\ c \notin joining[n]
    /\ joining' = [joining EXCEPT ![n] = @ \cup {c}]
    /\ UNCHANGED <<sequenceVars, authorRooms, kept, fresh, publishing, wire, shown>>

(* ...else one is made, and another caller may have made one by now.       *)
JoinInsert(n, c) ==
    /\ c \in joining[n]
    /\ joining' = [joining EXCEPT ![n] = @ \ {c}]
    /\ authorRooms' = [authorRooms EXCEPT ![n] = @ \cup {c}]
    /\ UNCHANGED <<sequenceVars, kept, fresh, publishing, wire, shown>>

LeaveAuthor(n, h) ==
    /\ h \in authorRooms[n]
    /\ authorRooms' = [authorRooms EXCEPT ![n] = @ \ {h}]
    /\ UNCHANGED <<sequenceVars, joining, kept, fresh, publishing, wire, shown>>

(* author_frame: what is signed by the author is kept, if it is news...    *)
Keep(n, w, a) ==
    /\ fresh[n][w] = NoAnnouncement
    /\ Verified(a)
    /\ IF IsNews(n, a)
       THEN /\ kept' = [kept EXCEPT ![n] = @ \cup {a}]
            /\ fresh' = [fresh EXCEPT ![n][w] = a]
       ELSE UNCHANGED <<kept, fresh>>

(* ...by the task of a room that is sent it...                             *)
Receive(n, h, a) ==
    /\ h \in authorRooms[n]
    /\ Keep(n, h, a)
    /\ UNCHANGED <<sequenceVars, authorRooms, joining, publishing, wire, shown>>

(* ...or by author_announce, for what was printed is pasted into a node in *)
(* the channel (anything not signed by the author is refused)...           *)
PostAnnouncement(n, a) ==
    /\ authorRooms[n] # {} /\ publishing[n] = NoAnnouncement
    /\ Keep(n, Program, a)
    /\ publishing' = [publishing EXCEPT ![n] = a]
    /\ UNCHANGED <<sequenceVars, authorRooms, joining, wire, shown>>

(* ...and shown after the store is unlocked.                               *)
Show(n, w) ==
    /\ fresh[n][w] # NoAnnouncement
    /\ shown' = [shown EXCEPT ![n][fresh[n][w]] = @ + 1]
    /\ fresh' = [fresh EXCEPT ![n][w] = NoAnnouncement]
    /\ UNCHANGED <<sequenceVars, authorRooms, joining, kept, publishing, wire>>

(* The runner broadcasts it...                                             *)
Broadcast(n) ==
    /\ publishing[n] # NoAnnouncement /\ fresh[n][Program] = NoAnnouncement
    /\ wire' = wire \cup {publishing[n]}
    /\ publishing' = [publishing EXCEPT ![n] = NoAnnouncement]
    /\ UNCHANGED <<sequenceVars, authorRooms, joining, kept, fresh, shown>>

(* ...or finds the node closed, or the room left.                          *)
BroadcastFails(n) ==
    /\ publishing[n] # NoAnnouncement /\ fresh[n][Program] = NoAnnouncement
    /\ publishing' = [publishing EXCEPT ![n] = NoAnnouncement]
    /\ UNCHANGED <<sequenceVars, authorRooms, joining, kept, fresh, wire, shown>>

(* Store::announcements: the newest by number.                             *)
Newest(n) == {a \in kept[n] : Cardinality({b \in kept[n] : b.seq > a.seq}) < Reoffered}

(* author_reoffer: a new neighbour is sent the newest ones.                *)
NeighborOffer(n) ==
    /\ authorRooms[n] # {} /\ ~(Newest(n) \subseteq wire)
    /\ wire' = wire \cup Newest(n)
    /\ UNCHANGED <<sequenceVars, authorRooms, joining, kept, fresh, publishing, shown>>

(* The process of a node ends anywhere, and starts again.                  *)
MemberRestart(n) ==
    /\ authorRooms[n] # {} \/ joining[n] # {}
    /\ authorRooms' = [authorRooms EXCEPT ![n] = {}]
    /\ joining' = [joining EXCEPT ![n] = {}]
    /\ fresh' = [fresh EXCEPT ![n] = [w \in Workers |-> NoAnnouncement]]
    /\ publishing' = [publishing EXCEPT ![n] = NoAnnouncement]
    /\ UNCHANGED <<sequenceVars, kept, wire, shown>>

MemberNext ==
    \E n \in Members :
        \/ \E c \in Joiners : JoinFind(n, c) \/ JoinInsert(n, c) \/ LeaveAuthor(n, c)
        \/ \E w \in Workers : Show(n, w)
        \/ \E c \in Joiners, a \in wire : Receive(n, c, a)
        \/ \E a \in printed : PostAnnouncement(n, a)
        \/ Broadcast(n) \/ BroadcastFails(n) \/ NeighborOffer(n) \/ MemberRestart(n)

AnnouncementNext == (SequenceNext /\ UNCHANGED memberVars) \/ MemberNext

AnnouncementSpec == AnnouncementInit /\ [][AnnouncementNext]_announcementVars

-----------------------------------------------------------------------------
AnnouncementTypeOK ==
    /\ SequenceTypeOK
    /\ authorRooms \in [Members -> SUBSET Joiners] /\ joining \in [Members -> SUBSET Joiners]
    /\ kept \in [Members -> SUBSET Announcements]
    /\ fresh \in [Members -> [Workers -> Announcements \cup {NoAnnouncement}]]
    /\ publishing \in [Members -> Announcements \cup {NoAnnouncement}]
    /\ wire \subseteq Announcements \cup Foreign
    /\ shown \in [Members -> [Announcements -> Nat]]

(* Whoever signs when, wherever signers die, whatever the channel loses,   *)
(* repeats or makes up, and whichever of two rooms of a node is first: no  *)
(* two members ever show different texts under one number, and nothing is  *)
(* shown that the author was not shown first.                              *)
OneTextPerNumber ==
    /\ \A n, m \in Members, a, b \in Announcements :
          shown[n][a] > 0 /\ shown[m][b] > 0 /\ a.seq = b.seq => a = b
    /\ \A n \in Members, a \in Announcements : shown[n][a] > 0 => a \in printed

(* author.rs:36: "a member keeps each (author, seq) once, so re-offers     *)
(* never notify twice", with two rooms, after a restart, and for the node  *)
(* the author uses.                                                        *)
ShownOnce == \A n \in Members, a \in Announcements : shown[n][a] <= 1

(* The whole promise of announcements: one text for a number, shown once.  *)
AnnouncementsTrue == OneTextPerNumber /\ ShownOnce
=============================================================================
