------------------------- MODULE ConversationProofs -------------------------
(***************************************************************************)
(* What the three ways of talking to others promise: rooms, connections    *)
(* and letters to the author, for any number of everything and whatever    *)
(* the bounds are.                                                         *)
(*                                                                         *)
(* Rooms.  The argument follows a handle through the tables.  A room       *)
(* starts when its call has made the entry, and until gossip has           *)
(* subscribed there is one thing in its way only: the call, its command,   *)
(* or the runner.  Nothing else is queued for it before that, so a leave   *)
(* finds it subscribed or gone (Lifecycle).  What a task was told, what it *)
(* is greeting with, and what is queued then add up to the presence that   *)
(* is set (Sent, Announced, Followed).                                     *)
(*                                                                         *)
(* DirectConnections and SupportMessages.  One predicate per connection or *)
(* letter says which places it can be in at once (ConnPlace, ConnGone,     *)
(* LetterPlace); it is inductive with the types.                           *)
(*                                                                         *)
(* All of it, and what EventDelivery promises, holds of the parts side by  *)
(* side, as they are checked.                                              *)
(***************************************************************************)
EXTENDS MCEventDelivery, EventDeliveryProofs

-----------------------------------------------------------------------------
(* Rooms: the inductive invariant.                                         *)

Queued(op, h) == \E i \in DOMAIN roomQueue : roomQueue[i].op = op /\ roomQueue[i].room = h
Busy(h) == runner.pc # "idle" /\ runner.room = h
Known(h) == entry[h].pc \in {"listed", "gone"}

(* A call that made an entry has the handle to itself.                     *)
CallAlone ==
    \A h \in calling :
        /\ Live(h) /\ h \notin senders /\ ~Busy(h)
        /\ \A i \in DOMAIN roomQueue : roomQueue[i].room # h

(* The command of a join comes before all others of its handle.            *)
JoinFirst ==
    \A i \in DOMAIN roomQueue :
        LET h == roomQueue[i].room
        IN  /\ Known(h)
            /\ roomQueue[i].op = "join" =>
                  /\ Live(h) /\ h \notin senders /\ ~Busy(h)
                  /\ \A j \in DOMAIN roomQueue : j < i => roomQueue[j].room # h

(* Where the runner stands in a join or a leave.                           *)
RunnerPlace ==
    \A h \in RoomHandles :
        /\ Busy(h) => Known(h)
        /\ RunnerAt("subscribe", h) => Live(h) /\ h \notin senders /\ marker[entry[h].topic] = entry[h].key
        /\ RunnerAt("remove", h) => h \notin deliverable /\ h \notin senders
        /\ RunnerAt("sweep", h) => entry[h].pc = "gone"

(* A handle that sends has its room and its task; a task that was told to  *)
(* end belongs to a room that is gone or about to be.                      *)
TaskPlace ==
    \A h \in RoomHandles :
        /\ h \in senders <=> task[h] = "on"
        /\ h \in senders => Live(h)
        /\ task[h] = "aborted" => entry[h].pc = "gone" \/ RunnerAt("remove", h)

(* Without a task nothing of gossip is known.                              *)
Quiet ==
    \A h \in RoomHandles : task[h] = "none" =>
        /\ near[h] = {} /\ reports[h] = <<>> /\ doing[h].pc = "idle"
        /\ \A n \in Neighbors : reached[h][n] = 0

(* A room that lives or is in the making has its handle delivered...       *)
Delivered ==
    \A h \in RoomHandles :
        /\ entry[h].pc = "made" => h \in deliverable
        /\ h \in left => entry[h].pc = "gone" /\ fileOffers[h] = {}

(* No neighbour was sent, or is greeted with, a presence that was not set; *)
(* a greeting is with the newest, unless that was missed...                *)
Sent ==
    \A h \in senders :
        /\ \A n \in Neighbors : reached[h][n] <= presence[h]
        /\ doing[h].pc = "greet" =>
              /\ doing[h].version <= presence[h]
              /\ h \notin missed => doing[h].version = presence[h]

(* ...and of the presences that are queued the last is the newest.         *)
Newest(h, i) ==
    \E j \in DOMAIN roomQueue :
        /\ i <= j /\ roomQueue[j].op = "presence" /\ roomQueue[j].room = h
        /\ roomQueue[j].version = presence[h]
Announced ==
    \A i \in DOMAIN roomQueue : roomQueue[i].op = "presence" /\ Live(roomQueue[i].room) =>
        /\ roomQueue[i].version \in 1 .. presence[roomQueue[i].room]
        /\ Newest(roomQueue[i].room, i)

(* What a neighbour still has to be sent is queued, on its way, or will be *)
(* on its way once the task has taken the report of it.                    *)
Awaits(h, n) == doing[h].pc = "greet" \/ \E i \in DOMAIN reports[h] : reports[h][i] = <<"up", n>>
Followed ==
    \A h \in senders : h \notin missed /\ ~Queued("presence", h) =>
        \A n \in near[h] : reached[h][n] = presence[h] \/ Awaits(h, n)

Lifecycle == CallAlone /\ JoinFirst /\ RunnerPlace /\ TaskPlace

-----------------------------------------------------------------------------
(* Types                                                                   *)

RoomCommands == [op : {"join", "leave", "presence"}, room : RoomHandles, version : 0 .. MaxPresence]
RoomEntries == [pc : {"none", "made", "listed", "gone"}, topic : Topics, key : RoomKeys \cup {Plain}]
RoomDoings == [pc : {"idle", "greet"}, version : 0 .. MaxPresence] \cup [pc : {"offer"}, from : Neighbors]
RoomReports == Seq({"up", "down"} \X Neighbors)

(* A command of a legal kind may be queued, and the head taken.            *)
LEMMA QueueTypes ==
  ASSUME roomQueue \in Seq(RoomCommands), NEW h \in RoomHandles
  PROVE  /\ \A op \in {"join", "leave", "presence"}, v \in 0 .. MaxPresence :
               PushRoom(op, h, v) => roomQueue' \in Seq(RoomCommands)
         /\ \A op : TakeFor(op, h) => /\ roomQueue' \in Seq(RoomCommands)
                                       /\ Head(roomQueue) \in RoomCommands
<1>1. ASSUME NEW op \in {"join", "leave", "presence"}, NEW v \in 0 .. MaxPresence, PushRoom(op, h, v)
      PROVE  roomQueue' \in Seq(RoomCommands)
  <2>1. [op |-> op, room |-> h, version |-> v] \in RoomCommands
    BY DEF RoomCommands
  <2> QED
    BY <1>1, <2>1 DEF PushRoom
<1>2. ASSUME NEW op, TakeFor(op, h)
      PROVE  roomQueue' \in Seq(RoomCommands) /\ Head(roomQueue) \in RoomCommands
  BY <1>2 DEF TakeFor
<1> QED
  BY <1>1, <1>2

LEMMA EntryTypes ==
  ASSUME RoomsTypeOK, NEW h \in RoomHandles
  PROVE  /\ RoomGone \in RoomEntries
         /\ [entry EXCEPT ![h] = RoomGone] \in [RoomHandles -> RoomEntries]
         /\ [entry EXCEPT ![h].pc = "made"] \in [RoomHandles -> RoomEntries]
         /\ \A t \in Topics, k \in RoomKeys \cup {Plain} :
               [entry EXCEPT ![h] = [pc |-> "listed", topic |-> t, key |-> k]] \in [RoomHandles -> RoomEntries]
<1>1. entry \in [RoomHandles -> RoomEntries]
  BY DEF RoomsTypeOK, RoomEntries
<1>2. RoomGone \in RoomEntries
  BY TopicsAssumption DEF RoomGone, NoRoomEntry, RoomEntries
<1>3. [entry[h] EXCEPT !.pc = "made"] \in RoomEntries
  BY <1>1 DEF RoomEntries
<1>4. \A t \in Topics, k \in RoomKeys \cup {Plain} : [pc |-> "listed", topic |-> t, key |-> k] \in RoomEntries
  BY DEF RoomEntries
<1> QED
  BY <1>1, <1>2, <1>3, <1>4

LEMMA ReportTypes ==
  ASSUME RoomsTypeOK, NEW h \in RoomHandles,
         NEW more \in RoomReports,
         \/ reports[h] # <<>> /\ more = Tail(reports[h])
         \/ Len(reports[h]) < MaxReports /\ \E r \in {"up", "down"} \X Neighbors : more = Append(reports[h], r)
  PROVE  LET others == [reports EXCEPT ![h] = more]
         IN  others \in [RoomHandles -> RoomReports] /\ \A g \in RoomHandles : Len(others[g]) <= MaxReports
<1>1. reports \in [RoomHandles -> RoomReports] /\ \A g \in RoomHandles : Len(reports[g]) <= MaxReports
  BY DEF RoomsTypeOK, RoomReports
<1>2. Len(more) <= MaxReports
  BY <1>1, RoomBoundsAssumption DEF RoomReports
<1> QED
  BY <1>1, <1>2

LEMMA TypesInit ==
  ASSUME RoomInit
  PROVE  RoomsTypeOK
BY RoomBoundsAssumption, TopicsAssumption DEF RoomInit, RoomsTypeOK, RunnerIdle, NoRoomEntry, AtRest

LEMMA TypesStep ==
  ASSUME RoomsTypeOK, [RoomNext]_roomVars
  PROVE  RoomsTypeOK'
<1> USE RoomBoundsAssumption, TopicsAssumption
<1>a. roomQueue \in Seq(RoomCommands) /\ entry \in [RoomHandles -> RoomEntries]
  BY DEF RoomsTypeOK, RoomCommands, RoomEntries
<1>b. ASSUME roomQueue' \in Seq(RoomCommands), entry' \in [RoomHandles -> RoomEntries]
      PROVE  /\ roomQueue' \in Seq([op : {"join", "leave", "presence"}, room : RoomHandles, version : 0 .. MaxPresence])
             /\ entry' \in [RoomHandles -> [pc : {"none", "made", "listed", "gone"}, topic : Topics, key : RoomKeys \cup {Plain}]]
  BY <1>b DEF RoomCommands, RoomEntries
<1>c. doing \in [RoomHandles -> RoomDoings] /\ reports \in [RoomHandles -> RoomReports]
  BY DEF RoomsTypeOK, RoomDoings, RoomReports
<1>1. CASE RoomRestart
  BY <1>1 DEF RoomRestart, RoomsTypeOK, RunnerIdle, NoRoomEntry, AtRest
<1>2. ASSUME NEW n \in Neighbors, RefuseNeighbor(n) PROVE RoomsTypeOK'
  BY <1>2 DEF RefuseNeighbor, RoomsTypeOK, tables, RunnerIdle
<1>3. ASSUME NEW h \in RoomHandles, JoinRegister(h) PROVE RoomsTypeOK'
  <2>1. roomQueue' \in Seq(RoomCommands)
    BY <1>a, <1>3 DEF JoinRegister
  <2>2. entry' \in [RoomHandles -> RoomEntries]
    BY <1>a, <1>3, EntryTypes DEF JoinRegister
  <2> QED
    BY <1>3, <2>1, <2>2, <1>b DEF JoinRegister, RoomsTypeOK, seenOfGossip
<1>4. ASSUME NEW h \in RoomHandles, JoinPush(h) PROVE RoomsTypeOK'
  <2>1. roomQueue' \in Seq(RoomCommands)
    BY <1>a, <1>4, QueueTypes DEF JoinPush
  <2>2. entry' \in [RoomHandles -> RoomEntries]
    BY <1>a, <1>4 DEF JoinPush
  <2> QED
    BY <1>4, <2>1, <2>2, <1>b DEF JoinPush, RoomsTypeOK, seenOfGossip
<1>5. ASSUME NEW h \in RoomHandles, JoinClosed(h) PROVE RoomsTypeOK'
  BY <1>5 DEF JoinClosed, RoomsTypeOK, seenOfGossip, RunnerIdle, RoomGone, NoRoomEntry
<1>6. ASSUME NEW h \in RoomHandles, LeaveRoom(h) PROVE RoomsTypeOK'
  <2>1. roomQueue' \in Seq(RoomCommands)
    BY <1>a, <1>6, QueueTypes DEF LeaveRoom
  <2>2. entry' \in [RoomHandles -> RoomEntries]
    BY <1>a, <1>6 DEF LeaveRoom, tables
  <2> QED
    BY <1>6, <2>1, <2>2, <1>b DEF LeaveRoom, RoomsTypeOK, tables, seenOfGossip
<1>7. ASSUME NEW h \in RoomHandles, PresenceSet(h) PROVE RoomsTypeOK'
  <2>0. presence[h] + 1 \in 0 .. MaxPresence
    BY <1>7 DEF PresenceSet, RoomsTypeOK
  <2>1. roomQueue' \in Seq(RoomCommands)
    BY <1>a, <1>7, <2>0, QueueTypes DEF PresenceSet
  <2>2. entry' \in [RoomHandles -> RoomEntries]
    BY <1>a, <1>7 DEF PresenceSet, tables
  <2> QED
    BY <1>7, <2>1, <2>0, <2>2, <1>b DEF PresenceSet, RoomsTypeOK, tables, seenOfGossip, Missed
<1>8. ASSUME NEW h \in RoomHandles, NEW t \in Topics, NEW k \in RoomKeys \cup {Plain}, JoinEnter(h, t, k)
      PROVE  RoomsTypeOK'
  <2>1. roomQueue' \in Seq(RoomCommands)
    BY <1>a, <1>8 DEF JoinEnter
  <2>2. entry' \in [RoomHandles -> RoomEntries]
    <3>1. CASE Mismatch(t, k)
      BY <1>a, <1>8, <3>1, EntryTypes DEF JoinEnter
    <3>2. CASE ~Mismatch(t, k)
      <4>1. entry' = [entry EXCEPT ![h] = [pc |-> "listed", topic |-> t, key |-> k]]
        BY <1>8, <3>2 DEF JoinEnter
      <4>2. [entry EXCEPT ![h] = [pc |-> "listed", topic |-> t, key |-> k]] \in [RoomHandles -> RoomEntries]
        BY EntryTypes
      <4> QED
        BY <4>1, <4>2
    <3> QED
      BY <3>1, <3>2
  <2> QED
    BY <1>8, <2>1, <2>2, <1>b DEF JoinEnter, RoomsTypeOK, seenOfGossip
<1>9. ASSUME NEW h \in RoomHandles, JoinAdmit(h) PROVE RoomsTypeOK'
  <2>3. marker' \in [Topics -> RoomKeys \cup {Plain}]
    <3>1. marker \in [Topics -> RoomKeys \cup {Plain}] /\ KeyOf(h) \in RoomKeys \cup {Plain}
      BY <1>a DEF RoomsTypeOK, KeyOf
    <3>2. marker' = marker \/ marker' = [marker EXCEPT ![entry[h].topic] = KeyOf(h)]
      BY <1>9 DEF JoinAdmit
    <3> QED
      BY <3>1, <3>2
  <2>1. roomQueue' \in Seq(RoomCommands)
    BY <1>a, <1>9, QueueTypes DEF JoinAdmit
  <2>2. entry' \in [RoomHandles -> RoomEntries]
    BY <1>a, <1>9 DEF JoinAdmit, tables
  <2> QED
    BY <1>9, <2>1, <2>2, <2>3, <1>b DEF JoinAdmit, RoomsTypeOK, tables, seenOfGossip, RunnerGoes
<1>10. ASSUME NEW h \in RoomHandles, JoinRefused(h) PROVE RoomsTypeOK'
  <2>1. roomQueue' \in Seq(RoomCommands)
    BY <1>a, <1>10, QueueTypes DEF JoinRefused
  <2>2. entry' \in [RoomHandles -> RoomEntries]
    BY <1>a, <1>10, EntryTypes DEF JoinRefused
  <2> QED
    BY <1>10, <2>1, <2>2, <1>b DEF JoinRefused, RoomsTypeOK, seenOfGossip
<1>11. ASSUME NEW h \in RoomHandles, JoinSubscribed(h) PROVE RoomsTypeOK'
  BY <1>11 DEF JoinSubscribed, RoomsTypeOK, seenOfGossip, RunnerIdle, RunnerAt
<1>12. ASSUME NEW h \in RoomHandles, JoinFails(h) PROVE RoomsTypeOK'
  BY <1>12 DEF JoinFails, RoomsTypeOK, seenOfGossip, RunnerIdle, RoomGone, NoRoomEntry, RunnerAt
<1>13. ASSUME NEW h \in RoomHandles, LeaveTake(h) PROVE RoomsTypeOK'
  <2>1. roomQueue' \in Seq(RoomCommands)
    BY <1>a, <1>13, QueueTypes DEF LeaveTake
  <2>2. entry' \in [RoomHandles -> RoomEntries]
    BY <1>a, <1>13 DEF LeaveTake
  <2>3. task' \in [RoomHandles -> {"none", "on", "aborted"}]
    BY <1>13 DEF LeaveTake, RoomsTypeOK
  <2> QED
    BY <1>13, <2>1, <2>2, <2>3, <1>b DEF LeaveTake, RoomsTypeOK, seenOfGossip, RunnerGoes, RunnerIdle
<1>14. ASSUME NEW h \in RoomHandles, LeaveRemove(h) PROVE RoomsTypeOK'
  BY <1>14 DEF LeaveRemove, RoomsTypeOK, RunnerGoes, RunnerIdle, RoomGone, NoRoomEntry, RunnerAt
<1>15. ASSUME NEW h \in RoomHandles, LeaveSweep(h) PROVE RoomsTypeOK'
  BY <1>15 DEF LeaveSweep, RoomsTypeOK, tables, RunnerIdle, RunnerAt
<1>16. ASSUME NEW h \in RoomHandles, BroadcastPresence(h) PROVE RoomsTypeOK'
  <2>3. Head(roomQueue).version \in 0 .. MaxPresence
    BY <1>a, <1>16, QueueTypes DEF BroadcastPresence, RoomCommands
  <2>4. reached' \in [RoomHandles -> [Neighbors -> 0 .. MaxPresence]]
    <3>1. reached \in [RoomHandles -> [Neighbors -> 0 .. MaxPresence]]
      BY DEF RoomsTypeOK
    <3> QED
      BY <1>16, <2>3, <3>1 DEF BroadcastPresence, Reach
  <2>1. roomQueue' \in Seq(RoomCommands)
    BY <1>a, <1>16, QueueTypes DEF BroadcastPresence
  <2>2. entry' \in [RoomHandles -> RoomEntries]
    BY <1>a, <1>16 DEF BroadcastPresence, tables
  <2> QED
    BY <1>16, <2>1, <2>2, <2>4, <1>b DEF BroadcastPresence, RoomsTypeOK, tables
<1>17. ASSUME NEW h \in RoomHandles, TaskEnds(h) PROVE RoomsTypeOK'
  BY <1>17 DEF TaskEnds, RoomsTypeOK, tables, RunnerIdle, AtRest
<1>18. ASSUME NEW h \in RoomHandles, Greet(h) PROVE RoomsTypeOK'
  BY <1>18 DEF Greet, RoomsTypeOK, tables, RunnerIdle, DoesNext, Reach
<1>19. ASSUME NEW h \in RoomHandles, OfferAdmit(h) PROVE RoomsTypeOK'
  <2>1. doing[h].from \in Neighbors
    <3>1. doing[h] \in [pc : {"idle", "greet"}, version : 0 .. MaxPresence] \cup [pc : {"offer"}, from : Neighbors]
      BY DEF RoomsTypeOK
    <3>2. doing[h].pc = "offer"
      BY <1>19 DEF OfferAdmit
    <3> QED
      BY <3>1, <3>2
  <2>2. fileOffers' \in [RoomHandles -> SUBSET Neighbors] /\ late' \subseteq RoomHandles
    <3>1. fileOffers \in [RoomHandles -> SUBSET Neighbors] /\ late \subseteq RoomHandles
      BY DEF RoomsTypeOK
    <3>2. fileOffers' = fileOffers \/ fileOffers' = [fileOffers EXCEPT ![h] = @ \cup {doing[h].from}]
      BY <1>19 DEF OfferAdmit
    <3>3. late' = late \/ late' = late \cup {h}
      BY <1>19 DEF OfferAdmit
    <3> QED
      BY <2>1, <3>1, <3>2, <3>3
  <2>3. [pc |-> "idle", version |-> 0] \in RoomDoings
    BY DEF RoomDoings
  <2>4. doing' \in [RoomHandles -> RoomDoings]
    BY <1>19, <2>3, <1>c DEF OfferAdmit, DoesNext
  <2> QED
    BY <1>19, <2>2, <2>4 DEF RoomDoings, OfferAdmit, RoomsTypeOK, tables
<1>20. ASSUME NEW h \in RoomHandles, NEW n \in Neighbors, NeighborUp(h, n) PROVE RoomsTypeOK'
  <2>1. reports' \in [RoomHandles -> RoomReports] /\ \A g \in RoomHandles : Len(reports'[g]) <= MaxReports
    <3>1. Tail(reports[h]) \in RoomReports /\ reports[h] # <<>> /\ reports' = [reports EXCEPT ![h] = Tail(reports[h])]
      BY <1>20, <1>c DEF NeighborUp, TakesReport, RoomReports
    <3> QED
      BY <3>1, ReportTypes
  <2>2. peers' \in [RoomHandles -> SUBSET Neighbors]
    BY <1>20 DEF NeighborUp, RoomsTypeOK
  <2>3. [pc |-> "greet", version |-> presence[h]] \in RoomDoings
    BY DEF RoomsTypeOK, RoomDoings
  <2>4. doing' \in [RoomHandles -> RoomDoings]
    BY <1>20, <2>3, <1>c DEF NeighborUp, DoesNext
  <2>5. missed' \subseteq RoomHandles
    BY <1>20 DEF NeighborUp, RoomsTypeOK
  <2> QED
    BY <1>20, <2>1, <2>2, <2>4, <2>5 DEF RoomDoings, RoomReports, NeighborUp, RoomsTypeOK, tables
<1>21. ASSUME NEW h \in RoomHandles, NEW n \in Neighbors, NeighborDown(h, n) PROVE RoomsTypeOK'
  <2>1. reports' \in [RoomHandles -> RoomReports] /\ \A g \in RoomHandles : Len(reports'[g]) <= MaxReports
    <3>1. Tail(reports[h]) \in RoomReports /\ reports[h] # <<>> /\ reports' = [reports EXCEPT ![h] = Tail(reports[h])]
      BY <1>21, <1>c DEF NeighborDown, TakesReport, RoomReports
    <3> QED
      BY <3>1, ReportTypes
  <2>2. peers' \in [RoomHandles -> SUBSET Neighbors]
    BY <1>21 DEF NeighborDown, RoomsTypeOK
  <2> QED
    BY <1>21, <2>1, <2>2 DEF RoomReports, NeighborDown, RoomsTypeOK, tables
<1>22. ASSUME NEW h \in RoomHandles, NEW n \in Neighbors, OfferRead(h, n) PROVE RoomsTypeOK'
  BY <1>22 DEF OfferRead, RoomsTypeOK, tables, RunnerIdle
<1>23. ASSUME NEW h \in RoomHandles, NEW n \in Neighbors, Unoffered(h, n) PROVE RoomsTypeOK'
  BY <1>23 DEF Unoffered, RoomsTypeOK, tables, RunnerIdle
<1>24. ASSUME NEW h \in RoomHandles, NEW n \in Neighbors, GossipReports(h, n) PROVE RoomsTypeOK'
  <2>1. reports' \in [RoomHandles -> RoomReports] /\ \A g \in RoomHandles : Len(reports'[g]) <= MaxReports
    <3>1. PICK r \in {"up", "down"} \X Neighbors : reports' = [reports EXCEPT ![h] = Append(reports[h], r)]
      BY <1>24 DEF GossipReports
    <3>2. Append(reports[h], r) \in RoomReports /\ Len(reports[h]) < MaxReports
      BY <1>24, <1>c DEF GossipReports, RoomReports
    <3> QED
      BY <3>1, <3>2, ReportTypes
  <2>2. near' \in [RoomHandles -> SUBSET Neighbors]
    <3>1. near' \in {[near EXCEPT ![h] = @ \ {n}], [near EXCEPT ![h] = @ \cup {n}]}
      BY <1>24 DEF GossipReports
    <3>2. near \in [RoomHandles -> SUBSET Neighbors]
      BY DEF RoomsTypeOK
    <3> QED
      BY <3>1, <3>2
  <2>3. reached' \in [RoomHandles -> [Neighbors -> 0 .. MaxPresence]]
    <3>1. [reached[h] EXCEPT ![n] = 0] \in [Neighbors -> 0 .. MaxPresence]
      BY DEF RoomsTypeOK
    <3> QED
      BY <1>24, <3>1 DEF GossipReports, RoomsTypeOK
  <2> QED
    BY <1>24, <2>1, <2>2, <2>3 DEF RoomReports, GossipReports, RoomsTypeOK, tables
<1>25. CASE UNCHANGED roomVars
  BY <1>25 DEF roomVars, RoomsTypeOK, RunnerIdle
<1> QED
  BY <1>1, <1>2, <1>3, <1>4, <1>5, <1>6, <1>7, <1>8, <1>9, <1>10, <1>11, <1>12, <1>13, <1>14, <1>15,
     <1>16, <1>17, <1>18, <1>19, <1>20, <1>21, <1>22, <1>23, <1>24, <1>25
     DEF RoomNext, RunnerStep, TaskStep

-----------------------------------------------------------------------------
(* What a step does to the queue                                           *)

LEMMA PushIs ==
  ASSUME RoomsTypeOK, NEW op, NEW h, NEW v, PushRoom(op, h, v)
  PROVE  /\ \A i \in DOMAIN roomQueue : i \in DOMAIN roomQueue' /\ roomQueue'[i] = roomQueue[i]
         /\ \A i \in DOMAIN roomQueue, j \in DOMAIN roomQueue' : j < i => j \in DOMAIN roomQueue
         /\ \A i \in DOMAIN roomQueue' :
               \/ i \in DOMAIN roomQueue
               \/ roomQueue'[i] = [op |-> op, room |-> h, version |-> v] /\ \A j \in DOMAIN roomQueue' : j < i => j \in DOMAIN roomQueue
         /\ \E i \in DOMAIN roomQueue' :
               /\ roomQueue'[i] = [op |-> op, room |-> h, version |-> v]
               /\ \A j \in DOMAIN roomQueue' : j <= i
<1>1. roomQueue \in Seq(RoomCommands)
  BY DEF RoomsTypeOK, RoomCommands
<1> DEFINE command == [op |-> op, room |-> h, version |-> v]
<1>2. roomQueue' = Append(roomQueue, command)
  BY DEF PushRoom
<1> HIDE DEF command
<1>3. /\ Len(roomQueue) \in Nat /\ DOMAIN roomQueue = 1 .. Len(roomQueue)
      /\ DOMAIN roomQueue' = 1 .. Len(roomQueue) + 1
      /\ roomQueue'[Len(roomQueue) + 1] = command
      /\ \A i \in 1 .. Len(roomQueue) : roomQueue'[i] = roomQueue[i]
  BY <1>1, <1>2
<1>4. Len(roomQueue) + 1 \in DOMAIN roomQueue' /\ \A j \in DOMAIN roomQueue' : j <= Len(roomQueue) + 1
  BY <1>3
<1>5. \E i \in DOMAIN roomQueue' : roomQueue'[i] = command /\ \A j \in DOMAIN roomQueue' : j <= i
  BY <1>3, <1>4
<1>6. /\ \A i \in DOMAIN roomQueue, j \in DOMAIN roomQueue' : j < i => j \in DOMAIN roomQueue
      /\ \A i \in DOMAIN roomQueue : i \in DOMAIN roomQueue' /\ roomQueue'[i] = roomQueue[i]
      /\ \A i \in DOMAIN roomQueue' :
            \/ i \in DOMAIN roomQueue
            \/ roomQueue'[i] = command /\ \A j \in DOMAIN roomQueue' : j < i => j \in DOMAIN roomQueue
  BY <1>3
<1> QED
  BY <1>5, <1>6 DEF command

LEMMA TakeIs ==
  ASSUME RoomsTypeOK, NEW op, NEW h, TakeFor(op, h)
  PROVE  /\ runner.pc = "idle"
         /\ 1 \in DOMAIN roomQueue /\ roomQueue[1] = Head(roomQueue) /\ roomQueue[1].op = op /\ roomQueue[1].room = h
         /\ \A i \in DOMAIN roomQueue' : i \in Nat \ {0} /\ i + 1 \in DOMAIN roomQueue /\ roomQueue'[i] = roomQueue[i + 1]
         /\ \A i \in DOMAIN roomQueue : i = 1 \/ (1 < i /\ i - 1 \in DOMAIN roomQueue' /\ roomQueue'[i - 1] = roomQueue[i])
<1>1. roomQueue \in Seq(RoomCommands)
  BY DEF RoomsTypeOK, RoomCommands
<1>2. runner.pc = "idle" /\ roomQueue # <<>> /\ roomQueue' = Tail(roomQueue) /\ Head(roomQueue).op = op /\ Head(roomQueue).room = h
  BY DEF TakeFor
<1>3. /\ Len(roomQueue) \in Nat \ {0} /\ DOMAIN roomQueue = 1 .. Len(roomQueue)
      /\ DOMAIN roomQueue' = 1 .. Len(roomQueue) - 1
      /\ \A i \in 1 .. Len(roomQueue) - 1 : roomQueue'[i] = roomQueue[i + 1]
      /\ Head(roomQueue) = roomQueue[1]
  BY <1>1, <1>2
<1>4. 1 \in DOMAIN roomQueue
  BY <1>3
<1>5. \A i \in DOMAIN roomQueue' : i \in Nat \ {0} /\ i + 1 \in DOMAIN roomQueue /\ roomQueue'[i] = roomQueue[i + 1]
  BY <1>3
<1>6. ASSUME NEW i \in DOMAIN roomQueue, i # 1
      PROVE  1 < i /\ i - 1 \in DOMAIN roomQueue' /\ roomQueue'[i - 1] = roomQueue[i]
  <2>1. i \in Nat /\ 1 < i /\ i - 1 \in 1 .. Len(roomQueue) - 1 /\ (i - 1) + 1 = i
    BY <1>3, <1>6
  <2> QED
    BY <1>3, <2>1
<1> QED
  BY <1>2, <1>3, <1>4, <1>5, <1>6

LEMMA Shapes ==
  ASSUME RoomsTypeOK
  PROVE  /\ entry \in [RoomHandles -> RoomEntries]
         /\ calling \subseteq RoomHandles /\ deliverable \subseteq RoomHandles /\ senders \subseteq RoomHandles
         /\ task \in [RoomHandles -> {"none", "on", "aborted"}]
         /\ marker \in [Topics -> RoomKeys \cup {Plain}]
         /\ runner.pc \in {"idle", "subscribe", "remove", "sweep"}
         /\ runner.pc # "idle" => runner.room \in RoomHandles
         /\ \A i \in DOMAIN roomQueue :
               /\ i \in Nat /\ roomQueue[i].room \in RoomHandles
               /\ roomQueue[i].op \in {"join", "leave", "presence"}
         /\ \A h \in RoomHandles : entry[h].topic \in Topics /\ entry[h].key \in RoomKeys \cup {Plain}
<1>1. entry \in [RoomHandles -> RoomEntries]
  BY DEF RoomsTypeOK, RoomEntries
<1>2. /\ calling \subseteq RoomHandles /\ deliverable \subseteq RoomHandles /\ senders \subseteq RoomHandles
      /\ task \in [RoomHandles -> {"none", "on", "aborted"}]
      /\ marker \in [Topics -> RoomKeys \cup {Plain}]
  BY DEF RoomsTypeOK
<1>3. /\ runner.pc \in {"idle", "subscribe", "remove", "sweep"}
      /\ runner.pc # "idle" => runner.room \in RoomHandles
  BY DEF RoomsTypeOK, RunnerIdle
<1>4. \A i \in DOMAIN roomQueue :
         /\ i \in Nat /\ roomQueue[i].room \in RoomHandles
         /\ roomQueue[i].op \in {"join", "leave", "presence"}
  <2>1. roomQueue \in Seq(RoomCommands)
    BY DEF RoomsTypeOK, RoomCommands
  <2>2. \A i \in DOMAIN roomQueue : i \in Nat /\ roomQueue[i] \in RoomCommands
    BY <2>1
  <2> QED
    BY <2>2 DEF RoomCommands
<1> QED
  BY <1>1, <1>2, <1>3, <1>4 DEF RoomEntries

-----------------------------------------------------------------------------
(* How a room comes and goes                                               *)

LEMMA LifecycleInit ==
  ASSUME RoomInit
  PROVE  Lifecycle
BY DEF RoomInit, Lifecycle, CallAlone, JoinFirst, RunnerPlace, TaskPlace, RunnerIdle, NoRoomEntry,
       Busy, Known, RunnerAt, Live

LEMMA CallAloneStep ==
  ASSUME RoomsTypeOK, Lifecycle, [RoomNext]_roomVars
  PROVE  CallAlone'
<1>1. CASE UNCHANGED <<roomQueue, runner, entry, calling, senders>>
  BY <1>1 DEF CallAlone, JoinFirst, RunnerPlace, TaskPlace, Live, Busy, Known, RunnerAt, Lifecycle
<1>2. ASSUME NEW h \in RoomHandles,
             \/ TaskEnds(h) \/ Greet(h) \/ OfferAdmit(h)
             \/ \E n \in Neighbors :
                   \/ NeighborUp(h, n) \/ NeighborDown(h, n) \/ OfferRead(h, n)
                   \/ Unoffered(h, n) \/ GossipReports(h, n)
      PROVE  UNCHANGED <<roomQueue, runner, entry, calling, senders>>
  BY <1>2
     DEF TaskEnds, Greet, OfferAdmit, NeighborUp, NeighborDown, OfferRead, Unoffered, GossipReports,
         tables
<1>3. ASSUME NEW n \in Neighbors, RefuseNeighbor(n)
      PROVE  UNCHANGED <<roomQueue, runner, entry, calling, senders>>
  BY <1>3 DEF RefuseNeighbor, tables
<1>4. CASE RoomRestart
  BY <1>4, Shapes
     DEF RoomRestart, CallAlone, JoinFirst, RunnerPlace, TaskPlace, Lifecycle, RunnerIdle,
         NoRoomEntry, Live, Busy, Known, RunnerAt
<1>5. ASSUME NEW h \in RoomHandles, JoinRegister(h) PROVE CallAlone'
  BY <1>5, Shapes
     DEF JoinRegister, CallAlone, JoinFirst, RunnerPlace, TaskPlace, Lifecycle, seenOfGossip, Live,
         Busy, Known, RunnerAt
<1>6. ASSUME NEW h \in RoomHandles, JoinPush(h) PROVE CallAlone'
  BY <1>6, Shapes, PushIs
     DEF JoinPush, CallAlone, JoinFirst, RunnerPlace, TaskPlace, Lifecycle, seenOfGossip, Live,
         Busy, Known, RunnerAt
<1>7. ASSUME NEW h \in RoomHandles, JoinClosed(h) PROVE CallAlone'
  BY <1>7, Shapes
     DEF JoinClosed, CallAlone, JoinFirst, RunnerPlace, TaskPlace, Lifecycle, seenOfGossip,
         RoomGone, NoRoomEntry, Live, Busy, Known, RunnerAt
<1>8. ASSUME NEW h \in RoomHandles, LeaveRoom(h) PROVE CallAlone'
  BY <1>8, Shapes, PushIs
     DEF LeaveRoom, CallAlone, JoinFirst, RunnerPlace, TaskPlace, Lifecycle, tables, seenOfGossip,
         Live, Busy, Known, RunnerAt
<1>9. ASSUME NEW h \in RoomHandles, PresenceSet(h) PROVE CallAlone'
  BY <1>9, Shapes, PushIs
     DEF PresenceSet, CallAlone, JoinFirst, RunnerPlace, TaskPlace, Lifecycle, tables, seenOfGossip,
         Live, Busy, Known, RunnerAt
<1>10. ASSUME NEW h \in RoomHandles, NEW t \in Topics, NEW k \in RoomKeys \cup {Plain}, JoinEnter(h, t, k)
      PROVE  CallAlone'
  BY <1>10, Shapes
     DEF JoinEnter, CallAlone, JoinFirst, RunnerPlace, TaskPlace, Lifecycle, seenOfGossip, RoomGone,
         NoRoomEntry, Live, Busy, Known, RunnerAt, Mismatch
<1>11. ASSUME NEW h \in RoomHandles, JoinAdmit(h) PROVE CallAlone'
  BY <1>11, Shapes, TakeIs
     DEF JoinAdmit, CallAlone, JoinFirst, RunnerPlace, TaskPlace, Lifecycle, tables, seenOfGossip,
         RunnerGoes, Live, Busy, Known, RunnerAt, KeyOf, Admits
<1>12. ASSUME NEW h \in RoomHandles, JoinRefused(h) PROVE CallAlone'
  BY <1>12, Shapes, TakeIs
     DEF JoinRefused, CallAlone, JoinFirst, RunnerPlace, TaskPlace, Lifecycle, seenOfGossip,
         RoomGone, NoRoomEntry, Live, Busy, Known, RunnerAt
<1>13. ASSUME NEW h \in RoomHandles, JoinSubscribed(h) PROVE CallAlone'
  BY <1>13, Shapes
     DEF JoinSubscribed, CallAlone, JoinFirst, RunnerPlace, TaskPlace, Lifecycle, seenOfGossip,
         RunnerIdle, Live, Busy, Known, RunnerAt
<1>14. ASSUME NEW h \in RoomHandles, JoinFails(h) PROVE CallAlone'
  BY <1>14, Shapes
     DEF JoinFails, CallAlone, JoinFirst, RunnerPlace, TaskPlace, Lifecycle, seenOfGossip,
         RunnerIdle, RoomGone, NoRoomEntry, Live, Busy, Known, RunnerAt
<1>15. ASSUME NEW h \in RoomHandles, LeaveTake(h) PROVE CallAlone'
  BY <1>15, Shapes, TakeIs
     DEF LeaveTake, CallAlone, JoinFirst, RunnerPlace, TaskPlace, Lifecycle, seenOfGossip,
         RunnerGoes, Live, Busy, Known, RunnerAt
<1>16. ASSUME NEW h \in RoomHandles, LeaveRemove(h) PROVE CallAlone'
  BY <1>16, Shapes
     DEF LeaveRemove, CallAlone, JoinFirst, RunnerPlace, TaskPlace, Lifecycle, RunnerGoes, RoomGone,
         NoRoomEntry, Live, Busy, Known, RunnerAt
<1>17. ASSUME NEW h \in RoomHandles, LeaveSweep(h) PROVE CallAlone'
  BY <1>17, Shapes
     DEF LeaveSweep, CallAlone, JoinFirst, RunnerPlace, TaskPlace, Lifecycle, tables, RunnerIdle,
         Live, Busy, Known, RunnerAt
<1>18. ASSUME NEW h \in RoomHandles, BroadcastPresence(h) PROVE CallAlone'
  BY <1>18, Shapes, TakeIs
     DEF BroadcastPresence, CallAlone, JoinFirst, RunnerPlace, TaskPlace, Lifecycle, tables, Live,
         Busy, Known, RunnerAt
<1>19. CASE UNCHANGED roomVars
  BY <1>1, <1>19 DEF roomVars
<1> QED
  BY <1>1, <1>2, <1>3, <1>4, <1>5, <1>6, <1>7, <1>8, <1>9, <1>10, <1>11, <1>12, <1>13, <1>14, <1>15,
     <1>16, <1>17, <1>18, <1>19
     DEF RoomNext, RunnerStep, TaskStep

LEMMA JoinFirstStep ==
  ASSUME RoomsTypeOK, Lifecycle, [RoomNext]_roomVars
  PROVE  JoinFirst'
<1>1. CASE UNCHANGED <<roomQueue, runner, entry, senders>>
  BY <1>1 DEF CallAlone, JoinFirst, RunnerPlace, TaskPlace, Live, Busy, Known, RunnerAt, Lifecycle
<1>2. ASSUME NEW h \in RoomHandles,
             \/ TaskEnds(h) \/ Greet(h) \/ OfferAdmit(h)
             \/ \E n \in Neighbors :
                   \/ NeighborUp(h, n) \/ NeighborDown(h, n) \/ OfferRead(h, n)
                   \/ Unoffered(h, n) \/ GossipReports(h, n)
      PROVE  UNCHANGED <<roomQueue, runner, entry, senders>>
  BY <1>2
     DEF TaskEnds, Greet, OfferAdmit, NeighborUp, NeighborDown, OfferRead, Unoffered, GossipReports,
         tables
<1>3. ASSUME NEW n \in Neighbors, RefuseNeighbor(n)
      PROVE  UNCHANGED <<roomQueue, runner, entry, senders>>
  BY <1>3 DEF RefuseNeighbor, tables
<1>4. CASE RoomRestart
  BY <1>4, Shapes
     DEF RoomRestart, CallAlone, JoinFirst, RunnerPlace, TaskPlace, Lifecycle, RunnerIdle,
         NoRoomEntry, Live, Busy, Known, RunnerAt
<1>5. ASSUME NEW h \in RoomHandles, JoinRegister(h) PROVE JoinFirst'
  BY <1>5, Shapes
     DEF JoinRegister, CallAlone, JoinFirst, RunnerPlace, TaskPlace, Lifecycle, seenOfGossip, Live,
         Busy, Known, RunnerAt
<1>6. ASSUME NEW h \in RoomHandles, JoinPush(h) PROVE JoinFirst'
  BY <1>6, Shapes, PushIs
     DEF JoinPush, CallAlone, JoinFirst, RunnerPlace, TaskPlace, Lifecycle, seenOfGossip, Live,
         Busy, Known, RunnerAt
<1>7. ASSUME NEW h \in RoomHandles, JoinClosed(h) PROVE JoinFirst'
  BY <1>7, Shapes
     DEF JoinClosed, CallAlone, JoinFirst, RunnerPlace, TaskPlace, Lifecycle, seenOfGossip,
         RoomGone, NoRoomEntry, Live, Busy, Known, RunnerAt
<1>8. ASSUME NEW h \in RoomHandles, LeaveRoom(h) PROVE JoinFirst'
  <2>0. /\ entry' = entry /\ senders' = senders /\ runner' = runner /\ Known(h)
        /\ PushRoom("leave", h, 0)
    BY <1>8 DEF LeaveRoom, tables, Live, Known
  <2>1. ASSUME NEW i \in DOMAIN roomQueue'
        PROVE  /\ Known(roomQueue'[i].room)
               /\ roomQueue'[i].op = "join" =>
                     /\ Live(roomQueue'[i].room) /\ roomQueue'[i].room \notin senders /\ ~Busy(roomQueue'[i].room)
                     /\ \A j \in DOMAIN roomQueue' : j < i => roomQueue'[j].room # roomQueue'[i].room
    <3>1. CASE i \in DOMAIN roomQueue
      BY <2>0, <3>1, PushIs DEF Lifecycle, JoinFirst
    <3>2. CASE roomQueue'[i] = [op |-> "leave", room |-> h, version |-> 0]
      BY <2>0, <3>2
    <3> QED
      BY <2>0, <2>1, <3>1, <3>2, PushIs
  <2> QED
    BY <2>0, <2>1 DEF JoinFirst, Known, Live, Busy
<1>9. ASSUME NEW h \in RoomHandles, PresenceSet(h) PROVE JoinFirst'
  <2>0. /\ entry' = entry /\ senders' = senders /\ runner' = runner /\ Known(h)
        /\ PushRoom("presence", h, presence[h] + 1)
    BY <1>9 DEF PresenceSet, tables, Live, Known
  <2>1. ASSUME NEW i \in DOMAIN roomQueue'
        PROVE  /\ Known(roomQueue'[i].room)
               /\ roomQueue'[i].op = "join" =>
                     /\ Live(roomQueue'[i].room) /\ roomQueue'[i].room \notin senders /\ ~Busy(roomQueue'[i].room)
                     /\ \A j \in DOMAIN roomQueue' : j < i => roomQueue'[j].room # roomQueue'[i].room
    <3>1. CASE i \in DOMAIN roomQueue
      BY <2>0, <3>1, PushIs DEF Lifecycle, JoinFirst
    <3>2. CASE roomQueue'[i] = [op |-> "presence", room |-> h, version |-> presence[h] + 1]
      BY <2>0, <3>2
    <3> QED
      BY <2>0, <2>1, <3>1, <3>2, PushIs
  <2> QED
    BY <2>0, <2>1 DEF JoinFirst, Known, Live, Busy
<1>10. ASSUME NEW h \in RoomHandles, NEW t \in Topics, NEW k \in RoomKeys \cup {Plain}, JoinEnter(h, t, k)
      PROVE  JoinFirst'
  BY <1>10, Shapes
     DEF JoinEnter, CallAlone, JoinFirst, RunnerPlace, TaskPlace, Lifecycle, seenOfGossip, RoomGone,
         NoRoomEntry, Live, Busy, Known, RunnerAt, Mismatch
<1>11. ASSUME NEW h \in RoomHandles, JoinAdmit(h) PROVE JoinFirst'
  <2>0. /\ senders' = senders /\ TakeFor("join", h)
        /\ \A g \in RoomHandles \ {h} : entry'[g] = entry[g] /\ (Busy(g)' <=> Busy(g))
        /\ Known(h)'
    BY <1>11, Shapes, TakeIs
       DEF Lifecycle, JoinFirst, JoinAdmit, tables, Live, Known, Busy, RunnerGoes
  <2>1. ASSUME NEW i \in DOMAIN roomQueue'
        PROVE  /\ roomQueue'[i].room \in RoomHandles /\ Known(roomQueue'[i].room)
               /\ roomQueue'[i].op = "join" =>
                     /\ Live(roomQueue'[i].room) /\ roomQueue'[i].room \notin senders /\ ~Busy(roomQueue'[i].room)
                     /\ roomQueue'[i].room # h
                     /\ \A j \in DOMAIN roomQueue' : j < i => roomQueue'[j].room # roomQueue'[i].room
    <3>1. /\ i \in Nat \ {0} /\ i + 1 \in DOMAIN roomQueue /\ roomQueue'[i] = roomQueue[i + 1] /\ 1 < i + 1
          /\ 1 \in DOMAIN roomQueue /\ roomQueue[1].room = h
      BY <2>0, TakeIs, Shapes
    <3>2. \A j \in DOMAIN roomQueue' : j < i =>
             j + 1 \in DOMAIN roomQueue /\ roomQueue'[j] = roomQueue[j + 1] /\ j + 1 < i + 1
      BY <2>0, <3>1, TakeIs
    <3> QED
      BY <3>1, <3>2, Shapes DEF Lifecycle, JoinFirst
  <2> QED
    BY <2>0, <2>1 DEF JoinFirst, Known, Live
<1>12. ASSUME NEW h \in RoomHandles, JoinRefused(h) PROVE JoinFirst'
  <2>0. /\ senders' = senders /\ TakeFor("join", h)
        /\ \A g \in RoomHandles \ {h} : entry'[g] = entry[g] /\ (Busy(g)' <=> Busy(g))
        /\ Known(h)'
    BY <1>12, Shapes, TakeIs
       DEF Lifecycle, JoinFirst, JoinRefused, Live, Known, Busy, RoomGone, NoRoomEntry
  <2>1. ASSUME NEW i \in DOMAIN roomQueue'
        PROVE  /\ roomQueue'[i].room \in RoomHandles /\ Known(roomQueue'[i].room)
               /\ roomQueue'[i].op = "join" =>
                     /\ Live(roomQueue'[i].room) /\ roomQueue'[i].room \notin senders /\ ~Busy(roomQueue'[i].room)
                     /\ roomQueue'[i].room # h
                     /\ \A j \in DOMAIN roomQueue' : j < i => roomQueue'[j].room # roomQueue'[i].room
    <3>1. /\ i \in Nat \ {0} /\ i + 1 \in DOMAIN roomQueue /\ roomQueue'[i] = roomQueue[i + 1] /\ 1 < i + 1
          /\ 1 \in DOMAIN roomQueue /\ roomQueue[1].room = h
      BY <2>0, TakeIs, Shapes
    <3>2. \A j \in DOMAIN roomQueue' : j < i =>
             j + 1 \in DOMAIN roomQueue /\ roomQueue'[j] = roomQueue[j + 1] /\ j + 1 < i + 1
      BY <2>0, <3>1, TakeIs
    <3> QED
      BY <3>1, <3>2, Shapes DEF Lifecycle, JoinFirst
  <2> QED
    BY <2>0, <2>1 DEF JoinFirst, Known, Live
<1>13. ASSUME NEW h \in RoomHandles, JoinSubscribed(h) PROVE JoinFirst'
  BY <1>13, Shapes
     DEF JoinSubscribed, CallAlone, JoinFirst, RunnerPlace, TaskPlace, Lifecycle, seenOfGossip,
         RunnerIdle, Live, Busy, Known, RunnerAt
<1>14. ASSUME NEW h \in RoomHandles, JoinFails(h) PROVE JoinFirst'
  BY <1>14, Shapes
     DEF JoinFails, CallAlone, JoinFirst, RunnerPlace, TaskPlace, Lifecycle, seenOfGossip,
         RunnerIdle, RoomGone, NoRoomEntry, Live, Busy, Known, RunnerAt
<1>15. ASSUME NEW h \in RoomHandles, LeaveTake(h) PROVE JoinFirst'
  BY <1>15, Shapes, TakeIs
     DEF LeaveTake, CallAlone, JoinFirst, RunnerPlace, TaskPlace, Lifecycle, seenOfGossip,
         RunnerGoes, Live, Busy, Known, RunnerAt
<1>16. ASSUME NEW h \in RoomHandles, LeaveRemove(h) PROVE JoinFirst'
  BY <1>16, Shapes
     DEF LeaveRemove, CallAlone, JoinFirst, RunnerPlace, TaskPlace, Lifecycle, RunnerGoes, RoomGone,
         NoRoomEntry, Live, Busy, Known, RunnerAt
<1>17. ASSUME NEW h \in RoomHandles, LeaveSweep(h) PROVE JoinFirst'
  BY <1>17, Shapes
     DEF LeaveSweep, CallAlone, JoinFirst, RunnerPlace, TaskPlace, Lifecycle, tables, RunnerIdle,
         Live, Busy, Known, RunnerAt
<1>18. ASSUME NEW h \in RoomHandles, BroadcastPresence(h) PROVE JoinFirst'
  BY <1>18, Shapes, TakeIs
     DEF BroadcastPresence, CallAlone, JoinFirst, RunnerPlace, TaskPlace, Lifecycle, tables, Live,
         Busy, Known, RunnerAt
<1>19. CASE UNCHANGED roomVars
  BY <1>1, <1>19 DEF roomVars
<1> QED
  BY <1>1, <1>2, <1>3, <1>4, <1>5, <1>6, <1>7, <1>8, <1>9, <1>10, <1>11, <1>12, <1>13, <1>14, <1>15,
     <1>16, <1>17, <1>18, <1>19
     DEF RoomNext, RunnerStep, TaskStep

LEMMA RunnerPlaceStep ==
  ASSUME RoomsTypeOK, Lifecycle, [RoomNext]_roomVars
  PROVE  RunnerPlace'
<1>1. CASE UNCHANGED <<runner, entry, deliverable, senders, marker>>
  BY <1>1 DEF CallAlone, JoinFirst, RunnerPlace, Live, Busy, Known, RunnerAt, Lifecycle
<1>2. ASSUME NEW h \in RoomHandles,
             \/ JoinPush(h) \/ LeaveRoom(h) \/ PresenceSet(h) \/ BroadcastPresence(h) \/ TaskEnds(h)
             \/ Greet(h) \/ OfferAdmit(h)
             \/ \E n \in Neighbors :
                   \/ NeighborUp(h, n) \/ NeighborDown(h, n) \/ OfferRead(h, n)
                   \/ Unoffered(h, n) \/ GossipReports(h, n)
      PROVE  UNCHANGED <<runner, entry, deliverable, senders, marker>>
  BY <1>2
     DEF JoinPush, LeaveRoom, PresenceSet, BroadcastPresence, TaskEnds, Greet, OfferAdmit,
         NeighborUp, NeighborDown, OfferRead, Unoffered, GossipReports, tables, seenOfGossip
<1>3. ASSUME NEW n \in Neighbors, RefuseNeighbor(n)
      PROVE  UNCHANGED <<runner, entry, deliverable, senders, marker>>
  BY <1>3 DEF RefuseNeighbor, tables
<1>4. CASE RoomRestart
  BY <1>4, Shapes
     DEF RoomRestart, CallAlone, JoinFirst, RunnerPlace, Lifecycle, RunnerIdle, NoRoomEntry, Live,
         Busy, Known, RunnerAt
<1>5. ASSUME NEW h \in RoomHandles, JoinRegister(h) PROVE RunnerPlace'
  BY <1>5, Shapes
     DEF JoinRegister, CallAlone, JoinFirst, RunnerPlace, Lifecycle, seenOfGossip, Live, Busy,
         Known, RunnerAt
<1>6. ASSUME NEW h \in RoomHandles, JoinClosed(h) PROVE RunnerPlace'
  BY <1>6, Shapes
     DEF JoinClosed, CallAlone, JoinFirst, RunnerPlace, Lifecycle, seenOfGossip, RoomGone,
         NoRoomEntry, Live, Busy, Known, RunnerAt
<1>7. ASSUME NEW h \in RoomHandles, NEW t \in Topics, NEW k \in RoomKeys \cup {Plain}, JoinEnter(h, t, k)
      PROVE  RunnerPlace'
  BY <1>7, Shapes
     DEF JoinEnter, CallAlone, JoinFirst, RunnerPlace, Lifecycle, seenOfGossip, RoomGone,
         NoRoomEntry, Live, Busy, Known, RunnerAt, Mismatch
<1>8. ASSUME NEW h \in RoomHandles, JoinAdmit(h) PROVE RunnerPlace'
  BY <1>8, Shapes, TakeIs
     DEF JoinAdmit, CallAlone, JoinFirst, RunnerPlace, Lifecycle, tables, seenOfGossip, RunnerGoes,
         Live, Busy, Known, RunnerAt, KeyOf, Admits
<1>9. ASSUME NEW h \in RoomHandles, JoinRefused(h) PROVE RunnerPlace'
  BY <1>9, Shapes, TakeIs
     DEF JoinRefused, CallAlone, JoinFirst, RunnerPlace, Lifecycle, seenOfGossip, RoomGone,
         NoRoomEntry, Live, Busy, Known, RunnerAt
<1>10. ASSUME NEW h \in RoomHandles, JoinSubscribed(h) PROVE RunnerPlace'
  BY <1>10, Shapes
     DEF JoinSubscribed, CallAlone, JoinFirst, RunnerPlace, Lifecycle, seenOfGossip, RunnerIdle,
         Live, Busy, Known, RunnerAt
<1>11. ASSUME NEW h \in RoomHandles, JoinFails(h) PROVE RunnerPlace'
  BY <1>11, Shapes
     DEF JoinFails, CallAlone, JoinFirst, RunnerPlace, Lifecycle, seenOfGossip, RunnerIdle,
         RoomGone, NoRoomEntry, Live, Busy, Known, RunnerAt
<1>12. ASSUME NEW h \in RoomHandles, LeaveTake(h) PROVE RunnerPlace'
  BY <1>12, Shapes, TakeIs
     DEF LeaveTake, CallAlone, JoinFirst, RunnerPlace, Lifecycle, seenOfGossip, RunnerGoes, Live,
         Busy, Known, RunnerAt
<1>13. ASSUME NEW h \in RoomHandles, LeaveRemove(h) PROVE RunnerPlace'
  BY <1>13, Shapes
     DEF LeaveRemove, CallAlone, JoinFirst, RunnerPlace, Lifecycle, RunnerGoes, RoomGone,
         NoRoomEntry, Live, Busy, Known, RunnerAt
<1>14. ASSUME NEW h \in RoomHandles, LeaveSweep(h) PROVE RunnerPlace'
  BY <1>14, Shapes
     DEF LeaveSweep, CallAlone, JoinFirst, RunnerPlace, Lifecycle, tables, RunnerIdle, Live, Busy,
         Known, RunnerAt
<1>15. CASE UNCHANGED roomVars
  BY <1>1, <1>15 DEF roomVars
<1> QED
  BY <1>1, <1>2, <1>3, <1>4, <1>5, <1>6, <1>7, <1>8, <1>9, <1>10, <1>11, <1>12, <1>13, <1>14, <1>15
     DEF RoomNext, RunnerStep, TaskStep

LEMMA TaskPlaceStep ==
  ASSUME RoomsTypeOK, Lifecycle, [RoomNext]_roomVars
  PROVE  TaskPlace'
<1>1. CASE UNCHANGED <<runner, entry, senders, task>>
  BY <1>1 DEF CallAlone, JoinFirst, RunnerPlace, TaskPlace, Live, Busy, Known, RunnerAt, Lifecycle
<1>2. ASSUME NEW h \in RoomHandles,
             \/ JoinPush(h) \/ LeaveRoom(h) \/ PresenceSet(h) \/ BroadcastPresence(h) \/ Greet(h)
             \/ OfferAdmit(h)
             \/ \E n \in Neighbors :
                   \/ NeighborUp(h, n) \/ NeighborDown(h, n) \/ OfferRead(h, n)
                   \/ Unoffered(h, n) \/ GossipReports(h, n)
      PROVE  UNCHANGED <<runner, entry, senders, task>>
  BY <1>2
     DEF JoinPush, LeaveRoom, PresenceSet, BroadcastPresence, Greet, OfferAdmit, NeighborUp,
         NeighborDown, OfferRead, Unoffered, GossipReports, tables, seenOfGossip
<1>3. ASSUME NEW n \in Neighbors, RefuseNeighbor(n)
      PROVE  UNCHANGED <<runner, entry, senders, task>>
  BY <1>3 DEF RefuseNeighbor, tables
<1>4. CASE RoomRestart
  BY <1>4, Shapes
     DEF RoomRestart, CallAlone, JoinFirst, RunnerPlace, TaskPlace, Lifecycle, RunnerIdle,
         NoRoomEntry, Live, Busy, Known, RunnerAt
<1>5. ASSUME NEW h \in RoomHandles, JoinRegister(h) PROVE TaskPlace'
  BY <1>5, Shapes
     DEF JoinRegister, CallAlone, JoinFirst, RunnerPlace, TaskPlace, Lifecycle, seenOfGossip, Live,
         Busy, Known, RunnerAt
<1>6. ASSUME NEW h \in RoomHandles, JoinClosed(h) PROVE TaskPlace'
  BY <1>6, Shapes
     DEF JoinClosed, CallAlone, JoinFirst, RunnerPlace, TaskPlace, Lifecycle, seenOfGossip,
         RoomGone, NoRoomEntry, Live, Busy, Known, RunnerAt
<1>7. ASSUME NEW h \in RoomHandles, NEW t \in Topics, NEW k \in RoomKeys \cup {Plain}, JoinEnter(h, t, k)
      PROVE  TaskPlace'
  BY <1>7, Shapes
     DEF JoinEnter, CallAlone, JoinFirst, RunnerPlace, TaskPlace, Lifecycle, seenOfGossip, RoomGone,
         NoRoomEntry, Live, Busy, Known, RunnerAt, Mismatch
<1>8. ASSUME NEW h \in RoomHandles, JoinAdmit(h) PROVE TaskPlace'
  BY <1>8, Shapes, TakeIs
     DEF JoinAdmit, CallAlone, JoinFirst, RunnerPlace, TaskPlace, Lifecycle, tables, seenOfGossip,
         RunnerGoes, Live, Busy, Known, RunnerAt, KeyOf, Admits
<1>9. ASSUME NEW h \in RoomHandles, JoinRefused(h) PROVE TaskPlace'
  BY <1>9, Shapes, TakeIs
     DEF JoinRefused, CallAlone, JoinFirst, RunnerPlace, TaskPlace, Lifecycle, seenOfGossip,
         RoomGone, NoRoomEntry, Live, Busy, Known, RunnerAt
<1>10. ASSUME NEW h \in RoomHandles, JoinSubscribed(h) PROVE TaskPlace'
  BY <1>10, Shapes
     DEF JoinSubscribed, CallAlone, JoinFirst, RunnerPlace, TaskPlace, Lifecycle, seenOfGossip,
         RunnerIdle, Live, Busy, Known, RunnerAt
<1>11. ASSUME NEW h \in RoomHandles, JoinFails(h) PROVE TaskPlace'
  BY <1>11, Shapes
     DEF JoinFails, CallAlone, JoinFirst, RunnerPlace, TaskPlace, Lifecycle, seenOfGossip,
         RunnerIdle, RoomGone, NoRoomEntry, Live, Busy, Known, RunnerAt
<1>12. ASSUME NEW h \in RoomHandles, LeaveTake(h) PROVE TaskPlace'
  BY <1>12, Shapes, TakeIs
     DEF LeaveTake, CallAlone, JoinFirst, RunnerPlace, TaskPlace, Lifecycle, seenOfGossip,
         RunnerGoes, Live, Busy, Known, RunnerAt
<1>13. ASSUME NEW h \in RoomHandles, LeaveRemove(h) PROVE TaskPlace'
  BY <1>13, Shapes
     DEF LeaveRemove, CallAlone, JoinFirst, RunnerPlace, TaskPlace, Lifecycle, RunnerGoes, RoomGone,
         NoRoomEntry, Live, Busy, Known, RunnerAt
<1>14. ASSUME NEW h \in RoomHandles, LeaveSweep(h) PROVE TaskPlace'
  BY <1>14, Shapes
     DEF LeaveSweep, CallAlone, JoinFirst, RunnerPlace, TaskPlace, Lifecycle, tables, RunnerIdle,
         Live, Busy, Known, RunnerAt
<1>15. ASSUME NEW h \in RoomHandles, TaskEnds(h) PROVE TaskPlace'
  BY <1>15, Shapes
     DEF TaskEnds, CallAlone, JoinFirst, RunnerPlace, TaskPlace, Lifecycle, tables, Live, Busy,
         Known, RunnerAt
<1>16. CASE UNCHANGED roomVars
  BY <1>1, <1>16 DEF roomVars
<1> QED
  BY <1>1, <1>2, <1>3, <1>4, <1>5, <1>6, <1>7, <1>8, <1>9, <1>10, <1>11, <1>12, <1>13, <1>14, <1>15,
     <1>16
     DEF RoomNext, RunnerStep, TaskStep

LEMMA LifecycleStep ==
  ASSUME RoomsTypeOK, Lifecycle, [RoomNext]_roomVars
  PROVE  Lifecycle'
BY CallAloneStep, JoinFirstStep, RunnerPlaceStep, TaskPlaceStep DEF Lifecycle

LEMMA GossipShapes ==
  ASSUME RoomsTypeOK
  PROVE  /\ doing \in [RoomHandles -> RoomDoings] /\ reports \in [RoomHandles -> RoomReports]
         /\ near \in [RoomHandles -> SUBSET Neighbors] /\ peers \in [RoomHandles -> SUBSET Neighbors]
         /\ presence \in [RoomHandles -> 0 .. MaxPresence]
         /\ reached \in [RoomHandles -> [Neighbors -> 0 .. MaxPresence]]
         /\ fileOffers \in [RoomHandles -> SUBSET Neighbors]
BY DEF RoomsTypeOK, RoomDoings, RoomReports

-----------------------------------------------------------------------------
(* Sealing, and the tables                                                 *)

LEMMA SealingKeptStep ==
  ASSUME RoomsTypeOK, Lifecycle, SealingKept, [RoomNext]_roomVars
  PROVE  SealingKept'
<1>1. CASE UNCHANGED <<entry, senders, marker>>
  BY <1>1
     DEF SealingKept, CallAlone, JoinFirst, RunnerPlace, TaskPlace, Live, Busy, Known, RunnerAt,
         Lifecycle
<1>2. ASSUME NEW h \in RoomHandles,
             \/ JoinPush(h) \/ LeaveRoom(h) \/ PresenceSet(h) \/ LeaveSweep(h) \/ BroadcastPresence(h)
             \/ TaskEnds(h) \/ Greet(h) \/ OfferAdmit(h)
             \/ \E n \in Neighbors :
                   \/ NeighborUp(h, n) \/ NeighborDown(h, n) \/ OfferRead(h, n)
                   \/ Unoffered(h, n) \/ GossipReports(h, n)
      PROVE  UNCHANGED <<entry, senders, marker>>
  BY <1>2
     DEF JoinPush, LeaveRoom, PresenceSet, LeaveSweep, BroadcastPresence, TaskEnds, Greet,
         OfferAdmit, NeighborUp, NeighborDown, OfferRead, Unoffered, GossipReports, tables,
         seenOfGossip
<1>3. ASSUME NEW n \in Neighbors, RefuseNeighbor(n)
      PROVE  UNCHANGED <<entry, senders, marker>>
  BY <1>3 DEF RefuseNeighbor, tables
<1>4. CASE RoomRestart
  BY <1>4, Shapes
     DEF RoomRestart, SealingKept, CallAlone, JoinFirst, RunnerPlace, TaskPlace, Lifecycle, tables,
         RunnerIdle, NoRoomEntry, Live, Busy, Known, RunnerAt
<1>5. ASSUME NEW h \in RoomHandles, JoinRegister(h) PROVE SealingKept'
  BY <1>5, Shapes
     DEF JoinRegister, SealingKept, CallAlone, JoinFirst, RunnerPlace, TaskPlace, Lifecycle, tables,
         seenOfGossip, Live, Busy, Known, RunnerAt
<1>6. ASSUME NEW h \in RoomHandles, JoinClosed(h) PROVE SealingKept'
  BY <1>6, Shapes
     DEF JoinClosed, SealingKept, CallAlone, JoinFirst, RunnerPlace, TaskPlace, Lifecycle, tables,
         seenOfGossip, RoomGone, NoRoomEntry, Live, Busy, Known, RunnerAt
<1>7. ASSUME NEW h \in RoomHandles, NEW t \in Topics, NEW k \in RoomKeys \cup {Plain}, JoinEnter(h, t, k)
      PROVE  SealingKept'
  BY <1>7, Shapes
     DEF JoinEnter, SealingKept, CallAlone, JoinFirst, RunnerPlace, TaskPlace, Lifecycle, tables,
         seenOfGossip, RoomGone, NoRoomEntry, Live, Busy, Known, RunnerAt, Mismatch
<1>8. ASSUME NEW h \in RoomHandles, JoinAdmit(h) PROVE SealingKept'
  BY <1>8, Shapes, TakeIs
     DEF JoinAdmit, SealingKept, CallAlone, JoinFirst, RunnerPlace, TaskPlace, Lifecycle, tables,
         seenOfGossip, RunnerGoes, Live, Busy, Known, RunnerAt, KeyOf, Admits
<1>9. ASSUME NEW h \in RoomHandles, JoinRefused(h) PROVE SealingKept'
  BY <1>9, Shapes, TakeIs
     DEF JoinRefused, SealingKept, CallAlone, JoinFirst, RunnerPlace, TaskPlace, Lifecycle, tables,
         seenOfGossip, RoomGone, NoRoomEntry, Live, Busy, Known, RunnerAt
<1>10. ASSUME NEW h \in RoomHandles, JoinSubscribed(h) PROVE SealingKept'
  BY <1>10, Shapes
     DEF JoinSubscribed, SealingKept, CallAlone, JoinFirst, RunnerPlace, TaskPlace, Lifecycle,
         tables, seenOfGossip, RunnerIdle, Live, Busy, Known, RunnerAt
<1>11. ASSUME NEW h \in RoomHandles, JoinFails(h) PROVE SealingKept'
  BY <1>11, Shapes
     DEF JoinFails, SealingKept, CallAlone, JoinFirst, RunnerPlace, TaskPlace, Lifecycle, tables,
         seenOfGossip, RunnerIdle, RoomGone, NoRoomEntry, Live, Busy, Known, RunnerAt
<1>12. ASSUME NEW h \in RoomHandles, LeaveTake(h) PROVE SealingKept'
  BY <1>12, Shapes, TakeIs
     DEF LeaveTake, SealingKept, CallAlone, JoinFirst, RunnerPlace, TaskPlace, Lifecycle, tables,
         seenOfGossip, RunnerGoes, Live, Busy, Known, RunnerAt
<1>13. ASSUME NEW h \in RoomHandles, LeaveRemove(h) PROVE SealingKept'
  BY <1>13, Shapes
     DEF LeaveRemove, SealingKept, CallAlone, JoinFirst, RunnerPlace, TaskPlace, Lifecycle, tables,
         RunnerGoes, RoomGone, NoRoomEntry, Live, Busy, Known, RunnerAt
<1>14. CASE UNCHANGED roomVars
  BY <1>1, <1>14 DEF roomVars
<1> QED
  BY <1>1, <1>2, <1>3, <1>4, <1>5, <1>6, <1>7, <1>8, <1>9, <1>10, <1>11, <1>12, <1>13, <1>14
     DEF RoomNext, RunnerStep, TaskStep

LEMMA DeliveredStep ==
  ASSUME RoomsTypeOK, Lifecycle, Delivered, [RoomNext]_roomVars
  PROVE  Delivered'
<1>1. CASE UNCHANGED <<entry, deliverable, fileOffers, left>>
  BY <1>1
     DEF Delivered, CallAlone, JoinFirst, RunnerPlace, TaskPlace, Live, Busy, Known, RunnerAt,
         Lifecycle
<1>2. ASSUME NEW h \in RoomHandles,
             \/ JoinPush(h) \/ LeaveRoom(h) \/ PresenceSet(h) \/ JoinAdmit(h) \/ JoinSubscribed(h)
             \/ BroadcastPresence(h) \/ TaskEnds(h) \/ Greet(h)
             \/ \E n \in Neighbors :
                   \/ NeighborUp(h, n) \/ NeighborDown(h, n) \/ OfferRead(h, n)
                   \/ GossipReports(h, n)
      PROVE  UNCHANGED <<entry, deliverable, fileOffers, left>>
  BY <1>2
     DEF JoinPush, LeaveRoom, PresenceSet, JoinAdmit, JoinSubscribed, BroadcastPresence, TaskEnds,
         Greet, NeighborUp, NeighborDown, OfferRead, GossipReports, tables, seenOfGossip
<1>3. CASE RoomRestart
  BY <1>3, Shapes
     DEF RoomRestart, Delivered, CallAlone, JoinFirst, RunnerPlace, TaskPlace, Lifecycle,
         RunnerIdle, NoRoomEntry, Live, Busy, Known, RunnerAt
<1>4. ASSUME NEW n \in Neighbors, RefuseNeighbor(n) PROVE Delivered'
  BY <1>4, Shapes
     DEF RefuseNeighbor, Delivered, CallAlone, JoinFirst, RunnerPlace, TaskPlace, Lifecycle, tables,
         Live, Busy, Known, RunnerAt
<1>5. ASSUME NEW h \in RoomHandles, JoinRegister(h) PROVE Delivered'
  BY <1>5, Shapes
     DEF JoinRegister, Delivered, CallAlone, JoinFirst, RunnerPlace, TaskPlace, Lifecycle,
         seenOfGossip, Live, Busy, Known, RunnerAt
<1>6. ASSUME NEW h \in RoomHandles, JoinClosed(h) PROVE Delivered'
  BY <1>6, Shapes
     DEF JoinClosed, Delivered, CallAlone, JoinFirst, RunnerPlace, TaskPlace, Lifecycle,
         seenOfGossip, RoomGone, NoRoomEntry, Live, Busy, Known, RunnerAt
<1>7. ASSUME NEW h \in RoomHandles, NEW t \in Topics, NEW k \in RoomKeys \cup {Plain}, JoinEnter(h, t, k)
      PROVE  Delivered'
  BY <1>7, Shapes
     DEF JoinEnter, Delivered, CallAlone, JoinFirst, RunnerPlace, TaskPlace, Lifecycle,
         seenOfGossip, RoomGone, NoRoomEntry, Live, Busy, Known, RunnerAt, Mismatch
<1>8. ASSUME NEW h \in RoomHandles, JoinRefused(h) PROVE Delivered'
  BY <1>8, Shapes, TakeIs
     DEF JoinRefused, Delivered, CallAlone, JoinFirst, RunnerPlace, TaskPlace, Lifecycle,
         seenOfGossip, RoomGone, NoRoomEntry, Live, Busy, Known, RunnerAt
<1>9. ASSUME NEW h \in RoomHandles, JoinFails(h) PROVE Delivered'
  BY <1>9, Shapes
     DEF JoinFails, Delivered, CallAlone, JoinFirst, RunnerPlace, TaskPlace, Lifecycle,
         seenOfGossip, RunnerIdle, RoomGone, NoRoomEntry, Live, Busy, Known, RunnerAt
<1>10. ASSUME NEW h \in RoomHandles, LeaveTake(h) PROVE Delivered'
  BY <1>10, Shapes, TakeIs
     DEF LeaveTake, Delivered, CallAlone, JoinFirst, RunnerPlace, TaskPlace, Lifecycle,
         seenOfGossip, RunnerGoes, Live, Busy, Known, RunnerAt
<1>11. ASSUME NEW h \in RoomHandles, LeaveRemove(h) PROVE Delivered'
  BY <1>11, Shapes
     DEF LeaveRemove, Delivered, CallAlone, JoinFirst, RunnerPlace, TaskPlace, Lifecycle,
         RunnerGoes, RoomGone, NoRoomEntry, Live, Busy, Known, RunnerAt
<1>12. ASSUME NEW h \in RoomHandles, LeaveSweep(h) PROVE Delivered'
  BY <1>12, Shapes, GossipShapes
     DEF LeaveSweep, Delivered, CallAlone, JoinFirst, RunnerPlace, TaskPlace, Lifecycle, tables,
         RunnerIdle, Live, Busy, Known, RunnerAt
<1>13. ASSUME NEW h \in RoomHandles, OfferAdmit(h) PROVE Delivered'
  BY <1>13, Shapes, GossipShapes
     DEF OfferAdmit, Delivered, CallAlone, JoinFirst, RunnerPlace, TaskPlace, StillAdmitted,
         Lifecycle, tables, Live, Busy, Known, RunnerAt, DoesNext
<1>14. ASSUME NEW h \in RoomHandles, NEW n \in Neighbors, Unoffered(h, n) PROVE Delivered'
  BY <1>14, Shapes
     DEF Unoffered, Delivered, CallAlone, JoinFirst, RunnerPlace, TaskPlace, Lifecycle, tables,
         Live, Busy, Known, RunnerAt
<1>15. CASE UNCHANGED roomVars
  BY <1>1, <1>15 DEF roomVars
<1> QED
  BY <1>1, <1>2, <1>3, <1>4, <1>5, <1>6, <1>7, <1>8, <1>9, <1>10, <1>11, <1>12, <1>13, <1>14, <1>15
     DEF RoomNext, RunnerStep, TaskStep

LEMMA TablesFollowRoomsStep ==
  ASSUME RoomsTypeOK, Lifecycle, Delivered, TablesFollowRooms, [RoomNext]_roomVars
  PROVE  TablesFollowRooms'
<1>1. CASE UNCHANGED <<runner, entry, deliverable, fileOffers, left, late, unsubscribed>>
  BY <1>1
     DEF TablesFollowRooms, Delivered, CallAlone, JoinFirst, RunnerPlace, TaskPlace, Live, Busy,
         Known, RunnerAt, Lifecycle
<1>2. ASSUME NEW h \in RoomHandles,
             \/ JoinPush(h) \/ LeaveRoom(h) \/ PresenceSet(h) \/ BroadcastPresence(h) \/ TaskEnds(h)
             \/ Greet(h)
             \/ \E n \in Neighbors :
                   \/ NeighborUp(h, n) \/ NeighborDown(h, n) \/ OfferRead(h, n)
                   \/ GossipReports(h, n)
      PROVE  UNCHANGED <<runner, entry, deliverable, fileOffers, left, late, unsubscribed>>
  BY <1>2
     DEF JoinPush, LeaveRoom, PresenceSet, BroadcastPresence, TaskEnds, Greet, NeighborUp,
         NeighborDown, OfferRead, GossipReports, tables, seenOfGossip
<1>3. CASE RoomRestart
  BY <1>3, Shapes
     DEF RoomRestart, TablesFollowRooms, Delivered, CallAlone, JoinFirst, RunnerPlace, TaskPlace,
         Lifecycle, RunnerIdle, NoRoomEntry, Live, Busy, Known, RunnerAt
<1>4. ASSUME NEW n \in Neighbors, RefuseNeighbor(n) PROVE TablesFollowRooms'
  BY <1>4, Shapes
     DEF RefuseNeighbor, TablesFollowRooms, Delivered, CallAlone, JoinFirst, RunnerPlace, TaskPlace,
         Lifecycle, tables, Live, Busy, Known, RunnerAt
<1>5. ASSUME NEW h \in RoomHandles, JoinRegister(h) PROVE TablesFollowRooms'
  BY <1>5, Shapes
     DEF JoinRegister, TablesFollowRooms, Delivered, CallAlone, JoinFirst, RunnerPlace, TaskPlace,
         Lifecycle, seenOfGossip, Live, Busy, Known, RunnerAt
<1>6. ASSUME NEW h \in RoomHandles, JoinClosed(h) PROVE TablesFollowRooms'
  BY <1>6, Shapes
     DEF JoinClosed, TablesFollowRooms, Delivered, CallAlone, JoinFirst, RunnerPlace, TaskPlace,
         Lifecycle, seenOfGossip, RoomGone, NoRoomEntry, Live, Busy, Known, RunnerAt
<1>7. ASSUME NEW h \in RoomHandles, NEW t \in Topics, NEW k \in RoomKeys \cup {Plain}, JoinEnter(h, t, k)
      PROVE  TablesFollowRooms'
  BY <1>7, Shapes
     DEF JoinEnter, TablesFollowRooms, Delivered, CallAlone, JoinFirst, RunnerPlace, TaskPlace,
         Lifecycle, seenOfGossip, RoomGone, NoRoomEntry, Live, Busy, Known, RunnerAt, Mismatch
<1>8. ASSUME NEW h \in RoomHandles, JoinAdmit(h) PROVE TablesFollowRooms'
  BY <1>8, Shapes, TakeIs
     DEF JoinAdmit, TablesFollowRooms, Delivered, CallAlone, JoinFirst, RunnerPlace, TaskPlace,
         Lifecycle, tables, seenOfGossip, RunnerGoes, Live, Busy, Known, RunnerAt, KeyOf, Admits
<1>9. ASSUME NEW h \in RoomHandles, JoinRefused(h) PROVE TablesFollowRooms'
  BY <1>9, Shapes, TakeIs
     DEF JoinRefused, TablesFollowRooms, Delivered, CallAlone, JoinFirst, RunnerPlace, TaskPlace,
         Lifecycle, seenOfGossip, RoomGone, NoRoomEntry, Live, Busy, Known, RunnerAt
<1>10. ASSUME NEW h \in RoomHandles, JoinSubscribed(h) PROVE TablesFollowRooms'
  BY <1>10, Shapes
     DEF JoinSubscribed, TablesFollowRooms, Delivered, CallAlone, JoinFirst, RunnerPlace, TaskPlace,
         Lifecycle, seenOfGossip, RunnerIdle, Live, Busy, Known, RunnerAt
<1>11. ASSUME NEW h \in RoomHandles, JoinFails(h) PROVE TablesFollowRooms'
  BY <1>11, Shapes
     DEF JoinFails, TablesFollowRooms, Delivered, CallAlone, JoinFirst, RunnerPlace, TaskPlace,
         Lifecycle, seenOfGossip, RunnerIdle, RoomGone, NoRoomEntry, Live, Busy, Known, RunnerAt
<1>12. ASSUME NEW h \in RoomHandles, LeaveTake(h) PROVE TablesFollowRooms'
  BY <1>12, Shapes, TakeIs
     DEF LeaveTake, TablesFollowRooms, Delivered, CallAlone, JoinFirst, RunnerPlace, TaskPlace,
         Lifecycle, seenOfGossip, RunnerGoes, Live, Busy, Known, RunnerAt
<1>13. ASSUME NEW h \in RoomHandles, LeaveRemove(h) PROVE TablesFollowRooms'
  BY <1>13, Shapes
     DEF LeaveRemove, TablesFollowRooms, Delivered, CallAlone, JoinFirst, RunnerPlace, TaskPlace,
         Lifecycle, RunnerGoes, RoomGone, NoRoomEntry, Live, Busy, Known, RunnerAt
<1>14. ASSUME NEW h \in RoomHandles, LeaveSweep(h) PROVE TablesFollowRooms'
  BY <1>14, Shapes, GossipShapes
     DEF LeaveSweep, TablesFollowRooms, Delivered, CallAlone, JoinFirst, RunnerPlace, TaskPlace,
         Lifecycle, tables, RunnerIdle, Live, Busy, Known, RunnerAt
<1>15. ASSUME NEW h \in RoomHandles, OfferAdmit(h) PROVE TablesFollowRooms'
  BY <1>15, Shapes, GossipShapes
     DEF OfferAdmit, TablesFollowRooms, Delivered, CallAlone, JoinFirst, RunnerPlace, TaskPlace,
         StillAdmitted, Lifecycle, tables, Live, Busy, Known, RunnerAt, DoesNext
<1>16. ASSUME NEW h \in RoomHandles, NEW n \in Neighbors, Unoffered(h, n) PROVE TablesFollowRooms'
  BY <1>16, Shapes
     DEF Unoffered, TablesFollowRooms, Delivered, CallAlone, JoinFirst, RunnerPlace, TaskPlace,
         Lifecycle, tables, Live, Busy, Known, RunnerAt
<1>17. CASE UNCHANGED roomVars
  BY <1>1, <1>17 DEF roomVars
<1> QED
  BY <1>1, <1>2, <1>3, <1>4, <1>5, <1>6, <1>7, <1>8, <1>9, <1>10, <1>11, <1>12, <1>13, <1>14, <1>15,
     <1>16, <1>17
     DEF RoomNext, RunnerStep, TaskStep

LEMMA QuietStep ==
  ASSUME RoomsTypeOK, Lifecycle, Quiet, [RoomNext]_roomVars
  PROVE  Quiet'
<1>1. CASE UNCHANGED <<task, doing, reports, near, reached>>
  BY <1>1
     DEF Quiet, CallAlone, JoinFirst, RunnerPlace, TaskPlace, Live, Busy, Known, RunnerAt, Lifecycle
<1>2. ASSUME NEW h \in RoomHandles,
             \/ JoinRegister(h) \/ JoinPush(h) \/ JoinClosed(h) \/ LeaveRoom(h) \/ PresenceSet(h)
             \/ JoinAdmit(h) \/ JoinRefused(h) \/ JoinFails(h) \/ LeaveRemove(h) \/ LeaveSweep(h)
             \/ \E t \in Topics, k \in RoomKeys \cup {Plain} : JoinEnter(h, t, k)
             \/ \E n \in Neighbors :
                   \/ Unoffered(h, n)
      PROVE  UNCHANGED <<task, doing, reports, near, reached>>
  BY <1>2
     DEF JoinRegister, JoinPush, JoinClosed, LeaveRoom, PresenceSet, JoinAdmit, JoinRefused,
         JoinFails, LeaveRemove, LeaveSweep, Unoffered, JoinEnter, tables, seenOfGossip
<1>3. ASSUME NEW n \in Neighbors, RefuseNeighbor(n)
      PROVE  UNCHANGED <<task, doing, reports, near, reached>>
  BY <1>3 DEF RefuseNeighbor, tables
<1>4. CASE RoomRestart
  BY <1>4, Shapes
     DEF RoomRestart, Quiet, AtRest, CallAlone, JoinFirst, RunnerPlace, TaskPlace, Lifecycle,
         RunnerIdle, NoRoomEntry, Live, Busy, Known, RunnerAt
<1>5. ASSUME NEW h \in RoomHandles, JoinSubscribed(h) PROVE Quiet'
  BY <1>5, Shapes, GossipShapes
     DEF JoinSubscribed, Quiet, CallAlone, JoinFirst, RunnerPlace, TaskPlace, Lifecycle,
         seenOfGossip, RunnerIdle, Live, Busy, Known, RunnerAt
<1>6. ASSUME NEW h \in RoomHandles, LeaveTake(h) PROVE Quiet'
  BY <1>6, Shapes, GossipShapes, TakeIs
     DEF LeaveTake, Quiet, CallAlone, JoinFirst, RunnerPlace, TaskPlace, Lifecycle, seenOfGossip,
         RunnerGoes, Live, Busy, Known, RunnerAt
<1>7. ASSUME NEW h \in RoomHandles, BroadcastPresence(h) PROVE Quiet'
  <2>1. /\ task' = task /\ near' = near /\ reports' = reports /\ doing' = doing
    BY <1>7 DEF BroadcastPresence
  <2>2. ASSUME NEW g \in RoomHandles, task[g] = "none"
        PROVE  reached'[g] = reached[g]
    <3>1. CASE h \in senders
      <4>1. g # h
        BY <2>2, <3>1 DEF Lifecycle, TaskPlace
      <4> QED
        BY <1>7, <4>1, GossipShapes DEF BroadcastPresence, Reach
    <3>2. CASE h \notin senders
      BY <1>7, <3>2 DEF BroadcastPresence
    <3> QED
      BY <3>1, <3>2
  <2> QED
    BY <2>1, <2>2 DEF Quiet
<1>8. ASSUME NEW h \in RoomHandles, TaskEnds(h) PROVE Quiet'
  BY <1>8, Shapes, GossipShapes
     DEF TaskEnds, Quiet, AtRest, CallAlone, JoinFirst, RunnerPlace, TaskPlace, Lifecycle, tables,
         Live, Busy, Known, RunnerAt
<1>9. ASSUME NEW h \in RoomHandles, Greet(h) PROVE Quiet'
  BY <1>9, Shapes, GossipShapes
     DEF Greet, Quiet, CallAlone, JoinFirst, RunnerPlace, TaskPlace, Lifecycle, tables, Live, Busy,
         Known, RunnerAt, DoesNext, Reach
<1>10. ASSUME NEW h \in RoomHandles, OfferAdmit(h) PROVE Quiet'
  BY <1>10, Shapes, GossipShapes
     DEF OfferAdmit, Quiet, CallAlone, JoinFirst, RunnerPlace, TaskPlace, Lifecycle, tables, Live,
         Busy, Known, RunnerAt, DoesNext
<1>11. ASSUME NEW h \in RoomHandles, NEW n \in Neighbors, NeighborUp(h, n) PROVE Quiet'
  BY <1>11, Shapes, GossipShapes
     DEF NeighborUp, Quiet, TakesReport, CallAlone, JoinFirst, RunnerPlace, TaskPlace, Lifecycle,
         tables, Live, Busy, Known, RunnerAt, DoesNext
<1>12. ASSUME NEW h \in RoomHandles, NEW n \in Neighbors, NeighborDown(h, n) PROVE Quiet'
  BY <1>12, Shapes, GossipShapes
     DEF NeighborDown, Quiet, TakesReport, CallAlone, JoinFirst, RunnerPlace, TaskPlace, Lifecycle,
         tables, Live, Busy, Known, RunnerAt
<1>13. ASSUME NEW h \in RoomHandles, NEW n \in Neighbors, OfferRead(h, n) PROVE Quiet'
  BY <1>13, Shapes, GossipShapes
     DEF OfferRead, Quiet, CallAlone, JoinFirst, RunnerPlace, TaskPlace, Lifecycle, tables, Live,
         Busy, Known, RunnerAt
<1>14. ASSUME NEW h \in RoomHandles, NEW n \in Neighbors, GossipReports(h, n) PROVE Quiet'
  BY <1>14, Shapes, GossipShapes
     DEF GossipReports, Quiet, CallAlone, JoinFirst, RunnerPlace, TaskPlace, Lifecycle, tables,
         Live, Busy, Known, RunnerAt
<1>15. CASE UNCHANGED roomVars
  BY <1>1, <1>15 DEF roomVars
<1> QED
  BY <1>1, <1>2, <1>3, <1>4, <1>5, <1>6, <1>7, <1>8, <1>9, <1>10, <1>11, <1>12, <1>13, <1>14, <1>15
     DEF RoomNext, RunnerStep, TaskStep

-----------------------------------------------------------------------------
(* Presence                                                                *)

(* The head of the queue may go, and rooms with it.                        *)
LEMMA AnnouncedTake ==
  ASSUME RoomsTypeOK, Announced, NEW op, NEW h, TakeFor(op, h), presence' = presence,
         \A g \in RoomHandles : Live(g)' => Live(g)
  PROVE  Announced'
<1>1. ASSUME NEW i \in DOMAIN roomQueue', roomQueue'[i].op = "presence", entry'[roomQueue'[i].room].pc = "listed"
      PROVE  /\ roomQueue'[i].version \in 1 .. presence[roomQueue'[i].room]
             /\ \E j \in DOMAIN roomQueue' :
                   /\ i <= j /\ roomQueue'[j].op = "presence" /\ roomQueue'[j].room = roomQueue'[i].room
                   /\ roomQueue'[j].version = presence[roomQueue'[i].room]
  <2>1. /\ i \in Nat \ {0} /\ i + 1 \in DOMAIN roomQueue /\ roomQueue'[i] = roomQueue[i + 1]
        /\ roomQueue[i + 1].room \in RoomHandles
    BY <1>1, TakeIs, Shapes
  <2>2. roomQueue[i + 1].op = "presence" /\ Live(roomQueue[i + 1].room)
    BY <1>1, <2>1 DEF Live
  <2>3. roomQueue[i + 1].version \in 1 .. presence[roomQueue[i + 1].room] /\ Newest(roomQueue[i + 1].room, i + 1)
    BY <2>1, <2>2 DEF Announced
  <2>4. PICK j \in DOMAIN roomQueue :
           /\ i + 1 <= j /\ roomQueue[j].op = "presence" /\ roomQueue[j].room = roomQueue[i + 1].room
           /\ roomQueue[j].version = presence[roomQueue[i + 1].room]
    BY <2>3 DEF Newest
  <2>5. j - 1 \in DOMAIN roomQueue' /\ roomQueue'[j - 1] = roomQueue[j] /\ i <= j - 1
    BY <2>1, <2>4, TakeIs, Shapes
  <2> QED
    BY <2>1, <2>3, <2>4, <2>5
<1> QED
  BY <1>1 DEF Announced, Newest, Live

(* A command that is no presence may be queued.                            *)
LEMMA AnnouncedPush ==
  ASSUME RoomsTypeOK, Announced, NEW op, op # "presence", NEW h, PushRoom(op, h, 0), presence' = presence, entry' = entry
  PROVE  Announced'
<1>1. ASSUME NEW i \in DOMAIN roomQueue', roomQueue'[i].op = "presence", entry'[roomQueue'[i].room].pc = "listed"
      PROVE  /\ roomQueue'[i].version \in 1 .. presence[roomQueue'[i].room]
             /\ \E j \in DOMAIN roomQueue' :
                   /\ i <= j /\ roomQueue'[j].op = "presence" /\ roomQueue'[j].room = roomQueue'[i].room
                   /\ roomQueue'[j].version = presence[roomQueue'[i].room]
  <2>1. i \in DOMAIN roomQueue /\ roomQueue'[i] = roomQueue[i]
    BY <1>1, PushIs
  <2>2. Live(roomQueue[i].room)
    BY <1>1, <2>1 DEF Live
  <2>3. roomQueue[i].version \in 1 .. presence[roomQueue[i].room] /\ Newest(roomQueue[i].room, i)
    BY <1>1, <2>1, <2>2 DEF Announced
  <2>4. PICK j \in DOMAIN roomQueue :
           /\ i <= j /\ roomQueue[j].op = "presence" /\ roomQueue[j].room = roomQueue[i].room
           /\ roomQueue[j].version = presence[roomQueue[i].room]
    BY <2>3 DEF Newest
  <2> QED
    BY <2>1, <2>3, <2>4, PushIs
<1> QED
  BY <1>1 DEF Announced, Newest, Live

LEMMA AnnouncedStep ==
  ASSUME RoomsTypeOK, Lifecycle, Announced, [RoomNext]_roomVars
  PROVE  Announced'
<1>1. CASE UNCHANGED <<roomQueue, entry, presence>>
  BY <1>1 DEF Announced, Newest, Live, Lifecycle
<1>2. ASSUME NEW h \in RoomHandles,
             \/ JoinSubscribed(h) \/ TaskEnds(h) \/ Greet(h) \/ OfferAdmit(h)
             \/ \E n \in Neighbors :
                   \/ NeighborUp(h, n) \/ NeighborDown(h, n) \/ OfferRead(h, n)
                   \/ Unoffered(h, n) \/ GossipReports(h, n)
      PROVE  UNCHANGED <<roomQueue, entry, presence>>
  BY <1>2
     DEF JoinSubscribed, TaskEnds, Greet, OfferAdmit, NeighborUp, NeighborDown, OfferRead,
         Unoffered, GossipReports, tables, seenOfGossip
<1>3. ASSUME NEW n \in Neighbors, RefuseNeighbor(n)
      PROVE  UNCHANGED <<roomQueue, entry, presence>>
  BY <1>3 DEF RefuseNeighbor, tables
<1>4. CASE RoomRestart
  BY <1>4, Shapes DEF RoomRestart, Announced, Newest, Lifecycle, RunnerIdle, NoRoomEntry, Live
<1>5. ASSUME NEW h \in RoomHandles, JoinRegister(h) PROVE Announced'
  <2>1. roomQueue' = roomQueue /\ \A g \in RoomHandles : Live(g)' => Live(g) /\ presence'[g] = presence[g]
    BY <1>5, Shapes, GossipShapes DEF JoinRegister, Live, Lifecycle, RunnerPlace
  <2> QED
    BY <2>1, Shapes DEF Announced, Newest
<1>6. ASSUME NEW h \in RoomHandles, JoinPush(h) PROVE Announced'
  BY <1>6, AnnouncedPush DEF JoinPush
<1>7. ASSUME NEW h \in RoomHandles, JoinClosed(h) PROVE Announced'
  <2>1. roomQueue' = roomQueue /\ \A g \in RoomHandles : Live(g)' => Live(g) /\ presence'[g] = presence[g]
    BY <1>7, Shapes, GossipShapes
       DEF JoinClosed, Live, RoomGone, NoRoomEntry, Lifecycle, RunnerPlace
  <2> QED
    BY <2>1, Shapes DEF Announced, Newest
<1>8. ASSUME NEW h \in RoomHandles, LeaveRoom(h) PROVE Announced'
  BY <1>8, AnnouncedPush DEF LeaveRoom, tables
<1>9. ASSUME NEW h \in RoomHandles, PresenceSet(h) PROVE Announced'
  <2>1. /\ PushRoom("presence", h, presence[h] + 1) /\ entry' = entry
        /\ presence' = [presence EXCEPT ![h] = @ + 1] /\ presence[h] \in Nat
    BY <1>9, GossipShapes, RoomBoundsAssumption DEF PresenceSet, tables
  <2>2. PICK last \in DOMAIN roomQueue' :
           /\ roomQueue'[last] = [op |-> "presence", room |-> h, version |-> presence[h] + 1]
           /\ \A j \in DOMAIN roomQueue' : j <= last
    BY <2>1, PushIs
  <2>3. ASSUME NEW i \in DOMAIN roomQueue', roomQueue'[i].op = "presence", entry'[roomQueue'[i].room].pc = "listed"
        PROVE  /\ roomQueue'[i].version \in 1 .. presence'[roomQueue'[i].room]
               /\ \E j \in DOMAIN roomQueue' :
                     /\ i <= j /\ roomQueue'[j].op = "presence" /\ roomQueue'[j].room = roomQueue'[i].room
                     /\ roomQueue'[j].version = presence'[roomQueue'[i].room]
    <3>1. CASE i \in DOMAIN roomQueue
      <4>1. roomQueue'[i] = roomQueue[i] /\ roomQueue[i].room \in RoomHandles /\ Live(roomQueue[i].room)
        BY <2>1, <2>3, <3>1, PushIs, Shapes DEF Live
      <4>2. roomQueue[i].version \in 1 .. presence[roomQueue[i].room] /\ Newest(roomQueue[i].room, i)
        BY <2>3, <3>1, <4>1 DEF Announced
      <4>3. CASE roomQueue[i].room = h
        <5>1. presence'[h] = presence[h] + 1
          BY <2>1, GossipShapes
        <5>2. roomQueue[i].version \in 1 .. presence[h] + 1
          BY <2>1, <4>2, <4>3
        <5> QED
          BY <2>2, <4>1, <4>3, <5>1, <5>2
      <4>4. CASE roomQueue[i].room # h
        <5>1. presence'[roomQueue[i].room] = presence[roomQueue[i].room]
          BY <2>1, <4>1, <4>4, GossipShapes
        <5>2. PICK j \in DOMAIN roomQueue :
                 /\ i <= j /\ roomQueue[j].op = "presence" /\ roomQueue[j].room = roomQueue[i].room
                 /\ roomQueue[j].version = presence[roomQueue[i].room]
          BY <4>2 DEF Newest
        <5>3. j \in DOMAIN roomQueue' /\ roomQueue'[j] = roomQueue[j]
          BY <2>1, PushIs
        <5> QED
          BY <4>1, <4>2, <5>1, <5>2, <5>3
      <4> QED
        BY <4>3, <4>4
    <3>2. CASE i \notin DOMAIN roomQueue
      <4>1. roomQueue'[i] = [op |-> "presence", room |-> h, version |-> presence[h] + 1]
        BY <2>1, <3>2, PushIs
      <4>2. presence'[h] = presence[h] + 1 /\ presence[h] + 1 \in 1 .. presence[h] + 1
        BY <2>1, GossipShapes
      <4> QED
        BY <2>2, <4>1, <4>2
    <3> QED
      BY <3>1, <3>2
  <2> QED
    BY <2>3 DEF Announced, Newest, Live
<1>10. ASSUME NEW h \in RoomHandles, NEW t \in Topics, NEW k \in RoomKeys \cup {Plain}, JoinEnter(h, t, k)
      PROVE  Announced'
  <2>1. roomQueue' = roomQueue /\ presence' = presence /\ \A g \in RoomHandles \ {h} : Live(g)' => Live(g)
    BY <1>10, Shapes DEF JoinEnter, Live
  <2>2. \A i \in DOMAIN roomQueue : roomQueue[i].room # h
    BY <1>10 DEF JoinEnter, Lifecycle, JoinFirst, Known
  <2> QED
    BY <2>1, <2>2, Shapes DEF Announced, Newest
<1>11. ASSUME NEW h \in RoomHandles, JoinAdmit(h) PROVE Announced'
  BY <1>11, AnnouncedTake DEF JoinAdmit, tables, Live
<1>12. ASSUME NEW h \in RoomHandles, JoinRefused(h) PROVE Announced'
  <2>1. \A g \in RoomHandles : Live(g)' => Live(g)
    BY <1>12, Shapes DEF JoinRefused, Live, RoomGone, NoRoomEntry
  <2> QED
    BY <1>12, <2>1, AnnouncedTake DEF JoinRefused
<1>13. ASSUME NEW h \in RoomHandles, JoinFails(h) PROVE Announced'
  <2>1. roomQueue' = roomQueue /\ \A g \in RoomHandles : Live(g)' => Live(g) /\ presence'[g] = presence[g]
    BY <1>13, Shapes, GossipShapes
       DEF JoinFails, Live, RoomGone, NoRoomEntry, Lifecycle, RunnerPlace
  <2> QED
    BY <2>1, Shapes DEF Announced, Newest
<1>14. ASSUME NEW h \in RoomHandles, LeaveTake(h) PROVE Announced'
  BY <1>14, AnnouncedTake DEF LeaveTake, Live
<1>15. ASSUME NEW h \in RoomHandles, LeaveRemove(h) PROVE Announced'
  <2>1. roomQueue' = roomQueue /\ \A g \in RoomHandles : Live(g)' => Live(g) /\ presence'[g] = presence[g]
    BY <1>15, Shapes, GossipShapes
       DEF LeaveRemove, Live, RoomGone, NoRoomEntry, Lifecycle, RunnerPlace
  <2> QED
    BY <2>1, Shapes DEF Announced, Newest
<1>16. ASSUME NEW h \in RoomHandles, LeaveSweep(h) PROVE Announced'
  <2>1. roomQueue' = roomQueue /\ \A g \in RoomHandles : Live(g)' => Live(g) /\ presence'[g] = presence[g]
    BY <1>16, Shapes, GossipShapes DEF LeaveSweep, tables, Live, Lifecycle, RunnerPlace
  <2> QED
    BY <2>1, Shapes DEF Announced, Newest
<1>17. ASSUME NEW h \in RoomHandles, BroadcastPresence(h) PROVE Announced'
  BY <1>17, AnnouncedTake DEF BroadcastPresence, tables, Live
<1>18. CASE UNCHANGED roomVars
  BY <1>1, <1>18 DEF roomVars
<1> QED
  BY <1>1, <1>2, <1>3, <1>4, <1>5, <1>6, <1>7, <1>8, <1>9, <1>10, <1>11, <1>12, <1>13, <1>14, <1>15,
     <1>16, <1>17, <1>18
     DEF RoomNext, RunnerStep, TaskStep

LEMMA SentStep ==
  ASSUME RoomsTypeOK, Lifecycle, Quiet, Announced, Sent, [RoomNext]_roomVars
  PROVE  Sent'
<1>1. CASE UNCHANGED <<senders, doing, presence, reached, missed>>
  BY <1>1
     DEF Sent, Announced, Quiet, CallAlone, JoinFirst, RunnerPlace, TaskPlace, Live, Busy, Known,
         RunnerAt, Lifecycle
<1>2. ASSUME NEW h \in RoomHandles,
             \/ JoinRegister(h) \/ JoinPush(h) \/ JoinClosed(h) \/ LeaveRoom(h) \/ JoinAdmit(h)
             \/ JoinRefused(h) \/ JoinFails(h) \/ LeaveRemove(h)
             \/ \E t \in Topics, k \in RoomKeys \cup {Plain} : JoinEnter(h, t, k)
             \/ \E n \in Neighbors :
                   \/ NeighborDown(h, n) \/ Unoffered(h, n)
      PROVE  UNCHANGED <<senders, doing, presence, reached, missed>>
  BY <1>2
     DEF JoinRegister, JoinPush, JoinClosed, LeaveRoom, JoinAdmit, JoinRefused, JoinFails,
         LeaveRemove, NeighborDown, Unoffered, JoinEnter, tables, seenOfGossip
<1>3. ASSUME NEW n \in Neighbors, RefuseNeighbor(n)
      PROVE  UNCHANGED <<senders, doing, presence, reached, missed>>
  BY <1>3 DEF RefuseNeighbor, tables
<1>4. CASE RoomRestart
  BY <1>4, Shapes
     DEF RoomRestart, Sent, Announced, Quiet, CallAlone, JoinFirst, RunnerPlace, TaskPlace,
         Lifecycle, RunnerIdle, NoRoomEntry, Live, Busy, Known, RunnerAt
<1>5. ASSUME NEW h \in RoomHandles, PresenceSet(h) PROVE Sent'
  <2>1. /\ senders' = senders /\ doing' = doing /\ reached' = reached /\ missed' = Missed(h)
        /\ presence' = [presence EXCEPT ![h] = @ + 1]
    BY <1>5 DEF PresenceSet, tables, seenOfGossip
  <2>2. ASSUME NEW g \in senders
        PROVE  /\ \A n \in Neighbors : reached[g][n] <= presence'[g]
               /\ doing[g].pc = "greet" =>
                     doing[g].version <= presence'[g] /\ (g \notin missed' => doing[g].version = presence'[g])
    <3>1. CASE g = h
      <4>1. presence'[h] = presence[h] + 1 /\ presence[h] \in Nat
        BY <2>1, GossipShapes, RoomBoundsAssumption
      <4>2. \A n \in Neighbors : reached[h][n] \in Nat /\ reached[h][n] <= presence[h]
        BY <3>1, GossipShapes DEF Sent
      <4>3. doing[h].pc = "greet" =>
               doing[h].version \in Nat /\ doing[h].version <= presence[h] /\ h \in missed'
        BY <2>1, <3>1, GossipShapes DEF Sent, Missed, RoomDoings
      <4> QED
        BY <3>1, <4>1, <4>2, <4>3
    <3>2. CASE g # h
      <4>1. presence'[g] = presence[g] /\ (g \notin missed' => g \notin missed)
        BY <2>1, <3>2, GossipShapes, Shapes DEF Missed
      <4> QED
        BY <4>1 DEF Sent
    <3> QED
      BY <3>1, <3>2
  <2> QED
    BY <2>1, <2>2 DEF Sent
<1>6. ASSUME NEW h \in RoomHandles, JoinSubscribed(h) PROVE Sent'
  <2>1. /\ senders' = senders \cup {h} /\ UNCHANGED <<doing, reached, presence, missed>>
        /\ RunnerAt("subscribe", h)
    BY <1>6 DEF JoinSubscribed, seenOfGossip
  <2>2. task[h] = "none"
    BY <2>1, Shapes DEF Lifecycle, RunnerPlace, TaskPlace, RunnerAt, Live
  <2>3. doing[h].pc = "idle" /\ \A n \in Neighbors : reached[h][n] = 0 /\ 0 <= presence[h]
    BY <2>2, GossipShapes DEF Quiet
  <2> QED
    BY <2>1, <2>3 DEF Sent
<1>7. ASSUME NEW h \in RoomHandles, LeaveTake(h) PROVE Sent'
  BY <1>7, Shapes, GossipShapes, TakeIs
     DEF LeaveTake, Sent, Announced, Quiet, CallAlone, JoinFirst, RunnerPlace, TaskPlace, Lifecycle,
         seenOfGossip, RunnerGoes, Live, Busy, Known, RunnerAt
<1>8. ASSUME NEW h \in RoomHandles, LeaveSweep(h) PROVE Sent'
  BY <1>8, Shapes, GossipShapes
     DEF LeaveSweep, Sent, Announced, Quiet, CallAlone, JoinFirst, RunnerPlace, TaskPlace,
         Lifecycle, tables, RunnerIdle, Live, Busy, Known, RunnerAt
<1>9. ASSUME NEW h \in RoomHandles, BroadcastPresence(h) PROVE Sent'
  <2>1. /\ UNCHANGED <<senders, doing, presence, missed>> /\ TakeFor("presence", h)
        /\ IF h \in senders THEN Reach(h, Head(roomQueue).version) ELSE UNCHANGED reached
    BY <1>9 DEF BroadcastPresence, tables
  <2>2. CASE h \in senders
    <3>1. Live(h)
      BY <2>2, Shapes DEF Lifecycle, TaskPlace
    <3>2. Head(roomQueue).version \in 1 .. presence[h]
      BY <2>1, <3>1, TakeIs DEF Announced
    <3>3. ASSUME NEW g \in senders, NEW n \in Neighbors
          PROVE  reached'[g][n] <= presence[g]
      <4>1. reached[g][n] <= presence[g]
        BY DEF Sent
      <4>2. reached'[g][n] = reached[g][n] \/ (g = h /\ reached'[g][n] = Head(roomQueue).version)
        BY <2>1, <2>2, GossipShapes, Shapes DEF Reach
      <4> QED
        BY <3>2, <4>1, <4>2, GossipShapes
    <3> QED
      BY <2>1, <3>3 DEF Sent
  <2>3. CASE h \notin senders
    BY <2>1, <2>3 DEF Sent
  <2> QED
    BY <2>2, <2>3
<1>10. ASSUME NEW h \in RoomHandles, TaskEnds(h) PROVE Sent'
  BY <1>10, Shapes, GossipShapes
     DEF TaskEnds, Sent, Announced, Quiet, CallAlone, JoinFirst, RunnerPlace, TaskPlace, Lifecycle,
         tables, Live, Busy, Known, RunnerAt
<1>11. ASSUME NEW h \in RoomHandles, Greet(h) PROVE Sent'
  BY <1>11, Shapes, GossipShapes
     DEF Greet, Sent, Announced, Quiet, CallAlone, JoinFirst, RunnerPlace, TaskPlace, Lifecycle,
         tables, Live, Busy, Known, RunnerAt, DoesNext, Reach
<1>12. ASSUME NEW h \in RoomHandles, OfferAdmit(h) PROVE Sent'
  BY <1>12, Shapes, GossipShapes
     DEF OfferAdmit, Sent, Announced, Quiet, CallAlone, JoinFirst, RunnerPlace, TaskPlace,
         Lifecycle, tables, Live, Busy, Known, RunnerAt, DoesNext
<1>13. ASSUME NEW h \in RoomHandles, NEW n \in Neighbors, NeighborUp(h, n) PROVE Sent'
  BY <1>13, Shapes, GossipShapes
     DEF NeighborUp, Sent, Announced, Quiet, TakesReport, CallAlone, JoinFirst, RunnerPlace,
         TaskPlace, Lifecycle, tables, Live, Busy, Known, RunnerAt, DoesNext
<1>14. ASSUME NEW h \in RoomHandles, NEW n \in Neighbors, OfferRead(h, n) PROVE Sent'
  BY <1>14, Shapes, GossipShapes
     DEF OfferRead, Sent, Announced, Quiet, CallAlone, JoinFirst, RunnerPlace, TaskPlace, Lifecycle,
         tables, Live, Busy, Known, RunnerAt
<1>15. ASSUME NEW h \in RoomHandles, NEW n \in Neighbors, GossipReports(h, n) PROVE Sent'
  BY <1>15, Shapes, GossipShapes
     DEF GossipReports, Sent, Announced, Quiet, CallAlone, JoinFirst, RunnerPlace, TaskPlace,
         Lifecycle, tables, Live, Busy, Known, RunnerAt
<1>16. CASE UNCHANGED roomVars
  BY <1>1, <1>16 DEF roomVars
<1> QED
  BY <1>1, <1>2, <1>3, <1>4, <1>5, <1>6, <1>7, <1>8, <1>9, <1>10, <1>11, <1>12, <1>13, <1>14, <1>15,
     <1>16
     DEF RoomNext, RunnerStep, TaskStep

(* Of the presences that are queued only the head can be taken.            *)
LEMMA QueuedTake ==
  ASSUME RoomsTypeOK, NEW op, NEW h, TakeFor(op, h),
         NEW g \in RoomHandles, ~Queued("presence", g)', g # h \/ op # "presence"
  PROVE  ~Queued("presence", g)
<1>1. ASSUME NEW i \in DOMAIN roomQueue, roomQueue[i].op = "presence", roomQueue[i].room = g
      PROVE  FALSE
  <2>1. i # 1
    BY <1>1, TakeIs
  <2>2. i - 1 \in DOMAIN roomQueue' /\ roomQueue'[i - 1] = roomQueue[i]
    BY <2>1, TakeIs
  <2> QED
    BY <1>1, <2>2 DEF Queued
<1> QED
  BY <1>1 DEF Queued

(* The reports that the task has not taken: one goes, or one more comes.   *)
LEMMA ReportsIs ==
  ASSUME RoomsTypeOK, NEW h \in RoomHandles
  PROVE  /\ reports[h] # <<>> =>
               \A i \in DOMAIN reports[h] :
                  reports[h][i] # Head(reports[h]) =>
                     \E j \in DOMAIN Tail(reports[h]) : Tail(reports[h])[j] = reports[h][i]
         /\ \A r \in {"up", "down"} \X Neighbors :
               /\ \A i \in DOMAIN reports[h] : \E j \in DOMAIN Append(reports[h], r) : Append(reports[h], r)[j] = reports[h][i]
               /\ \E j \in DOMAIN Append(reports[h], r) : Append(reports[h], r)[j] = r
<1>1. reports[h] \in Seq({"up", "down"} \X Neighbors)
  BY DEF RoomsTypeOK
<1>2. ASSUME reports[h] # <<>>, NEW i \in DOMAIN reports[h], reports[h][i] # Head(reports[h])
      PROVE  \E j \in DOMAIN Tail(reports[h]) : Tail(reports[h])[j] = reports[h][i]
  <2>1. i \in 1 .. Len(reports[h]) /\ i # 1
    BY <1>1, <1>2
  <2>2. i - 1 \in DOMAIN Tail(reports[h]) /\ Tail(reports[h])[i - 1] = reports[h][i]
    BY <1>1, <1>2, <2>1
  <2> QED
    BY <2>2
<1>3. ASSUME NEW r \in {"up", "down"} \X Neighbors
      PROVE  /\ \A i \in DOMAIN reports[h] : i \in DOMAIN Append(reports[h], r) /\ Append(reports[h], r)[i] = reports[h][i]
             /\ Len(reports[h]) + 1 \in DOMAIN Append(reports[h], r) /\ Append(reports[h], r)[Len(reports[h]) + 1] = r
  BY <1>1
<1> QED
  BY <1>2, <1>3

LEMMA FollowedStep ==
  ASSUME RoomsTypeOK, Lifecycle, Quiet, Announced, Sent, Followed, [RoomNext]_roomVars
  PROVE  Followed'
<1>1. CASE UNCHANGED <<roomQueue, senders, doing, reports, near, presence, reached, missed>>
  BY <1>1 DEF Followed, Queued, Awaits, Lifecycle
<1>2. ASSUME NEW h \in RoomHandles,
             \/ JoinRegister(h) \/ JoinClosed(h) \/ JoinFails(h) \/ LeaveRemove(h)
             \/ \E t \in Topics, k \in RoomKeys \cup {Plain} : JoinEnter(h, t, k)
             \/ \E n \in Neighbors :
                   \/ Unoffered(h, n)
      PROVE  UNCHANGED <<roomQueue, senders, doing, reports, near, presence, reached, missed>>
  BY <1>2
     DEF JoinRegister, JoinClosed, JoinFails, LeaveRemove, Unoffered, JoinEnter, tables,
         seenOfGossip
<1>3. ASSUME NEW n \in Neighbors, RefuseNeighbor(n)
      PROVE  UNCHANGED <<roomQueue, senders, doing, reports, near, presence, reached, missed>>
  BY <1>3 DEF RefuseNeighbor, tables
<1>4. CASE RoomRestart
  BY <1>4 DEF RoomRestart, Followed
<1>5. ASSUME NEW h \in RoomHandles, JoinPush(h) PROVE Followed'
  <2>1. /\ UNCHANGED <<senders, near, presence, reached, reports, missed, doing>>
        /\ \A g \in RoomHandles : Queued("presence", g) => Queued("presence", g)'
    BY <1>5, PushIs DEF JoinPush, seenOfGossip, Queued
  <2>9. \A g \in RoomHandles, m \in Neighbors : Awaits(g, m) => Awaits(g, m)'
    BY <2>1 DEF Awaits
  <2> QED
    BY <2>1, <2>9, Shapes, GossipShapes DEF Followed
<1>6. ASSUME NEW h \in RoomHandles, LeaveRoom(h) PROVE Followed'
  <2>1. /\ UNCHANGED <<senders, near, presence, reached, reports, missed, doing>>
        /\ \A g \in RoomHandles : Queued("presence", g) => Queued("presence", g)'
    BY <1>6, PushIs DEF LeaveRoom, tables, seenOfGossip, Queued
  <2>9. \A g \in RoomHandles, m \in Neighbors : Awaits(g, m) => Awaits(g, m)'
    BY <2>1 DEF Awaits
  <2> QED
    BY <2>1, <2>9, Shapes, GossipShapes DEF Followed
<1>7. ASSUME NEW h \in RoomHandles, PresenceSet(h) PROVE Followed'
  <2>1. /\ UNCHANGED <<senders, near, reached, reports, doing>>
        /\ \A g \in RoomHandles : Queued("presence", g) => Queued("presence", g)'
        /\ Queued("presence", h)'
    BY <1>7, PushIs DEF PresenceSet, tables, seenOfGossip, Queued
  <2>2. \A g \in RoomHandles \ {h} : presence'[g] = presence[g] /\ (g \in missed <=> g \in missed')
    BY <1>7, GossipShapes DEF PresenceSet, Missed
  <2>9. \A g \in RoomHandles, m \in Neighbors : Awaits(g, m) => Awaits(g, m)'
    BY <2>1 DEF Awaits
  <2> QED
    BY <2>1, <2>2, <2>9, Shapes, GossipShapes DEF Followed
<1>8. ASSUME NEW h \in RoomHandles, JoinAdmit(h) PROVE Followed'
  <2>1. /\ UNCHANGED <<near, presence, reached, reports, doing, missed>> /\ senders' \subseteq senders
    BY <1>8 DEF JoinAdmit, tables, seenOfGossip
  <2>2. \A g \in RoomHandles : ~Queued("presence", g)' => ~Queued("presence", g)
    BY <1>8, QueuedTake DEF JoinAdmit
  <2>9. \A g \in RoomHandles, m \in Neighbors : Awaits(g, m) => Awaits(g, m)'
    BY <2>1 DEF Awaits
  <2> QED
    BY <2>1, <2>2, <2>9, Shapes, GossipShapes DEF Followed
<1>9. ASSUME NEW h \in RoomHandles, JoinRefused(h) PROVE Followed'
  <2>1. /\ UNCHANGED <<near, presence, reached, reports, doing, missed>> /\ senders' \subseteq senders
    BY <1>9 DEF JoinRefused, seenOfGossip
  <2>2. \A g \in RoomHandles : ~Queued("presence", g)' => ~Queued("presence", g)
    BY <1>9, QueuedTake DEF JoinRefused
  <2>9. \A g \in RoomHandles, m \in Neighbors : Awaits(g, m) => Awaits(g, m)'
    BY <2>1 DEF Awaits
  <2> QED
    BY <2>1, <2>2, <2>9, Shapes, GossipShapes DEF Followed
<1>10. ASSUME NEW h \in RoomHandles, JoinSubscribed(h) PROVE Followed'
  <2>1. /\ senders' = senders \cup {h} /\ UNCHANGED <<roomQueue, near, presence, reached, reports, doing, missed>>
        /\ RunnerAt("subscribe", h)
    BY <1>10 DEF JoinSubscribed, seenOfGossip
  <2>2. task[h] = "none"
    BY <2>1, Shapes DEF Lifecycle, RunnerPlace, TaskPlace, RunnerAt, Live
  <2>3. near[h] = {}
    BY <2>2 DEF Quiet
  <2>8. \A g \in RoomHandles : Queued("presence", g) => Queued("presence", g)'
    BY <2>1 DEF Queued
  <2>9. \A g \in RoomHandles, m \in Neighbors : Awaits(g, m) => Awaits(g, m)'
    BY <2>1 DEF Awaits
  <2> QED
    BY <2>1, <2>3, <2>8, <2>9, Shapes, GossipShapes DEF Followed
<1>11. ASSUME NEW h \in RoomHandles, LeaveTake(h) PROVE Followed'
  <2>1. /\ UNCHANGED <<near, presence, reached, reports, doing, missed>> /\ senders' \subseteq senders
    BY <1>11 DEF LeaveTake, seenOfGossip
  <2>2. \A g \in RoomHandles : ~Queued("presence", g)' => ~Queued("presence", g)
    BY <1>11, QueuedTake DEF LeaveTake
  <2>9. \A g \in RoomHandles, m \in Neighbors : Awaits(g, m) => Awaits(g, m)'
    BY <2>1 DEF Awaits
  <2> QED
    BY <2>1, <2>2, <2>9, Shapes, GossipShapes DEF Followed
<1>12. ASSUME NEW h \in RoomHandles, LeaveSweep(h) PROVE Followed'
  <2>1. h \notin senders
    BY <1>12 DEF LeaveSweep, Lifecycle, RunnerPlace, TaskPlace, Live
  <2>2. /\ UNCHANGED <<senders, roomQueue, near, reached, reports, doing>>
        /\ \A g \in RoomHandles \ {h} : presence'[g] = presence[g] /\ (g \in missed <=> g \in missed')
    BY <1>12, GossipShapes DEF LeaveSweep, tables
  <2>8. \A g \in RoomHandles : Queued("presence", g) => Queued("presence", g)'
    BY <2>2 DEF Queued
  <2>9. \A g \in RoomHandles, m \in Neighbors : Awaits(g, m) => Awaits(g, m)'
    BY <2>2 DEF Awaits
  <2> QED
    BY <2>1, <2>2, <2>8, <2>9, Shapes, GossipShapes DEF Followed
<1>13. ASSUME NEW h \in RoomHandles, BroadcastPresence(h) PROVE Followed'
  <2>1. /\ UNCHANGED <<senders, near, presence, reports, doing, missed>> /\ TakeFor("presence", h)
        /\ IF h \in senders THEN Reach(h, Head(roomQueue).version) ELSE UNCHANGED reached
    BY <1>13 DEF BroadcastPresence, tables
  <2>2. ASSUME NEW g \in senders, g \notin missed, ~Queued("presence", g)', NEW n \in near[g]
        PROVE  reached'[g][n] = presence[g] \/ Awaits(g, n)
    <3>1. CASE g # h
      <4>1. ~Queued("presence", g)
        BY <2>1, <2>2, <3>1, QueuedTake, Shapes
      <4>2. reached'[g] = reached[g]
        BY <2>1, <3>1, GossipShapes, Shapes DEF Reach
      <4> QED
        BY <2>2, <4>1, <4>2 DEF Followed
    <3>2. CASE g = h
      <4>1. Live(h)
        BY <3>2, Shapes DEF Lifecycle, TaskPlace
      <4>2. roomQueue[1].version \in 1 .. presence[h] /\ Newest(h, 1)
        BY <2>1, <4>1, TakeIs DEF Announced
      <4>3. PICK j \in DOMAIN roomQueue :
               /\ roomQueue[j].op = "presence" /\ roomQueue[j].room = h /\ roomQueue[j].version = presence[h]
        BY <4>2 DEF Newest
      <4>4. j = 1
        BY <2>1, <2>2, <3>2, <4>3, TakeIs DEF Queued
      <4>5. Head(roomQueue).version = presence[h] /\ presence[h] > 0
        BY <2>1, <4>2, <4>3, <4>4, TakeIs, GossipShapes
      <4> QED
        BY <2>1, <2>2, <3>2, <4>1, <4>5, GossipShapes DEF Reach
    <3> QED
      BY <3>1, <3>2
  <2> QED
    BY <2>1, <2>2 DEF Followed, Awaits
<1>14. ASSUME NEW h \in RoomHandles, TaskEnds(h) PROVE Followed'
  <2>1. h \notin senders
    BY <1>14 DEF TaskEnds, Lifecycle, TaskPlace
  <2>2. /\ UNCHANGED <<senders, roomQueue, presence, missed>>
        /\ \A g \in RoomHandles \ {h} :
              near'[g] = near[g] /\ reached'[g] = reached[g] /\ reports'[g] = reports[g] /\ doing'[g] = doing[g]
    BY <1>14, GossipShapes DEF TaskEnds, tables
  <2>8. \A g \in RoomHandles : Queued("presence", g) => Queued("presence", g)'
    BY <2>2 DEF Queued
  <2>9. \A g \in RoomHandles \ {h}, m \in Neighbors : Awaits(g, m) => Awaits(g, m)'
    BY <2>2 DEF Awaits
  <2> QED
    BY <2>1, <2>2, <2>8, <2>9, Shapes, GossipShapes DEF Followed
<1>15. ASSUME NEW h \in RoomHandles, Greet(h) PROVE Followed'
  <2>1. /\ UNCHANGED <<senders, roomQueue, near, presence, reports, missed>>
        /\ doing[h].pc = "greet" /\ Reach(h, doing[h].version)
        /\ \A g \in RoomHandles \ {h} : doing'[g] = doing[g]
    BY <1>15, GossipShapes DEF Greet, DoesNext, tables
  <2>2. ASSUME NEW g \in senders, g \notin missed, ~Queued("presence", g), NEW n \in near[g]
        PROVE  IF g = h THEN reached'[g][n] = presence[g] ELSE reached'[g][n] = presence[g] \/ Awaits(g, n)
    <3>1. CASE g # h
      <4>1. reached'[g] = reached[g]
        BY <2>1, <3>1, GossipShapes, Shapes DEF Reach
      <4> QED
        BY <2>2, <3>1, <4>1 DEF Followed
    <3>2. CASE g = h
      <4>1. Live(h) /\ doing[h].version = presence[h] /\ n \in Neighbors
        BY <2>1, <2>2, <3>2, Shapes, GossipShapes DEF Lifecycle, TaskPlace, Sent
      <4>2. CASE presence[h] > 0
        BY <2>1, <2>2, <3>2, <4>1, <4>2, GossipShapes DEF Reach
      <4>3. CASE ~(presence[h] > 0)
        <5>1. reached' = reached /\ presence[h] = 0
          BY <2>1, <4>1, <4>3, GossipShapes DEF Reach
        <5>2. reached[h][n] \in Nat /\ reached[h][n] <= 0
          BY <2>2, <3>2, <4>1, <5>1, GossipShapes DEF Sent
        <5> QED
          BY <3>2, <5>1, <5>2
      <4> QED
        BY <4>2, <4>3
    <3> QED
      BY <3>1, <3>2
  <2>3. \A g \in RoomHandles \ {h}, m \in Neighbors : Awaits(g, m) => Awaits(g, m)'
    BY <2>1 DEF Awaits
  <2> QED
    BY <2>1, <2>2, <2>3, Shapes, GossipShapes DEF Followed, Queued
<1>16. ASSUME NEW h \in RoomHandles, OfferAdmit(h) PROVE Followed'
  <2>1. /\ UNCHANGED <<roomQueue, senders, near, presence, reached, reports, missed>>
        /\ \A g \in RoomHandles : doing[g].pc = "greet" => doing'[g].pc = "greet"
    BY <1>16, GossipShapes DEF OfferAdmit, DoesNext, tables
  <2>8. \A g \in RoomHandles : Queued("presence", g) => Queued("presence", g)'
    BY <2>1 DEF Queued
  <2>9. \A g \in RoomHandles, m \in Neighbors : Awaits(g, m) => Awaits(g, m)'
    BY <2>1 DEF Awaits
  <2> QED
    BY <2>1, <2>8, <2>9, Shapes, GossipShapes DEF Followed
<1>17. ASSUME NEW h \in RoomHandles, NEW n \in Neighbors, NeighborUp(h, n) PROVE Followed'
  <2>1. /\ UNCHANGED <<senders, roomQueue, near, presence, reached>>
        /\ \A g \in RoomHandles \ {h} : doing'[g] = doing[g] /\ reports'[g] = reports[g]
        /\ missed \subseteq missed'
    BY <1>17, GossipShapes DEF NeighborUp, TakesReport, DoesNext, tables
  <2>2. h \in missed' \/ doing'[h].pc = "greet"
    BY <1>17, GossipShapes DEF NeighborUp, DoesNext
  <2>8. \A g \in RoomHandles : Queued("presence", g) => Queued("presence", g)'
    BY <2>1 DEF Queued
  <2>9. \A g \in RoomHandles \ {h}, m \in Neighbors : Awaits(g, m) => Awaits(g, m)'
    BY <2>1 DEF Awaits
  <2>10. h \in missed' \/ \A m \in Neighbors : Awaits(h, m)'
    BY <2>2 DEF Awaits
  <2> QED
    BY <2>1, <2>8, <2>9, <2>10, Shapes, GossipShapes DEF Followed
<1>18. ASSUME NEW h \in RoomHandles, NEW n \in Neighbors, NeighborDown(h, n) PROVE Followed'
  <2>1. /\ UNCHANGED <<senders, roomQueue, near, presence, reached, missed, doing>>
        /\ \A g \in RoomHandles \ {h} : reports'[g] = reports[g]
        /\ reports[h] # <<>> /\ Head(reports[h]) = <<"down", n>> /\ reports'[h] = Tail(reports[h])
    BY <1>18, GossipShapes DEF NeighborDown, TakesReport, tables
  <2>2. \A g \in RoomHandles, m \in Neighbors : Awaits(g, m) => Awaits(g, m)'
    <3>1. ASSUME NEW m \in Neighbors, NEW i \in DOMAIN reports[h], reports[h][i] = <<"up", m>>
          PROVE  \E j \in DOMAIN reports'[h] : reports'[h][j] = <<"up", m>>
      <4>1. reports[h][i] # Head(reports[h])
        BY <2>1, <3>1
      <4>2. \E j \in DOMAIN Tail(reports[h]) : Tail(reports[h])[j] = reports[h][i]
        BY <2>1, <4>1, ReportsIs
      <4> QED
        BY <2>1, <3>1, <4>2
    <3> QED
      BY <2>1, <3>1 DEF Awaits
  <2> QED
    BY <2>1, <2>2, Shapes, GossipShapes DEF Followed, Queued
<1>19. ASSUME NEW h \in RoomHandles, NEW n \in Neighbors, OfferRead(h, n) PROVE Followed'
  <2>1. /\ UNCHANGED <<roomQueue, senders, near, presence, reached, reports, missed>>
        /\ \A g \in RoomHandles : doing[g].pc = "greet" => doing'[g].pc = "greet"
    BY <1>19, GossipShapes DEF OfferRead, tables
  <2>8. \A g \in RoomHandles : Queued("presence", g) => Queued("presence", g)'
    BY <2>1 DEF Queued
  <2>9. \A g \in RoomHandles, m \in Neighbors : Awaits(g, m) => Awaits(g, m)'
    BY <2>1 DEF Awaits
  <2> QED
    BY <2>1, <2>8, <2>9, Shapes, GossipShapes DEF Followed
<1>20. ASSUME NEW h \in RoomHandles, NEW n \in Neighbors, GossipReports(h, n) PROVE Followed'
  <2>1. /\ UNCHANGED <<senders, roomQueue, presence, missed, doing>>
        /\ \A g \in RoomHandles \ {h} : reports'[g] = reports[g] /\ near'[g] = near[g] /\ reached'[g] = reached[g]
        /\ \A m \in Neighbors \ {n} : reached'[h][m] = reached[h][m] /\ (m \in near'[h] => m \in near[h])
    BY <1>20, GossipShapes DEF GossipReports, tables
  <2>2. PICK kind \in {"up", "down"} :
           reports'[h] = Append(reports[h], <<kind, n>>) /\ (n \in near'[h] => kind = "up")
    BY <1>20, GossipShapes DEF GossipReports
  <2>3. \A g \in RoomHandles, m \in Neighbors : Awaits(g, m) => Awaits(g, m)'
    <3>1. ASSUME NEW m \in Neighbors, NEW i \in DOMAIN reports[h], reports[h][i] = <<"up", m>>
          PROVE  \E j \in DOMAIN reports'[h] : reports'[h][j] = <<"up", m>>
      <4>1. <<kind, n>> \in {"up", "down"} \X Neighbors
        OBVIOUS
      <4>2. \E j \in DOMAIN Append(reports[h], <<kind, n>>) : Append(reports[h], <<kind, n>>)[j] = reports[h][i]
        BY <4>1, ReportsIs
      <4> QED
        BY <2>2, <3>1, <4>2
    <3> QED
      BY <2>1, <3>1 DEF Awaits
  <2>4. n \in near'[h] => Awaits(h, n)'
    <3>1. <<kind, n>> \in {"up", "down"} \X Neighbors
      OBVIOUS
    <3> QED
      BY <2>2, <3>1, ReportsIs DEF Awaits
  <2>5. \A g \in RoomHandles : near'[g] \subseteq Neighbors
    <3>1. near' \in {[near EXCEPT ![h] = @ \ {n}], [near EXCEPT ![h] = @ \cup {n}]}
      BY <1>20 DEF GossipReports
    <3> QED
      BY <3>1, GossipShapes
  <2>6. ASSUME NEW g \in senders, g \notin missed, ~Queued("presence", g), NEW m \in near'[g]
        PROVE  reached'[g][m] = presence[g] \/ Awaits(g, m)'
    <3>1. CASE g = h /\ m = n
      BY <2>4, <2>6, <3>1
    <3>2. CASE ~(g = h /\ m = n)
      <4>1. m \in Neighbors /\ m \in near[g] /\ reached'[g][m] = reached[g][m] /\ g \in RoomHandles
        BY <2>1, <2>5, <2>6, <3>2, Shapes
      <4> QED
        BY <2>3, <2>6, <4>1 DEF Followed
    <3> QED
      BY <3>1, <3>2
  <2> QED
    BY <2>1, <2>6 DEF Followed, Queued
<1>21. CASE UNCHANGED roomVars
  BY <1>1, <1>21 DEF roomVars
<1> QED
  BY <1>1, <1>2, <1>3, <1>4, <1>5, <1>6, <1>7, <1>8, <1>9, <1>10, <1>11, <1>12, <1>13, <1>14, <1>15,
     <1>16, <1>17, <1>18, <1>19, <1>20, <1>21
     DEF RoomNext, RunnerStep, TaskStep

-----------------------------------------------------------------------------
(* The theorems                                                            *)

(* Whatever joins and leaves race, fail or are cut off by a restart, rooms *)
(* of one topic are sealed alike while they live, and a room that can send *)
(* is sealed as its topic's marker says (Node::join, Runner::room_join,    *)
(* sealed_room::register), for any number of handles, topics and keys.     *)
THEOREM SealedAlike == RoomSpec => []SealingKept
<1> DEFINE Inv == RoomsTypeOK /\ Lifecycle /\ SealingKept
<1>1. RoomInit => Inv
  BY TypesInit, LifecycleInit DEF RoomInit, SealingKept, Live, NoRoomEntry
<1>2. Inv /\ [RoomNext]_roomVars => Inv'
  BY TypesStep, LifecycleStep, SealingKeptStep
<1>3. Inv => SealingKept
  OBVIOUS
<1> QED
  BY <1>1, <1>2, <1>3, PTL DEF RoomSpec

(* A handle's records are delivered as long as its room lives and no       *)
(* longer, unless gossip did not subscribe; and no offer of a file stays,  *)
(* or is told, after its room was left (Delivery, Shared::rooms,           *)
(* Shared::blobs; the room's task checks the room again under the lock).   *)
THEOREM TablesAgree == RoomSpec => []TablesFollowRooms
<1> DEFINE Inv == RoomsTypeOK /\ Lifecycle /\ Delivered /\ TablesFollowRooms
<1>1. RoomInit => Inv
  BY TypesInit, LifecycleInit DEF RoomInit, Delivered, TablesFollowRooms, Live, NoRoomEntry
<1>2. Inv /\ [RoomNext]_roomVars => Inv'
  BY TypesStep, LifecycleStep, DeliveredStep, TablesFollowRoomsStep
<1>3. Inv => TablesFollowRooms
  OBVIOUS
<1> QED
  BY <1>1, <1>2, <1>3, PTL DEF RoomSpec

(* The greeting of a neighbour that came and the broadcast of a presence   *)
(* that was set cover each other: once the task and the runner have caught *)
(* up, every neighbour was sent the newest presence, unless it changed     *)
(* while a greeting with the old one was on its way, or the neighbour was  *)
(* blocked when it came (Node::presence_set, room_task's NeighborUp).      *)
THEOREM NewestPresenceSent == RoomSpec => []PresenceReaches
<1> DEFINE Inv == RoomsTypeOK /\ Lifecycle /\ Quiet /\ Announced /\ Sent /\ Followed
<1>1. RoomInit => Inv
  BY TypesInit, LifecycleInit DEF RoomInit, Quiet, Announced, Sent, Followed, AtRest
<1>2. Inv /\ [RoomNext]_roomVars => Inv'
  BY TypesStep, LifecycleStep, QuietStep, AnnouncedStep, SentStep, FollowedStep
<1>3. Inv => PresenceReaches
  BY DEF Followed, Awaits, Queued, PresenceReaches
<1> QED
  BY <1>1, <1>2, <1>3, PTL DEF RoomSpec

-----------------------------------------------------------------------------
(* Direct connections.                                                     *)

(* Where the task of a connection is, which tables know the connection,    *)
(* and what the program was told go together.  A connection that is told   *)
(* is in the runner's table, or was taken from it and closed.              *)
ConnPlace(c) ==
    /\ c \in listed <=> pump[c] \in {"listed", "sendable", "reading", "ending", "untabled"}
    /\ c \in sendable => pump[c] \in {"sendable", "reading", "ending"}
    /\ pump[c] \in {"sendable", "reading", "ending"} /\ c \notin sendable => transport[c] = "closed"
    /\ Told(c, "Connected") => pump[c] \in {"reading", "ending", "untabled", "unlisted", "over"}
    /\ Told(c, "Disconnected") => pump[c] = "over"
    /\ c \in asked => Told(c, "Connected")

(* A connection that was disconnected is off the runner's table and closed *)
(* or at its end.                                                          *)
ConnGone(c) ==
    c \in asked =>
        /\ c \notin sendable
        /\ transport[c] = "closed" \/ pump[c] \in {"untabled", "unlisted", "over"}

ConnInv == ConnTypeOK /\ \A c \in Conns : ConnPlace(c)

(* What was told before, and what is told now.                             *)
LEMMA Tells ==
  ASSUME ConnTypeOK, NEW c \in Conns, NEW event \in {"Connected", "Direct", "Disconnected"},
         TellConn(c, event)
  PROVE  \A d \in Conns : \A x : (\E i \in DOMAIN connTold'[d] : connTold'[d][i] = x)
                                <=> Told(d, x) \/ (d = c /\ x = event)
<1>1. connTold \in [Conns -> Seq({"Connected", "Direct", "Disconnected"})]
  BY DEF ConnTypeOK
<1>2. ASSUME NEW s \in Seq({"Connected", "Direct", "Disconnected"}), NEW x
      PROVE  (\E i \in DOMAIN Append(s, event) : Append(s, event)[i] = x)
                <=> (\E i \in DOMAIN s : s[i] = x) \/ x = event
  <2>1. /\ Len(s) \in Nat /\ DOMAIN s = 1 .. Len(s) /\ DOMAIN Append(s, event) = 1 .. (Len(s) + 1)
        /\ \A i \in 1 .. Len(s) : Append(s, event)[i] = s[i]
        /\ Append(s, event)[Len(s) + 1] = event
    OBVIOUS
  <2> QED
    BY <2>1
<1>3. /\ connTold'[c] = Append(connTold[c], event) /\ connTold[c] \in Seq({"Connected", "Direct", "Disconnected"})
      /\ \A d \in Conns \ {c} : connTold'[d] = connTold[d]
  BY <1>1 DEF TellConn
<1> QED
  BY <1>2, <1>3 DEF Told

LEMMA ConnTypeStep ==
  ASSUME ConnInv, [ConnNext]_connVars
  PROVE  ConnTypeOK'
<1>a. ConnTypeOK
  BY DEF ConnInv
<1>1. ASSUME NEW r \in Remotes, RefuseRemote(r) PROVE ConnTypeOK'
  BY <1>1, <1>a DEF RefuseRemote, ConnTypeOK, ConnCommand
<1>2. ASSUME NEW c \in Conns, Connect(c) PROVE ConnTypeOK'
  <2>1. connQueue' \in Seq(ConnCommand) /\ Len(connQueue') <= MaxConnQueue
    BY <1>2, <1>a, ConnBoundsAssumption DEF ConnTypeOK, ConnCommand, Connect, PushConn
  <2> QED
    BY <1>2, <1>a, <2>1 DEF ConnTypeOK, PumpGoes, Connect
<1>3. ASSUME NEW c \in Conns, CallConn("send", c) PROVE ConnTypeOK'
  <2>1. connQueue' \in Seq(ConnCommand) /\ Len(connQueue') <= MaxConnQueue
    BY <1>3, <1>a, ConnBoundsAssumption DEF ConnTypeOK, ConnCommand, CallConn, PushConn
  <2> QED
    BY <1>3, <1>a, <2>1 DEF ConnTypeOK, CallConn
<1>4. ASSUME NEW c \in Conns, CallConn("disconnect", c) PROVE ConnTypeOK'
  <2>1. connQueue' \in Seq(ConnCommand) /\ Len(connQueue') <= MaxConnQueue
    BY <1>4, <1>a, ConnBoundsAssumption DEF ConnTypeOK, ConnCommand, CallConn, PushConn
  <2> QED
    BY <1>4, <1>a, <2>1 DEF ConnTypeOK, CallConn
<1>5. ASSUME NEW c \in Conns, TakeConnect(c) PROVE ConnTypeOK'
  <2>1. connQueue' \in Seq(ConnCommand) /\ Len(connQueue') <= MaxConnQueue
    BY <1>5, <1>a, ConnBoundsAssumption DEF ConnTypeOK, ConnCommand, TakeConnect, TakeConn
  <2> QED
    BY <1>5, <1>a, <2>1 DEF ConnTypeOK, PumpGoes, TakeConnect
<1>6. ASSUME NEW c \in Conns, TakeSend(c) PROVE ConnTypeOK'
  <2>1. connQueue' \in Seq(ConnCommand) /\ Len(connQueue') <= MaxConnQueue
    BY <1>6, <1>a, ConnBoundsAssumption DEF ConnTypeOK, ConnCommand, TakeSend, TakeConn
  <2> QED
    BY <1>6, <1>a, <2>1 DEF ConnTypeOK, TakeSend
<1>7. ASSUME NEW c \in Conns, TakeDisconnect(c) PROVE ConnTypeOK'
  <2>1. connQueue' \in Seq(ConnCommand) /\ Len(connQueue') <= MaxConnQueue
    BY <1>7, <1>a, ConnBoundsAssumption DEF ConnTypeOK, ConnCommand, TakeDisconnect, TakeConn
  <2> QED
    BY <1>7, <1>a, <2>1 DEF ConnTypeOK, TakeDisconnect
<1>8. ASSUME NEW c \in Conns, DialUp(c) PROVE ConnTypeOK'
  BY <1>8, <1>a DEF DialUp, ConnTypeOK, PumpGoes, ConnCommand
<1>9. ASSUME NEW c \in Conns, DialDown(c) PROVE ConnTypeOK'
  BY <1>9, <1>a DEF DialDown, ConnTypeOK, PumpGoes, TellConn, ConnCommand
<1>10. ASSUME NEW c \in Conns, AcceptConn(c) PROVE ConnTypeOK'
  BY <1>10, <1>a DEF AcceptConn, ConnTypeOK, PumpGoes, ConnCommand
<1>11. ASSUME NEW c \in Conns, PumpList(c) PROVE ConnTypeOK'
  BY <1>11, <1>a DEF PumpList, ConnTypeOK, PumpGoes, ConnCommand
<1>12. ASSUME NEW c \in Conns, PumpTable(c) PROVE ConnTypeOK'
  BY <1>12, <1>a DEF PumpTable, ConnTypeOK, ConnInv, ConnPlace, PumpGoes, ConnCommand
<1>13. ASSUME NEW c \in Conns, PumpConnected(c) PROVE ConnTypeOK'
  BY <1>13, <1>a DEF PumpConnected, ConnTypeOK, PumpGoes, TellConn, ConnCommand
<1>14. ASSUME NEW c \in Conns, PumpRead(c) PROVE ConnTypeOK'
  BY <1>14, <1>a DEF PumpRead, ConnTypeOK, TellConn, ConnCommand
<1>15. ASSUME NEW c \in Conns, PumpBreaks(c) PROVE ConnTypeOK'
  BY <1>15, <1>a DEF PumpBreaks, ConnTypeOK, PumpGoes, ConnCommand
<1>16. ASSUME NEW c \in Conns, PumpUntable(c) PROVE ConnTypeOK'
  BY <1>16, <1>a DEF PumpUntable, ConnTypeOK, PumpGoes, ConnCommand
<1>17. ASSUME NEW c \in Conns, PumpUnlist(c) PROVE ConnTypeOK'
  BY <1>17, <1>a DEF PumpUnlist, ConnTypeOK, ConnInv, ConnPlace, PumpGoes, ConnCommand
<1>18. ASSUME NEW c \in Conns, PumpOver(c) PROVE ConnTypeOK'
  BY <1>18, <1>a DEF PumpOver, ConnTypeOK, PumpGoes, TellConn, ConnCommand
<1>19. ASSUME NEW c \in Conns, RemoteSends(c) PROVE ConnTypeOK'
  BY <1>19, <1>a DEF RemoteSends, ConnTypeOK, ConnCommand
<1>20. ASSUME NEW c \in Conns, RemoteCloses(c) PROVE ConnTypeOK'
  BY <1>20, <1>a DEF RemoteCloses, ConnTypeOK, ConnCommand
<1>21. CASE UNCHANGED connVars
  BY <1>21, <1>a DEF connVars, ConnTypeOK, ConnCommand
<1> QED
  BY <1>1, <1>2, <1>3, <1>4, <1>5, <1>6, <1>7, <1>8, <1>9, <1>10, <1>11, <1>12, <1>13, <1>14, <1>15,
     <1>16, <1>17, <1>18, <1>19, <1>20, <1>21
     DEF ConnNext, PumpStep

LEMMA ConnPlaceStep ==
  ASSUME ConnInv, [ConnNext]_connVars
  PROVE  \A d \in Conns : ConnPlace(d)'
<1>a. ConnTypeOK /\ \A d \in Conns : ConnPlace(d)
  BY DEF ConnInv
<1>1. ASSUME NEW r \in Remotes, RefuseRemote(r) PROVE \A d \in Conns : ConnPlace(d)'
  <2>1. \A d \in Conns : \A x : Told(d, x)' <=> Told(d, x)
    BY <1>1 DEF RefuseRemote, Told
  <2> QED
    BY <1>1, <1>a, <2>1 DEF RefuseRemote, ConnPlace, ConnTypeOK
<1>2. ASSUME NEW c \in Conns, Connect(c) PROVE \A d \in Conns : ConnPlace(d)'
  <2>1. \A d \in Conns : \A x : Told(d, x)' <=> Told(d, x)
    BY <1>2 DEF Connect, Told
  <2> QED
    BY <1>2, <1>a, <2>1 DEF Connect, ConnPlace, ConnTypeOK, PumpGoes, PushConn
<1>3. ASSUME NEW c \in Conns, CallConn("send", c) PROVE \A d \in Conns : ConnPlace(d)'
  <2>1. \A d \in Conns : \A x : Told(d, x)' <=> Told(d, x)
    BY <1>3 DEF CallConn, Told
  <2> QED
    BY <1>3, <1>a, <2>1 DEF CallConn, ConnPlace, ConnTypeOK, PushConn
<1>4. ASSUME NEW c \in Conns, CallConn("disconnect", c) PROVE \A d \in Conns : ConnPlace(d)'
  <2>1. \A d \in Conns : \A x : Told(d, x)' <=> Told(d, x)
    BY <1>4 DEF CallConn, Told
  <2> QED
    BY <1>4, <1>a, <2>1 DEF CallConn, ConnPlace, ConnTypeOK, PushConn
<1>5. ASSUME NEW c \in Conns, TakeConnect(c) PROVE \A d \in Conns : ConnPlace(d)'
  <2>1. \A d \in Conns : \A x : Told(d, x)' <=> Told(d, x)
    BY <1>5 DEF TakeConnect, Told
  <2> QED
    BY <1>5, <1>a, <2>1 DEF TakeConnect, ConnPlace, ConnTypeOK, PumpGoes
<1>6. ASSUME NEW c \in Conns, TakeSend(c) PROVE \A d \in Conns : ConnPlace(d)'
  <2>1. \A d \in Conns : \A x : Told(d, x)' <=> Told(d, x)
    BY <1>6 DEF TakeSend, Told
  <2> QED
    BY <1>6, <1>a, <2>1 DEF TakeSend, ConnPlace, ConnTypeOK
<1>7. ASSUME NEW c \in Conns, TakeDisconnect(c) PROVE \A d \in Conns : ConnPlace(d)'
  <2>1. \A d \in Conns : \A x : Told(d, x)' <=> Told(d, x)
    BY <1>7 DEF TakeDisconnect, Told
  <2> QED
    BY <1>7, <1>a, <2>1 DEF TakeDisconnect, ConnPlace, ConnTypeOK
<1>8. ASSUME NEW c \in Conns, DialUp(c) PROVE \A d \in Conns : ConnPlace(d)'
  <2>1. \A d \in Conns : \A x : Told(d, x)' <=> Told(d, x)
    BY <1>8 DEF DialUp, Told
  <2> QED
    BY <1>8, <1>a, <2>1 DEF DialUp, ConnPlace, ConnTypeOK, PumpGoes
<1>9. ASSUME NEW c \in Conns, DialDown(c) PROVE \A d \in Conns : ConnPlace(d)'
  <2>1. \A d \in Conns : \A x : (\E i \in DOMAIN connTold'[d] : connTold'[d][i] = x)
                              <=> Told(d, x) \/ (d = c /\ x = "Disconnected")
    BY <1>9, <1>a, Tells DEF DialDown
  <2>2. \A d \in Conns : \A x : Told(d, x)' <=> Told(d, x) \/ (d = c /\ x = "Disconnected")
    BY <2>1 DEF Told
  <2> QED
    BY <1>9, <1>a, <2>2 DEF DialDown, ConnPlace, ConnTypeOK, PumpGoes
<1>10. ASSUME NEW c \in Conns, AcceptConn(c) PROVE \A d \in Conns : ConnPlace(d)'
  <2>1. \A d \in Conns : \A x : Told(d, x)' <=> Told(d, x)
    BY <1>10 DEF AcceptConn, Told
  <2> QED
    BY <1>10, <1>a, <2>1 DEF AcceptConn, ConnPlace, ConnTypeOK, PumpGoes
<1>11. ASSUME NEW c \in Conns, PumpList(c) PROVE \A d \in Conns : ConnPlace(d)'
  <2>1. \A d \in Conns : \A x : Told(d, x)' <=> Told(d, x)
    BY <1>11 DEF PumpList, Told
  <2> QED
    BY <1>11, <1>a, <2>1 DEF PumpList, ConnPlace, ConnTypeOK, PumpGoes
<1>12. ASSUME NEW c \in Conns, PumpTable(c) PROVE \A d \in Conns : ConnPlace(d)'
  <2>1. \A d \in Conns : \A x : Told(d, x)' <=> Told(d, x)
    BY <1>12 DEF PumpTable, Told
  <2> QED
    BY <1>12, <1>a, <2>1 DEF PumpTable, ConnPlace, ConnTypeOK, PumpGoes
<1>13. ASSUME NEW c \in Conns, PumpConnected(c) PROVE \A d \in Conns : ConnPlace(d)'
  <2>1. \A d \in Conns : \A x : (\E i \in DOMAIN connTold'[d] : connTold'[d][i] = x)
                              <=> Told(d, x) \/ (d = c /\ x = "Connected")
    BY <1>13, <1>a, Tells DEF PumpConnected
  <2>2. \A d \in Conns : \A x : Told(d, x)' <=> Told(d, x) \/ (d = c /\ x = "Connected")
    BY <2>1 DEF Told
  <2> QED
    BY <1>13, <1>a, <2>2 DEF PumpConnected, ConnPlace, ConnTypeOK, PumpGoes
<1>14. ASSUME NEW c \in Conns, PumpRead(c) PROVE \A d \in Conns : ConnPlace(d)'
  <2>1. \A d \in Conns : \A x : (\E i \in DOMAIN connTold'[d] : connTold'[d][i] = x)
                              <=> Told(d, x) \/ (d = c /\ x = "Direct")
    BY <1>14, <1>a, Tells DEF PumpRead
  <2>2. \A d \in Conns : \A x : Told(d, x)' <=> Told(d, x) \/ (d = c /\ x = "Direct")
    BY <2>1 DEF Told
  <2> QED
    BY <1>14, <1>a, <2>2 DEF PumpRead, ConnPlace, ConnTypeOK
<1>15. ASSUME NEW c \in Conns, PumpBreaks(c) PROVE \A d \in Conns : ConnPlace(d)'
  <2>1. \A d \in Conns : \A x : Told(d, x)' <=> Told(d, x)
    BY <1>15 DEF PumpBreaks, Told
  <2> QED
    BY <1>15, <1>a, <2>1 DEF PumpBreaks, ConnPlace, ConnTypeOK, PumpGoes
<1>16. ASSUME NEW c \in Conns, PumpUntable(c) PROVE \A d \in Conns : ConnPlace(d)'
  <2>1. \A d \in Conns : \A x : Told(d, x)' <=> Told(d, x)
    BY <1>16 DEF PumpUntable, Told
  <2> QED
    BY <1>16, <1>a, <2>1 DEF PumpUntable, ConnPlace, ConnTypeOK, PumpGoes
<1>17. ASSUME NEW c \in Conns, PumpUnlist(c) PROVE \A d \in Conns : ConnPlace(d)'
  <2>1. \A d \in Conns : \A x : Told(d, x)' <=> Told(d, x)
    BY <1>17 DEF PumpUnlist, Told
  <2> QED
    BY <1>17, <1>a, <2>1 DEF PumpUnlist, ConnPlace, ConnTypeOK, PumpGoes
<1>18. ASSUME NEW c \in Conns, PumpOver(c) PROVE \A d \in Conns : ConnPlace(d)'
  <2>1. \A d \in Conns : \A x : (\E i \in DOMAIN connTold'[d] : connTold'[d][i] = x)
                              <=> Told(d, x) \/ (d = c /\ x = "Disconnected")
    BY <1>18, <1>a, Tells DEF PumpOver
  <2>2. \A d \in Conns : \A x : Told(d, x)' <=> Told(d, x) \/ (d = c /\ x = "Disconnected")
    BY <2>1 DEF Told
  <2> QED
    BY <1>18, <1>a, <2>2 DEF PumpOver, ConnPlace, ConnTypeOK, PumpGoes
<1>19. ASSUME NEW c \in Conns, RemoteSends(c) PROVE \A d \in Conns : ConnPlace(d)'
  <2>1. \A d \in Conns : \A x : Told(d, x)' <=> Told(d, x)
    BY <1>19 DEF RemoteSends, Told
  <2> QED
    BY <1>19, <1>a, <2>1 DEF RemoteSends, ConnPlace, ConnTypeOK
<1>20. ASSUME NEW c \in Conns, RemoteCloses(c) PROVE \A d \in Conns : ConnPlace(d)'
  <2>1. \A d \in Conns : \A x : Told(d, x)' <=> Told(d, x)
    BY <1>20 DEF RemoteCloses, Told
  <2> QED
    BY <1>20, <1>a, <2>1 DEF RemoteCloses, ConnPlace, ConnTypeOK
<1>21. CASE UNCHANGED connVars
  BY <1>21 DEF connVars, ConnPlace, Told, ConnInv
<1> QED
  BY <1>1, <1>2, <1>3, <1>4, <1>5, <1>6, <1>7, <1>8, <1>9, <1>10, <1>11, <1>12, <1>13, <1>14, <1>15,
     <1>16, <1>17, <1>18, <1>19, <1>20, <1>21
     DEF ConnNext, PumpStep

LEMMA ConnGoneStep ==
  ASSUME ConnInv, [ConnNext]_connVars, \A d \in Conns : ConnGone(d)
  PROVE  \A d \in Conns : ConnGone(d)'
<1>a. ConnTypeOK /\ \A d \in Conns : ConnPlace(d)
  BY DEF ConnInv
<1>b. \A d \in Conns : ConnGone(d)
  OBVIOUS
<1>1. ASSUME NEW r \in Remotes, RefuseRemote(r) PROVE \A d \in Conns : ConnGone(d)'
  BY <1>1, <1>a, <1>b DEF RefuseRemote, ConnGone
<1>2. ASSUME NEW c \in Conns, Connect(c) PROVE \A d \in Conns : ConnGone(d)'
  BY <1>2, <1>a, <1>b DEF Connect, ConnGone, ConnPlace, ConnTypeOK, PumpGoes
<1>3. ASSUME NEW c \in Conns, CallConn("send", c) PROVE \A d \in Conns : ConnGone(d)'
  BY <1>3, <1>a, <1>b DEF CallConn, ConnGone, ConnPlace, ConnTypeOK
<1>4. ASSUME NEW c \in Conns, CallConn("disconnect", c) PROVE \A d \in Conns : ConnGone(d)'
  BY <1>4, <1>a, <1>b DEF CallConn, ConnGone, ConnPlace, ConnTypeOK
<1>5. ASSUME NEW c \in Conns, TakeConnect(c) PROVE \A d \in Conns : ConnGone(d)'
  BY <1>5, <1>a, <1>b DEF TakeConnect, ConnGone, ConnPlace, ConnTypeOK, PumpGoes
<1>6. ASSUME NEW c \in Conns, TakeSend(c) PROVE \A d \in Conns : ConnGone(d)'
  BY <1>6, <1>a, <1>b DEF TakeSend, ConnGone, ConnPlace, ConnTypeOK
<1>7. ASSUME NEW c \in Conns, TakeDisconnect(c) PROVE \A d \in Conns : ConnGone(d)'
  BY <1>7, <1>a, <1>b DEF TakeDisconnect, ConnGone, ConnPlace, ConnTypeOK
<1>8. ASSUME NEW c \in Conns, DialUp(c) PROVE \A d \in Conns : ConnGone(d)'
  BY <1>8, <1>a, <1>b DEF DialUp, ConnGone, ConnPlace, ConnTypeOK, PumpGoes
<1>9. ASSUME NEW c \in Conns, DialDown(c) PROVE \A d \in Conns : ConnGone(d)'
  BY <1>9, <1>a, <1>b DEF DialDown, ConnGone, ConnPlace, ConnTypeOK, PumpGoes
<1>10. ASSUME NEW c \in Conns, AcceptConn(c) PROVE \A d \in Conns : ConnGone(d)'
  BY <1>10, <1>a, <1>b DEF AcceptConn, ConnGone, ConnPlace, ConnTypeOK, PumpGoes
<1>11. ASSUME NEW c \in Conns, PumpList(c) PROVE \A d \in Conns : ConnGone(d)'
  BY <1>11, <1>a, <1>b DEF PumpList, ConnGone, ConnPlace, ConnTypeOK, PumpGoes
<1>12. ASSUME NEW c \in Conns, PumpTable(c) PROVE \A d \in Conns : ConnGone(d)'
  BY <1>12, <1>a, <1>b DEF PumpTable, ConnGone, ConnPlace, ConnTypeOK, PumpGoes
<1>13. ASSUME NEW c \in Conns, PumpConnected(c) PROVE \A d \in Conns : ConnGone(d)'
  BY <1>13, <1>a, <1>b DEF PumpConnected, ConnGone, ConnPlace, ConnTypeOK, PumpGoes
<1>14. ASSUME NEW c \in Conns, PumpRead(c) PROVE \A d \in Conns : ConnGone(d)'
  BY <1>14, <1>a, <1>b DEF PumpRead, ConnGone, ConnPlace, ConnTypeOK
<1>15. ASSUME NEW c \in Conns, PumpBreaks(c) PROVE \A d \in Conns : ConnGone(d)'
  BY <1>15, <1>a, <1>b DEF PumpBreaks, ConnGone, ConnPlace, ConnTypeOK, PumpGoes
<1>16. ASSUME NEW c \in Conns, PumpUntable(c) PROVE \A d \in Conns : ConnGone(d)'
  BY <1>16, <1>a, <1>b DEF PumpUntable, ConnGone, ConnPlace, ConnTypeOK, PumpGoes
<1>17. ASSUME NEW c \in Conns, PumpUnlist(c) PROVE \A d \in Conns : ConnGone(d)'
  BY <1>17, <1>a, <1>b DEF PumpUnlist, ConnGone, ConnPlace, ConnTypeOK, PumpGoes
<1>18. ASSUME NEW c \in Conns, PumpOver(c) PROVE \A d \in Conns : ConnGone(d)'
  BY <1>18, <1>a, <1>b DEF PumpOver, ConnGone, ConnPlace, ConnTypeOK, PumpGoes
<1>19. ASSUME NEW c \in Conns, RemoteSends(c) PROVE \A d \in Conns : ConnGone(d)'
  BY <1>19, <1>a, <1>b DEF RemoteSends, ConnGone, ConnPlace, ConnTypeOK
<1>20. ASSUME NEW c \in Conns, RemoteCloses(c) PROVE \A d \in Conns : ConnGone(d)'
  BY <1>20, <1>a, <1>b DEF RemoteCloses, ConnGone, ConnPlace, ConnTypeOK
<1>21. CASE UNCHANGED connVars
  BY <1>21 DEF connVars, ConnGone
<1> QED
  BY <1>1, <1>2, <1>3, <1>4, <1>5, <1>6, <1>7, <1>8, <1>9, <1>10, <1>11, <1>12, <1>13, <1>14, <1>15,
     <1>16, <1>17, <1>18, <1>19, <1>20, <1>21
     DEF ConnNext, PumpStep

LEMMA ConnInitInv == ConnInit => ConnInv /\ \A c \in Conns : ConnGone(c)
BY ConnBoundsAssumption DEF ConnInit, ConnInv, ConnTypeOK, ConnPlace, ConnGone, Told

(* A program that disconnects a connection it was told of gets rid of it:  *)
(* it was in the runner's table when the program heard of it, or had been  *)
(* closed, and it never comes back; and the program hears of its end only  *)
(* after both tables have forgotten it (pump_connection, Cmd::Disconnect), *)
(* for any connections, nodes and queues.                                  *)
THEOREM DisconnectsHeeded == ConnSpec => []DisconnectHeeded
<1> DEFINE Inv == ConnInv /\ \A c \in Conns : ConnGone(c)
<1>1. ConnInit => Inv
  BY ConnInitInv
<1>2. Inv /\ [ConnNext]_connVars => Inv'
  BY ConnTypeStep, ConnPlaceStep, ConnGoneStep DEF ConnInv
<1>3. Inv => DisconnectHeeded
  BY DEF ConnInv, ConnPlace, ConnGone, DisconnectHeeded
<1> QED
  BY <1>1, <1>2, <1>3, PTL DEF ConnSpec

-----------------------------------------------------------------------------
(* Letters to the author and back.                                         *)

(* A letter that is not on the reader's disk has left no trace; one that   *)
(* is, is shown once, or about to be shown at one place; and who was told  *)
(* a verdict has given up waiting for it.                                  *)
LetterPlace(l) ==
    /\ l \notin taken =>
          /\ displayed[l] = 0 /\ session[l] \notin {"show", "answer"} /\ l \notin showing
          /\ l \notin confirms /\ "ack" \notin onWay[l]
          /\ l \notin marked /\ "delivered" \notin verdicts[l]
    /\ displayed[l] <= 1
    /\ displayed[l] = 1 => session[l] # "show" /\ l \notin showing
    /\ session[l] = "show" => l \notin showing
    /\ verdicts[l] # {} => sender[l] = "over"
    /\ verdicts[l] # {"delivered", "failed"}

LetterInv == SupportTypeOK /\ \A l \in Letters : LetterPlace(l)

LEMMA LetterInitInv == SupportInit => LetterInv
BY LetterBoundsAssumption DEF SupportInit, LetterInv, SupportTypeOK, LetterPlace

LEMMA LetterTypeStep ==
  ASSUME SupportTypeOK, [SupportNext]_letterVars
  PROVE  SupportTypeOK'
<1>1. CASE SetContacts
  BY <1>1, LetterBoundsAssumption DEF SetContacts, SupportTypeOK, linkedVars
<1>2. ASSUME NEW n \in Parties, ListChanges(n) PROVE SupportTypeOK'
  BY <1>2, LetterBoundsAssumption DEF ListChanges, SupportTypeOK, linkedVars
<1>3. ASSUME NEW n \in Parties, PartyDies(n) PROVE SupportTypeOK'
  BY <1>3, LetterBoundsAssumption
     DEF PartyDies, SupportTypeOK, switchVars, readerVars, writerVars, Mishap
<1>4. CASE LinkLost
  BY <1>4, LetterBoundsAssumption DEF LinkLost, SupportTypeOK, switchVars, readerVars, writerVars
<1>5. ASSUME NEW l \in Letters, Write(l) PROVE SupportTypeOK'
  BY <1>5, LetterBoundsAssumption
     DEF Write, SupportTypeOK, switchVars, readerVars, writerVars, linkedVars, SenderGoes
<1>6. ASSUME NEW l \in Letters, KeepCopy(l) PROVE SupportTypeOK'
  BY <1>6, LetterBoundsAssumption
     DEF KeepCopy, SupportTypeOK, switchVars, readerVars, linkedVars, SenderGoes, Mishap
<1>7. ASSUME NEW l \in Letters, DialReader(l) PROVE SupportTypeOK'
  BY <1>7, LetterBoundsAssumption
     DEF DialReader, SupportTypeOK, switchVars, readerVars, writerVars, linkedVars, SenderGoes
<1>8. ASSUME NEW l \in Letters, SendLetter(l) PROVE SupportTypeOK'
  BY <1>8, LetterBoundsAssumption
     DEF SendLetter, SupportTypeOK, switchVars, readerVars, writerVars, linkedVars, SenderGoes
<1>9. ASSUME NEW l \in Letters, Fails(l) PROVE SupportTypeOK'
  BY <1>9, LetterBoundsAssumption
     DEF Fails, SupportTypeOK, switchVars, readerVars, linkedVars, Mishap, Verdict
<1>10. ASSUME NEW l \in Letters, AckRead(l) PROVE SupportTypeOK'
  BY <1>10, LetterBoundsAssumption
     DEF AckRead, SupportTypeOK, switchVars, readerVars, linkedVars, SenderGoes, Verdict
<1>11. ASSUME NEW l \in Letters, ReadLetter(l) PROVE SupportTypeOK'
  BY <1>11, LetterBoundsAssumption
     DEF ReadLetter, SupportTypeOK, switchVars, writerVars, linkedVars, SessionGoes, MessageIn
<1>12. ASSUME NEW l \in Letters, ShowLetter(l) PROVE SupportTypeOK'
  BY <1>12, LetterBoundsAssumption
     DEF ShowLetter, SupportTypeOK, switchVars, writerVars, linkedVars, SessionGoes
<1>13. ASSUME NEW l \in Letters, AnswerLetter(l) PROVE SupportTypeOK'
  BY <1>13, LetterBoundsAssumption
     DEF AnswerLetter, SupportTypeOK, switchVars, readerVars, writerVars, linkedVars, SessionGoes
<1>14. ASSUME NEW l \in Letters, NoRow(l) PROVE SupportTypeOK'
  BY <1>14, LetterBoundsAssumption
     DEF NoRow, SupportTypeOK, switchVars, readerVars, writerVars, linkedVars, SessionGoes, Mishap
<1>15. ASSUME NEW l \in Letters, SessionEnds(l) PROVE SupportTypeOK'
  BY <1>15, LetterBoundsAssumption
     DEF SessionEnds, SupportTypeOK, switchVars, readerVars, writerVars, linkedVars, SessionGoes,
         Mishap
<1>16. ASSUME NEW l \in Letters, FlushText(l) PROVE SupportTypeOK'
  BY <1>16, LetterBoundsAssumption DEF FlushText, SupportTypeOK, switchVars, readerVars, writerVars
<1>17. ASSUME NEW l \in Letters, ReadText(l) PROVE SupportTypeOK'
  BY <1>17, LetterBoundsAssumption DEF ReadText, SupportTypeOK, switchVars, writerVars, MessageIn
<1>18. ASSUME NEW l \in Letters, ShowText(l) PROVE SupportTypeOK'
  BY <1>18, LetterBoundsAssumption DEF ShowText, SupportTypeOK, switchVars, writerVars
<1>19. ASSUME NEW l \in Letters, ReadConfirm(l) PROVE SupportTypeOK'
  BY <1>19, LetterBoundsAssumption DEF ReadConfirm, SupportTypeOK, switchVars, readerVars
<1>20. CASE UNCHANGED letterVars
  BY <1>20, LetterBoundsAssumption DEF letterVars, SupportTypeOK
<1> QED
  BY <1>1, <1>2, <1>3, <1>4, <1>5, <1>6, <1>7, <1>8, <1>9, <1>10, <1>11, <1>12, <1>13, <1>14, <1>15,
     <1>16, <1>17, <1>18, <1>19, <1>20
     DEF SupportNext, WriterStep, ReaderStep, LinkedStep

LEMMA LetterPlaceStep ==
  ASSUME LetterInv, [SupportNext]_letterVars
  PROVE  \A m \in Letters : LetterPlace(m)'
<1>a. SupportTypeOK /\ \A m \in Letters : LetterPlace(m)
  BY DEF LetterInv
<1>1. CASE SetContacts
  BY <1>1, <1>a DEF SetContacts, SupportTypeOK, LetterPlace, linkedVars
<1>2. ASSUME NEW n \in Parties, ListChanges(n) PROVE \A m \in Letters : LetterPlace(m)'
  BY <1>2, <1>a DEF ListChanges, SupportTypeOK, LetterPlace, linkedVars
<1>3. ASSUME NEW n \in Parties, PartyDies(n) PROVE \A m \in Letters : LetterPlace(m)'
  BY <1>3, <1>a
     DEF PartyDies, SupportTypeOK, LetterPlace, switchVars, readerVars, writerVars, Mishap
<1>4. CASE LinkLost
  BY <1>4, <1>a DEF LinkLost, SupportTypeOK, LetterPlace, switchVars, readerVars, writerVars
<1>5. ASSUME NEW l \in Letters, Write(l) PROVE \A m \in Letters : LetterPlace(m)'
  BY <1>5, <1>a
     DEF Write, SupportTypeOK, LetterPlace, switchVars, readerVars, writerVars, linkedVars,
         SenderGoes
<1>6. ASSUME NEW l \in Letters, KeepCopy(l) PROVE \A m \in Letters : LetterPlace(m)'
  BY <1>6, <1>a
     DEF KeepCopy, SupportTypeOK, LetterPlace, switchVars, readerVars, linkedVars, SenderGoes,
         Mishap
<1>7. ASSUME NEW l \in Letters, DialReader(l) PROVE \A m \in Letters : LetterPlace(m)'
  BY <1>7, <1>a
     DEF DialReader, SupportTypeOK, LetterPlace, switchVars, readerVars, writerVars, linkedVars,
         SenderGoes
<1>8. ASSUME NEW l \in Letters, SendLetter(l) PROVE \A m \in Letters : LetterPlace(m)'
  BY <1>8, <1>a
     DEF SendLetter, SupportTypeOK, LetterPlace, switchVars, readerVars, writerVars, linkedVars,
         SenderGoes
<1>9. ASSUME NEW l \in Letters, Fails(l) PROVE \A m \in Letters : LetterPlace(m)'
  BY <1>9, <1>a
     DEF Fails, SupportTypeOK, LetterPlace, switchVars, readerVars, linkedVars, Mishap, Verdict
<1>10. ASSUME NEW l \in Letters, AckRead(l) PROVE \A m \in Letters : LetterPlace(m)'
  BY <1>10, <1>a
     DEF AckRead, SupportTypeOK, LetterPlace, switchVars, readerVars, linkedVars, SenderGoes,
         Verdict
<1>11. ASSUME NEW l \in Letters, ReadLetter(l) PROVE \A m \in Letters : LetterPlace(m)'
  BY <1>11, <1>a
     DEF ReadLetter, SupportTypeOK, LetterPlace, switchVars, writerVars, linkedVars, SessionGoes,
         MessageIn
<1>12. ASSUME NEW l \in Letters, ShowLetter(l) PROVE \A m \in Letters : LetterPlace(m)'
  BY <1>12, <1>a
     DEF ShowLetter, SupportTypeOK, LetterPlace, switchVars, writerVars, linkedVars, SessionGoes
<1>13. ASSUME NEW l \in Letters, AnswerLetter(l) PROVE \A m \in Letters : LetterPlace(m)'
  BY <1>13, <1>a
     DEF AnswerLetter, SupportTypeOK, LetterPlace, switchVars, readerVars, writerVars, linkedVars,
         SessionGoes
<1>14. ASSUME NEW l \in Letters, NoRow(l) PROVE \A m \in Letters : LetterPlace(m)'
  BY <1>14, <1>a
     DEF NoRow, SupportTypeOK, LetterPlace, switchVars, readerVars, writerVars, linkedVars,
         SessionGoes, Mishap
<1>15. ASSUME NEW l \in Letters, SessionEnds(l) PROVE \A m \in Letters : LetterPlace(m)'
  BY <1>15, <1>a
     DEF SessionEnds, SupportTypeOK, LetterPlace, switchVars, readerVars, writerVars, linkedVars,
         SessionGoes, Mishap
<1>16. ASSUME NEW l \in Letters, FlushText(l) PROVE \A m \in Letters : LetterPlace(m)'
  BY <1>16, <1>a DEF FlushText, SupportTypeOK, LetterPlace, switchVars, readerVars, writerVars
<1>17. ASSUME NEW l \in Letters, ReadText(l) PROVE \A m \in Letters : LetterPlace(m)'
  BY <1>17, <1>a DEF ReadText, SupportTypeOK, LetterPlace, switchVars, writerVars, MessageIn
<1>18. ASSUME NEW l \in Letters, ShowText(l) PROVE \A m \in Letters : LetterPlace(m)'
  BY <1>18, <1>a DEF ShowText, SupportTypeOK, LetterPlace, switchVars, writerVars
<1>19. ASSUME NEW l \in Letters, ReadConfirm(l) PROVE \A m \in Letters : LetterPlace(m)'
  BY <1>19, <1>a DEF ReadConfirm, SupportTypeOK, LetterPlace, switchVars, readerVars
<1>20. CASE UNCHANGED letterVars
  BY <1>20, <1>a DEF letterVars, LetterPlace
<1> QED
  BY <1>1, <1>2, <1>3, <1>4, <1>5, <1>6, <1>7, <1>8, <1>9, <1>10, <1>11, <1>12, <1>13, <1>14, <1>15,
     <1>16, <1>17, <1>18, <1>19, <1>20
     DEF SupportNext, WriterStep, ReaderStep, LinkedStep

(* What either program is told of a letter is so, and said once: the       *)
(* reader's shows it once, whether it came as a letter, as a text or as    *)
(* both, and the writer's is told one verdict, and "delivered" only when   *)
(* the letter is on the reader's disk (send_support, support_frame), for   *)
(* any letters and replies, whatever is lost, refused or dies.             *)
THEOREM LettersToldTruly == SupportSpec => []LettersTrue
<1>1. LetterInv /\ [SupportNext]_letterVars => LetterInv'
  BY LetterTypeStep, LetterPlaceStep DEF LetterInv
<1>2. LetterInv => LettersTrue
  BY DEF LetterInv, LetterPlace, LettersTrue, LetterOnce, VerdictTrue
<1> QED
  BY LetterInitInv, <1>1, <1>2, PTL DEF SupportSpec

-----------------------------------------------------------------------------
(* The parts side by side: what one does is a step of it, and the others   *)
(* stand still.                                                            *)
THEOREM DeliveryParts == DeliverySpec => Spec /\ RoomSpec /\ ConnSpec /\ SupportSpec
<1>1. DeliveryInit => Init /\ RoomInit /\ ConnInit /\ SupportInit
  BY DEF DeliveryInit
<1>2. ASSUME [DeliveryNext]_<<part, vars, roomVars, connVars, letterVars>>
      PROVE  [Next]_vars /\ [RoomNext]_roomVars /\ [ConnNext]_connVars /\ [SupportNext]_letterVars
  <2>1. CASE UNCHANGED <<part, vars, roomVars, connVars, letterVars>>
    BY <2>1
  <2>2. CASE DeliveryNext
    BY <2>2 DEF DeliveryNext, OthersRest
  <2> QED
    BY <1>2, <2>1, <2>2
<1> QED
  BY <1>1, <1>2, PTL DEF DeliverySpec, Spec, RoomSpec, ConnSpec, SupportSpec

(* The tables of rooms and tasks, the queue of the runner and the reports  *)
(* of gossip keep their types, whatever leaves, dies or restarts...        *)
THEOREM RoomTypes == RoomSpec => []RoomsTypeOK
BY TypesInit, TypesStep, PTL DEF RoomSpec

(* ...so do the connections, their queue no longer than its bound...       *)
THEOREM ConnectionTypes == ConnSpec => []ConnTypeOK
<1>1. ConnInv /\ [ConnNext]_connVars => ConnInv'
  BY ConnTypeStep, ConnPlaceStep DEF ConnInv
<1>2. ConnInv => ConnTypeOK
  BY DEF ConnInv
<1> QED
  BY ConnInitInv, <1>1, <1>2, PTL DEF ConnSpec

(* ...the letters...                                                       *)
THEOREM LetterTypes == SupportSpec => []SupportTypeOK
<1>1. SupportInit => SupportTypeOK
  BY LetterInitInv DEF LetterInv
<1> QED
  BY <1>1, LetterTypeStep, PTL DEF SupportSpec

(* ...and, with the events, all of them side by side.                      *)
THEOREM DeliveryTypes == DeliverySpec => []DeliveryTypeOK
<1>1. TypeOK /\ RoomsTypeOK /\ ConnTypeOK /\ SupportTypeOK => DeliveryTypeOK
  BY DEF DeliveryTypeOK
<1> QED
  BY <1>1, DeliveryParts, DeliverySafe, RoomTypes, ConnectionTypes, LetterTypes, PTL

(* All that is promised of the parts holds of them side by side: what no   *)
(* state breaks...                                                         *)
THEOREM DeliveryKeepsPromises ==
    DeliverySpec => [](/\ QueuesAgree /\ NothingUnwanted
                       /\ SealingKept /\ TablesFollowRooms /\ PresenceReaches
                       /\ DisconnectHeeded /\ LettersTrue)
BY DeliveryParts, QueuesAlwaysAgree, NothingUnwantedPending, SealedAlike, TablesAgree,
   NewestPresenceSent, DisconnectsHeeded, LettersToldTruly, PTL

(* ...and what no step does: events are lost from the old end, and pending *)
(* acknowledgements not at all.                                            *)
THEOREM DeliveryLosesOldest == DeliverySpec => LosesOldestOnly
BY DeliveryParts, OldestGoesFirst
=============================================================================
