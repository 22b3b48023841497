-------------------------------- MODULE Rooms --------------------------------
(***************************************************************************)
(* The rooms of a node (Node::join, room_leave, presence_set; room_join,   *)
(* its task, room_leave and RoomBroadcast of the runner in node.rs;        *)
(* sealed_room.rs).                                                        *)
(*                                                                         *)
(* A room is known to several tables with locks of their own: the rooms,   *)
(* the handles whose records are delivered, the runner's senders and tasks,*)
(* presences, remote file offers, and in the store a marker for every      *)
(* topic that was ever sealed.  The program's threads change some of them  *)
(* at once and leave the rest to the runner's queue; a task for every room *)
(* follows what gossip reports, and may finish a step after it is aborted. *)
(* History, files and author channels have modules of their own.           *)
(***************************************************************************)
EXTENDS Integers, Sequences

CONSTANTS
    RoomHandles,   \* given out once
    Topics,
    RoomKeys,      \* keys of sealed rooms
    Plain,         \* no key: a plain room, a topic without a marker
    Neighbors,     \* nodes gossip may report
    MaxPresence,   \* bound on the presences set, 0 is none
    MaxRoomQueue,  \* bound on the runner's queue
    MaxReports     \* bound on reports of gossip a task has not taken

ASSUME PlainAssumption == Plain \notin RoomKeys
ASSUME TopicsAssumption == Topics # {}
ASSUME RoomBoundsAssumption == MaxPresence \in Nat /\ MaxRoomQueue \in Nat /\ MaxReports \in Nat

VARIABLES
    roomQueue,   \* commands for the runner
    runner,      \* what the runner is in the middle of, and for which room
    entry,       \* Shared::rooms: "none", "made" (a handle, no entry), "listed", "gone"; topic and key
    calling,     \* join calls between the entry and the queue
    deliverable, \* Delivery: handles whose records are kept
    senders,     \* Runner::senders
    task,        \* Runner::tasks: "none", "on", "aborted" (its current step may end)
    doing,       \* what the task of a room is in the middle of
    reports,     \* gossip events the task has not taken
    near,        \* gossip's neighbours
    peers,       \* RoomState::peers
    presence,    \* Runner::presence
    reached,     \* the presence a neighbour was sent last
    fileOffers,      \* Shared::blobs: offers of a room's peers
    refused,     \* Shared::blocked
    marker,      \* the store: sealed-room markers
    left,        \* RoomLeft was told
    late,        \* history: rooms with an offer told after that
    unsubscribed,\* history: rooms gossip did not subscribe
    missed       \* history: rooms where a neighbour came while blocked, or a presence while it was greeted

roomVars == <<roomQueue, runner, entry, calling, deliverable, senders, task, doing, reports, near,
              peers, presence, reached, fileOffers, refused, marker, left, late, unsubscribed, missed>>
tables == <<entry, calling, deliverable, senders>>
seenOfGossip == <<doing, reports, near, peers, reached, fileOffers, late>>

NoRoomEntry == [pc |-> "none", topic |-> CHOOSE t \in Topics : TRUE, key |-> Plain]
RoomGone == [NoRoomEntry EXCEPT !.pc = "gone"]
AtRest == [pc |-> "idle", version |-> 0]
RunnerIdle == [pc |-> "idle"]

RoomInit ==
    /\ roomQueue = <<>> /\ runner = RunnerIdle
    /\ entry = [h \in RoomHandles |-> NoRoomEntry]
    /\ calling = {} /\ deliverable = {} /\ senders = {}
    /\ task = [h \in RoomHandles |-> "none"] /\ doing = [h \in RoomHandles |-> AtRest]
    /\ reports = [h \in RoomHandles |-> <<>>]
    /\ near = [h \in RoomHandles |-> {}] /\ peers = [h \in RoomHandles |-> {}]
    /\ presence = [h \in RoomHandles |-> 0]
    /\ reached = [h \in RoomHandles |-> [n \in Neighbors |-> 0]]
    /\ fileOffers = [h \in RoomHandles |-> {}]
    /\ refused = {} /\ left = {} /\ late = {} /\ unsubscribed = {} /\ missed = {}
    /\ marker = [t \in Topics |-> Plain]

Live(h) == entry[h].pc = "listed"
PushRoom(op, h, v) ==
    /\ Len(roomQueue) < MaxRoomQueue
    /\ roomQueue' = Append(roomQueue, [op |-> op, room |-> h, version |-> v])
TakeFor(op, h) ==
    /\ runner.pc = "idle" /\ roomQueue # <<>>
    /\ Head(roomQueue).op = op /\ Head(roomQueue).room = h
    /\ roomQueue' = Tail(roomQueue)
RunnerAt(pc, h) == runner.pc = pc /\ runner.room = h
RunnerGoes(pc, h) == runner' = [pc |-> pc, room |-> h]

-----------------------------------------------------------------------------
(* The program's threads                                                   *)

(* Node::join: a handle, whose records may be delivered from now on...     *)
JoinRegister(h) ==
    /\ entry[h].pc = "none"
    /\ entry' = [entry EXCEPT ![h].pc = "made"]
    /\ deliverable' = deliverable \cup {h}
    /\ UNCHANGED <<roomQueue, runner, calling, senders, task, presence, refused, marker, left, unsubscribed, missed>>
    /\ UNCHANGED seenOfGossip

(* Mutation: only another key is a mismatch, a plain room is none.         *)
MismatchOfKeys(t, k) ==
    \E g \in RoomHandles : Live(g) /\ entry[g].topic = t /\ Plain \notin {k, entry[g].key} /\ entry[g].key # k

(* Node::join, the rooms of a topic are all plain or all have one key.     *)
Mismatch(t, k) == \E g \in RoomHandles : Live(g) /\ entry[g].topic = t /\ entry[g].key # k

(* ...an entry, if the topic's other rooms are sealed alike...             *)
JoinEnter(h, t, k) ==
    /\ entry[h].pc = "made"
    /\ IF Mismatch(t, k)
       THEN /\ entry' = [entry EXCEPT ![h] = RoomGone]
            /\ deliverable' = deliverable \ {h}
            /\ UNCHANGED calling
       ELSE /\ entry' = [entry EXCEPT ![h] = [pc |-> "listed", topic |-> t, key |-> k]]
            /\ calling' = calling \cup {h}
            /\ UNCHANGED deliverable
    /\ UNCHANGED <<roomQueue, runner, senders, task, presence, refused, marker, left, unsubscribed, missed>>
    /\ UNCHANGED seenOfGossip

(* ...and a command, or none when the node is closing.                     *)
JoinPush(h) ==
    /\ h \in calling
    /\ calling' = calling \ {h}
    /\ PushRoom("join", h, 0)
    /\ UNCHANGED <<runner, entry, deliverable, senders, task, presence, refused, marker, left, unsubscribed, missed>>
    /\ UNCHANGED seenOfGossip

JoinClosed(h) ==
    /\ h \in calling
    /\ calling' = calling \ {h}
    /\ entry' = [entry EXCEPT ![h] = RoomGone]
    /\ deliverable' = deliverable \ {h}
    /\ UNCHANGED <<roomQueue, runner, senders, task, presence, refused, marker, left, unsubscribed, missed>>
    /\ UNCHANGED seenOfGossip

(* Node::room_leave; it may be called again before the runner gets to it.  *)
LeaveRoom(h) ==
    /\ Live(h) /\ h \notin calling
    /\ PushRoom("leave", h, 0)
    /\ UNCHANGED <<runner, task, presence, refused, marker, left, unsubscribed, missed>> /\ UNCHANGED tables
    /\ UNCHANGED seenOfGossip

Missed(h) == IF doing[h].pc = "greet" THEN missed \cup {h} ELSE missed

(* Mutation: the broadcast is queued before the presence is remembered.    *)
PresenceSetLate(h) ==
    \/ /\ Live(h) /\ h \notin calling /\ presence[h] < MaxPresence
       /\ ~\E i \in DOMAIN roomQueue : roomQueue[i].op = "presence" /\ roomQueue[i].room = h
       /\ PushRoom("presence", h, presence[h] + 1)
       /\ UNCHANGED <<runner, task, presence, refused, marker, left, unsubscribed, missed>> /\ UNCHANGED tables
       /\ UNCHANGED seenOfGossip
    \/ /\ Live(h) /\ presence[h] < MaxPresence
       /\ \E n \in near[h] : reached[h][n] > presence[h]
       /\ presence' = [presence EXCEPT ![h] = @ + 1]
       /\ missed' = Missed(h)
       /\ UNCHANGED <<roomQueue, runner, task, refused, marker, left, unsubscribed>> /\ UNCHANGED tables
       /\ UNCHANGED seenOfGossip

(* Node::presence_set: remembered for those who come, and broadcast to     *)
(* those who are here.                                                     *)
PresenceSet(h) ==
    /\ Live(h) /\ h \notin calling
    /\ presence[h] < MaxPresence
    /\ presence' = [presence EXCEPT ![h] = @ + 1]
    /\ PushRoom("presence", h, presence[h] + 1)
    /\ missed' = Missed(h)
    /\ UNCHANGED <<runner, task, refused, marker, left, unsubscribed>> /\ UNCHANGED tables
    /\ UNCHANGED seenOfGossip

(* Node::block and unblock, as far as rooms know of them; with a block go  *)
(* the offers of the peer.                                                 *)
RefuseNeighbor(n) ==
    /\ IF n \in refused
       THEN refused' = refused \ {n} /\ UNCHANGED fileOffers
       ELSE /\ refused' = refused \cup {n}
            /\ fileOffers' = [h \in RoomHandles |-> fileOffers[h] \ {n}]
    /\ UNCHANGED <<roomQueue, runner, task, presence, marker, left, unsubscribed, missed>> /\ UNCHANGED tables
    /\ UNCHANGED <<doing, reports, near, peers, reached, late>>

-----------------------------------------------------------------------------
(* The runner                                                              *)

KeyOf(h) == IF Live(h) THEN entry[h].key ELSE Plain

(* Mutation: a marker stands in the way of another key only.               *)
AdmitsPlain(t, k) == k = Plain \/ marker[t] \in {Plain, k}

(* sealed_room::register: a topic that was sealed admits its key only.     *)
Admits(t, k) == marker[t] = k \/ marker[t] = Plain

(* Runner::room_join: the marker of a sealed topic is kept for good...     *)
JoinAdmit(h) ==
    /\ TakeFor("join", h)
    /\ Admits(entry[h].topic, KeyOf(h))
    /\ marker' = IF KeyOf(h) = Plain THEN marker ELSE [marker EXCEPT ![entry[h].topic] = KeyOf(h)]
    /\ RunnerGoes("subscribe", h)
    /\ UNCHANGED <<task, presence, refused, left, unsubscribed, missed>> /\ UNCHANGED tables
    /\ UNCHANGED seenOfGossip

(* ...or does not fit, or the store fails...                               *)
JoinRefused(h) ==
    /\ TakeFor("join", h)
    /\ entry' = [entry EXCEPT ![h] = RoomGone]
    /\ deliverable' = deliverable \ {h}
    /\ UNCHANGED <<runner, calling, senders, task, presence, refused, marker, left, unsubscribed, missed>>
    /\ UNCHANGED seenOfGossip

(* ...gossip subscribes, and a task follows it...                          *)
JoinSubscribed(h) ==
    /\ RunnerAt("subscribe", h)
    /\ senders' = senders \cup {h}
    /\ task' = [task EXCEPT ![h] = "on"]
    /\ runner' = RunnerIdle
    /\ UNCHANGED <<roomQueue, entry, calling, deliverable, presence, refused, marker, left, unsubscribed, missed>>
    /\ UNCHANGED seenOfGossip

(* ...or does not, and the handle is still registered.                     *)
JoinFails(h) ==
    /\ RunnerAt("subscribe", h)
    /\ entry' = [entry EXCEPT ![h] = RoomGone]
    /\ unsubscribed' = unsubscribed \cup {h}
    /\ runner' = RunnerIdle
    /\ UNCHANGED <<roomQueue, calling, deliverable, senders, task, presence, refused, marker, left, missed>>
    /\ UNCHANGED seenOfGossip

(* Runner::room_leave: no more records, no more sending, the task is told  *)
(* to end...                                                               *)
LeaveTake(h) ==
    /\ TakeFor("leave", h)
    /\ deliverable' = deliverable \ {h}
    /\ senders' = senders \ {h}
    /\ task' = [task EXCEPT ![h] = IF @ = "on" THEN "aborted" ELSE @]
    /\ RunnerGoes("remove", h)
    /\ UNCHANGED <<entry, calling, presence, refused, marker, left, unsubscribed, missed>>
    /\ UNCHANGED seenOfGossip

(* ...then the room itself...                                              *)
LeaveRemove(h) ==
    /\ RunnerAt("remove", h)
    /\ entry' = [entry EXCEPT ![h] = RoomGone]
    /\ peers' = [peers EXCEPT ![h] = {}]
    /\ RunnerGoes("sweep", h)
    /\ UNCHANGED <<roomQueue, calling, deliverable, senders, task, presence, refused, marker, left, unsubscribed, missed>>
    /\ UNCHANGED <<doing, reports, near, reached, fileOffers, late>>

(* ...what its peers offered, its presence; and the program is told.       *)
LeaveSweep(h) ==
    /\ RunnerAt("sweep", h)
    /\ fileOffers' = [fileOffers EXCEPT ![h] = {}]
    /\ presence' = [presence EXCEPT ![h] = 0]
    /\ left' = left \cup {h}
    /\ missed' = missed \ {h}
    /\ runner' = RunnerIdle
    /\ UNCHANGED <<roomQueue, task, refused, marker, unsubscribed>> /\ UNCHANGED tables
    /\ UNCHANGED <<doing, reports, near, peers, reached, late>>

(* Shared::encode_room and Sender::broadcast: all neighbours are sent it,  *)
(* unless the room is gone.                                                *)
Reach(h, v) ==
    reached' = IF Live(h) /\ v > 0 THEN [reached EXCEPT ![h] = [n \in Neighbors |-> IF n \in near[h] THEN v ELSE @[n]]]
               ELSE reached

(* Cmd::RoomBroadcast, of a presence.                                      *)
BroadcastPresence(h) ==
    /\ TakeFor("presence", h)
    /\ IF h \in senders THEN Reach(h, Head(roomQueue).version) ELSE UNCHANGED reached
    /\ UNCHANGED <<runner, task, presence, refused, marker, left, unsubscribed, missed>> /\ UNCHANGED tables
    /\ UNCHANGED <<doing, reports, near, peers, fileOffers, late>>

-----------------------------------------------------------------------------
(* The task of a room                                                      *)

DoesNext(h, pc, v) == doing' = [doing EXCEPT ![h] = [pc |-> pc, version |-> v]]

(* An aborted task ends where it next waits.                               *)
TaskEnds(h) ==
    /\ task[h] = "aborted"
    /\ task' = [task EXCEPT ![h] = "none"]
    /\ doing' = [doing EXCEPT ![h] = AtRest]
    /\ reports' = [reports EXCEPT ![h] = <<>>]
    /\ near' = [near EXCEPT ![h] = {}]
    /\ reached' = [reached EXCEPT ![h] = [n \in Neighbors |-> 0]]
    /\ UNCHANGED <<roomQueue, runner, presence, refused, marker, left, unsubscribed, missed>> /\ UNCHANGED tables
    /\ UNCHANGED <<peers, fileOffers, late>>

TakesReport(h, kind, n) ==
    /\ task[h] = "on" /\ doing[h].pc = "idle" /\ reports[h] # <<>>
    /\ Head(reports[h]) = <<kind, n>>
    /\ reports' = [reports EXCEPT ![h] = Tail(@)]

(* NeighborUp: the peer is in the room; unless it is blocked, it will be   *)
(* greeted with the presence of this moment...                             *)
NeighborUp(h, n) ==
    /\ TakesReport(h, "up", n)
    /\ peers' = IF Live(h) THEN [peers EXCEPT ![h] = @ \cup {n}] ELSE peers
    /\ IF n \in refused
       THEN missed' = missed \cup {h} /\ UNCHANGED doing
       ELSE DoesNext(h, "greet", presence[h]) /\ UNCHANGED missed
    /\ UNCHANGED <<roomQueue, runner, task, presence, refused, marker, left, unsubscribed>> /\ UNCHANGED tables
    /\ UNCHANGED <<near, reached, fileOffers, late>>

(* ...and it is, with all other neighbours.                                *)
Greet(h) ==
    /\ task[h] # "none" /\ doing[h].pc = "greet"
    /\ Reach(h, doing[h].version)
    /\ DoesNext(h, "idle", 0)
    /\ UNCHANGED <<roomQueue, runner, task, presence, refused, marker, left, unsubscribed, missed>> /\ UNCHANGED tables
    /\ UNCHANGED <<reports, near, peers, fileOffers, late>>

NeighborDown(h, n) ==
    /\ TakesReport(h, "down", n)
    /\ peers' = IF Live(h) THEN [peers EXCEPT ![h] = @ \ {n}] ELSE peers
    /\ UNCHANGED <<roomQueue, runner, task, presence, refused, marker, left, unsubscribed, missed>> /\ UNCHANGED tables
    /\ UNCHANGED <<doing, near, reached, fileOffers, late>>

(* A file is offered in the room by one who is not blocked...              *)
OfferRead(h, n) ==
    /\ task[h] = "on" /\ doing[h].pc = "idle" /\ n \in near[h]
    /\ n \notin refused
    /\ doing' = [doing EXCEPT ![h] = [pc |-> "offer", from |-> n]]
    /\ UNCHANGED <<roomQueue, runner, task, presence, refused, marker, left, unsubscribed, missed>> /\ UNCHANGED tables
    /\ UNCHANGED <<reports, near, peers, reached, fileOffers, late>>

(* Mutation: what was checked when the frame came is not checked again.    *)
AnyRoom(h, n) == TRUE

(* The room is still there and the peer still not blocked...               *)
StillAdmitted(h, n) == n \notin refused /\ Live(h)

(* ...with both locks held until the program is told of the offer.         *)
OfferAdmit(h) ==
    /\ task[h] # "none" /\ doing[h].pc = "offer"
    /\ LET n == doing[h].from
       IN  IF StillAdmitted(h, n) /\ n \notin fileOffers[h]
           THEN /\ fileOffers' = [fileOffers EXCEPT ![h] = @ \cup {n}]
                /\ late' = IF h \in left THEN late \cup {h} ELSE late
           ELSE UNCHANGED <<fileOffers, late>>
    /\ DoesNext(h, "idle", 0)
    /\ UNCHANGED <<roomQueue, runner, task, presence, refused, marker, left, unsubscribed, missed>> /\ UNCHANGED tables
    /\ UNCHANGED <<reports, near, peers, reached>>

(* A BlobUnoffer frame.                                                    *)
Unoffered(h, n) ==
    /\ task[h] = "on" /\ doing[h].pc = "idle" /\ n \in fileOffers[h] \ refused
    /\ fileOffers' = [fileOffers EXCEPT ![h] = @ \ {n}]
    /\ UNCHANGED <<roomQueue, runner, task, presence, refused, marker, left, unsubscribed, missed>> /\ UNCHANGED tables
    /\ UNCHANGED <<doing, reports, near, peers, reached, late>>

(* External: gossip finds and loses neighbours, and says so in order.      *)
GossipReports(h, n) ==
    /\ task[h] = "on" /\ Len(reports[h]) < MaxReports
    /\ IF n \in near[h]
       THEN /\ near' = [near EXCEPT ![h] = @ \ {n}]
            /\ reports' = [reports EXCEPT ![h] = Append(@, <<"down", n>>)]
       ELSE /\ near' = [near EXCEPT ![h] = @ \cup {n}]
            /\ reports' = [reports EXCEPT ![h] = Append(@, <<"up", n>>)]
    /\ reached' = [reached EXCEPT ![h][n] = 0]
    /\ UNCHANGED <<roomQueue, runner, task, presence, refused, marker, left, unsubscribed, missed>> /\ UNCHANGED tables
    /\ UNCHANGED <<doing, peers, fileOffers, late>>

(* The process dies anywhere; markers alone are kept.                      *)
RoomRestart ==
    /\ roomQueue' = <<>> /\ runner' = RunnerIdle
    /\ entry' = [h \in RoomHandles |-> NoRoomEntry]
    /\ calling' = {} /\ deliverable' = {} /\ senders' = {}
    /\ task' = [h \in RoomHandles |-> "none"] /\ doing' = [h \in RoomHandles |-> AtRest]
    /\ reports' = [h \in RoomHandles |-> <<>>]
    /\ near' = [h \in RoomHandles |-> {}] /\ peers' = [h \in RoomHandles |-> {}]
    /\ presence' = [h \in RoomHandles |-> 0]
    /\ reached' = [h \in RoomHandles |-> [n \in Neighbors |-> 0]]
    /\ fileOffers' = [h \in RoomHandles |-> {}]
    /\ left' = {} /\ late' = {} /\ unsubscribed' = {} /\ missed' = {}
    /\ UNCHANGED <<marker, refused>>

RunnerStep(h) ==
    \/ JoinAdmit(h) \/ JoinRefused(h) \/ JoinSubscribed(h) \/ JoinFails(h)
    \/ LeaveTake(h) \/ LeaveRemove(h) \/ LeaveSweep(h) \/ BroadcastPresence(h)

TaskStep(h) ==
    \/ TaskEnds(h) \/ Greet(h) \/ OfferAdmit(h)
    \/ \E n \in Neighbors :
        \/ NeighborUp(h, n) \/ NeighborDown(h, n) \/ OfferRead(h, n)
        \/ Unoffered(h, n) \/ GossipReports(h, n)

RoomNext ==
    \/ RoomRestart
    \/ \E n \in Neighbors : RefuseNeighbor(n)
    \/ \E h \in RoomHandles :
        \/ JoinRegister(h) \/ JoinPush(h) \/ JoinClosed(h) \/ LeaveRoom(h) \/ PresenceSet(h)
        \/ \E t \in Topics, k \in RoomKeys \cup {Plain} : JoinEnter(h, t, k)
        \/ RunnerStep(h) \/ TaskStep(h)

RoomSpec == RoomInit /\ [][RoomNext]_roomVars

-----------------------------------------------------------------------------
RoomsTypeOK ==
    /\ roomQueue \in Seq([op : {"join", "leave", "presence"}, room : RoomHandles, version : 0 .. MaxPresence])
    /\ runner \in [pc : {"subscribe", "remove", "sweep"}, room : RoomHandles] \cup {RunnerIdle}
    /\ entry \in [RoomHandles -> [pc : {"none", "made", "listed", "gone"}, topic : Topics, key : RoomKeys \cup {Plain}]]
    /\ calling \subseteq RoomHandles /\ deliverable \subseteq RoomHandles /\ senders \subseteq RoomHandles
    /\ task \in [RoomHandles -> {"none", "on", "aborted"}]
    /\ doing \in [RoomHandles -> [pc : {"idle", "greet"}, version : 0 .. MaxPresence] \cup [pc : {"offer"}, from : Neighbors]]
    /\ reports \in [RoomHandles -> Seq({"up", "down"} \X Neighbors)]
    /\ \A h \in RoomHandles : Len(reports[h]) <= MaxReports
    /\ near \in [RoomHandles -> SUBSET Neighbors] /\ peers \in [RoomHandles -> SUBSET Neighbors]
    /\ presence \in [RoomHandles -> 0 .. MaxPresence]
    /\ reached \in [RoomHandles -> [Neighbors -> 0 .. MaxPresence]]
    /\ fileOffers \in [RoomHandles -> SUBSET Neighbors] /\ refused \subseteq Neighbors
    /\ marker \in [Topics -> RoomKeys \cup {Plain}]
    /\ left \cup late \cup unsubscribed \cup missed \subseteq RoomHandles

(* node.rs:658: "an ordinary join must never expose this topic's saved     *)
(* sealed history, including after restart".  Whatever joins and leaves    *)
(* race, fail or are cut off: rooms of one topic are sealed alike while    *)
(* they live, and a room that can send is sealed as its topic's marker     *)
(* says.                                                                   *)
SealingKept ==
    /\ \A g, h \in RoomHandles :
          Live(g) /\ Live(h) /\ entry[g].topic = entry[h].topic => entry[g].key = entry[h].key
    /\ \A h \in senders : marker[entry[h].topic] = entry[h].key

(* What other tables say of rooms follows the rooms.  A room that lives    *)
(* has its records delivered until its leave begins; one that is gone does *)
(* not (only one that gossip did not subscribe is never forgotten); and    *)
(* node.rs:804: "a concurrent leave cannot be followed by a stale offer",  *)
(* neither in the table nor in what the program is told.                   *)
TablesFollowRooms ==
    /\ \A h \in RoomHandles :
          /\ Live(h) => h \in deliverable \/ RunnerAt("remove", h)
          /\ h \in deliverable => Live(h) \/ entry[h].pc = "made" \/ h \in unsubscribed
          /\ h \in left => fileOffers[h] = {}
    /\ late = {}

(* A neighbour that came while the presence changed was sent the newest,   *)
(* by the greeting or by the broadcast: once the task and the runner have  *)
(* caught up, unless a presence was set while a greeting with the old one  *)
(* was on its way, or a neighbour came while it was blocked, every one was *)
(* sent the presence that is set.                                          *)
PresenceReaches ==
    \A h \in senders :
        /\ h \notin missed /\ Live(h) /\ doing[h].pc # "greet" /\ reports[h] = <<>>
        /\ \A i \in DOMAIN roomQueue : roomQueue[i].room # h
        => \A n \in near[h] : reached[h][n] = presence[h]
=============================================================================
