--------------------------- MODULE FriendRegistry ---------------------------
(***************************************************************************)
(* Who is a friend of a node, who is blocked, and which invites are open   *)
(* (node/friends.rs, store.rs).                                            *)
(*                                                                         *)
(* Each of the three is kept twice: in memory, where the program's calls   *)
(* and the connections' tasks change it at once, and in the database,      *)
(* which calls change through a queue of commands that the runner works    *)
(* off, and tasks change themselves.  A connection's task waits for the    *)
(* peer between its steps; anything may happen meanwhile.                  *)
(***************************************************************************)
EXTENDS Integers, Sequences, FiniteSets

CONSTANTS
    Peers,       \* other nodes
    Secrets,     \* invite secrets
    NoSecret,    \* no invite of ours
    NoPeer,      \* no peer
    MaxQueue,    \* bound: commands waiting for the runner
    MaxRestarts  \* bound: process deaths

ASSUME NoneAssumption == NoSecret \notin Secrets /\ NoPeer \notin Peers
ASSUME BoundAssumption == MaxQueue \in Nat \ {0} /\ MaxRestarts \in Nat

VARIABLES
    friends, blocked, invites,        \* Shared::friends, blocked, invites
    links,                            \* Shared::links: whose connection it is
    queue,                            \* commands the runner has not handled
    blocking,                         \* the peer Node::block has marked, before it drops it
    dbFriends, dbBlocked,             \* tables friend_devices, blocked
    dbInvites,                        \* rows of invites nobody redeemed
    dbRedeemed,                       \* rows of invites somebody redeemed
    session,                          \* the task of a connection with a peer
    minted,                           \* invites that were ever committed
    added,                            \* friendships each invite made
    late,                             \* invites redeemed before their row was written
    restarts

memVars == <<friends, blocked, invites>>
dbVars == <<dbFriends, dbBlocked, dbInvites, dbRedeemed>>
noteVars == <<minted, added, late>>
vars == <<memVars, links, queue, blocking, dbVars, session, noteVars, restarts>>

(* Connections a peer opened, and connections the node opened.             *)
Ways == {"in", "out"}
NoLink == "none"

NoSession == [pc |-> "none", secret |-> NoSecret]
At(pc) == [pc |-> pc, secret |-> NoSecret]

Command(op, p, s) == [op |-> op, peer |-> p, secret |-> s]
PeerCommand(op, p) == Command(op, p, NoSecret)

Init ==
    /\ friends = {} /\ blocked = {} /\ invites = {}
    /\ links = [p \in Peers |-> NoLink]
    /\ queue = << >>
    /\ blocking = NoPeer
    /\ dbFriends = {} /\ dbBlocked = {} /\ dbInvites = {} /\ dbRedeemed = {}
    /\ session = [x \in Peers \X Ways |-> NoSession]
    /\ minted = {}
    /\ added = [s \in Secrets |-> 0]
    /\ late = {}
    /\ restarts = 0

-----------------------------------------------------------------------------
(* The program's calls: one thread makes them, one after the other.        *)

Enqueue(cmd) ==
    /\ Len(queue) < MaxQueue
    /\ queue' = Append(queue, cmd)

Free == blocking = NoPeer

(* invite_prepare mints, invite_commit makes redeemable at once; the       *)
(* runner writes the row.                                                  *)
InviteCommit(s) ==
    /\ Free
    /\ s \notin minted
    /\ minted' = minted \cup {s}
    /\ invites' = invites \cup {s}
    /\ Enqueue(Command("store", NoPeer, s))
    /\ UNCHANGED <<friends, blocked, links, blocking, dbVars, session, added, late, restarts>>

(* invite_accept.                                                          *)
InviteAccept(p) ==
    /\ Free
    /\ p \notin blocked
    /\ Enqueue(PeerCommand("accept", p))
    /\ UNCHANGED <<memVars, links, blocking, dbVars, session, noteVars, restarts>>

(* friend_remove.                                                          *)
FriendRemove(p) ==
    /\ Free
    /\ p \in friends
    /\ friends' = friends \ {p}
    /\ Enqueue(PeerCommand("remove", p))
    /\ UNCHANGED <<blocked, invites, links, blocking, dbVars, session, noteVars, restarts>>

(* block marks the peer...                                                 *)
BlockMark(p) ==
    /\ Free
    /\ Len(queue) < MaxQueue
    /\ blocked' = blocked \cup {p}
    /\ blocking' = p
    /\ UNCHANGED <<friends, invites, links, queue, dbVars, session, noteVars, restarts>>

(* Mutation: only a friend's block is written down.                        *)
BlockDropFriend ==
    /\ ~Free
    /\ friends' = friends \ {blocking}
    /\ blocking' = NoPeer
    /\ IF blocking \in friends THEN Enqueue(PeerCommand("block", blocking)) ELSE UNCHANGED queue
    /\ UNCHANGED <<blocked, invites, links, dbVars, session, noteVars, restarts>>

(* ...and then drops it from the friends.                                  *)
BlockDrop ==
    /\ ~Free
    /\ friends' = friends \ {blocking}
    /\ blocking' = NoPeer
    /\ Enqueue(PeerCommand("block", blocking))
    /\ UNCHANGED <<blocked, invites, links, dbVars, session, noteVars, restarts>>

Unblock(p) ==
    /\ Free
    /\ p \in blocked
    /\ blocked' = blocked \ {p}
    /\ Enqueue(PeerCommand("unblock", p))
    /\ UNCHANGED <<friends, invites, links, blocking, dbVars, session, noteVars, restarts>>

-----------------------------------------------------------------------------
(* The runner                                                              *)

Next1(op) == queue # << >> /\ Head(queue).op = op
Handled == queue' = Tail(queue)

(* invite_put ignores a row that is there already.                         *)
StoreInvite ==
    /\ Next1("store")
    /\ Handled
    /\ dbInvites' = dbInvites \cup {Head(queue).secret}
    /\ UNCHANGED <<memVars, links, blocking, dbFriends, dbBlocked, dbRedeemed, session, noteVars, restarts>>

(* accept_invite is spawned and dials the inviter.  (Bound: one connection *)
(* of ours to a peer at a time.)                                           *)
StartAccept ==
    /\ Next1("accept")
    /\ LET x == <<Head(queue).peer, "out">>
       IN  /\ session[x] = NoSession
           /\ session' = [session EXCEPT ![x] = At("connect")]
    /\ Handled
    /\ UNCHANGED <<memVars, links, blocking, dbVars, noteVars, restarts>>

(* Mutation: the row goes only if the peer can be told.                    *)
HandleRemoveLinked ==
    /\ Next1("remove")
    /\ LET p == Head(queue).peer
       IN  /\ dbFriends' = IF links[p] # NoLink THEN dbFriends \ {p} ELSE dbFriends
           /\ links' = [links EXCEPT ![p] = NoLink]
    /\ Handled
    /\ UNCHANGED <<memVars, blocking, dbBlocked, dbInvites, dbRedeemed, session, noteVars, restarts>>

(* The link is sent Unfriend and closed a little later.                    *)
HandleRemove ==
    /\ Next1("remove")
    /\ LET p == Head(queue).peer
       IN  /\ dbFriends' = dbFriends \ {p}
           /\ links' = [links EXCEPT ![p] = NoLink]
    /\ Handled
    /\ UNCHANGED <<memVars, blocking, dbBlocked, dbInvites, dbRedeemed, session, noteVars, restarts>>

(* A blocked peer is not told: its link is closed at once.                 *)
HandleBlock ==
    /\ Next1("block")
    /\ LET p == Head(queue).peer
           x == <<p, links[p]>>
       IN  /\ dbBlocked' = dbBlocked \cup {p}
           /\ dbFriends' = dbFriends \ {p}
           /\ links' = [links EXCEPT ![p] = NoLink]
           /\ session' = IF links[p] # NoLink /\ session[x].pc = "link"
                         THEN [session EXCEPT ![x] = At("end")] ELSE session
    /\ Handled
    /\ UNCHANGED <<memVars, blocking, dbInvites, dbRedeemed, noteVars, restarts>>

HandleUnblock ==
    /\ Next1("unblock")
    /\ dbBlocked' = dbBlocked \ {Head(queue).peer}
    /\ Handled
    /\ UNCHANGED <<memVars, links, blocking, dbFriends, dbInvites, dbRedeemed, session, noteVars, restarts>>

-----------------------------------------------------------------------------
(* The task of a connection.  Where it stands:                             *)
(*   stranger  waits for the first frame of a peer that is no friend       *)
(*   connect   presents an invite to the inviter, waits for the answer     *)
(*   dial      heartbeat's dial of a friend                                *)
(*   mark, row, memory, welcome    the steps that make a friend            *)
(*   register, link, unfriend, end    run_link                             *)

Go(x, pc) == session' = [session EXCEPT ![x] = [@ EXCEPT !.pc = pc]]
Over(x) == session' = [session EXCEPT ![x] = NoSession]

(* Mutation: an inbound connection is not checked against the block list.  *)
AcceptAnyone(p) ==
    LET x == <<p, "in">>
    IN  /\ session[x] = NoSession
        /\ Go(x, IF p \in friends THEN "register" ELSE "stranger")
        /\ UNCHANGED <<memVars, links, queue, blocking, dbVars, noteVars, restarts>>

(* FriendProtocol::accept.                                                 *)
Accept(p) ==
    LET x == <<p, "in">>
    IN  /\ session[x] = NoSession
        /\ p \notin blocked
        /\ Go(x, IF p \in friends THEN "register" ELSE "stranger")
        /\ UNCHANGED <<memVars, links, queue, blocking, dbVars, noteVars, restarts>>

(* heartbeat_loop dials a friend it sees no link to.                       *)
Dial(p) ==
    LET x == <<p, "out">>
    IN  /\ session[x] = NoSession
        /\ p \in friends
        /\ links[p] = NoLink
        /\ Go(x, "dial")
        /\ UNCHANGED <<memVars, links, queue, blocking, dbVars, noteVars, restarts>>

(* Mutation: the invite stays open in memory.                              *)
RedeemOpen(p, s) ==
    LET x == <<p, "in">>
    IN  /\ session[x].pc = "stranger"
        /\ s \in invites
        /\ session' = [session EXCEPT ![x] = [pc |-> "mark", secret |-> s]]
        /\ UNCHANGED <<memVars, links, queue, blocking, dbVars, noteVars, restarts>>

(* redeem: the first to present an open invite takes it out of memory.     *)
Redeem(p, s) ==
    LET x == <<p, "in">>
    IN  /\ session[x].pc = "stranger"
        /\ s \in invites
        /\ invites' = invites \ {s}
        /\ session' = [session EXCEPT ![x] = [pc |-> "mark", secret |-> s]]
        /\ UNCHANGED <<friends, blocked, links, queue, blocking, dbVars, noteVars, restarts>>

(* Mutation: the row stays open.                                           *)
MarkRedeemedOpen(x) ==
    LET s == session[x].secret
    IN  /\ session[x].pc = "mark"
        /\ Go(x, "row")
        /\ IF s \in dbInvites \cup dbRedeemed
           THEN dbRedeemed' = dbRedeemed \cup {s} /\ UNCHANGED late
           ELSE late' = late \cup {s} /\ UNCHANGED dbRedeemed
        /\ UNCHANGED <<memVars, links, queue, blocking, dbFriends, dbBlocked, dbInvites, minted, added, restarts>>

(* It marks the row, if there is one...                                    *)
MarkRedeemed(x) ==
    LET s == session[x].secret
    IN  /\ session[x].pc = "mark"
        /\ Go(x, "row")
        /\ dbInvites' = dbInvites \ {s}
        /\ IF s \in dbInvites \cup dbRedeemed
           THEN dbRedeemed' = dbRedeemed \cup {s} /\ UNCHANGED late
           ELSE late' = late \cup {s} /\ UNCHANGED dbRedeemed
        /\ UNCHANGED <<memVars, links, queue, blocking, dbFriends, dbBlocked, minted, added, restarts>>

(* The inviter's Welcome.                                                  *)
Welcomed(p) ==
    LET x == <<p, "out">>
    IN  /\ session[x].pc = "connect"
        /\ Go(x, "row")
        /\ UNCHANGED <<memVars, links, queue, blocking, dbVars, noteVars, restarts>>

Count(s) == IF s \in Secrets THEN [added EXCEPT ![s] = @ + 1] ELSE added

(* add_friend writes the row...                                            *)
AddRow(x) ==
    /\ session[x].pc = "row"
    /\ Go(x, "memory")
    /\ dbFriends' = dbFriends \cup {x[1]}
    /\ added' = Count(session[x].secret)
    /\ UNCHANGED <<memVars, links, queue, blocking, dbBlocked, dbInvites, dbRedeemed, minted, late, restarts>>

(* ...and then the friend in memory.                                       *)
AddFriend(x) ==
    /\ session[x].pc = "memory"
    /\ session' = [session EXCEPT ![x] = At(IF x[2] = "in" THEN "welcome" ELSE "register")]
    /\ friends' = friends \cup {x[1]}
    /\ UNCHANGED <<blocked, invites, links, queue, blocking, dbVars, noteVars, restarts>>

(* run_link registers the connection: the Welcome was sent, the friend's   *)
(* dial came through, or the accepter stored the inviter.                  *)
Register(x) ==
    /\ session[x].pc \in {"welcome", "dial", "register"}
    /\ Go(x, "link")
    /\ links' = [links EXCEPT ![x[1]] = x[2]]
    /\ UNCHANGED <<memVars, queue, blocking, dbVars, noteVars, restarts>>

(* The peer refuses, closes, stays silent, or its frame is refused.        *)
Fail(x) ==
    /\ session[x].pc \in {"stranger", "connect", "dial", "welcome"}
    /\ Over(x)
    /\ UNCHANGED <<memVars, links, queue, blocking, dbVars, noteVars, restarts>>

(* on_frame: Unfriend drops the friend...                                  *)
Unfriend(x) ==
    /\ session[x].pc = "link"
    /\ x[1] \in friends
    /\ Go(x, "unfriend")
    /\ friends' = friends \ {x[1]}
    /\ UNCHANGED <<blocked, invites, links, queue, blocking, dbVars, noteVars, restarts>>

(* ...and its row.                                                         *)
UnfriendRow(x) ==
    /\ session[x].pc = "unfriend"
    /\ Go(x, "end")
    /\ dbFriends' = dbFriends \ {x[1]}
    /\ UNCHANGED <<memVars, links, queue, blocking, dbBlocked, dbInvites, dbRedeemed, noteVars, restarts>>

(* The connection is lost, or a frame came from a peer that is no friend   *)
(* any more: run_link unregisters its own connection.                      *)
LinkEnd(x) ==
    /\ session[x].pc \in {"link", "end"}
    /\ Over(x)
    /\ links' = IF links[x[1]] = x[2] THEN [links EXCEPT ![x[1]] = NoLink] ELSE links
    /\ UNCHANGED <<memVars, queue, blocking, dbVars, noteVars, restarts>>

Session(x) ==
    \/ MarkRedeemed(x) \/ AddRow(x) \/ AddFriend(x) \/ Register(x) \/ Fail(x)
    \/ Unfriend(x) \/ UnfriendRow(x) \/ LinkEnd(x)

-----------------------------------------------------------------------------
(* The process may die between the two statements that block a peer: the   *)
(* blocked row is written, the friend's is not yet deleted.                *)
HalfBlocked == IF Next1("block") THEN {Head(queue).peer} ELSE {}

(* The process dies, and load reads the database when it starts again.     *)
Restart ==
    /\ restarts < MaxRestarts
    /\ restarts' = restarts + 1
    /\ \E half \in SUBSET HalfBlocked : dbBlocked' = dbBlocked \cup half
    /\ friends' = dbFriends
    /\ blocked' = dbBlocked'
    /\ invites' = dbInvites
    /\ links' = [p \in Peers |-> NoLink]
    /\ queue' = << >>
    /\ blocking' = NoPeer
    /\ session' = [x \in Peers \X Ways |-> NoSession]
    /\ UNCHANGED <<dbFriends, dbInvites, dbRedeemed, noteVars>>

Next ==
    \/ \E s \in Secrets : InviteCommit(s)
    \/ \E p \in Peers :
         \/ InviteAccept(p) \/ FriendRemove(p) \/ BlockMark(p) \/ Unblock(p)
         \/ Accept(p) \/ Dial(p) \/ Welcomed(p)
    \/ \E p \in Peers, s \in Secrets : Redeem(p, s)
    \/ \E x \in Peers \X Ways : Session(x)
    \/ BlockDrop
    \/ StoreInvite \/ StartAccept \/ HandleRemove
    \/ HandleBlock \/ HandleUnblock
    \/ Restart

Spec == Init /\ [][Next]_vars

-----------------------------------------------------------------------------
(* Correctness                                                             *)

Steps == {"none", "stranger", "connect", "dial", "mark", "row", "memory", "welcome",
          "register", "link", "unfriend", "end"}
Ops == {"store", "accept", "remove", "block", "unblock"}

(* The variables keep their types, and no friendship or invite comes from  *)
(* nowhere.                                                                *)
TypeOK ==
    /\ friends \in SUBSET Peers /\ blocked \in SUBSET Peers
    /\ dbFriends \in SUBSET Peers /\ dbBlocked \in SUBSET Peers
    /\ minted \in SUBSET Secrets /\ late \in SUBSET minted
    /\ invites \in SUBSET minted /\ dbInvites \in SUBSET minted
    /\ dbRedeemed \in SUBSET (minted \ dbInvites)
    /\ links \in [Peers -> Ways \cup {NoLink}]
    /\ queue \in Seq([op : Ops, peer : Peers \cup {NoPeer}, secret : Secrets \cup {NoSecret}])
    /\ blocking \in Peers \cup {NoPeer}
    /\ session \in [Peers \X Ways -> [pc : Steps, secret : Secrets \cup {NoSecret}]]
    /\ added \in [Secrets -> Nat]
    /\ restarts \in 0..MaxRestarts

Queued(ops, p) == \E i \in DOMAIN queue : queue[i].op \in ops /\ queue[i].peer = p

SessionAt(p, pcs) == \E w \in Ways : session[<<p, w>>].pc \in pcs

(* A friend the program or the peer dropped comes back with the next start *)
(* only if the process dies at once: a row without a friend in memory is   *)
(* about to be deleted, or the friend about to be added.  Adding writes    *)
(* the row first, dropping deletes it last.                                *)
DroppedStayDropped ==
    \A p \in dbFriends \ friends :
        \/ Queued({"remove", "block"}, p)
        \/ SessionAt(p, {"memory", "unfriend"})

Settings(p) == {i \in DOMAIN queue : queue[i].op \in {"block", "unblock"} /\ queue[i].peer = p}

(* Who will be blocked in the database when the runner has caught up.      *)
WillBeBlocked(p) ==
    IF p = blocking THEN TRUE
    ELSE IF Settings(p) = {} THEN p \in dbBlocked
    ELSE \E i \in Settings(p) : queue[i].op = "block" /\ \A j \in Settings(p) : j <= i

(* The database follows every change of the block list.                    *)
BlocksFollowed == \A p \in Peers : p \in blocked <=> WillBeBlocked(p)

(* The tables of friends and of blocked peers follow the memory.           *)
TablesFollow == DroppedStayDropped /\ BlocksFollowed

(* An invite makes one friendship at most, across restarts, if its row was *)
(* written before it was presented.                                        *)
InviteSingleUse == \A s \in Secrets \ late : added[s] <= 1

(* docs/DESIGN.md: "The ticket is a bearer credential until it is redeemed *)
(* once."  Whenever its row is written.                                    *)
EveryInviteSingleUse == \A s \in Secrets : added[s] <= 1

(* Under way to become a friend.                                           *)
Joining(p) ==
    \/ SessionAt(p, {"stranger", "connect", "mark", "row", "memory"})
    \/ Queued({"accept"}, p)

Outside(p) == p \in blocked /\ p \notin friends /\ ~Joining(p)

(* Once a blocked peer is out, and nothing of it was under way, it stays   *)
(* out for as long as it is blocked and the process lives.                 *)
BlockedStayOut ==
    [][Restart \/ \A p \in Peers : Outside(p) /\ p \in blocked' => Outside(p)']_vars

(* Node::block: the peer "is dropped from the friend list [...], and from  *)
(* now on its connections, room messages and invites are refused".         *)
BlockedNotFriends == Free => blocked \cap friends = {}
=============================================================================
