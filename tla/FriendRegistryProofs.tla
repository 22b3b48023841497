------------------------ MODULE FriendRegistryProofs ------------------------
(***************************************************************************)
(* Friends, the block list and invites, for any number of peers, invites,  *)
(* queued commands and process deaths: a friend that was dropped does not  *)
(* come back with the next start, the database follows the block list, an  *)
(* invite whose row was written in time makes one friendship, and a        *)
(* blocked peer with nothing under way stays out.                          *)
(***************************************************************************)
EXTENDS FriendRegistry, TLAPS

Pairs == Peers \X Ways
Commands == [op : Ops, peer : Peers \cup {NoPeer}, secret : Secrets \cup {NoSecret}]
Sessions == [pc : Steps, secret : Secrets \cup {NoSecret}]

(* Minted invites that have no row yet.                                    *)
Unwritten == minted \ (dbInvites \cup dbRedeemed)

(* Commands name what they are about, and a row is written by a command of *)
(* its own, which the runner has still to handle while there is no row.    *)
CommandsMade ==
    \A i \in DOMAIN queue :
        IF queue[i].op = "store"
        THEN /\ queue[i].secret \in Unwritten
             /\ \A j \in DOMAIN queue : queue[j].op = "store" /\ queue[j].secret = queue[i].secret => j = i
        ELSE queue[i].peer \in Peers

(* An invite is presented on a connection that came in, and was minted.    *)
SecretsKnown ==
    \A x \in Pairs :
        /\ session[x].secret \in minted \cup {NoSecret}
        /\ session[x].pc = "mark" => session[x].secret # NoSecret
        /\ session[x].secret # NoSecret => x[2] = "in"

TypeInv == TypeOK /\ CommandsMade /\ SecretsKnown

(* The task of a connection has taken the invite and not yet made a friend.*)
Holds(x, s) == session[x].secret = s /\ session[x].pc \in {"mark", "row"}

(* The invite can still be redeemed, now or after a restart.               *)
Open(s) == s \in invites \cup dbInvites

(* What makes an invite that was written in time work once: it is with one *)
(* task at most, and then not in memory; its row is marked before it makes *)
(* a friend; and once it has made one, it is open nowhere.                 *)
UsedOnce(s) ==
    /\ s \notin minted => added[s] = 0
    /\ Open(s) => added[s] = 0
    /\ \A x \in Pairs : Holds(x, s) =>
          /\ added[s] = 0
          /\ s \notin invites
          /\ session[x].pc = "row" => s \in dbRedeemed
          /\ \A y \in Pairs : Holds(y, s) => y = x
    /\ added[s] # 0 => s \in dbRedeemed
    /\ added[s] <= 1

InvitesUsedOnce == \A s \in Secrets \ late : UsedOnce(s)

-----------------------------------------------------------------------------
(* The queue                                                               *)

(* A command is appended behind all others.                                *)
LEMMA Appended ==
    ASSUME NEW q \in Seq(Commands), NEW c \in Commands
    PROVE  /\ Append(q, c) \in Seq(Commands)
           /\ DOMAIN Append(q, c) = DOMAIN q \cup {Len(q) + 1}
           /\ Len(q) + 1 \in DOMAIN Append(q, c)
           /\ Append(q, c)[Len(q) + 1] = c
           /\ \A i \in DOMAIN q : Append(q, c)[i] = q[i] /\ i \in Int /\ i <= Len(q)
<1>1. Append(q, c) \in Seq(Commands) /\ Len(Append(q, c)) = Len(q) + 1
  OBVIOUS
<1>2. DOMAIN q = 1..Len(q) /\ DOMAIN Append(q, c) = 1..(Len(q) + 1) /\ Len(q) \in Nat
  BY <1>1
<1>. QED
  BY <1>1, <1>2

(* The runner takes the first command: the others move up.                 *)
LEMMA TakenOff ==
    ASSUME NEW q \in Seq(Commands), q # << >>
    PROVE  /\ Tail(q) \in Seq(Commands)
           /\ 1 \in DOMAIN q /\ Head(q) = q[1] /\ Head(q) \in Commands
           /\ \A i \in DOMAIN q : i \in Int /\ i >= 1
           /\ \A i \in DOMAIN Tail(q) : i + 1 \in DOMAIN q /\ Tail(q)[i] = q[i + 1] /\ i \in Int /\ i >= 1
           /\ \A i \in DOMAIN q : i = 1 \/ (i - 1 \in DOMAIN Tail(q) /\ Tail(q)[i - 1] = q[i])
<1>1. Tail(q) \in Seq(Commands) /\ Len(Tail(q)) = Len(q) - 1 /\ Len(q) \in Nat /\ Len(q) > 0
  OBVIOUS
<1>2. DOMAIN q = 1..Len(q) /\ DOMAIN Tail(q) = 1..(Len(q) - 1)
  BY <1>1
<1>3. \A i \in 1..(Len(q) - 1) : Tail(q)[i] = q[i + 1]
  OBVIOUS
<1>. QED
  BY <1>1, <1>2, <1>3

-----------------------------------------------------------------------------
(* Types and names                                                         *)

LEMMA MadeStays ==
    ASSUME TypeInv, queue' = queue, Unwritten \subseteq Unwritten'
    PROVE  CommandsMade' /\ queue' \in Seq(Commands)
BY DEF TypeInv, TypeOK, CommandsMade, Commands

LEMMA MadeAppended ==
    ASSUME TypeInv, NEW c \in Commands, Enqueue(c), Unwritten \subseteq Unwritten',
           IF c.op = "store" THEN c.secret \in Unwritten' \ minted ELSE c.peer \in Peers
    PROVE  CommandsMade' /\ queue' \in Seq(Commands)
<1>1. queue \in Seq(Commands) /\ queue' = Append(queue, c)
  BY DEF TypeInv, TypeOK, Commands, Enqueue
<1>2. /\ queue' \in Seq(Commands)
      /\ DOMAIN queue' = DOMAIN queue \cup {Len(queue) + 1}
      /\ queue'[Len(queue) + 1] = c
      /\ \A i \in DOMAIN queue : queue'[i] = queue[i]
  BY <1>1, Appended
<1>. QED
  BY <1>2 DEF TypeInv, CommandsMade, Unwritten

LEMMA MadeTakenOff ==
    ASSUME TypeInv, queue # << >>, Handled,
           Unwritten \ {Head(queue).secret} \subseteq Unwritten',
           Head(queue).op = "store" \/ Unwritten \subseteq Unwritten'
    PROVE  CommandsMade' /\ queue' \in Seq(Commands)
<1>1. queue \in Seq(Commands) /\ queue' = Tail(queue)
  BY DEF TypeInv, TypeOK, Commands, Handled
<1>2. /\ queue' \in Seq(Commands)
      /\ Head(queue) = queue[1] /\ 1 \in DOMAIN queue
      /\ \A i \in DOMAIN queue' : i + 1 \in DOMAIN queue /\ queue'[i] = queue[i + 1] /\ i \in Int /\ i >= 1
  BY <1>1, TakenOff
<1>3. \A i \in DOMAIN queue' : i + 1 # 1
  BY <1>2
<1>4. ASSUME NEW i \in DOMAIN queue'
      PROVE  IF queue'[i].op = "store"
             THEN /\ queue'[i].secret \in Unwritten'
                  /\ \A j \in DOMAIN queue' :
                        queue'[j].op = "store" /\ queue'[j].secret = queue'[i].secret => j = i
             ELSE queue'[i].peer \in Peers
  <2>1. \A j \in DOMAIN queue' : j + 1 = i + 1 => j = i
    BY <1>2
  <2>2. CASE queue'[i].op # "store"
    BY <1>2, <2>2 DEF TypeInv, CommandsMade
  <2>3. CASE queue'[i].op = "store"
    <3>1. queue[i + 1].op = "store" /\ i + 1 \in DOMAIN queue
      BY <1>2, <2>3
    <3>2. /\ queue[i + 1].secret \in Unwritten
          /\ \A j \in DOMAIN queue :
                queue[j].op = "store" /\ queue[j].secret = queue[i + 1].secret => j = i + 1
      BY <3>1 DEF TypeInv, CommandsMade
    <3>3. queue'[i].secret \in Unwritten'
      BY <1>2, <1>3, <3>1, <3>2
    <3>4. \A j \in DOMAIN queue' :
             queue'[j].op = "store" /\ queue'[j].secret = queue'[i].secret => j + 1 = i + 1
      BY <1>2, <3>2
    <3>. QED
      BY <2>1, <2>3, <3>3, <3>4
  <2>. QED
    BY <2>2, <2>3
<1>. QED
  BY <1>2, <1>4 DEF CommandsMade

LEMMA InitTypes == Init => TypeInv
<1>. SUFFICES ASSUME Init PROVE TypeInv
  OBVIOUS
<1>1. queue \in Seq(Commands) /\ DOMAIN queue = {}
  BY DEF Init
<1>2. NoSession \in Sessions
  BY DEF NoSession, Sessions, Steps
<1>3. TypeOK
  BY <1>1, <1>2, BoundAssumption DEF Init, TypeOK, Commands, Sessions
<1>4. SecretsKnown
  BY DEF Init, SecretsKnown, NoSession, Pairs
<1>. QED
  BY <1>1, <1>3, <1>4 DEF TypeInv, CommandsMade

(* The task of a connection goes on, with the invite it has.               *)
LEMMA TaskGoes ==
    ASSUME TypeInv, NEW x \in Pairs, NEW pc \in Steps \ {"mark"}, Go(x, pc), minted' = minted
    PROVE  session' \in [Pairs -> Sessions] /\ SecretsKnown'
BY DEF TypeInv, TypeOK, SecretsKnown, Go, Sessions, Pairs

(* It is without an invite, or ends.                                       *)
LEMMA TaskWithout ==
    ASSUME TypeInv, NEW x \in Pairs, NEW pc \in Steps \ {"mark"}, session' = [session EXCEPT ![x] = At(pc)],
           minted' = minted
    PROVE  session' \in [Pairs -> Sessions] /\ SecretsKnown'
BY NoneAssumption DEF TypeInv, TypeOK, SecretsKnown, At, Sessions, Pairs

LEMMA CallsTyped ==
    ASSUME TypeInv,
           \/ \E s \in Secrets : InviteCommit(s)
           \/ \E p \in Peers : InviteAccept(p) \/ FriendRemove(p) \/ BlockMark(p) \/ Unblock(p)
           \/ BlockDrop
    PROVE  TypeInv'
<1>1. CASE \E s \in Secrets : InviteCommit(s)
  <2>. PICK s \in Secrets : InviteCommit(s)
    BY <1>1
  <2>. USE DEF InviteCommit
  <2>1. Command("store", NoPeer, s) \in Commands
    BY DEF Command, Commands, Ops
  <2>2. CommandsMade' /\ queue' \in Seq(Commands)
    <3>1. Unwritten \subseteq Unwritten' /\ s \in Unwritten' \ minted
      BY DEF Unwritten, TypeInv, TypeOK, dbVars
    <3>. QED
      BY <2>1, <3>1, MadeAppended DEF Command
  <2>3. SecretsKnown'
    BY DEF TypeInv, SecretsKnown
  <2>. QED
    BY <2>2, <2>3 DEF TypeInv, TypeOK, Commands, dbVars
<1>2. ASSUME NEW op \in {"accept", "remove", "block", "unblock"}, NEW p \in Peers,
             Enqueue(PeerCommand(op, p)), UNCHANGED <<dbVars, noteVars>>
      PROVE  CommandsMade' /\ queue' \in Seq(Commands)
  <2>1. /\ PeerCommand(op, p) \in Commands /\ PeerCommand(op, p).op # "store"
        /\ PeerCommand(op, p).peer \in Peers
    BY DEF Command, PeerCommand, Commands, Ops
  <2>2. Unwritten \subseteq Unwritten'
    BY <1>2 DEF Unwritten, dbVars, noteVars
  <2>. QED
    BY <1>2, <2>1, <2>2, MadeAppended
<1>3. ASSUME UNCHANGED <<dbVars, noteVars, session, invites, links, restarts>>, CommandsMade', queue' \in Seq(Commands),
             friends' \in SUBSET Peers, blocked' \in SUBSET Peers, blocking' \in Peers \cup {NoPeer}
      PROVE  TypeInv'
  BY <1>3 DEF TypeInv, TypeOK, SecretsKnown, Commands, dbVars, noteVars
<1>4. CASE \E p \in Peers : InviteAccept(p)
  BY <1>2, <1>3, <1>4 DEF TypeInv, TypeOK, InviteAccept, memVars
<1>5. CASE \E p \in Peers : FriendRemove(p)
  BY <1>2, <1>3, <1>5 DEF TypeInv, TypeOK, FriendRemove
<1>6. CASE \E p \in Peers : BlockMark(p)
  <2>1. CommandsMade' /\ queue' \in Seq(Commands)
    BY <1>6, MadeStays DEF BlockMark, dbVars, noteVars, Unwritten
  <2>. QED
    BY <1>3, <1>6, <2>1 DEF TypeInv, TypeOK, BlockMark
<1>7. CASE \E p \in Peers : Unblock(p)
  BY <1>2, <1>3, <1>7 DEF TypeInv, TypeOK, Unblock
<1>8. CASE BlockDrop
  <2>1. blocking \in Peers
    BY <1>8 DEF BlockDrop, Free, TypeInv, TypeOK
  <2>. QED
    BY <1>2, <1>3, <1>8, <2>1 DEF TypeInv, TypeOK, BlockDrop
<1>. QED
  BY <1>1, <1>4, <1>5, <1>6, <1>7, <1>8

LEMMA RunnerTyped ==
    ASSUME TypeInv, StoreInvite \/ StartAccept \/ HandleRemove \/ HandleBlock \/ HandleUnblock
    PROVE  TypeInv'
<1>1. queue \in Seq(Commands) /\ queue # << >> /\ Handled
  BY DEF StoreInvite, StartAccept, HandleRemove, HandleBlock, HandleUnblock, Next1, TypeInv, TypeOK, Commands
<1>2. Head(queue) \in Commands /\ 1 \in DOMAIN queue /\ Head(queue) = queue[1]
  BY <1>1, TakenOff
<1>3. IF Head(queue).op = "store" THEN Head(queue).secret \in Unwritten ELSE Head(queue).peer \in Peers
  BY <1>2 DEF TypeInv, CommandsMade
<1>4. CASE StoreInvite
  <2>. USE DEF StoreInvite
  <2>1. Head(queue).secret \in Unwritten
    BY <1>3, <1>4 DEF Next1
  <2>2. CommandsMade' /\ queue' \in Seq(Commands)
    <3>1. Unwritten \ {Head(queue).secret} \subseteq Unwritten'
      BY <1>4 DEF Unwritten, noteVars
    <3>. QED
      BY <1>1, <1>4, <3>1, MadeTakenOff DEF Next1
  <2>3. SecretsKnown'
    BY <1>4 DEF TypeInv, SecretsKnown, noteVars
  <2>. QED
    BY <1>4, <2>1, <2>2, <2>3 DEF TypeInv, TypeOK, Commands, Unwritten, memVars, noteVars
<1>5. CASE ~StoreInvite
  <2>1. /\ UNCHANGED <<memVars, blocking, dbInvites, dbRedeemed, noteVars, restarts>>
        /\ Head(queue).peer \in Peers
    BY <1>3, <1>5 DEF StartAccept, HandleRemove, HandleBlock, HandleUnblock, Next1, dbVars
  <2>2. CommandsMade' /\ queue' \in Seq(Commands)
    BY <1>1, <2>1, MadeTakenOff DEF Unwritten, noteVars
  <2>3. /\ dbFriends' \in SUBSET Peers /\ dbBlocked' \in SUBSET Peers
        /\ links' \in [Peers -> Ways \cup {NoLink}]
    BY <1>5, <2>1 DEF StartAccept, HandleRemove, HandleBlock, HandleUnblock, dbVars, TypeInv, TypeOK
  <2>4. session' \in [Pairs -> Sessions] /\ SecretsKnown'
    <3>1. CASE session' = session
      BY <2>1, <3>1 DEF TypeInv, TypeOK, Pairs, Sessions, SecretsKnown, noteVars
    <3>2. CASE StartAccept
      <4>1. <<Head(queue).peer, "out">> \in Pairs
        BY <2>1 DEF Pairs, Ways
      <4>. QED
        BY <2>1, <3>2, <4>1, TaskWithout DEF StartAccept, Steps, noteVars
    <3>3. CASE HandleBlock /\ session' # session
      <4>. DEFINE x == <<Head(queue).peer, links[Head(queue).peer]>>
      <4>1. x \in Pairs /\ session' = [session EXCEPT ![x] = At("end")]
        BY <2>1, <3>3 DEF HandleBlock, Pairs, TypeInv, TypeOK, NoLink
      <4>. QED
        BY <2>1, <4>1, TaskWithout DEF Steps, noteVars
    <3>. QED
      BY <1>5, <3>1, <3>2, <3>3 DEF HandleRemove, HandleUnblock
  <2>. QED
    BY <2>1, <2>2, <2>3, <2>4 DEF TypeInv, TypeOK, Commands, Sessions, Pairs, memVars, noteVars
<1>. QED
  BY <1>4, <1>5

LEMMA TasksTyped ==
    ASSUME TypeInv,
           \/ \E p \in Peers : Accept(p) \/ Dial(p) \/ Welcomed(p)
           \/ \E p \in Peers, s \in Secrets : Redeem(p, s)
           \/ \E x \in Pairs : Session(x)
    PROVE  TypeInv'
<1>1. ASSUME UNCHANGED <<queue, blocking, blocked, dbBlocked, minted, restarts>>, Unwritten \subseteq Unwritten',
             session' \in [Pairs -> Sessions], SecretsKnown',
             friends' \in SUBSET Peers, dbFriends' \in SUBSET Peers, invites' \subseteq invites,
             late' \in SUBSET minted, dbInvites' \subseteq dbInvites,
             dbRedeemed' \in SUBSET (minted \ dbInvites'),
             links' \in [Peers -> Ways \cup {NoLink}], added' \in [Secrets -> Nat]
      PROVE  TypeInv'
  BY <1>1, MadeStays DEF TypeInv, TypeOK, Commands, Sessions, Pairs
<1>2. ASSUME UNCHANGED <<memVars, queue, blocking, dbVars, noteVars, restarts>>,
             session' \in [Pairs -> Sessions], SecretsKnown',
             links' \in [Peers -> Ways \cup {NoLink}]
      PROVE  TypeInv'
  BY <1>1, <1>2 DEF TypeInv, TypeOK, Unwritten, memVars, dbVars, noteVars
<1>3. \A p \in Peers : <<p, "in">> \in Pairs /\ <<p, "out">> \in Pairs
  BY DEF Pairs, Ways
<1>4. CASE \E p \in Peers : Accept(p) \/ Dial(p) \/ Welcomed(p)
  <2>1. UNCHANGED <<memVars, queue, blocking, dbVars, noteVars, restarts, links>>
    BY <1>4 DEF Accept, Dial, Welcomed
  <2>2. session' \in [Pairs -> Sessions] /\ SecretsKnown'
    <3>1. minted' = minted
      BY <2>1 DEF noteVars
    <3>2. PICK x \in Pairs, pc \in {"register", "stranger", "dial", "row"} : Go(x, pc)
      BY <1>3, <1>4 DEF Accept, Dial, Welcomed
    <3>. QED
      BY <3>1, <3>2, TaskGoes DEF Steps
  <2>. QED
    BY <1>2, <2>1, <2>2 DEF TypeInv, TypeOK
<1>5. CASE \E p \in Peers, s \in Secrets : Redeem(p, s)
  <2>. PICK p \in Peers, s \in Secrets : Redeem(p, s)
    BY <1>5
  <2>. USE DEF Redeem
  <2>1. s \in minted /\ s # NoSecret
    BY NoneAssumption DEF TypeInv, TypeOK
  <2>2. session' = [session EXCEPT ![<<p, "in">>] = [pc |-> "mark", secret |-> s]]
    OBVIOUS
  <2>3. session' \in [Pairs -> Sessions]
    <3>1. session \in [Pairs -> Sessions] /\ [pc |-> "mark", secret |-> s] \in Sessions
      BY DEF TypeInv, TypeOK, Pairs, Sessions, Steps
    <3>. QED
      BY <2>2, <3>1
  <2>4. SecretsKnown'
    BY <1>3, <2>1, <2>2 DEF TypeInv, TypeOK, SecretsKnown, noteVars, Pairs
  <2>. QED
    BY <1>1, <2>3, <2>4 DEF TypeInv, TypeOK, Unwritten, dbVars, noteVars
<1>6. ASSUME NEW x \in Pairs, Session(x)
      PROVE  TypeInv'
  <2>1. x[1] \in Peers /\ x[2] \in Ways /\ session[x] \in Sessions
    BY DEF Pairs, TypeInv, TypeOK, Sessions
  <2>2. minted' = minted
    BY <1>6 DEF Session, MarkRedeemed, AddRow, AddFriend, Register, Fail, Unfriend, UnfriendRow, LinkEnd, noteVars
  <2>3. session' \in [Pairs -> Sessions] /\ SecretsKnown'
    <3>1. CASE \E pc \in {"row", "memory", "link", "unfriend", "end"} : Go(x, pc)
      BY <2>2, <3>1, TaskGoes DEF Steps
    <3>2. CASE \E pc \in {"welcome", "register", "none"} : session' = [session EXCEPT ![x] = At(pc)]
      BY <2>2, <3>2, TaskWithout DEF Steps
    <3>3. NoSession = At("none")
      BY DEF NoSession, At
    <3>. QED
      BY <1>6, <3>1, <3>2, <3>3
      DEF Session, MarkRedeemed, AddRow, AddFriend, Register, Fail, Unfriend, UnfriendRow, LinkEnd, Over
  <2>4. CASE MarkRedeemed(x)
    <3>. DEFINE s == session[x].secret
    <3>1. s \in minted
      BY <2>4 DEF MarkRedeemed, TypeInv, SecretsKnown
    <3>2. /\ dbInvites' = dbInvites \ {s}
          /\ IF s \in dbInvites \cup dbRedeemed
             THEN dbRedeemed' = dbRedeemed \cup {s} /\ UNCHANGED late
             ELSE late' = late \cup {s} /\ UNCHANGED dbRedeemed
          /\ UNCHANGED <<memVars, links, queue, blocking, dbFriends, dbBlocked, minted, added, restarts>>
      BY <2>4 DEF MarkRedeemed
    <3>. HIDE DEF s
    <3>3. Unwritten \subseteq Unwritten'
      BY <3>2 DEF Unwritten
    <3>. QED
      BY <1>1, <2>3, <3>1, <3>2, <3>3 DEF TypeInv, TypeOK, memVars
  <2>5. CASE AddRow(x)
    <3>1. added' \in [Secrets -> Nat]
      BY <2>5 DEF AddRow, Count, TypeInv, TypeOK
    <3>. QED
      BY <1>1, <2>1, <2>3, <2>5, <3>1 DEF AddRow, TypeInv, TypeOK, Unwritten, memVars
  <2>6. CASE AddFriend(x)
    BY <1>1, <2>1, <2>3, <2>6 DEF AddFriend, TypeInv, TypeOK, Unwritten, dbVars, noteVars
  <2>7. CASE Register(x) \/ LinkEnd(x)
    <3>1. links' \in [Peers -> Ways \cup {NoLink}]
      BY <2>1, <2>7 DEF Register, LinkEnd, TypeInv, TypeOK
    <3>. QED
      BY <1>2, <2>3, <2>7, <3>1 DEF Register, LinkEnd
  <2>8. CASE Fail(x)
    BY <1>2, <2>3, <2>8 DEF Fail, TypeInv, TypeOK
  <2>9. CASE Unfriend(x)
    BY <1>1, <2>3, <2>9 DEF Unfriend, TypeInv, TypeOK, Unwritten, dbVars, noteVars
  <2>10. CASE UnfriendRow(x)
    BY <1>1, <2>3, <2>10 DEF UnfriendRow, TypeInv, TypeOK, Unwritten, memVars, noteVars
  <2>. QED
    BY <1>6, <2>4, <2>5, <2>6, <2>7, <2>8, <2>9, <2>10 DEF Session
<1>. QED
  BY <1>4, <1>5, <1>6

LEMMA RestartTyped ==
    ASSUME TypeInv, Restart
    PROVE  TypeInv'
<1>. USE DEF Restart
<1>1. queue' \in Seq(Commands) /\ CommandsMade'
  BY DEF CommandsMade
<1>2. SecretsKnown' /\ session' \in [Pairs -> Sessions]
  BY DEF SecretsKnown, NoSession, Pairs, Sessions, Steps
<1>3. dbBlocked' \in SUBSET Peers
  <2>1. HalfBlocked \subseteq Peers
    <3>1. CASE Next1("block")
      <4>1. queue \in Seq(Commands) /\ queue # << >> /\ Head(queue).op # "store"
        BY <3>1 DEF Next1, TypeInv, TypeOK, Commands
      <4>. QED
        BY <3>1, <4>1, TakenOff DEF HalfBlocked, TypeInv, CommandsMade
    <3>. QED
      BY <3>1 DEF HalfBlocked
  <2>. QED
    BY <2>1 DEF TypeInv, TypeOK
<1>4. restarts' \in 0..MaxRestarts
  BY BoundAssumption DEF TypeInv, TypeOK
<1>. QED
  BY <1>1, <1>2, <1>3, <1>4 DEF TypeInv, TypeOK, Commands, Sessions, Pairs, noteVars

LEMMA StutterTyped ==
    ASSUME TypeInv, UNCHANGED vars
    PROVE  TypeInv'
BY DEF TypeInv, TypeOK, CommandsMade, SecretsKnown, Unwritten, vars, memVars, dbVars, noteVars

LEMMA NextTyped ==
    ASSUME TypeInv, [Next]_vars
    PROVE  TypeInv'
BY CallsTyped, RunnerTyped, TasksTyped, RestartTyped, StutterTyped DEF Next, Pairs

(* Friends, the block list, invites, the queue and the tasks keep their    *)
(* types; open invites were minted, and no row is open and redeemed.       *)
THEOREM RegistryTypes == Spec => []TypeOK
<1>1. TypeInv => TypeOK
  BY DEF TypeInv
<1>. QED
  BY <1>1, InitTypes, NextTyped, PTL DEF Spec

-----------------------------------------------------------------------------
(* What a step does to what is under way                                   *)

LEMMA QueuedAppended ==
    ASSUME TypeInv, NEW c \in Commands, Enqueue(c), NEW ops, NEW p
    PROVE  Queued(ops, p)' <=> Queued(ops, p) \/ (c.op \in ops /\ c.peer = p)
<1>1. queue \in Seq(Commands) /\ queue' = Append(queue, c)
  BY DEF TypeInv, TypeOK, Commands, Enqueue
<1>. QED
  BY <1>1, Appended DEF Queued

LEMMA QueuedTakenOff ==
    ASSUME TypeInv, queue # << >>, Handled, NEW ops, NEW p
    PROVE  /\ Queued(ops, p) => Queued(ops, p)' \/ (Head(queue).op \in ops /\ Head(queue).peer = p)
           /\ Queued(ops, p)' => Queued(ops, p)
<1>1. queue \in Seq(Commands) /\ queue' = Tail(queue)
  BY DEF TypeInv, TypeOK, Commands, Handled
<1>2. Queued(ops, p)' => Queued(ops, p)
  BY <1>1, TakenOff DEF Queued
<1>3. ASSUME Queued(ops, p)
      PROVE  Queued(ops, p)' \/ (Head(queue).op \in ops /\ Head(queue).peer = p)
  <2>1. PICK i \in DOMAIN queue : queue[i].op \in ops /\ queue[i].peer = p
    BY <1>3 DEF Queued
  <2>2. i = 1 \/ (i - 1 \in DOMAIN queue' /\ queue'[i - 1] = queue[i])
    BY <1>1, TakenOff
  <2>3. Head(queue) = queue[1]
    BY <1>1, TakenOff
  <2>. QED
    BY <2>1, <2>2, <2>3 DEF Queued
<1>. QED
  BY <1>2, <1>3

(* One task moves: the others are where they were.                         *)
LEMMA TaskMoves ==
    ASSUME TypeInv, NEW x \in Pairs, NEW v, session' = [session EXCEPT ![x] = v], NEW pcs, NEW p
    PROVE  /\ session[x].pc \notin pcs \/ p # x[1] => (SessionAt(p, pcs) => SessionAt(p, pcs)')
           /\ v.pc \notin pcs \/ p # x[1] => (SessionAt(p, pcs)' => SessionAt(p, pcs))
           /\ v.pc \in pcs /\ p = x[1] => SessionAt(p, pcs)'
<1>1. session \in [Pairs -> Sessions] /\ x = <<x[1], x[2]>> /\ x[1] \in Peers /\ x[2] \in Ways
  BY DEF TypeInv, TypeOK, Pairs, Sessions
<1>2. session'[x] = v
  BY <1>1
<1>3. \A w \in Ways : IF <<p, w>> = x THEN p = x[1] /\ session'[<<p, w>>] = v
                       ELSE session'[<<p, w>>] = session[<<p, w>>]
  <2>. TAKE w \in Ways
  <2>1. CASE <<p, w>> = x
    BY <1>2, <2>1
  <2>2. CASE <<p, w>> # x
    BY <1>1, <2>2
  <2>. QED
    BY <2>1, <2>2
<1>4. ASSUME v.pc \in pcs, p = x[1]
      PROVE  SessionAt(p, pcs)'
  <2>1. <<p, x[2]>> = x
    BY <1>1, <1>4
  <2>. QED
    BY <1>1, <1>2, <1>4, <2>1 DEF SessionAt
<1>5. ASSUME session[x].pc \notin pcs \/ p # x[1], SessionAt(p, pcs)
      PROVE  SessionAt(p, pcs)'
  <2>1. PICK w \in Ways : session[<<p, w>>].pc \in pcs
    BY <1>5 DEF SessionAt
  <2>2. <<p, w>> # x
    BY <1>3, <1>5, <2>1
  <2>. QED
    BY <1>3, <2>1, <2>2 DEF SessionAt
<1>6. ASSUME v.pc \notin pcs \/ p # x[1], SessionAt(p, pcs)'
      PROVE  SessionAt(p, pcs)
  <2>1. PICK w \in Ways : session'[<<p, w>>].pc \in pcs
    BY <1>6 DEF SessionAt
  <2>2. <<p, w>> # x
    BY <1>3, <1>6, <2>1
  <2>. QED
    BY <1>3, <2>1, <2>2 DEF SessionAt
<1>. QED
  BY <1>4, <1>5, <1>6

(* Going on is moving.                                                     *)
LEMMA GoMoves ==
    ASSUME TypeInv, NEW x \in Pairs, NEW pc, Go(x, pc)
    PROVE  \E v : /\ session' = [session EXCEPT ![x] = v]
                  /\ v.pc = pc
                  /\ v.secret = session[x].secret
<1>1. session[x] \in Sessions
  BY DEF TypeInv, TypeOK, Sessions, Pairs
<1>. WITNESS [session[x] EXCEPT !.pc = pc]
<1>. QED
  BY <1>1 DEF Go, Sessions

(* What the runner does to a task: it starts one for an invite, or cuts    *)
(* the link of a peer that was blocked.                                    *)
LEMMA RunnerTask ==
    ASSUME TypeInv, StoreInvite \/ StartAccept \/ HandleRemove \/ HandleBlock \/ HandleUnblock
    PROVE  \/ session' = session
           \/ \E x \in Pairs :
                \/ /\ session[x] = NoSession /\ session' = [session EXCEPT ![x] = At("connect")]
                   /\ Head(queue).op = "accept" /\ Head(queue).peer = x[1]
                \/ session[x].pc = "link" /\ session' = [session EXCEPT ![x] = At("end")]
<1>1. queue \in Seq(Commands) /\ queue # << >>
  BY DEF StoreInvite, StartAccept, HandleRemove, HandleBlock, HandleUnblock, Next1, TypeInv, TypeOK, Commands
<1>2. Head(queue).op # "store" => Head(queue).peer \in Peers
  BY <1>1, TakenOff DEF TypeInv, CommandsMade
<1>3. CASE StartAccept
  <2>. DEFINE x == <<Head(queue).peer, "out">>
  <2>1. x \in Pairs /\ x[1] = Head(queue).peer
    BY <1>2, <1>3 DEF StartAccept, Next1, Pairs, Ways
  <2>2. session[x] = NoSession /\ session' = [session EXCEPT ![x] = At("connect")] /\ Head(queue).op = "accept"
    BY <1>3 DEF StartAccept, Next1
  <2>. HIDE DEF x
  <2>. QED
    BY <2>1, <2>2
<1>4. CASE HandleBlock /\ session' # session
  <2>. DEFINE x == <<Head(queue).peer, links[Head(queue).peer]>>
  <2>1. Head(queue).peer \in Peers /\ links[Head(queue).peer] # NoLink
    BY <1>2, <1>4 DEF HandleBlock, Next1
  <2>2. x \in Pairs
    BY <2>1 DEF Pairs, TypeInv, TypeOK
  <2>3. session[x].pc = "link" /\ session' = [session EXCEPT ![x] = At("end")]
    BY <1>4 DEF HandleBlock
  <2>. HIDE DEF x
  <2>. QED
    BY <2>2, <2>3
<1>. QED
  BY <1>3, <1>4 DEF StoreInvite, HandleRemove, HandleUnblock

-----------------------------------------------------------------------------
(* Dropped friends                                                         *)

Dropping == {"remove", "block"}
Turning == {"memory", "unfriend"}

(* The row and the friend in memory differ for a moment only.              *)
Passing(p) == Queued(Dropping, p) \/ SessionAt(p, Turning)

(* A step that drops no friend and adds no row keeps the moment, or brings *)
(* the two together.                                                       *)
LEMMA DroppedByPassing ==
    ASSUME DroppedStayDropped,
           \A p \in dbFriends' \ friends' : Passing(p)' \/ (p \in dbFriends \ friends /\ (Passing(p) => Passing(p)'))
    PROVE  DroppedStayDropped'
BY DEF DroppedStayDropped, Passing, Dropping, Turning

LEMMA CallsDropped ==
    ASSUME TypeInv, DroppedStayDropped,
           \/ \E s \in Secrets : InviteCommit(s)
           \/ \E p \in Peers : InviteAccept(p) \/ FriendRemove(p) \/ BlockMark(p) \/ Unblock(p)
           \/ BlockDrop
    PROVE  DroppedStayDropped'
<1>1. /\ UNCHANGED <<dbFriends, session>>
      /\ queue' = queue \/ \E c \in Commands : Enqueue(c)
  <2>1. \A s \in Secrets : Command("store", NoPeer, s) \in Commands
    BY DEF Command, Commands, Ops
  <2>2. \A p \in Peers, op \in Ops : PeerCommand(op, p) \in Commands
    BY DEF Command, PeerCommand, Commands
  <2>3. ~Free => blocking \in Peers
    BY DEF Free, TypeInv, TypeOK
  <2>. QED
    BY <2>1, <2>2, <2>3
    DEF InviteCommit, InviteAccept, FriendRemove, BlockMark, BlockDrop, Unblock, dbVars, Ops
<1>2. \A p : Passing(p) => Passing(p)'
  BY <1>1, QueuedAppended DEF Passing, Queued, SessionAt
<1>3. \A p \in friends \ friends' : Passing(p)'
  <2>1. CASE \E p \in Peers : FriendRemove(p)
    <3>. PICK p \in Peers : FriendRemove(p)
      BY <2>1
    <3>. DEFINE c == PeerCommand("remove", p)
    <3>1. c \in Commands /\ c.op \in Dropping /\ c.peer = p
      BY DEF Command, PeerCommand, Commands, Ops, Dropping
    <3>2. Enqueue(c) /\ friends' = friends \ {p}
      BY DEF FriendRemove
    <3>. QED
      BY <3>1, <3>2, QueuedAppended DEF Passing
  <2>2. CASE BlockDrop
    <3>. DEFINE c == PeerCommand("block", blocking)
    <3>1. c \in Commands /\ c.op \in Dropping /\ c.peer = blocking
      BY <2>2 DEF Command, PeerCommand, Commands, Ops, Dropping, BlockDrop, Free, TypeInv, TypeOK
    <3>2. Enqueue(c) /\ friends' = friends \ {blocking}
      BY <2>2 DEF BlockDrop
    <3>. QED
      BY <3>1, <3>2, QueuedAppended DEF Passing
  <2>3. CASE friends' = friends
    BY <2>3
  <2>. QED
    BY <2>1, <2>2, <2>3 DEF InviteCommit, InviteAccept, BlockMark, Unblock, memVars
<1>. QED
  BY <1>1, <1>2, <1>3, DroppedByPassing

LEMMA RunnerDropped ==
    ASSUME TypeInv, DroppedStayDropped,
           StoreInvite \/ StartAccept \/ HandleRemove \/ HandleBlock \/ HandleUnblock
    PROVE  DroppedStayDropped'
<1>1. queue \in Seq(Commands) /\ queue # << >> /\ Handled /\ friends' = friends
  BY DEF StoreInvite, StartAccept, HandleRemove, HandleBlock, HandleUnblock, Next1, TypeInv, TypeOK, Commands, memVars
<1>2. ASSUME NEW p \in dbFriends'
      PROVE  Queued(Dropping, p) => Queued(Dropping, p)'
  <2>1. ~(Head(queue).op \in Dropping /\ Head(queue).peer = p)
    BY DEF Dropping, StoreInvite, StartAccept, HandleRemove, HandleBlock, HandleUnblock, Next1, dbVars
  <2>. QED
    BY <1>1, <2>1, QueuedTakenOff
<1>3. ASSUME NEW p
      PROVE  SessionAt(p, Turning) => SessionAt(p, Turning)'
  <2>1. CASE session' = session
    BY <2>1 DEF SessionAt
  <2>2. ASSUME NEW x \in Pairs, NEW v, session[x] = NoSession \/ session[x].pc = "link",
               session' = [session EXCEPT ![x] = v]
        PROVE  SessionAt(p, Turning) => SessionAt(p, Turning)'
    <3>1. session[x].pc \notin Turning
      BY <2>2 DEF Turning, NoSession
    <3>. QED
      BY <2>2, <3>1, TaskMoves
  <2>. QED
    BY <2>1, <2>2, RunnerTask
<1>4. dbFriends' \subseteq dbFriends
  BY DEF StoreInvite, StartAccept, HandleRemove, HandleBlock, HandleUnblock, dbVars
<1>. QED
  BY <1>1, <1>2, <1>3, <1>4, DroppedByPassing DEF Passing

LEMMA TasksDropped ==
    ASSUME TypeInv, DroppedStayDropped,
           \/ \E p \in Peers : Accept(p) \/ Dial(p) \/ Welcomed(p)
           \/ \E p \in Peers, s \in Secrets : Redeem(p, s)
           \/ \E x \in Pairs : Session(x)
    PROVE  DroppedStayDropped'
<1>1. queue' = queue
  BY DEF Accept, Dial, Welcomed, Redeem, Session, MarkRedeemed, AddRow, AddFriend, Register, Fail, Unfriend,
         UnfriendRow, LinkEnd
<1>2. \A p : Queued(Dropping, p)' <=> Queued(Dropping, p)
  BY <1>1 DEF Queued
<1>3. ASSUME NEW x \in Pairs, session[x].pc \notin Turning, UNCHANGED <<friends, dbFriends>>,
             NEW v, session' = [session EXCEPT ![x] = v]
      PROVE  DroppedStayDropped'
  <2>1. \A p : SessionAt(p, Turning) => SessionAt(p, Turning)'
    BY <1>3, TaskMoves
  <2>. QED
    BY <1>2, <1>3, <2>1, DroppedByPassing DEF Passing
<1>4. CASE \E p \in Peers : Accept(p) \/ Dial(p) \/ Welcomed(p)
  <2>1. \A p \in Peers : <<p, "in">> \in Pairs /\ <<p, "out">> \in Pairs
    BY DEF Pairs, Ways
  <2>2. PICK x \in Pairs, pc \in {"register", "stranger", "dial", "row"} : Go(x, pc) /\ session[x].pc \in {"none", "connect"}
    BY <1>4, <2>1 DEF Accept, Dial, Welcomed, NoSession
  <2>3. session[x].pc \notin Turning /\ UNCHANGED <<friends, dbFriends>>
    BY <1>4, <2>2 DEF Turning, Accept, Dial, Welcomed, memVars, dbVars
  <2>. QED
    BY <1>3, <2>2, <2>3, GoMoves
<1>5. CASE \E p \in Peers, s \in Secrets : Redeem(p, s)
  <2>. PICK p \in Peers, s \in Secrets : Redeem(p, s)
    BY <1>5
  <2>. DEFINE x == <<p, "in">>
  <2>1. x \in Pairs /\ session[x].pc \notin Turning
    BY DEF Pairs, Ways, Turning, Redeem
  <2>2. UNCHANGED <<friends, dbFriends>> /\ \E v : session' = [session EXCEPT ![x] = v]
    BY DEF Redeem, dbVars
  <2>. QED
    BY <1>3, <2>1, <2>2
<1>6. ASSUME NEW x \in Pairs, Session(x)
      PROVE  DroppedStayDropped'
  <2>1. x[1] \in Peers
    BY DEF Pairs
  <2>2. CASE MarkRedeemed(x) \/ Register(x)
    <3>1. PICK pc : Go(x, pc)
      BY <2>2 DEF MarkRedeemed, Register
    <3>2. session[x].pc \notin Turning /\ UNCHANGED <<friends, dbFriends>>
      BY <2>2 DEF MarkRedeemed, Register, Turning, memVars, dbVars
    <3>. QED
      BY <1>3, <3>1, <3>2, GoMoves
  <2>3. CASE Fail(x)
    <3>1. session[x].pc \notin Turning /\ UNCHANGED <<friends, dbFriends>>
      BY <2>3 DEF Fail, Turning, memVars, dbVars
    <3>. QED
      BY <1>3, <2>3, <3>1 DEF Fail, Over
  <2>4. CASE LinkEnd(x)
    <3>1. session[x].pc \notin Turning /\ UNCHANGED <<friends, dbFriends>>
      BY <2>4 DEF LinkEnd, Turning, memVars, dbVars
    <3>. QED
      BY <1>3, <2>4, <3>1 DEF LinkEnd, Over
  <2>5. CASE AddRow(x) \/ Unfriend(x)
    <3>1. PICK pc \in Turning : Go(x, pc)
      BY <2>5 DEF AddRow, Unfriend, Turning
    <3>2. PICK v : session' = [session EXCEPT ![x] = v] /\ v.pc \in Turning
      BY <3>1, GoMoves
    <3>3. session[x].pc \notin Turning
      BY <2>5 DEF AddRow, Unfriend, Turning
    <3>4. /\ SessionAt(x[1], Turning)'
          /\ \A p : SessionAt(p, Turning) => SessionAt(p, Turning)'
      BY <3>2, <3>3, TaskMoves
    <3>5. dbFriends' \ friends' \subseteq (dbFriends \ friends) \cup {x[1]}
      BY <2>5 DEF AddRow, Unfriend, memVars, dbVars
    <3>. QED
      BY <1>2, <3>4, <3>5, DroppedByPassing DEF Passing
  <2>6. CASE AddFriend(x) \/ UnfriendRow(x)
    <3>1. PICK v : session' = [session EXCEPT ![x] = v]
      BY <2>6, GoMoves DEF AddFriend, UnfriendRow
    <3>2. \A p : p # x[1] => (SessionAt(p, Turning) => SessionAt(p, Turning)')
      BY <3>1, TaskMoves
    <3>3. dbFriends' \ friends' \subseteq (dbFriends \ friends) \ {x[1]}
      BY <2>6 DEF AddFriend, UnfriendRow, memVars, dbVars
    <3>. QED
      BY <1>2, <3>2, <3>3, DroppedByPassing DEF Passing
  <2>. QED
    BY <1>6, <2>2, <2>3, <2>4, <2>5, <2>6 DEF Session
<1>. QED
  BY <1>4, <1>5, <1>6

(* The program's calls, the runner, the tasks and a restart each keep it.  *)
LEMMA NextDropped ==
    ASSUME TypeInv, DroppedStayDropped, [Next]_vars
    PROVE  DroppedStayDropped'
<1>1. CASE Restart
  BY <1>1 DEF Restart, DroppedStayDropped
<1>2. CASE UNCHANGED vars
  BY <1>2 DEF DroppedStayDropped, Queued, SessionAt, vars, memVars, dbVars
<1>. QED
  BY <1>1, <1>2, CallsDropped, RunnerDropped, TasksDropped DEF Next, Pairs

(* A friend that friend_remove, block or the peer's Unfriend dropped comes *)
(* back with the next start only if the process dies first: a row without  *)
(* a friend in memory is about to go, or its friend about to be added.     *)
THEOREM DroppedFriendsStayDropped == Spec => []DroppedStayDropped
<1>1. Init => DroppedStayDropped
  BY DEF Init, DroppedStayDropped
<1>. QED
  BY <1>1, InitTypes, NextTyped, NextDropped, PTL DEF Spec

-----------------------------------------------------------------------------
(* The block list                                                          *)

SettingOps == {"block", "unblock"}

(* The last command about the peer's being blocked blocks it.              *)
LastBlocks(p) == \E i \in Settings(p) : queue[i].op = "block" /\ \A j \in Settings(p) : j <= i

(* A command that is appended is the last.                                 *)
LEMMA SettingAppended ==
    ASSUME TypeInv, NEW c \in Commands, Enqueue(c), NEW p
    PROVE  IF c.op \in SettingOps /\ c.peer = p
           THEN Settings(p)' # {} /\ (LastBlocks(p)' <=> c.op = "block")
           ELSE (Settings(p)' = {} <=> Settings(p) = {}) /\ (LastBlocks(p)' <=> LastBlocks(p))
<1>1. queue \in Seq(Commands) /\ queue' = Append(queue, c)
  BY DEF TypeInv, TypeOK, Commands, Enqueue
<1>. DEFINE n == Len(queue) + 1
<1>2. /\ n \in DOMAIN queue' /\ queue'[n] = c /\ n \in Int
      /\ DOMAIN queue' = DOMAIN queue \cup {n}
      /\ \A i \in DOMAIN queue : queue'[i] = queue[i] /\ i \in Int /\ i < n
  BY <1>1, Appended
<1>. HIDE DEF n
<1>3. CASE c.op \in SettingOps /\ c.peer = p
  <2>1. Settings(p)' = Settings(p) \cup {n}
    BY <1>2, <1>3 DEF Settings, SettingOps
  <2>2. \A i \in Settings(p) : i \in Int /\ i < n
    BY <1>2 DEF Settings
  <2>3. \A i \in Settings(p)' : (\A j \in Settings(p)' : j <= i) <=> i = n
    BY <1>2, <2>1, <2>2
  <2>. QED
    BY <1>2, <1>3, <2>1, <2>3 DEF LastBlocks
<1>4. CASE ~(c.op \in SettingOps /\ c.peer = p)
  <2>1. Settings(p)' = Settings(p)
    BY <1>2, <1>4 DEF Settings, SettingOps
  <2>2. \A i \in Settings(p) : queue'[i] = queue[i]
    BY <1>2 DEF Settings
  <2>. QED
    BY <1>4, <2>1, <2>2 DEF LastBlocks
<1>. QED
  BY <1>3, <1>4

(* What the runner takes off decides only if nothing about the peer comes  *)
(* behind it.                                                              *)
LEMMA SettingTakenOff ==
    ASSUME TypeInv, queue # << >>, Handled, NEW p
    PROVE  IF Head(queue).op \in SettingOps /\ Head(queue).peer = p
           THEN /\ Settings(p) # {}
                /\ LastBlocks(p) <=> IF Settings(p)' = {} THEN Head(queue).op = "block" ELSE LastBlocks(p)'
           ELSE (Settings(p)' = {} <=> Settings(p) = {}) /\ (LastBlocks(p)' <=> LastBlocks(p))
<1>1. queue \in Seq(Commands) /\ queue' = Tail(queue)
  BY DEF TypeInv, TypeOK, Commands, Handled
<1>2. /\ 1 \in DOMAIN queue /\ Head(queue) = queue[1]
      /\ \A i \in DOMAIN queue : i \in Int /\ i >= 1
      /\ \A i \in DOMAIN queue' : i + 1 \in DOMAIN queue /\ queue'[i] = queue[i + 1] /\ i \in Int /\ i >= 1
      /\ \A i \in DOMAIN queue : i = 1 \/ (i - 1 \in DOMAIN queue' /\ queue'[i - 1] = queue[i])
  BY <1>1, TakenOff
<1>3. /\ \A i \in Settings(p)' : i \in Int /\ i >= 1 /\ i + 1 \in Settings(p) /\ queue'[i] = queue[i + 1]
      /\ \A i \in Settings(p) : i \in Int /\ i >= 1
      /\ \A i \in Settings(p) : i = 1 \/ (i - 1 \in Settings(p)' /\ queue'[i - 1] = queue[i])
  BY <1>2 DEF Settings
<1>4. 1 \in Settings(p) <=> Head(queue).op \in SettingOps /\ Head(queue).peer = p
  BY <1>2 DEF Settings, SettingOps
<1>5. ASSUME Settings(p)' # {}
      PROVE  LastBlocks(p)' <=> LastBlocks(p)
  <2>1. ASSUME LastBlocks(p)'
        PROVE  LastBlocks(p)
    <3>1. PICK i \in Settings(p)' : queue'[i].op = "block" /\ \A j \in Settings(p)' : j <= i
      BY <2>1 DEF LastBlocks
    <3>2. i + 1 \in Settings(p) /\ queue[i + 1].op = "block"
      BY <1>3, <3>1
    <3>3. \A j \in Settings(p) : j <= i + 1
      BY <1>3, <3>1
    <3>. QED
      BY <3>2, <3>3 DEF LastBlocks
  <2>2. ASSUME LastBlocks(p)
        PROVE  LastBlocks(p)'
    <3>1. PICK i \in Settings(p) : queue[i].op = "block" /\ \A j \in Settings(p) : j <= i
      BY <2>2 DEF LastBlocks
    <3>2. i # 1
      BY <1>3, <1>5, <3>1
    <3>3. i - 1 \in Settings(p)' /\ queue'[i - 1].op = "block"
      BY <1>3, <3>1, <3>2
    <3>4. \A j \in Settings(p)' : j <= i - 1
      BY <1>3, <3>1
    <3>. QED
      BY <3>3, <3>4 DEF LastBlocks
  <2>. QED
    BY <2>1, <2>2
<1>6. ASSUME Settings(p)' = {}
      PROVE  /\ 1 \in Settings(p) => (LastBlocks(p) <=> Head(queue).op = "block")
             /\ 1 \notin Settings(p) => Settings(p) = {}
             /\ ~LastBlocks(p)'
  <2>1. \A i \in Settings(p) : i = 1
    BY <1>3, <1>6
  <2>. QED
    BY <1>2, <1>6, <2>1 DEF LastBlocks
<1>. QED
  BY <1>3, <1>4, <1>5, <1>6 DEF LastBlocks

(* The verdict in short.                                                   *)
LEMMA VerdictIs ==
    ASSUME NEW p
    PROVE  WillBeBlocked(p) <=> \/ p = blocking
                                \/ Settings(p) = {} /\ p \in dbBlocked
                                \/ Settings(p) # {} /\ LastBlocks(p)
BY DEF WillBeBlocked, LastBlocks

(* A step that leaves the peer's commands, Node::block and the rows alone  *)
(* leaves the verdict.                                                     *)
LEMMA VerdictStays ==
    ASSUME NEW p, blocking' = p <=> blocking = p, p \in dbBlocked' <=> p \in dbBlocked,
           Settings(p)' = {} <=> Settings(p) = {}, LastBlocks(p)' <=> LastBlocks(p)
    PROVE  WillBeBlocked(p)' <=> WillBeBlocked(p)
BY VerdictIs DEF WillBeBlocked, LastBlocks

LEMMA VerdictUntouched ==
    ASSUME BlocksFollowed, UNCHANGED <<blocked, blocking, dbBlocked, queue>>
    PROVE  BlocksFollowed'
BY DEF BlocksFollowed, WillBeBlocked, Settings

LEMMA CallsFollowed ==
    ASSUME TypeInv, BlocksFollowed,
           \/ \E s \in Secrets : InviteCommit(s)
           \/ \E p \in Peers : InviteAccept(p) \/ FriendRemove(p) \/ BlockMark(p) \/ Unblock(p)
           \/ BlockDrop
    PROVE  BlocksFollowed'
<1>0. dbBlocked' = dbBlocked
  BY DEF InviteCommit, InviteAccept, FriendRemove, BlockMark, BlockDrop, Unblock, dbVars
<1>1. ASSUME NEW c \in Commands, Enqueue(c), c.op \notin SettingOps, UNCHANGED <<blocked, blocking>>
      PROVE  BlocksFollowed'
  BY <1>0, <1>1, SettingAppended, VerdictStays DEF BlocksFollowed
<1>2. CASE \E s \in Secrets : InviteCommit(s)
  <2>. PICK s \in Secrets : InviteCommit(s)
    BY <1>2
  <2>. DEFINE c == Command("store", NoPeer, s)
  <2>1. c \in Commands /\ c.op \notin SettingOps
    BY DEF Command, Commands, Ops, SettingOps
  <2>2. Enqueue(c) /\ UNCHANGED <<blocked, blocking>>
    BY DEF InviteCommit
  <2>. QED
    BY <1>1, <2>1, <2>2
<1>3. CASE \E p \in Peers : InviteAccept(p) \/ FriendRemove(p)
  <2>. PICK p \in Peers : InviteAccept(p) \/ FriendRemove(p)
    BY <1>3
  <2>1. PICK op \in {"accept", "remove"} : Enqueue(PeerCommand(op, p)) /\ UNCHANGED <<blocked, blocking>>
    BY DEF InviteAccept, FriendRemove, memVars
  <2>2. PeerCommand(op, p) \in Commands /\ PeerCommand(op, p).op \notin SettingOps
    BY DEF PeerCommand, Command, Commands, Ops, SettingOps
  <2>. QED
    BY <1>1, <2>1, <2>2
<1>4. CASE \E p \in Peers : BlockMark(p)
  <2>. PICK p \in Peers : BlockMark(p)
    BY <1>4
  <2>1. ASSUME NEW q \in Peers
        PROVE  q \in blocked' <=> WillBeBlocked(q)'
    <3>1. CASE q = p
      BY <3>1 DEF BlockMark, WillBeBlocked
    <3>2. CASE q # p
      <4>1. blocking # q /\ blocking' # q
        BY <3>2, NoneAssumption DEF BlockMark, Free
      <4>2. Settings(q)' = Settings(q) /\ (LastBlocks(q)' <=> LastBlocks(q))
        BY DEF BlockMark, Settings, LastBlocks
      <4>3. WillBeBlocked(q)' <=> WillBeBlocked(q)
        BY <1>0, <4>1, <4>2, VerdictStays
      <4>. QED
        BY <3>2, <4>3 DEF BlocksFollowed, BlockMark
    <3>. QED
      BY <3>1, <3>2
  <2>. QED
    BY <2>1 DEF BlocksFollowed
<1>5. CASE BlockDrop \/ \E p \in Peers : Unblock(p)
  <2>. DEFINE Ends(op, p) ==
                 /\ Enqueue(PeerCommand(op, p))
                 /\ blocking' = NoPeer
                 /\ blocking \in {p, NoPeer}
                 /\ blocked' = IF op = "block" THEN blocked ELSE blocked \ {p}
                 /\ op = "block" => p \in blocked
  <2>1. PICK op \in SettingOps, p \in Peers : Ends(op, p)
    <3>1. CASE BlockDrop
      <4>1. blocking \in Peers /\ blocking \in blocked
        BY <3>1 DEF BlockDrop, Free, TypeInv, TypeOK, BlocksFollowed, WillBeBlocked
      <4>2. Ends("block", blocking)
        BY <3>1, <4>1 DEF BlockDrop
      <4>. QED
        BY <4>1, <4>2 DEF SettingOps
    <3>2. CASE \E p \in Peers : Unblock(p)
      <4>1. PICK p \in Peers : Unblock(p)
        BY <3>2
      <4>2. Ends("unblock", p)
        BY <4>1 DEF Unblock, Free
      <4>. QED
        BY <4>2 DEF SettingOps
    <3>. QED
      BY <1>5, <3>1, <3>2
  <2>. DEFINE c == PeerCommand(op, p)
  <2>2. c \in Commands /\ c.op = op /\ c.peer = p
    BY DEF PeerCommand, Command, Commands, Ops, SettingOps
  <2>. HIDE DEF c
  <2>3. Enqueue(c)
    BY <2>1 DEF c
  <2>4. ASSUME NEW q \in Peers
        PROVE  q \in blocked' <=> WillBeBlocked(q)'
    <3>1. blocking' # q
      BY <2>1, NoneAssumption
    <3>2. WillBeBlocked(q)' <=> IF Settings(q)' = {} THEN q \in dbBlocked' ELSE LastBlocks(q)'
      BY <3>1 DEF WillBeBlocked, LastBlocks
    <3>3. CASE q = p
      <4>1. Settings(q)' # {} /\ (LastBlocks(q)' <=> op = "block")
        BY <2>2, <2>3, <3>3, SettingAppended
      <4>. QED
        BY <2>1, <3>2, <3>3, <4>1 DEF SettingOps
    <3>4. CASE q # p
      <4>1. (Settings(q)' = {} <=> Settings(q) = {}) /\ (LastBlocks(q)' <=> LastBlocks(q))
        BY <2>2, <2>3, <3>4, SettingAppended
      <4>2. blocking # q
        BY <2>1, <3>4, NoneAssumption
      <4>3. WillBeBlocked(q)' <=> WillBeBlocked(q)
        BY <1>0, <3>1, <4>1, <4>2, VerdictStays
      <4>. QED
        BY <2>1, <3>4, <4>3 DEF BlocksFollowed
    <3>. QED
      BY <3>3, <3>4
  <2>. QED
    BY <2>4 DEF BlocksFollowed
<1>. QED
  BY <1>2, <1>3, <1>4, <1>5

LEMMA RunnerFollowed ==
    ASSUME TypeInv, BlocksFollowed,
           StoreInvite \/ StartAccept \/ HandleRemove \/ HandleBlock \/ HandleUnblock
    PROVE  BlocksFollowed'
<1>1. queue # << >> /\ Handled /\ UNCHANGED <<blocked, blocking>>
  BY DEF StoreInvite, StartAccept, HandleRemove, HandleBlock, HandleUnblock, Next1, memVars
<1>. DEFINE h == Head(queue)
<1>2. ASSUME NEW p \in Peers
      PROVE  WillBeBlocked(p)' <=> WillBeBlocked(p)
  <2>1. CASE ~(h.op \in SettingOps /\ h.peer = p)
    <3>1. p \in dbBlocked' <=> p \in dbBlocked
      BY <2>1 DEF StoreInvite, StartAccept, HandleRemove, HandleBlock, HandleUnblock, Next1, dbVars, SettingOps
    <3>. QED
      BY <1>1, <2>1, <3>1, SettingTakenOff, VerdictStays
  <2>2. CASE h.op \in SettingOps /\ h.peer = p
    <3>1. p \in dbBlocked' <=> h.op = "block"
      BY <2>2 DEF StoreInvite, StartAccept, HandleRemove, HandleBlock, HandleUnblock, Next1, SettingOps
    <3>2. /\ Settings(p) # {}
          /\ LastBlocks(p) <=> IF Settings(p)' = {} THEN h.op = "block" ELSE LastBlocks(p)'
      BY <1>1, <2>2, SettingTakenOff
    <3>3. WillBeBlocked(p)' <=> \/ p = blocking'
                                \/ Settings(p)' = {} /\ p \in dbBlocked'
                                \/ Settings(p)' # {} /\ LastBlocks(p)'
      BY DEF WillBeBlocked, LastBlocks
    <3>. QED
      BY <1>1, <3>1, <3>2, <3>3, VerdictIs
  <2>. QED
    BY <2>1, <2>2
<1>. QED
  BY <1>1, <1>2 DEF BlocksFollowed

LEMMA NextFollowed ==
    ASSUME TypeInv, BlocksFollowed, [Next]_vars
    PROVE  BlocksFollowed'
<1>1. CASE Restart
  BY <1>1, NoneAssumption DEF Restart, BlocksFollowed, WillBeBlocked, Settings
<1>2. CASE \E p \in Peers : Accept(p) \/ Dial(p) \/ Welcomed(p) \/ \E s \in Secrets : Redeem(p, s)
  <2>1. UNCHANGED <<blocked, blocking, dbBlocked, queue>>
    BY <1>2 DEF Accept, Dial, Welcomed, Redeem, memVars, dbVars
  <2>. QED
    BY <2>1, VerdictUntouched
<1>3. CASE \E x \in Pairs : Session(x)
  <2>1. UNCHANGED <<blocked, blocking, dbBlocked, queue>>
    BY <1>3 DEF Session, MarkRedeemed, AddRow, AddFriend, Register, Fail, Unfriend, UnfriendRow, LinkEnd, memVars, dbVars
  <2>. QED
    BY <2>1, VerdictUntouched
<1>4. CASE UNCHANGED vars
  <2>1. UNCHANGED <<blocked, blocking, dbBlocked, queue>>
    BY <1>4 DEF vars, memVars, dbVars
  <2>. QED
    BY <2>1, VerdictUntouched
<1>. QED
  BY <1>1, <1>2, <1>3, <1>4, CallsFollowed, RunnerFollowed DEF Next, Pairs

(* The database follows the block list: when the runner has worked off its *)
(* queue, a row says blocked exactly for the peers that are, whatever      *)
(* order block and unblock came in and wherever the process died.          *)
THEOREM BlockListFollowed == Spec => []BlocksFollowed
<1>1. Init => BlocksFollowed
  BY NoneAssumption DEF Init, BlocksFollowed, WillBeBlocked, Settings
<1>. QED
  BY <1>1, InitTypes, NextTyped, NextFollowed, PTL DEF Spec

(* So both tables follow the memory of the node: where a row is too many   *)
(* or a mark missing, a command or a task that changes it is under way.    *)
COROLLARY TablesAlwaysFollow == Spec => []TablesFollow
<1>1. DroppedStayDropped /\ BlocksFollowed => TablesFollow
  BY DEF TablesFollow
<1>. QED
  BY <1>1, DroppedFriendsStayDropped, BlockListFollowed, PTL

-----------------------------------------------------------------------------
(* Invites                                                                 *)

(* A step that opens no invite and gives no task one keeps what is so.     *)
LEMMA UsedOnceStays ==
    ASSUME InvitesUsedOnce, added' = added, late' = late, minted' = minted, dbRedeemed' = dbRedeemed,
           invites' \subseteq invites \cup dbInvites, dbInvites' \subseteq dbInvites,
           \A x \in Pairs, s \in Secrets : Holds(x, s)' => Holds(x, s) /\ session'[x] = session[x],
           (\A x \in Pairs, s \in Secrets : ~Holds(x, s)') \/ invites' \subseteq invites
    PROVE  InvitesUsedOnce'
<1>1. ASSUME NEW s \in Secrets \ late
      PROVE  UsedOnce(s)'
  <2>1. UsedOnce(s)
    BY DEF InvitesUsedOnce
  <2>. QED
    BY <2>1 DEF UsedOnce, Open
<1>. QED
  BY <1>1 DEF InvitesUsedOnce

(* A task that moves on with no invite, or past the steps that need one,   *)
(* holds none.                                                             *)
LEMMA TaskHolds ==
    ASSUME TypeInv, NEW x \in Pairs, NEW v, session' = [session EXCEPT ![x] = v],
           v.secret = NoSecret \/ v.pc \notin {"mark", "row"}
    PROVE  \A y \in Pairs, s \in Secrets : Holds(y, s)' => Holds(y, s) /\ session'[y] = session[y]
<1>1. session \in [Pairs -> Sessions]
  BY DEF TypeInv, TypeOK, Pairs, Sessions
<1>2. session'[x] = v /\ \A y \in Pairs : y # x => session'[y] = session[y]
  BY <1>1
<1>. QED
  BY <1>2, NoneAssumption DEF Holds

LEMMA CommitOnce ==
    ASSUME TypeInv, InvitesUsedOnce, NEW s \in Secrets, InviteCommit(s)
    PROVE  InvitesUsedOnce'
<1>1. /\ s \notin minted /\ minted' = minted \cup {s} /\ invites' = invites \cup {s}
      /\ UNCHANGED <<dbInvites, dbRedeemed, session, added, late>>
  BY DEF InviteCommit, dbVars
<1>2. \A x \in Pairs : ~Holds(x, s)
  BY <1>1, NoneAssumption DEF Holds, TypeInv, SecretsKnown
<1>3. ASSUME NEW t \in Secrets \ late
      PROVE  UsedOnce(t)'
  <2>1. UsedOnce(t)
    BY DEF InvitesUsedOnce
  <2>2. \A x \in Pairs : Holds(x, t)' <=> Holds(x, t)
    BY <1>1 DEF Holds
  <2>. QED
    BY <1>1, <1>2, <2>1, <2>2 DEF UsedOnce, Open
<1>. QED
  BY <1>1, <1>3 DEF InvitesUsedOnce

LEMMA StoreOnce ==
    ASSUME TypeInv, InvitesUsedOnce, StoreInvite
    PROVE  InvitesUsedOnce'
<1>. DEFINE s == Head(queue).secret
<1>1. dbInvites' = dbInvites \cup {s} /\ UNCHANGED <<invites, dbRedeemed, session, minted, added, late>>
  BY DEF StoreInvite, memVars, noteVars
<1>2. s \in Unwritten
  <2>1. queue \in Seq(Commands) /\ queue # << >> /\ Head(queue).op = "store"
    BY DEF StoreInvite, Next1, TypeInv, TypeOK, Commands
  <2>. QED
    BY <2>1, TakenOff DEF TypeInv, CommandsMade
<1>. HIDE DEF s
<1>3. ASSUME NEW t \in Secrets \ late
      PROVE  UsedOnce(t)'
  <2>1. UsedOnce(t)
    BY DEF InvitesUsedOnce
  <2>2. \A x \in Pairs : Holds(x, t)' <=> Holds(x, t)
    BY <1>1 DEF Holds
  <2>. QED
    BY <1>1, <1>2, <2>1, <2>2 DEF UsedOnce, Open, Unwritten
<1>. QED
  BY <1>1, <1>3 DEF InvitesUsedOnce

(* The first to present the invite takes it: nobody had it.                *)
LEMMA RedeemOnce ==
    ASSUME TypeInv, InvitesUsedOnce, NEW p \in Peers, NEW s \in Secrets, Redeem(p, s)
    PROVE  InvitesUsedOnce'
<1>. DEFINE x == <<p, "in">>
<1>1. /\ s \in invites /\ invites' = invites \ {s}
      /\ session' = [session EXCEPT ![x] = [pc |-> "mark", secret |-> s]]
      /\ UNCHANGED <<dbInvites, dbRedeemed, minted, added, late>>
  BY DEF Redeem, dbVars, noteVars
<1>2. x \in Pairs /\ session \in [Pairs -> Sessions]
  BY DEF Pairs, Ways, TypeInv, TypeOK, Sessions
<1>. HIDE DEF x
<1>3. session'[x] = [pc |-> "mark", secret |-> s] /\ \A y \in Pairs : y # x => session'[y] = session[y]
  BY <1>1, <1>2
<1>4. ASSUME NEW t \in Secrets \ late
      PROVE  UsedOnce(t)'
  <2>1. UsedOnce(t)
    BY DEF InvitesUsedOnce
  <2>2. CASE t = s
    <3>1. \A y \in Pairs : ~Holds(y, s) /\ added[s] = 0
      BY <1>1, <2>1, <2>2 DEF UsedOnce, Open
    <3>2. \A y \in Pairs : Holds(y, s)' => y = x /\ session'[y].pc # "row"
      BY <1>3, <3>1 DEF Holds
    <3>. QED
      BY <1>1, <1>2, <2>1, <2>2, <3>1, <3>2 DEF UsedOnce, Open
  <2>3. CASE t # s
    <3>1. \A y \in Pairs : Holds(y, t)' => Holds(y, t) /\ session'[y] = session[y]
      BY <1>3, <2>3 DEF Holds
    <3>. QED
      BY <1>1, <2>1, <2>3, <3>1 DEF UsedOnce, Open
  <2>. QED
    BY <2>2, <2>3
<1>. QED
  BY <1>1, <1>4 DEF InvitesUsedOnce

(* Its row is marked, or it counts as late.                                *)
LEMMA MarkOnce ==
    ASSUME TypeInv, InvitesUsedOnce, NEW x \in Pairs, MarkRedeemed(x)
    PROVE  InvitesUsedOnce'
<1>. DEFINE s == session[x].secret
<1>1. /\ session[x].pc = "mark"
      /\ dbInvites' = dbInvites \ {s}
      /\ UNCHANGED <<invites, minted, added>>
      /\ IF s \in dbInvites \cup dbRedeemed
         THEN dbRedeemed' = dbRedeemed \cup {s} /\ UNCHANGED late
         ELSE late' = late \cup {s} /\ UNCHANGED dbRedeemed
  BY DEF MarkRedeemed, memVars
<1>2. session \in [Pairs -> Sessions] /\ session' = [session EXCEPT ![x].pc = "row"]
  BY DEF TypeInv, TypeOK, Pairs, Sessions, MarkRedeemed, Go
<1>3. Holds(x, s)
  BY <1>1 DEF Holds
<1>. HIDE DEF s
<1>4. /\ \A y \in Pairs : session'[y].secret = session[y].secret
      /\ \A y \in Pairs : y # x => session'[y] = session[y]
      /\ session[x].secret = s
  BY <1>2 DEF Sessions, s
<1>5. ASSUME NEW t \in Secrets \ late'
      PROVE  UsedOnce(t)'
  <2>1. t \in Secrets \ late /\ UsedOnce(t)
    BY <1>1 DEF InvitesUsedOnce
  <2>2. \A y \in Pairs : Holds(y, t)' => Holds(y, t) /\ (y # x => session'[y] = session[y])
    BY <1>1, <1>4 DEF Holds
  <2>3. CASE t = s
    <3>1. s \in dbRedeemed' /\ dbRedeemed \subseteq dbRedeemed'
      BY <1>1, <2>1, <2>3
    <3>. QED
      BY <1>1, <1>3, <2>1, <2>2, <2>3, <3>1 DEF UsedOnce, Open
  <2>4. CASE t # s
    <3>1. dbRedeemed \subseteq dbRedeemed' /\ \A y \in Pairs : Holds(y, t)' => y # x
      BY <1>1, <1>4, <2>4 DEF Holds
    <3>. QED
      BY <1>1, <2>1, <2>2, <2>4, <3>1 DEF UsedOnce, Open
  <2>. QED
    BY <2>3, <2>4
<1>. QED
  BY <1>5 DEF InvitesUsedOnce

(* The friendship is counted; the task lets go of the invite.              *)
LEMMA AddOnce ==
    ASSUME TypeInv, InvitesUsedOnce, NEW x \in Pairs, AddRow(x)
    PROVE  InvitesUsedOnce'
<1>. DEFINE s == session[x].secret
<1>1. /\ session[x].pc = "row" /\ added' = Count(s)
      /\ UNCHANGED <<invites, dbInvites, dbRedeemed, minted, late>>
  BY DEF AddRow, memVars
<1>2. \A y \in Pairs, t \in Secrets : Holds(y, t)' => Holds(y, t) /\ session'[y] = session[y] /\ y # x
  <2>1. PICK v : session' = [session EXCEPT ![x] = v] /\ v.pc = "memory"
    BY GoMoves DEF AddRow
  <2>2. session'[x] = v
    BY <2>1 DEF TypeInv, TypeOK, Pairs
  <2>. QED
    BY <2>1, <2>2, TaskHolds DEF Holds
<1>3. Holds(x, s)
  BY <1>1 DEF Holds
<1>. HIDE DEF s
<1>4. ASSUME NEW t \in Secrets \ late
      PROVE  UsedOnce(t)'
  <2>1. UsedOnce(t) /\ added \in [Secrets -> Nat]
    BY DEF InvitesUsedOnce, TypeInv, TypeOK
  <2>2. CASE t = s
    <3>1. added[t] = 0 /\ t \notin invites /\ t \in dbRedeemed /\ \A y \in Pairs : Holds(y, t) => y = x
      BY <1>1, <1>3, <2>1, <2>2 DEF UsedOnce, s
    <3>2. added'[t] = 1
      BY <1>1, <2>1, <2>2, <3>1 DEF Count
    <3>3. t \notin dbInvites /\ t \in minted
      BY <3>1 DEF TypeInv, TypeOK
    <3>4. \A y \in Pairs : ~Holds(y, t)'
      BY <1>2, <3>1
    <3>. QED
      BY <1>1, <3>1, <3>2, <3>3, <3>4 DEF UsedOnce, Open
  <2>3. CASE t # s
    <3>1. added'[t] = added[t]
      BY <1>1, <2>1, <2>3 DEF Count
    <3>. QED
      BY <1>1, <1>2, <2>1, <3>1 DEF UsedOnce, Open
  <2>. QED
    BY <2>2, <2>3
<1>. QED
  BY <1>1, <1>4 DEF InvitesUsedOnce

LEMMA TasksOnce ==
    ASSUME TypeInv, InvitesUsedOnce,
           \/ \E p \in Peers : Accept(p) \/ Dial(p) \/ Welcomed(p)
           \/ \E x \in Pairs : AddFriend(x) \/ Register(x) \/ Fail(x) \/ Unfriend(x) \/ UnfriendRow(x) \/ LinkEnd(x)
    PROVE  InvitesUsedOnce'
<1>1. UNCHANGED <<invites, dbInvites, dbRedeemed, minted, added, late>>
  BY DEF Accept, Dial, Welcomed, AddFriend, Register, Fail, Unfriend, UnfriendRow, LinkEnd, memVars, dbVars, noteVars
<1>2. ASSUME NEW x \in Pairs, NEW v, session' = [session EXCEPT ![x] = v],
             v.secret = NoSecret \/ v.pc \notin {"mark", "row"}
      PROVE  InvitesUsedOnce'
  BY <1>1, <1>2, TaskHolds, UsedOnceStays
<1>3. CASE \E p \in Peers : Accept(p) \/ Dial(p) \/ Welcomed(p)
  <2>. PICK p \in Peers : Accept(p) \/ Dial(p) \/ Welcomed(p)
    BY <1>3
  <2>1. <<p, "in">> \in Pairs /\ <<p, "out">> \in Pairs
    BY DEF Pairs, Ways
  <2>2. session[<<p, "out">>].secret = NoSecret
    BY <2>1 DEF TypeInv, SecretsKnown
  <2>3. PICK x \in Pairs, pc \in {"register", "stranger", "dial", "row"} : Go(x, pc) /\ (pc \notin {"mark", "row"} \/ session[x].secret = NoSecret)
    BY <2>1, <2>2 DEF Accept, Dial, Welcomed
  <2>4. PICK v : session' = [session EXCEPT ![x] = v] /\ v.pc = pc /\ v.secret = session[x].secret
    BY <2>3, GoMoves
  <2>. QED
    BY <1>2, <2>3, <2>4
<1>4. CASE \E x \in Pairs : AddFriend(x) \/ Fail(x) \/ LinkEnd(x)
  <2>1. \A pc : At(pc).secret = NoSecret
    BY DEF At
  <2>2. NoSession.secret = NoSecret
    BY DEF NoSession
  <2>. QED
    BY <1>2, <1>4, <2>1, <2>2 DEF AddFriend, Fail, LinkEnd, Over
<1>5. CASE \E x \in Pairs : Register(x) \/ Unfriend(x) \/ UnfriendRow(x)
  <2>1. PICK x \in Pairs, pc \in {"link", "unfriend", "end"} : Go(x, pc)
    BY <1>5 DEF Register, Unfriend, UnfriendRow
  <2>2. PICK v : session' = [session EXCEPT ![x] = v] /\ v.pc = pc
    BY <2>1, GoMoves
  <2>3. v.pc \notin {"mark", "row"}
    BY <2>2
  <2>. QED
    BY <1>2, <2>2, <2>3
<1>. QED
  BY <1>3, <1>4, <1>5

LEMMA RunnerOnce ==
    ASSUME TypeInv, InvitesUsedOnce, StartAccept \/ HandleRemove \/ HandleBlock \/ HandleUnblock
    PROVE  InvitesUsedOnce'
<1>1. UNCHANGED <<invites, dbInvites, dbRedeemed, minted, added, late>>
  BY DEF StartAccept, HandleRemove, HandleBlock, HandleUnblock, memVars, dbVars, noteVars
<1>2. \A y \in Pairs, s \in Secrets : Holds(y, s)' => Holds(y, s) /\ session'[y] = session[y]
  <2>1. CASE session' = session
    BY <2>1 DEF Holds
  <2>2. ASSUME NEW x \in Pairs, NEW pc, session' = [session EXCEPT ![x] = At(pc)]
        PROVE  \A y \in Pairs, s \in Secrets : Holds(y, s)' => Holds(y, s) /\ session'[y] = session[y]
    <3>1. At(pc).secret = NoSecret
      BY DEF At
    <3>. QED
      BY <2>2, <3>1, TaskHolds
  <2>. QED
    BY <2>1, <2>2, RunnerTask
<1>. QED
  BY <1>1, <1>2, UsedOnceStays

LEMMA RestartOnce ==
    ASSUME TypeInv, InvitesUsedOnce, Restart
    PROVE  InvitesUsedOnce'
<1>1. invites' = dbInvites /\ UNCHANGED <<dbInvites, dbRedeemed, minted, added, late>>
  BY DEF Restart, noteVars
<1>2. \A x \in Pairs, s \in Secrets : ~Holds(x, s)'
  BY DEF Restart, Holds, NoSession, Pairs
<1>. QED
  BY <1>1, <1>2, UsedOnceStays

LEMMA NextOnce ==
    ASSUME TypeInv, InvitesUsedOnce, [Next]_vars
    PROVE  InvitesUsedOnce'
<1>1. CASE \/ UNCHANGED vars \/ BlockDrop
           \/ \E p \in Peers : InviteAccept(p) \/ FriendRemove(p) \/ BlockMark(p) \/ Unblock(p)
  <2>1. UNCHANGED <<invites, dbInvites, dbRedeemed, minted, added, late, session>>
    BY <1>1 DEF vars, BlockDrop, InviteAccept, FriendRemove, BlockMark, Unblock, memVars, dbVars, noteVars
  <2>. QED
    BY <2>1, UsedOnceStays DEF Holds
<1>. QED
  BY <1>1, CommitOnce, StoreOnce, RedeemOnce, MarkOnce, AddOnce, TasksOnce, RunnerOnce, RestartOnce
  DEF Next, Pairs, Session

(* An invite whose row was written before it was presented makes one       *)
(* friendship at most: whoever presents it, on how many connections at     *)
(* once, and wherever the process dies between taking it from memory,      *)
(* marking its row and making the friend.                                  *)
THEOREM InvitesMakeOneFriendship == Spec => []InviteSingleUse
<1>1. Init => InvitesUsedOnce
  <2>. SUFFICES ASSUME Init PROVE InvitesUsedOnce
    OBVIOUS
  <2>1. \A x \in Pairs, s \in Secrets : ~Holds(x, s)
    BY DEF Init, Holds, NoSession, Pairs
  <2>. QED
    BY <2>1 DEF Init, InvitesUsedOnce, UsedOnce, Open
<1>2. InvitesUsedOnce => InviteSingleUse
  BY DEF InvitesUsedOnce, UsedOnce, InviteSingleUse
<1>. QED
  BY <1>1, <1>2, InitTypes, NextTyped, NextOnce, PTL DEF Spec

-----------------------------------------------------------------------------
(* Blocked peers                                                           *)

JoinSteps == {"stranger", "connect", "mark", "row", "memory"}

LEMMA OutsideIs ==
    ASSUME NEW p
    PROVE  Outside(p) <=> p \in blocked /\ p \notin friends /\ ~SessionAt(p, JoinSteps) /\ ~Queued({"accept"}, p)
BY DEF Outside, Joining, JoinSteps

LEMMA OutsideStays ==
    ASSUME NEW p, Outside(p), p \in blocked', p \notin friends',
           SessionAt(p, JoinSteps)' => SessionAt(p, JoinSteps), Queued({"accept"}, p)' => Queued({"accept"}, p)
    PROVE  Outside(p)'
BY DEF Outside, Joining, JoinSteps

LEMMA CallsOutside ==
    ASSUME TypeInv, NEW p \in Peers, Outside(p), p \in blocked',
           \/ \E s \in Secrets : InviteCommit(s)
           \/ \E q \in Peers : InviteAccept(q) \/ FriendRemove(q) \/ BlockMark(q) \/ Unblock(q)
           \/ BlockDrop
    PROVE  Outside(p)'
<1>1. session' = session /\ friends' \subseteq friends
  BY DEF InviteCommit, InviteAccept, FriendRemove, BlockMark, BlockDrop, Unblock, memVars
<1>2. ASSUME NEW c \in Commands, Enqueue(c), ~(c.op = "accept" /\ c.peer = p)
      PROVE  Outside(p)'
  <2>1. Queued({"accept"}, p)' => Queued({"accept"}, p)
    BY <1>2, QueuedAppended
  <2>. QED
    BY <1>1, <2>1, OutsideStays, OutsideIs DEF SessionAt
<1>3. CASE \E s \in Secrets : InviteCommit(s)
  <2>. PICK s \in Secrets : InviteCommit(s)
    BY <1>3
  <2>. DEFINE c == Command("store", NoPeer, s)
  <2>1. c \in Commands /\ c.op # "accept" /\ Enqueue(c)
    BY DEF Command, Commands, Ops, InviteCommit
  <2>. QED
    BY <1>2, <2>1
<1>4. CASE \E q \in Peers : BlockMark(q)
  <2>1. queue' = queue
    BY <1>4 DEF BlockMark
  <2>. QED
    BY <1>1, <2>1, OutsideStays, OutsideIs DEF SessionAt, Queued
<1>5. CASE BlockDrop \/ \E q \in Peers : InviteAccept(q) \/ FriendRemove(q) \/ Unblock(q)
  <2>1. PICK q \in Peers, op \in Ops : Enqueue(PeerCommand(op, q)) /\ (op = "accept" => q \notin blocked)
    BY <1>5 DEF BlockDrop, InviteAccept, FriendRemove, Unblock, Ops, Free, TypeInv, TypeOK
  <2>. DEFINE c == PeerCommand(op, q)
  <2>2. c \in Commands /\ c.op = op /\ c.peer = q
    BY DEF PeerCommand, Command, Commands
  <2>3. p \in blocked
    BY OutsideIs
  <2>. QED
    BY <1>2, <2>1, <2>2, <2>3
<1>. QED
  BY <1>3, <1>4, <1>5

LEMMA RunnerOutside ==
    ASSUME TypeInv, NEW p \in Peers, Outside(p), p \in blocked',
           StoreInvite \/ StartAccept \/ HandleRemove \/ HandleBlock \/ HandleUnblock
    PROVE  Outside(p)'
<1>1. queue \in Seq(Commands) /\ queue # << >> /\ Handled /\ friends' = friends
  BY DEF StoreInvite, StartAccept, HandleRemove, HandleBlock, HandleUnblock, Next1, TypeInv, TypeOK, Commands, memVars
<1>2. Queued({"accept"}, p)' => Queued({"accept"}, p)
  BY <1>1, QueuedTakenOff
<1>3. ~(Head(queue).op = "accept" /\ Head(queue).peer = p)
  BY <1>1, TakenOff, OutsideIs DEF Queued
<1>4. SessionAt(p, JoinSteps)' => SessionAt(p, JoinSteps)
  <2>1. CASE session' = session
    BY <2>1 DEF SessionAt
  <2>2. ASSUME NEW x \in Pairs, NEW pc, session' = [session EXCEPT ![x] = At(pc)], p # x[1] \/ pc \notin JoinSteps
        PROVE  SessionAt(p, JoinSteps)' => SessionAt(p, JoinSteps)
    <3>1. At(pc).pc = pc
      BY DEF At
    <3>. QED
      BY <2>2, <3>1, TaskMoves
  <2>3. "end" \notin JoinSteps
    BY DEF JoinSteps
  <2>. QED
    BY <1>3, <2>1, <2>2, <2>3, RunnerTask
<1>. QED
  BY <1>1, <1>2, <1>4, OutsideStays, OutsideIs

(* No task of the peer is on its way to a friendship, and none sets out.   *)
LEMMA TasksOutside ==
    ASSUME TypeInv, NEW p \in Peers, Outside(p), p \in blocked',
           \/ \E q \in Peers : Accept(q) \/ Dial(q) \/ Welcomed(q)
           \/ \E q \in Peers, s \in Secrets : Redeem(q, s)
           \/ \E x \in Pairs : Session(x)
    PROVE  Outside(p)'
<1>0. /\ p \in blocked /\ p \notin friends
      /\ \A x \in Pairs : x[1] = p => session[x].pc \notin JoinSteps
  BY OutsideIs DEF SessionAt, Pairs
<1>1. queue' = queue
  BY DEF Accept, Dial, Welcomed, Redeem, Session, MarkRedeemed, AddRow, AddFriend, Register, Fail, Unfriend,
         UnfriendRow, LinkEnd
<1>2. ASSUME NEW x \in Pairs, NEW v, session' = [session EXCEPT ![x] = v], p # x[1] \/ v.pc \notin JoinSteps,
             p \notin friends'
      PROVE  Outside(p)'
  <2>1. SessionAt(p, JoinSteps)' => SessionAt(p, JoinSteps)
    BY <1>2, TaskMoves
  <2>2. Queued({"accept"}, p)' => Queued({"accept"}, p)
    BY <1>1 DEF Queued
  <2>. QED
    BY <1>2, <2>1, <2>2, OutsideStays
<1>3. ASSUME NEW x \in Pairs, NEW pc, Go(x, pc), p # x[1] \/ pc \notin JoinSteps, friends' \subseteq friends
      PROVE  Outside(p)'
  <2>1. PICK v : session' = [session EXCEPT ![x] = v] /\ v.pc = pc
    BY <1>3, GoMoves
  <2>. QED
    BY <1>0, <1>2, <1>3, <2>1
<1>4. CASE \E q \in Peers : Accept(q) \/ Dial(q) \/ Welcomed(q)
  <2>1. PICK q \in Peers : Accept(q) \/ Dial(q) \/ Welcomed(q)
    BY <1>4
  <2>2. <<q, "in">> \in Pairs /\ <<q, "out">> \in Pairs
    BY DEF Pairs, Ways
  <2>3. friends' = friends
    BY <2>1 DEF Accept, Dial, Welcomed, memVars
  <2>4. CASE Accept(q)
    BY <1>0, <1>3, <2>2, <2>3, <2>4 DEF Accept
  <2>5. CASE Dial(q)
    BY <1>0, <1>3, <2>2, <2>3, <2>5 DEF Dial
  <2>6. CASE Welcomed(q)
    <3>1. q # p
      BY <1>0, <2>2, <2>6 DEF Welcomed, JoinSteps
    <3>. QED
      BY <1>3, <2>2, <2>3, <2>6, <3>1 DEF Welcomed
  <2>. QED
    BY <2>1, <2>4, <2>5, <2>6
<1>5. CASE \E q \in Peers, s \in Secrets : Redeem(q, s)
  <2>. PICK q \in Peers, s \in Secrets : Redeem(q, s)
    BY <1>5
  <2>. DEFINE x == <<q, "in">>
  <2>1. x \in Pairs /\ x[1] = q /\ session[x].pc = "stranger"
    BY DEF Pairs, Ways, Redeem
  <2>2. q # p
    BY <1>0, <2>1 DEF JoinSteps
  <2>3. friends' = friends /\ \E v : session' = [session EXCEPT ![x] = v]
    BY DEF Redeem
  <2>. HIDE DEF x
  <2>. QED
    BY <1>0, <1>2, <2>1, <2>2, <2>3
<1>6. ASSUME NEW x \in Pairs, Session(x)
      PROVE  Outside(p)'
  <2>1. CASE MarkRedeemed(x) \/ AddRow(x)
    <3>1. x[1] # p
      BY <1>0, <2>1 DEF MarkRedeemed, AddRow, JoinSteps
    <3>2. friends' = friends /\ \E pc : Go(x, pc)
      BY <2>1 DEF MarkRedeemed, AddRow, memVars
    <3>. QED
      BY <1>3, <3>1, <3>2
  <2>2. CASE AddFriend(x)
    <3>1. x[1] # p
      BY <1>0, <2>2 DEF AddFriend, JoinSteps
    <3>2. p \notin friends' /\ \E v : session' = [session EXCEPT ![x] = v]
      BY <1>0, <2>2, <3>1 DEF AddFriend
    <3>. QED
      BY <1>2, <3>1, <3>2
  <2>3. CASE Register(x) \/ Unfriend(x) \/ UnfriendRow(x)
    <3>1. PICK pc \in {"link", "unfriend", "end"} : Go(x, pc) /\ friends' \subseteq friends
      BY <2>3 DEF Register, Unfriend, UnfriendRow, memVars
    <3>2. pc \notin JoinSteps
      BY DEF JoinSteps
    <3>. QED
      BY <1>3, <3>1, <3>2
  <2>4. CASE Fail(x) \/ LinkEnd(x)
    <3>1. session' = [session EXCEPT ![x] = NoSession] /\ friends' = friends
      BY <2>4 DEF Fail, LinkEnd, Over, memVars
    <3>2. NoSession.pc \notin JoinSteps
      BY DEF NoSession, JoinSteps
    <3>. QED
      BY <1>0, <1>2, <3>1, <3>2
  <2>. QED
    BY <1>6, <2>1, <2>2, <2>3, <2>4 DEF Session
<1>. QED
  BY <1>4, <1>5, <1>6

(* Once a blocked peer is out, and nothing of it was under way, it stays   *)
(* out for as long as it is blocked and the process lives: no call, no     *)
(* command in the queue and no connection's task makes it a friend.        *)
THEOREM BlockedPeersStayOut == Spec => BlockedStayOut
<1>1. TypeInv /\ [Next]_vars
      => [Restart \/ \A p \in Peers : Outside(p) /\ p \in blocked' => Outside(p)']_vars
  BY CallsOutside, RunnerOutside, TasksOutside DEF Next, Pairs
<1>. QED
  BY <1>1, InitTypes, NextTyped, PTL DEF Spec, BlockedStayOut
=============================================================================
