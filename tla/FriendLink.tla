----------------------------- MODULE FriendLink -----------------------------
(***************************************************************************)
(* Direct texts between two friends (node/friends.rs).                     *)
(*                                                                         *)
(* Each node dials the other whenever it finds no link in its registry,    *)
(* and accepts what the other dials, so two connections may live at once.  *)
(* Either end of a connection runs run_link: it registers the connection,  *)
(* sends every unacknowledged text, and answers frames until the           *)
(* connection is gone.  The command task stores a new text and spawns a    *)
(* send on the link it finds.  Connections break, frames are dropped by    *)
(* the rate limiter, processes die and come back with their database.      *)
(*                                                                         *)
(* Hello, presence and tags frames share the connection and are left out.  *)
(***************************************************************************)
EXTENDS Integers, Sequences, FiniteSets

CONSTANTS
    Nodes,        \* two friends
    Texts,        \* message ids
    Sender,       \* who writes a text
    Conns,        \* connections that can exist at once
    NoConn,       \* no connection
    NoText,       \* no text
    StreamLimit,  \* unread frames the transport lets a side have on a connection
    MaxFaults,    \* bound: losses, failed dials to a live peer, dropped frames, crashes
    DropFrames,   \* whether the rate limiter may drop frames
    LoseOne,      \* whether one connection may break while the other lives
    BreakEarly    \* whether a connection may break before both ends registered it

ASSUME NodesAssumption == \E a \in Nodes, b \in Nodes : a # b /\ Nodes = {a, b}
ASSUME SenderAssumption == Sender \in [Texts -> Nodes]
ASSUME NoneAssumption == NoConn \notin Conns /\ NoText \notin Texts
ASSUME BoundAssumption == /\ StreamLimit \in Nat \ {0}
                          /\ MaxFaults \in Nat
                          /\ DropFrames \in BOOLEAN
                          /\ LoseOne \in BOOLEAN
                          /\ BreakEarly \in BOOLEAN

VARIABLES
    stored, received, shown, acked,  \* messages tables and FriendText events
    up,        \* the nodes whose process runs
    link,      \* Shared::links: the connection registered for the friend
    dialing,   \* the nodes whose FriendDevice::dialing is set
    dialed,    \* the connection dial_friend made
    unlinked,  \* the nodes whose heartbeat found no link, before it locks friends
    cmd,       \* the stored text whose link the command task is looking up
    sends,     \* spawned sends of new texts
    alive,     \* connections that are not broken
    pc,        \* where run_link stands at an end of a connection
    todo,      \* texts flush_outbox has still to send
    held,      \* the text on_frame is handling
    chan,      \* frames an end sent that the other has not read
    faults     \* how many things went wrong so far

mailVars == <<stored, received, shown, acked>>
dialVars == <<up, dialing, dialed, unlinked>>
sendVars == <<cmd, sends>>
endVars == <<pc, todo, held>>
vars == <<mailVars, dialVars, link, sendVars, alive, endVars, chan, faults>>

Ends == Conns \X Nodes
Other(n) == CHOOSE m \in Nodes : m # n

(* The other end of the same connection.                                   *)
Far(e) == <<e[1], Other(e[2])>>

Text(t) == [kind |-> "text", id |-> t]
Ack(t) == [kind |-> "ack", id |-> t]
Frames == [kind : {"text", "ack"}, id : Texts]

Init ==
    /\ stored = {}
    /\ received = {}
    /\ shown = [t \in Texts |-> 0]
    /\ acked = {}
    /\ up = Nodes
    /\ link = [n \in Nodes |-> NoConn]
    /\ dialing = {}
    /\ dialed = [n \in Nodes |-> NoConn]
    /\ unlinked = {}
    /\ cmd = [n \in Nodes |-> NoText]
    /\ sends = {}
    /\ alive = {}
    /\ pc = [e \in Ends |-> "none"]
    /\ todo = [e \in Ends |-> {}]
    /\ held = [e \in Ends |-> NoText]
    /\ chan = [e \in Ends |-> << >>]
    /\ faults = 0

-----------------------------------------------------------------------------
(* Heartbeat and dialing                                                   *)

(* heartbeat_loop copies the links, and only then locks the friends: the   *)
(* link may have come up meanwhile.  (A tick that sees the friend being    *)
(* dialed is left out: it does nothing a later tick does not.)             *)
TickLinks(n) ==
    /\ n \in up \ (dialing \cup unlinked)
    /\ link[n] = NoConn
    /\ unlinked' = unlinked \cup {n}
    /\ UNCHANGED <<mailVars, up, dialing, dialed, link, sendVars, alive, endVars, chan, faults>>

TickFriends(n) ==
    /\ n \in unlinked
    /\ unlinked' = unlinked \ {n}
    /\ dialing' = dialing \cup {n}
    /\ UNCHANGED <<mailVars, up, dialed, link, sendVars, alive, endVars, chan, faults>>

Connecting(n) == n \in dialing /\ dialed[n] = NoConn

Idle(c) ==
    /\ c \notin alive
    /\ \A n \in Nodes : pc[<<c, n>>] = "none" /\ dialed[n] # c /\ chan[<<c, n>>] = << >>
    /\ \A t \in Texts : <<c, t>> \notin sends

(* The dial reaches a running peer, which accepts: both ends start         *)
(* run_link.                                                               *)
DialConnect(n) ==
    /\ Connecting(n)
    /\ up = Nodes
    /\ \E c \in Conns :
        /\ Idle(c)
        /\ alive' = alive \cup {c}
        /\ dialed' = [dialed EXCEPT ![n] = c]
        /\ pc' = [e \in Ends |-> IF e[1] = c THEN "register" ELSE pc[e]]
    /\ UNCHANGED <<mailVars, up, dialing, unlinked, link, sendVars, todo, held, chan, faults>>

(* The handshake fails or times out; next_dial is some later tick.         *)
DialFail(n) ==
    /\ Connecting(n)
    /\ dialing' = dialing \ {n}
    /\ IF up = Nodes THEN faults < MaxFaults /\ faults' = faults + 1 ELSE UNCHANGED faults
    /\ UNCHANGED <<mailVars, up, dialed, unlinked, link, sendVars, alive, endVars, chan>>

(* dial_friend returns from run_link: only now may the node dial again.    *)
DialDone(n) ==
    /\ dialed[n] # NoConn
    /\ pc[<<dialed[n], n>>] = "none"
    /\ dialing' = dialing \ {n}
    /\ dialed' = [dialed EXCEPT ![n] = NoConn]
    /\ UNCHANGED <<mailVars, up, unlinked, link, sendVars, alive, endVars, chan, faults>>

-----------------------------------------------------------------------------
(* run_link                                                                *)

CanSend(e) == e[1] \in alive /\ Len(chan[e]) < StreamLimit

(* send: opening a stream waits for the peer to read; on a broken          *)
(* connection it fails, and the caller goes on.                            *)
Send(e, frame) ==
    \/ CanSend(e) /\ chan' = [chan EXCEPT ![e] = Append(@, frame)]
    \/ e[1] \notin alive /\ UNCHANGED chan

Register(e) ==
    /\ pc[e] = "register"
    /\ link' = [link EXCEPT ![e[2]] = e[1]]
    /\ pc' = [pc EXCEPT ![e] = "outbox"]
    /\ UNCHANGED <<mailVars, dialVars, sendVars, alive, todo, held, chan, faults>>

Outbox(n) == {t \in stored \ acked : Sender[t] = n}

(* What is left to flush decides whether the link reads its first frame.   *)
Flushing(e, left) ==
    /\ todo' = [todo EXCEPT ![e] = left]
    /\ pc' = [pc EXCEPT ![e] = IF left = {} THEN "loop" ELSE "flush"]

(* flush_outbox reads the unacknowledged texts once...                     *)
ReadOutbox(e) ==
    /\ pc[e] = "outbox"
    /\ Flushing(e, Outbox(e[2]))
    /\ UNCHANGED <<mailVars, dialVars, link, sendVars, alive, held, chan, faults>>

(* ...and sends them, until the connection breaks, before the link reads a *)
(* single frame.                                                           *)
FlushSend(e) ==
    /\ pc[e] = "flush"
    /\ \E t \in todo[e] :
        /\ Send(e, Text(t))
        /\ Flushing(e, IF e[1] \in alive THEN todo[e] \ {t} ELSE {})
    /\ UNCHANGED <<mailVars, dialVars, link, sendVars, alive, held, faults>>

Incoming(e) ==
    /\ pc[e] = "loop"
    /\ chan[Far(e)] # << >>

Read(e) == chan' = [chan EXCEPT ![Far(e)] = Tail(@)]

(* Mutations: a duplicate is shown again; it is not acknowledged.          *)
AfterTextAgain(t) == "emit"
AfterTextSilent(t) == IF t \in received THEN "loop" ELSE "emit"

AfterText(t) == IF t \in received THEN "ack" ELSE "emit"

(* message_in stores a new text; a duplicate is acknowledged at once.      *)
RecvText(e, t) ==
    /\ Incoming(e)
    /\ Head(chan[Far(e)]) = Text(t)
    /\ Read(e)
    /\ received' = received \cup {t}
    /\ held' = [held EXCEPT ![e] = t]
    /\ pc' = [pc EXCEPT ![e] = AfterText(t)]
    /\ UNCHANGED <<stored, shown, acked, dialVars, link, sendVars, alive, todo, faults>>

EmitText(e) ==
    /\ pc[e] = "emit"
    /\ shown' = [shown EXCEPT ![held[e]] = @ + 1]
    /\ pc' = [pc EXCEPT ![e] = "ack"]
    /\ UNCHANGED <<stored, received, acked, dialVars, link, sendVars, alive, todo, held, chan, faults>>

(* Mutation: the text is put down before its id is acknowledged.           *)
SendAckNobody(e) ==
    /\ pc[e] = "ack"
    /\ Send(e, Ack(NoText))
    /\ held' = [held EXCEPT ![e] = NoText]
    /\ pc' = [pc EXCEPT ![e] = "loop"]
    /\ UNCHANGED <<mailVars, dialVars, link, sendVars, alive, todo, faults>>

SendAck(e) ==
    /\ pc[e] = "ack"
    /\ Send(e, Ack(held[e]))
    /\ held' = [held EXCEPT ![e] = NoText]
    /\ pc' = [pc EXCEPT ![e] = "loop"]
    /\ UNCHANGED <<mailVars, dialVars, link, sendVars, alive, todo, faults>>

(* message_delivered.                                                      *)
RecvAck(e, t) ==
    /\ Incoming(e)
    /\ Head(chan[Far(e)]) = Ack(t)
    /\ Read(e)
    /\ acked' = acked \cup {t}
    /\ UNCHANGED <<stored, received, shown, dialVars, link, sendVars, alive, endVars, faults>>

(* The rate limiter refuses a frame: it is gone, and nobody is told.       *)
DropFrame(e) ==
    /\ DropFrames
    /\ Incoming(e)
    /\ faults < MaxFaults
    /\ faults' = faults + 1
    /\ Read(e)
    /\ UNCHANGED <<mailVars, dialVars, link, sendVars, alive, endVars>>

(* Mutation: whatever link is registered goes.                             *)
LinkEndAny(e) ==
    /\ pc[e] = "loop"
    /\ e[1] \notin alive
    /\ chan[Far(e)] = << >>
    /\ pc' = [pc EXCEPT ![e] = "none"]
    /\ link' = [link EXCEPT ![e[2]] = NoConn]
    /\ UNCHANGED <<mailVars, dialVars, sendVars, alive, todo, held, chan, faults>>

(* The connection is gone: unregister it, unless a newer link took its     *)
(* place.                                                                  *)
LinkEnd(e) ==
    /\ pc[e] = "loop"
    /\ e[1] \notin alive
    /\ chan[Far(e)] = << >>
    /\ pc' = [pc EXCEPT ![e] = "none"]
    /\ link' = IF link[e[2]] = e[1] THEN [link EXCEPT ![e[2]] = NoConn] ELSE link
    /\ UNCHANGED <<mailVars, dialVars, sendVars, alive, todo, held, chan, faults>>

-----------------------------------------------------------------------------
(* New texts                                                               *)

(* The program sends a text: the command task stores it...                 *)
StoreText(t) ==
    LET n == Sender[t]
    IN  /\ n \in up
        /\ cmd[n] = NoText
        /\ t \notin stored
        /\ stored' = stored \cup {t}
        /\ cmd' = [cmd EXCEPT ![n] = t]
        /\ UNCHANGED <<received, shown, acked, dialVars, link, sends, alive, endVars, chan, faults>>

(* Mutation: a dial under way will flush the text, so it is not sent.      *)
LookupLinkDialing(n) ==
    /\ cmd[n] # NoText
    /\ cmd' = [cmd EXCEPT ![n] = NoText]
    /\ sends' = IF link[n] = NoConn \/ n \in dialing THEN sends ELSE sends \cup {<<link[n], cmd[n]>>}
    /\ UNCHANGED <<mailVars, dialVars, link, alive, endVars, chan, faults>>

(* ...and then looks for a link to send it on.                             *)
LookupLink(n) ==
    /\ cmd[n] # NoText
    /\ cmd' = [cmd EXCEPT ![n] = NoText]
    /\ sends' = IF link[n] = NoConn THEN sends ELSE sends \cup {<<link[n], cmd[n]>>}
    /\ UNCHANGED <<mailVars, dialVars, link, alive, endVars, chan, faults>>

SpawnedSend(c, t) ==
    /\ <<c, t>> \in sends
    /\ Send(<<c, Sender[t]>>, Text(t))
    /\ sends' = sends \ {<<c, t>>}
    /\ UNCHANGED <<mailVars, dialVars, link, cmd, alive, endVars, faults>>

-----------------------------------------------------------------------------
(* The world                                                               *)

(* A lost connection takes at least the idle timeout to be noticed; unless *)
(* BreakEarly, an end has registered it by then.                           *)
Settled(E) == BreakEarly \/ \A e \in E : pc[e] # "register"

(* Connections S break.  An end may still read some of the frames that     *)
(* were on their way to it; nothing reaches the nodes in gone.             *)
Break(S, gone) ==
    /\ alive' = alive \ S
    /\ \E keep \in [Ends -> 0..StreamLimit] :
         /\ \A e \in Ends : keep[e] <= Len(chan[e])
         /\ chan' = [e \in Ends |->
                       IF e[1] \notin S THEN chan[e]
                       ELSE IF Other(e[2]) \in gone THEN << >>
                       ELSE SubSeq(chan[e], 1, keep[e])]

Lose(S) ==
    /\ faults < MaxFaults
    /\ faults' = faults + 1
    /\ Settled(S \X Nodes)
    /\ Break(S, {})
    /\ UNCHANGED <<mailVars, dialVars, link, sendVars, endVars>>

(* The path between the nodes breaks, with every connection on it.         *)
LosePath == alive # {} /\ Lose(alive)

(* One connection breaks, the other does not.                              *)
LoseConn(c) == LoseOne /\ c \in alive /\ Lose({c})

(* A process dies, and with it everything but its database.                *)
Crash(n) ==
    /\ n \in up
    /\ faults < MaxFaults
    /\ faults' = faults + 1
    /\ Settled(alive \X (Nodes \ {n}))
    /\ Break(Conns, {n})
    /\ up' = up \ {n}
    /\ link' = [link EXCEPT ![n] = NoConn]
    /\ dialing' = dialing \ {n}
    /\ dialed' = [dialed EXCEPT ![n] = NoConn]
    /\ unlinked' = unlinked \ {n}
    /\ cmd' = [cmd EXCEPT ![n] = NoText]
    /\ sends' = {s \in sends : Sender[s[2]] # n}
    /\ pc' = [e \in Ends |-> IF e[2] = n THEN "none" ELSE pc[e]]
    /\ todo' = [e \in Ends |-> IF e[2] = n THEN {} ELSE todo[e]]
    /\ held' = [e \in Ends |-> IF e[2] = n THEN NoText ELSE held[e]]
    /\ UNCHANGED mailVars

Restart(n) ==
    /\ n \in Nodes \ up
    /\ up' = up \cup {n}
    /\ UNCHANGED <<mailVars, dialing, dialed, unlinked, link, sendVars, alive, endVars, chan, faults>>

-----------------------------------------------------------------------------
RecvFrame(e) == \E t \in Texts : RecvText(e, t) \/ RecvAck(e, t)

(* run_link, one step after the other.                                     *)
RunLink(e) ==
    \/ Register(e) \/ ReadOutbox(e) \/ FlushSend(e)
    \/ RecvFrame(e) \/ EmitText(e) \/ SendAck(e)
    \/ LinkEnd(e)

Next ==
    \/ \E n \in Nodes :
         \/ TickLinks(n) \/ TickFriends(n)
         \/ DialConnect(n) \/ DialFail(n) \/ DialDone(n)
         \/ LookupLink(n)
         \/ Crash(n) \/ Restart(n)
    \/ \E e \in Ends : RunLink(e) \/ DropFrame(e)
    \/ \E t \in Texts : StoreText(t)
    \/ \E c \in Conns, t \in Texts : SpawnedSend(c, t)
    \/ LosePath
    \/ \E c \in Conns : LoseConn(c)

Spec == Init /\ [][Next]_vars

(* Tasks of a running process are polled for ever, the heartbeat ticks for *)
(* ever, a dial to a running peer ends, and a dead node is started again.  *)
(* Nothing obliges the user to write, or the world to fail.                *)
FairSpec ==
    /\ Spec
    /\ \A n \in Nodes :
        /\ WF_vars(TickLinks(n)) /\ WF_vars(TickFriends(n))
        /\ WF_vars(DialConnect(n) \/ DialFail(n)) /\ WF_vars(DialDone(n))
        /\ WF_vars(LookupLink(n))
        /\ WF_vars(Restart(n))
    /\ \A e \in Ends : WF_vars(RunLink(e))
    /\ \A c \in Conns, t \in Texts : WF_vars(SpawnedSend(c, t))

-----------------------------------------------------------------------------
(* Correctness                                                             *)

MailType ==
    /\ stored \in SUBSET Texts /\ received \in SUBSET Texts /\ acked \in SUBSET Texts
    /\ shown \in [Texts -> Nat]

DialType ==
    /\ up \in SUBSET Nodes /\ dialing \in SUBSET Nodes /\ unlinked \in SUBSET Nodes
    /\ link \in [Nodes -> Conns \cup {NoConn}]
    /\ dialed \in [Nodes -> Conns \cup {NoConn}]
    /\ alive \in SUBSET Conns
    /\ faults \in 0..MaxFaults

SendType ==
    /\ cmd \in [Nodes -> Texts \cup {NoText}]
    /\ sends \in SUBSET (Conns \X Texts)

EndType ==
    /\ pc \in [Ends -> {"none", "register", "outbox", "flush", "loop", "emit", "ack"}]
    /\ todo \in [Ends -> SUBSET Texts]
    /\ held \in [Ends -> Texts \cup {NoText}]

ChanType ==
    /\ chan \in [Ends -> Seq(Frames)]
    /\ \A e \in Ends : Len(chan[e]) <= StreamLimit

(* The variables keep their types, and no side has more than StreamLimit   *)
(* frames unread.                                                          *)
TypeOK == MailType /\ DialType /\ SendType /\ EndType /\ ChanType

(* Links, losses, duplicates and restarts add nothing to what the mailbox  *)
(* promises: exactly-once to the program, and no acknowledgement of a text *)
(* that was not received.                                                  *)
Mailbox == INSTANCE TextMailbox WITH Texts <- Texts, stored <- stored, received <- received,
                                     shown <- shown, acked <- acked
MailboxSpec == Mailbox!Spec

InFrames(e, f) == \E i \in DOMAIN chan[e] : chan[e][i] = f

(* The text, or its acknowledgement, is under way on the connection.       *)
UnderWay(c, t) ==
    LET e == <<c, Sender[t]>>
    IN  \/ <<c, t>> \in sends
        \/ t \in todo[e]
        \/ InFrames(e, Text(t))
        \/ held[Far(e)] = t
        \/ InFrames(Far(e), Ack(t))

(* No text is forgotten between the command task, which stores and then    *)
(* looks for a link, and run_link, which registers and then reads the      *)
(* outbox: once the registered link is past that, every text still waiting *)
(* is under way on it.  (Not so if the rate limiter drops a frame.)        *)
NoTextForgotten ==
    \A n \in Nodes : \A t \in Outbox(n) :
        LET c == link[n]
        IN  c # NoConn /\ c \in alive /\ pc[<<c, n>>] \notin {"register", "outbox"} /\ cmd[n] # t
            => UnderWay(c, t)

(* A stored text is acknowledged in the end, across broken paths and       *)
(* restarts.                                                               *)
TextsDelivered == \A t \in Texts : t \in stored ~> t \in acked

(* A node without a link to its friend gets one again (DESIGN.md: "dials   *)
(* friends it has no link to, with backoff").                              *)
Relinked == \A n \in Nodes : link[n] = NoConn ~> link[n] # NoConn
=============================================================================
