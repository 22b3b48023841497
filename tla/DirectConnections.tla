-------------------------- MODULE DirectConnections --------------------------
(***************************************************************************)
(* Direct connections between two programs (Node::connect, send and        *)
(* disconnect; connect, send and Cmd::Disconnect of the runner;            *)
(* pump_connection and DirectProtocol::accept in node.rs).                 *)
(*                                                                         *)
(* A connection is known to two tables: the one statistics are made of,    *)
(* and the runner's, which it sends and disconnects by.  The task that     *)
(* reads the connection keeps both and tells the program; the program's    *)
(* calls reach the runner through a queue, while connections come and go.  *)
(***************************************************************************)
EXTENDS Integers, Sequences

CONSTANTS
    Conns,          \* connection handles, given out once
    Remotes,        \* nodes at the other end
    MaxConnQueue,   \* bound on the runner's queue
    MaxTold         \* bound on the events of a connection

ASSUME ConnBoundsAssumption == MaxConnQueue \in Nat \ {0} /\ MaxTold \in Nat

VARIABLES
    connQueue,     \* commands for the runner
    pump,          \* where the task of a connection is
    remote,        \* the node at the other end
    transport,     \* the connection itself: "none", "open" or "closed"
    arrived,       \* connections with a message nobody has read
    listed,        \* Shared::conns
    sendable,      \* Runner::conns
    refusedRemotes,\* Shared::blocked
    connTold,      \* events of a connection that were emitted
    asked          \* history: connections disconnected after the program was told of them

connVars == <<connQueue, pump, remote, transport, arrived, listed, sendable,
              refusedRemotes, connTold, asked>>

ConnCommand == [op : {"connect", "send", "disconnect"}, conn : Conns]

ConnInit ==
    /\ connQueue = <<>>
    /\ pump = [c \in Conns |-> "none"]
    /\ remote \in [Conns -> Remotes]
    /\ transport = [c \in Conns |-> "none"]
    /\ arrived = {} /\ listed = {} /\ sendable = {} /\ refusedRemotes = {} /\ asked = {}
    /\ connTold = [c \in Conns |-> <<>>]

TellConn(c, event) == connTold' = [connTold EXCEPT ![c] = Append(@, event)]
PumpGoes(c, from, to) == pump[c] = from /\ pump' = [pump EXCEPT ![c] = to]
Told(c, event) == \E i \in DOMAIN connTold[c] : connTold[c][i] = event

-----------------------------------------------------------------------------
(* The program                                                             *)

PushConn(op, c) ==
    /\ Len(connQueue) < MaxConnQueue
    /\ connQueue' = Append(connQueue, [op |-> op, conn |-> c])

(* Node::connect gives out the handle at once.                             *)
Connect(c) ==
    /\ PumpGoes(c, "none", "queued")
    /\ PushConn("connect", c)
    /\ UNCHANGED <<remote, transport, arrived, listed, sendable, refusedRemotes, connTold, asked>>

(* Node::send and Node::disconnect take any handle.                        *)
CallConn(op, c) ==
    /\ pump[c] # "none"
    /\ PushConn(op, c)
    /\ UNCHANGED <<pump, remote, transport, arrived, listed, sendable, refusedRemotes, connTold, asked>>

(* Node::block and unblock, as far as direct connections know of them.     *)
RefuseRemote(r) ==
    /\ refusedRemotes' = IF r \in refusedRemotes THEN refusedRemotes \ {r} ELSE refusedRemotes \cup {r}
    /\ UNCHANGED <<connQueue, pump, remote, transport, arrived, listed, sendable, connTold, asked>>

-----------------------------------------------------------------------------
(* The runner                                                              *)

TakeConn(op, c) ==
    /\ connQueue # <<>> /\ Head(connQueue) = [op |-> op, conn |-> c]
    /\ connQueue' = Tail(connQueue)

(* Runner::connect: a task of its own dials.                               *)
TakeConnect(c) ==
    /\ TakeConn("connect", c)
    /\ PumpGoes(c, "queued", "dialing")
    /\ UNCHANGED <<remote, transport, arrived, listed, sendable, refusedRemotes, connTold, asked>>

(* Runner::send: what a connection not in the table is sent is an error    *)
(* event; else a task of its own writes a stream, and says so if it cannot.*)
TakeSend(c) ==
    /\ TakeConn("send", c)
    /\ UNCHANGED <<pump, remote, transport, arrived, listed, sendable, refusedRemotes, connTold, asked>>

(* Cmd::Disconnect: one that is not in the table is left alone.            *)
TakeDisconnect(c) ==
    /\ TakeConn("disconnect", c)
    /\ IF c \in sendable
       THEN /\ sendable' = sendable \ {c}
            /\ transport' = [transport EXCEPT ![c] = "closed"]
       ELSE UNCHANGED <<sendable, transport>>
    /\ asked' = IF Told(c, "Connected") THEN asked \cup {c} ELSE asked
    /\ UNCHANGED <<pump, remote, arrived, listed, refusedRemotes, connTold>>

-----------------------------------------------------------------------------
(* The task of a connection                                                *)

(* Runner::connect, the spawned task: the connection is made, or not.      *)
DialUp(c) ==
    /\ PumpGoes(c, "dialing", "made")
    /\ transport' = [transport EXCEPT ![c] = "open"]
    /\ UNCHANGED <<connQueue, remote, arrived, listed, sendable, refusedRemotes, connTold, asked>>

DialDown(c) ==
    /\ PumpGoes(c, "dialing", "over")
    /\ TellConn(c, "Disconnected")
    /\ UNCHANGED <<connQueue, remote, transport, arrived, listed, sendable, refusedRemotes, asked>>

(* DirectProtocol::accept, unless the node is blocked.                     *)
AcceptConn(c) ==
    /\ remote[c] \notin refusedRemotes
    /\ PumpGoes(c, "none", "made")
    /\ transport' = [transport EXCEPT ![c] = "open"]
    /\ UNCHANGED <<connQueue, remote, arrived, listed, sendable, refusedRemotes, connTold, asked>>

(* pump_connection: one table, the other one, and the program is told.     *)
PumpList(c) ==
    /\ PumpGoes(c, "made", "listed")
    /\ listed' = listed \cup {c}
    /\ UNCHANGED <<connQueue, remote, transport, arrived, sendable, refusedRemotes, connTold, asked>>

PumpTable(c) ==
    /\ PumpGoes(c, "listed", "sendable")
    /\ sendable' = sendable \cup {c}
    /\ UNCHANGED <<connQueue, remote, transport, arrived, listed, refusedRemotes, connTold, asked>>

(* Mutation: the program is told before the runner knows of the connection.*)
PumpConnectedEarly(c) ==
    \/ /\ pump[c] = "listed" /\ ~Told(c, "Connected")
       /\ TellConn(c, "Connected")
       /\ UNCHANGED <<connQueue, pump, remote, transport, arrived, listed, sendable, refusedRemotes, asked>>
    \/ /\ PumpGoes(c, "sendable", "reading")
       /\ UNCHANGED <<connQueue, remote, transport, arrived, listed, sendable, refusedRemotes, connTold, asked>>

PumpConnected(c) ==
    /\ PumpGoes(c, "sendable", "reading")
    /\ TellConn(c, "Connected")
    /\ UNCHANGED <<connQueue, remote, transport, arrived, listed, sendable, refusedRemotes, asked>>

(* pump_connection, its loop: a message is read and passed on...           *)
PumpRead(c) ==
    /\ pump[c] = "reading" /\ transport[c] = "open" /\ c \in arrived
    /\ Len(connTold[c]) < MaxTold
    /\ arrived' = arrived \ {c}
    /\ TellConn(c, "Direct")
    /\ UNCHANGED <<connQueue, pump, remote, transport, listed, sendable, refusedRemotes, asked>>

(* ...or is too long or breaks off, or the connection has ended.           *)
PumpBreaks(c) ==
    /\ transport[c] = "closed" \/ c \in arrived
    /\ PumpGoes(c, "reading", "ending")
    /\ UNCHANGED <<connQueue, remote, transport, arrived, listed, sendable, refusedRemotes, connTold, asked>>

(* pump_connection, its end: with the task the last connection is dropped. *)
PumpUntable(c) ==
    /\ PumpGoes(c, "ending", "untabled")
    /\ sendable' = sendable \ {c}
    /\ UNCHANGED <<connQueue, remote, transport, arrived, listed, refusedRemotes, connTold, asked>>

PumpUnlist(c) ==
    /\ PumpGoes(c, "untabled", "unlisted")
    /\ listed' = listed \ {c}
    /\ UNCHANGED <<connQueue, remote, transport, arrived, sendable, refusedRemotes, connTold, asked>>

PumpOver(c) ==
    /\ PumpGoes(c, "unlisted", "over")
    /\ TellConn(c, "Disconnected")
    /\ transport' = [transport EXCEPT ![c] = "closed"]
    /\ UNCHANGED <<connQueue, remote, arrived, listed, sendable, refusedRemotes, asked>>

PumpStep(c) ==
    \/ PumpList(c) \/ PumpTable(c) \/ PumpConnected(c) \/ PumpRead(c) \/ PumpBreaks(c)
    \/ PumpUntable(c) \/ PumpUnlist(c) \/ PumpOver(c)

(* External: the other end, and the network.                               *)
RemoteSends(c) ==
    /\ transport[c] = "open" /\ c \notin arrived
    /\ arrived' = arrived \cup {c}
    /\ UNCHANGED <<connQueue, pump, remote, transport, listed, sendable, refusedRemotes, connTold, asked>>

RemoteCloses(c) ==
    /\ transport[c] = "open"
    /\ transport' = [transport EXCEPT ![c] = "closed"]
    /\ UNCHANGED <<connQueue, pump, remote, arrived, listed, sendable, refusedRemotes, connTold, asked>>

ConnNext ==
    \/ \E r \in Remotes : RefuseRemote(r)
    \/ \E c \in Conns :
        \/ Connect(c) \/ CallConn("send", c) \/ CallConn("disconnect", c)
        \/ TakeConnect(c) \/ TakeSend(c) \/ TakeDisconnect(c)
        \/ DialUp(c) \/ DialDown(c) \/ AcceptConn(c) \/ PumpStep(c)
        \/ RemoteSends(c) \/ RemoteCloses(c)

ConnSpec == ConnInit /\ [][ConnNext]_connVars

-----------------------------------------------------------------------------
ConnTypeOK ==
    /\ connQueue \in Seq(ConnCommand) /\ Len(connQueue) <= MaxConnQueue
    /\ pump \in [Conns -> {"none", "queued", "dialing", "made", "listed", "sendable", "reading",
                           "ending", "untabled", "unlisted", "over"}]
    /\ remote \in [Conns -> Remotes] /\ refusedRemotes \subseteq Remotes
    /\ transport \in [Conns -> {"none", "open", "closed"}]
    /\ arrived \subseteq Conns /\ listed \subseteq Conns /\ sendable \subseteq listed /\ asked \subseteq Conns
    /\ connTold \in [Conns -> Seq({"Connected", "Direct", "Disconnected"})]

(* A program that disconnects a connection it was told is connected gets   *)
(* rid of it, whatever the connection's own task and the other end do in   *)
(* between: once the runner has taken the command, the connection is       *)
(* closed or its task is at its end, no message is passed on any more, and *)
(* when the program hears that a connection has ended, neither table has   *)
(* it.  (Before it was told, a disconnect may find nothing, and the        *)
(* connection comes up all the same.)                                      *)
DisconnectHeeded ==
    \A c \in Conns :
        /\ c \in asked =>
              /\ c \notin sendable
              /\ transport[c] = "closed" \/ pump[c] \in {"untabled", "unlisted", "over"}
        /\ Told(c, "Disconnected") => c \notin listed /\ c \notin sendable
=============================================================================
