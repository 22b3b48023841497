-------------------------------- MODULE Calls --------------------------------
(***************************************************************************)
(* Call signalling between two friends (node/calls.rs, feature calls):     *)
(* ring, answer and hang up over the friend link.  A node keeps a table of *)
(* the calls it knows.  Its program's calls (one thread of it) change the  *)
(* table and queue a frame; the node's runner sends the frame on the link  *)
(* of that moment, on a stream of its own, so a later frame may overtake   *)
(* it; the tasks of the connections (run_link) handle the friend's frames  *)
(* and end every call when no link is left.                                *)
(***************************************************************************)
EXTENDS Integers, Sequences

CONSTANTS
    CallNodes,    \* the two friends
    CallIds,      \* ids of calls: random and never 0
    MaxPaths,     \* bound on the connections that come up
    MaxUses       \* bound on the program's answers and hang-ups

ASSUME CallNodesAssumption == \E a, b \in CallNodes : a # b /\ CallNodes = {a, b}
ASSUME CallsBoundsAssumption == MaxPaths \in Nat /\ MaxUses \in Nat

NoLink == 0
CallConns == 1..MaxPaths
NoCallYet == 0

ASSUME CallIdsAssumption == CallIds \subseteq Nat \ {NoCallYet}

VARIABLES
    calls,     \* Shared.calls: the calls a node knows
    thread,    \* where the program's thread is in a call of the library
    queued,    \* FriendCmd::Send commands the runner has not handled
    wire,      \* frames on the streams of a connection
    conns,     \* connections: not yet "none", "up" or "down"
    tasks,     \* run_link of a node and a connection
    link,      \* Shared.links: the registered connection
    minted,    \* ids given to calls so far
    uses,      \* answers and hang-ups so far
    told,      \* history: what a program was told of a call last
    late       \* history: calls a node rang when its last link was gone

signalVars == <<calls, thread, queued, wire, conns, tasks, link, minted, uses, told, late>>

Friend(n) == CHOOSE m \in CallNodes : m # n
Away == [at |-> "away", does |-> "none", call |-> NoCallYet]
Frame == [kind : {"ring", "accept", "decline", "hangup"}, call : CallIds]

CallsInit ==
    /\ calls = [n \in CallNodes |-> {}]
    /\ thread = [n \in CallNodes |-> Away]
    /\ queued = [n \in CallNodes |-> <<>>]
    /\ wire = {}
    /\ conns = [c \in CallConns |-> "none"]
    /\ tasks = [n \in CallNodes |-> [c \in CallConns |-> "none"]]
    /\ link = [n \in CallNodes |-> NoLink]
    /\ minted = {} /\ uses = 0
    /\ told = [n \in CallNodes |-> [k \in CallIds |-> "nothing"]]
    /\ late = {}

Tells(n, k, what) == told' = [told EXCEPT ![n][k] = what]
Known(n, c) == tasks[n][c] \in {"run", "lost"}

-----------------------------------------------------------------------------
(* The program's thread                                                    *)

(* call_ring looks for a link and then takes an id.                        *)
Ring(n) ==
    /\ thread[n] = Away /\ link[n] # NoLink
    /\ \E k \in CallIds \ minted :
         /\ \A j \in CallIds \ minted : k <= j
         /\ minted' = minted \cup {k}
         /\ thread' = [thread EXCEPT ![n] = [at |-> "looked", does |-> "ring", call |-> k]]
    /\ UNCHANGED <<calls, queued, wire, conns, tasks, link, uses, told, late>>

(* call_peer: the call is in the table; which side rang does not matter.   *)
Look(n, k) ==
    /\ thread[n] = Away /\ k \in calls[n] /\ uses < MaxUses
    /\ uses' = uses + 1
    /\ \E does \in {"accept", "decline", "hangup"} :
         thread' = [thread EXCEPT ![n] = [at |-> "looked", does |-> does, call |-> k]]
    /\ UNCHANGED <<calls, queued, wire, conns, tasks, link, minted, told, late>>

(* The table changes before the frame is queued.                           *)
Change(n) ==
    /\ thread[n].at = "looked"
    /\ LET k == thread[n].call
       IN CASE thread[n].does = "ring" ->
                 /\ calls' = [calls EXCEPT ![n] = @ \cup {k}]
                 /\ Tells(n, k, "on")
                 /\ late' = IF \E c \in CallConns : Known(n, c) THEN late ELSE late \cup {k}
            [] thread[n].does \in {"decline", "hangup"} ->
                 /\ calls' = [calls EXCEPT ![n] = @ \ {k}]
                 /\ Tells(n, k, "over") /\ UNCHANGED late
            [] OTHER -> UNCHANGED <<calls, told, late>>
    /\ thread' = [thread EXCEPT ![n].at = "changed"]
    /\ UNCHANGED <<queued, wire, conns, tasks, link, minted, uses>>

(* A hang-up is told by an event of its own: the program asked for it.     *)
SendCall(n) ==
    /\ thread[n].at = "changed"
    /\ queued' = [queued EXCEPT ![n] =
                        Append(@, [kind |-> thread[n].does, call |-> thread[n].call])]
    /\ thread' = [thread EXCEPT ![n] = Away]
    /\ UNCHANGED <<calls, wire, conns, tasks, link, minted, uses, told, late>>

-----------------------------------------------------------------------------
(* The runner and the connections                                          *)

(* FriendCmd::Send: without a link the frame is lost.                      *)
RunnerSends(n) ==
    /\ queued[n] # <<>>
    /\ queued' = [queued EXCEPT ![n] = Tail(@)]
    /\ IF link[n] # NoLink /\ conns[link[n]] = "up"
       THEN wire' = wire \cup {[to |-> Friend(n), conn |-> link[n], frame |-> Head(queued[n])]}
       ELSE UNCHANGED wire
    /\ UNCHANGED <<calls, thread, conns, tasks, link, minted, uses, told, late>>

Connects(c) ==
    /\ conns[c] = "none" /\ \A b \in CallConns : b < c => conns[b] # "none"
    /\ conns' = [conns EXCEPT ![c] = "up"]
    /\ UNCHANGED <<calls, thread, queued, wire, tasks, link, minted, uses, told, late>>

Breaks(c) ==
    /\ conns[c] = "up"
    /\ conns' = [conns EXCEPT ![c] = "down"]
    /\ wire' = {w \in wire : w.conn # c}
    /\ UNCHANGED <<calls, thread, queued, tasks, link, minted, uses, told, late>>

(* The limiter may drop a frame that was read.                             *)
Dropped(w) ==
    /\ w \in wire /\ tasks[w.to][w.conn] = "run"
    /\ wire' = wire \ {w}
    /\ UNCHANGED <<calls, thread, queued, conns, tasks, link, minted, uses, told, late>>

RunLink(n, c) ==
    /\ conns[c] # "none" /\ tasks[n][c] = "none"
    /\ tasks' = [tasks EXCEPT ![n][c] = "run"]
    /\ link' = [link EXCEPT ![n] = c]
    /\ UNCHANGED <<calls, thread, queued, wire, conns, minted, uses, told, late>>

(* calls::on_frame.  An answer is told and changes nothing.                *)
OnFrame(w) ==
    LET n == w.to
        k == w.frame.call
    IN  /\ w \in wire /\ tasks[n][w.conn] = "run"
        /\ wire' = wire \ {w}
        /\ \/ /\ w.frame.kind = "ring" /\ k \notin calls[n]
              /\ calls' = [calls EXCEPT ![n] = @ \cup {k}]
              /\ Tells(n, k, "on")
           \/ /\ w.frame.kind \in {"decline", "hangup"} /\ k \in calls[n]
              /\ calls' = [calls EXCEPT ![n] = @ \ {k}]
              /\ Tells(n, k, "over")
           \/ /\ w.frame.kind = "accept" \/ (w.frame.kind = "ring" <=> k \in calls[n])
              /\ UNCHANGED <<calls, told>>
        /\ UNCHANGED <<thread, queued, conns, tasks, link, minted, uses, late>>

(* A task ends.  Calls are lost with the last link: the task that takes    *)
(* the registered connection out loses it, and so does one that finds none *)
(* registered.  (A mutant: only the registered one does.)                  *)
LosesOwn(n, c) == link[n] = c
LosesLink(n, c) == link[n] \in {c, NoLink}

LinkEnds(n, c) ==
    /\ conns[c] = "down" /\ tasks[n][c] = "run"
    /\ tasks' = [tasks EXCEPT ![n][c] = IF LosesLink(n, c) THEN "lost" ELSE "done"]
    /\ link' = [link EXCEPT ![n] = IF @ = c THEN NoLink ELSE @]
    /\ UNCHANGED <<calls, thread, queued, wire, conns, minted, uses, told, late>>

(* calls::link_lost.                                                       *)
CallsLost(n, c) ==
    /\ tasks[n][c] = "lost"
    /\ tasks' = [tasks EXCEPT ![n][c] = "done"]
    /\ calls' = [calls EXCEPT ![n] = {}]
    /\ told' = [told EXCEPT ![n] = [k \in CallIds |-> IF k \in calls[n] THEN "over" ELSE @[k]]]
    /\ UNCHANGED <<thread, queued, wire, conns, link, minted, uses, late>>

CallsNext ==
    \/ \E n \in CallNodes :
         \/ Ring(n) \/ Change(n) \/ SendCall(n) \/ RunnerSends(n)
         \/ \E k \in CallIds : Look(n, k)
         \/ \E c \in CallConns : RunLink(n, c) \/ LinkEnds(n, c) \/ CallsLost(n, c)
    \/ \E c \in CallConns : Connects(c) \/ Breaks(c)
    \/ \E w \in wire : OnFrame(w) \/ Dropped(w)

CallsSpec == CallsInit /\ [][CallsNext]_signalVars

-----------------------------------------------------------------------------
CallsTypeOK ==
    /\ calls \in [CallNodes -> SUBSET CallIds]
    /\ \A n \in CallNodes :
         /\ thread[n].at \in {"away", "looked", "changed"} /\ thread[n].call \in CallIds \cup {NoCallYet}
         /\ queued[n] \in Seq(Frame)
    /\ wire \subseteq [to : CallNodes, conn : CallConns, frame : Frame]
    /\ conns \in [CallConns -> {"none", "up", "down"}]
    /\ tasks \in [CallNodes -> [CallConns -> {"none", "run", "lost", "done"}]]
    /\ link \in [CallNodes -> CallConns \cup {NoLink}]
    /\ minted \subseteq CallIds /\ uses \in 0..MaxUses /\ late \subseteq CallIds
    /\ told \in [CallNodes -> [CallIds -> {"nothing", "on", "over"}]]

(* "The link to peer is gone: every call with them is over" (calls.rs): a  *)
(* call a node knows has a task of that friend that has still to end.  Not *)
(* so for a call that was rung after the last link was lost, between the   *)
(* look for a link and the insertion: late marks those.                    *)
CallsHaveLinks ==
    \A n \in CallNodes : \A k \in calls[n] \ late : \E c \in CallConns : Known(n, c)

(* A program that takes a call for going on is right: of every call the    *)
(* node no longer knows it was told last that it ended, or ended it itself,*)
(* in whatever order answers, hang-ups, broken links and overtaken frames  *)
(* meet.                                                                   *)
EndsTold ==
    \A n \in CallNodes : \A k \in CallIds : told[n][k] = "on" <=> k \in calls[n]

CallsEnd == CallsHaveLinks /\ EndsTold
=============================================================================
