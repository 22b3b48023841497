---------------------------- MODULE RoomHistory ----------------------------
(***************************************************************************)
(* How the lines of a channel get into the store and to the program, and   *)
(* how they are cleared (node.rs, node/history.rs).                        *)
(*                                                                         *)
(* The program may have joined the channel more than once; each time it    *)
(* got a handle.  The runner, the task of every handle and the tasks that  *)
(* fetch snapshots from other members run at the same time and lock the    *)
(* store one at a time.  A fetch takes seconds; meanwhile the user clears  *)
(* the history, turns it off, or leaves.  Each of these moves the handle's *)
(* generation, which a fetch compares before it stores a line.             *)
(***************************************************************************)
EXTENDS HistoryStore

CONSTANTS
    Handles,        \* handles of the channel
    Fetches,        \* tasks that fetch a snapshot
    NoHandle,       \* no handle
    NoRequest,      \* a handle does not ask for history
    AnyRequest,     \* a fetch the program asked for itself
    MaxProviders,   \* providers a request accepts
    MaxAsked,       \* bound: enabling, disabling, clearing, fetching on command, and
                    \* requests for history
    MaxWrites       \* bound: lines stored

ASSUME NoneAssumption == NoHandle \notin Handles /\ {NoRequest, AnyRequest} \cap Nat = {}
ASSUME BoundAssumption ==
    /\ MaxProviders \in Nat \ {0}
    /\ {MaxAsked, MaxWrites} \subseteq Nat

VARIABLES
    rooms,      \* Shared::rooms: where a handle stands, its request, its generation
    stored,     \* table channel_history
    blocked,    \* Shared::blocked
    runner,     \* the command the runner is working on
    showing,    \* the live line the task of a handle has stored and will show
    fetch,      \* what a fetching task is doing
    shown,      \* lines handed to the program since the last Cleared
    published,  \* own lines signed so far
    loaded,     \* handles that were handed what is stored
    wasBlocked, \* peers blocked so far
    cancelled,  \* fetches begun before a clear, a toggle or a leave
    asked, writes

noteVars == <<published, loaded, wasBlocked, cancelled>>
countVars == <<asked, writes>>
vars == <<rooms, stored, blocked, runner, showing, fetch, shown, noteVars, countVars>>

NoRoom == [at |-> "none", enabled |-> FALSE, request |-> NoRequest, providers |-> {}, generation |-> 0]
IdleRunner == [pc |-> "idle", room |-> NoHandle, records |-> {}]
IdleFetch == [pc |-> "idle", room |-> NoHandle, from |-> Self, request |-> AnyRequest,
              generation |-> 0, todo |-> {}, line |-> {}]

Own == {r \in Records : AuthorOf[r] = Self}

(* Processes before this one may have left lines in the store, and peers on*)
(* the block list, and other members may hold lines of ours.               *)
Init ==
    /\ rooms = [h \in Handles |-> NoRoom]
    /\ stored \in Leftovers
    /\ published \in {s \in SUBSET Own : stored \cap Own \subseteq s}
    /\ blocked \in SUBSET Peers /\ wasBlocked = blocked
    /\ runner = IdleRunner
    /\ showing = [h \in Handles |-> {}]
    /\ fetch = [f \in Fetches |-> IdleFetch]
    /\ shown = [h \in Handles |-> {}]
    /\ loaded = {} /\ cancelled = {}
    /\ asked = 0 /\ writes = 0

-----------------------------------------------------------------------------
(* The store                                                               *)

(* A fetching task keeps the store locked from its look at the generation  *)
(* to the end of its write.                                                *)
StoreFree == \A f \in Fetches : fetch[f].pc # "insert"

(* channel_history_insert, of a line that is not there.                    *)
Insert(r) ==
    /\ writes < MaxWrites
    /\ writes' = writes + 1
    /\ stored' \in Inserted(stored, r)

(* history::emit.                                                          *)
Show(h, lines) == shown' = [shown EXCEPT ![h] = @ \cup Unblocked(lines, blocked)]

(* channel_history_prune: a line ages.                                     *)
Prune(r) ==
    /\ StoreFree
    /\ r \in stored
    /\ stored' = stored \ {r}
    /\ UNCHANGED <<rooms, blocked, runner, showing, fetch, shown, noteVars, countVars>>

-----------------------------------------------------------------------------
(* Rooms and the commands of the program                                   *)

Contains(h) == rooms[h].at \in {"in", "leaving"}

(* Fetches of a handle that are called off.  One that is writing a line    *)
(* when the handle leaves or is toggled still writes it: the generation is *)
(* then moved without the store.                                           *)
CallOff(h, pcs) == cancelled' = cancelled \cup {f \in Fetches : fetch[f].room = h /\ fetch[f].pc \in pcs}
NotWriting == {"download", "ingest"}
Whole == NotWriting \cup {"insert"}

(* join, and the RoomJoined that follows.                                  *)
Join(h) ==
    /\ rooms[h].at = "none"
    /\ rooms' = [rooms EXCEPT ![h].at = "in"]
    /\ UNCHANGED <<stored, blocked, runner, showing, fetch, shown, noteVars, countVars>>

Command(h, pc) ==
    /\ runner.pc = "idle"
    /\ Contains(h)
    /\ asked < MaxAsked
    /\ asked' = asked + 1
    /\ runner' = [pc |-> pc, room |-> h, records |-> {}]

RunnerAt(pc) == runner.pc = pc
RunnerDone == runner' = IdleRunner

(* Cmd::HistoryClear drops the request...                                  *)
Clear(h) ==
    /\ Command(h, "clear")
    /\ rooms' = [rooms EXCEPT ![h].request = NoRequest, ![h].providers = {}]
    /\ UNCHANGED <<stored, blocked, showing, fetch, shown, noteVars, writes>>

(* ...and then, with the store locked, moves the generation, deletes, and  *)
(* acknowledges.                                                           *)
ClearStore ==
    LET h == runner.room
    IN  /\ RunnerAt("clear")
        /\ StoreFree
        /\ RunnerDone
        /\ rooms' = [rooms EXCEPT ![h].generation = @ + 1]
        /\ stored' = {}
        /\ shown' = [shown EXCEPT ![h] = {}]
        /\ CallOff(h, Whole)
        /\ UNCHANGED <<blocked, showing, fetch, published, loaded, wasBlocked, countVars>>

(* The database fails: nothing but the generation has changed.             *)
ClearFails ==
    LET h == runner.room
    IN  /\ RunnerAt("clear")
        /\ StoreFree
        /\ RunnerDone
        /\ rooms' = [rooms EXCEPT ![h].generation = @ + 1]
        /\ CallOff(h, Whole)
        /\ UNCHANGED <<stored, blocked, showing, fetch, shown,
                       published, loaded, wasBlocked, countVars>>

Toggled(h, on) ==
    rooms' = [rooms EXCEPT ![h].enabled = on, ![h].request = NoRequest, ![h].providers = {},
                           ![h].generation = @ + 1]

(* Cmd::HistoryEnable, off.                                                *)
Disable(h) ==
    /\ Command(h, "idle")
    /\ Toggled(h, FALSE)
    /\ CallOff(h, NotWriting)
    /\ UNCHANGED <<stored, blocked, showing, fetch, shown,
                   published, loaded, wasBlocked, writes>>

(* Cmd::HistoryEnable, on: what is stored is read...                       *)
Enable(h) ==
    /\ Command(h, "read")
    /\ Toggled(h, TRUE)
    /\ CallOff(h, NotWriting)
    /\ UNCHANGED <<stored, blocked, showing, fetch, shown,
                   published, loaded, wasBlocked, writes>>

EnableRead ==
    /\ RunnerAt("read")
    /\ StoreFree
    /\ runner' = [runner EXCEPT !.pc = "show", !.records = stored]
    /\ UNCHANGED <<rooms, stored, blocked, showing, fetch, shown, noteVars, countVars>>

(* history::request: nonces are random, so each is new.                    *)
Ask(h) ==
    /\ asked' = asked + 1
    /\ rooms' = [rooms EXCEPT ![h].request = asked + 1, ![h].providers = {}]

(* ...and shown, and a request goes out.                                   *)
EnableShow ==
    LET h == runner.room
    IN  /\ RunnerAt("show")
        /\ RunnerDone
        /\ Show(h, runner.records)
        /\ loaded' = loaded \cup {h}
        /\ IF asked < MaxAsked THEN Ask(h) ELSE UNCHANGED <<rooms, asked>>
        /\ UNCHANGED <<stored, blocked, showing, fetch,
                       published, wasBlocked, cancelled, writes>>

(* Cmd::HistoryPublish stores a line of our own...                         *)
Publish(h, r) ==
    /\ RunnerAt("idle")
    /\ Contains(h)
    /\ r \in Own \ published
    /\ StoreFree
    /\ published' = published \cup {r}
    /\ Insert(r)
    /\ runner' = [pc |-> "publish", room |-> h, records |-> {r}]
    /\ UNCHANGED <<rooms, blocked, showing, fetch, shown,
                   loaded, wasBlocked, cancelled, asked>>

(* ...and shows it.                                                        *)
PublishShow ==
    /\ RunnerAt("publish")
    /\ RunnerDone
    /\ Show(runner.room, runner.records)
    /\ UNCHANGED <<rooms, stored, blocked, showing, fetch, noteVars, countVars>>

(* Cmd::RoomLeave: the handle's task is aborted: it finishes the frame it  *)
(* is handling and takes no other...                                       *)
Leave(h) ==
    /\ RunnerAt("idle")
    /\ rooms[h].at = "in"
    /\ runner' = [pc |-> "leave", room |-> h, records |-> {}]
    /\ rooms' = [rooms EXCEPT ![h].at = "leaving"]
    /\ UNCHANGED <<stored, blocked, showing, fetch, shown, noteVars, countVars>>

(* ...and it is removed.                                                   *)
LeaveRoom ==
    LET h == runner.room
    IN  /\ RunnerAt("leave")
        /\ RunnerDone
        /\ rooms' = [rooms EXCEPT ![h] = [NoRoom EXCEPT !.at = "left", !.generation = rooms[h].generation + 1]]
        /\ CallOff(h, NotWriting)
        /\ UNCHANGED <<stored, blocked, showing, fetch, shown,
                       published, loaded, wasBlocked, countVars>>

(* Node::block and Node::unblock.                                          *)
Block(p) ==
    /\ p \notin blocked
    /\ blocked' = blocked \cup {p}
    /\ wasBlocked' = wasBlocked \cup {p}
    /\ UNCHANGED <<rooms, stored, runner, showing, fetch, shown, published, loaded, cancelled, countVars>>

Unblock(p) ==
    /\ p \in blocked
    /\ blocked' = blocked \ {p}
    /\ UNCHANGED <<rooms, stored, runner, showing, fetch, shown, noteVars, countVars>>

-----------------------------------------------------------------------------
(* The task of a handle handles one frame after the other.                 *)

Idle(h) == rooms[h].at = "in" /\ showing[h] = {}

(* NeighborUp: a request goes out, unless one is open.                     *)
NeighborUp(h) ==
    /\ Idle(h)
    /\ rooms[h].enabled
    /\ rooms[h].request = NoRequest
    /\ asked < MaxAsked
    /\ Ask(h)
    /\ UNCHANGED <<stored, blocked, runner, showing, fetch, shown, noteVars, writes>>

(* A request is over after fifteen seconds, by tick or for all who look.   *)
RequestExpires(h) ==
    /\ rooms[h].request # NoRequest
    /\ rooms' = [rooms EXCEPT ![h].request = NoRequest, ![h].providers = {}]
    /\ UNCHANGED <<stored, blocked, runner, showing, fetch, shown, noteVars, countVars>>

(* A live HistoryRecord of its author is stored, if it is new...           *)
LiveStore(h, r) ==
    /\ Idle(h)
    /\ AuthorOf[r] \in Peers \ blocked
    /\ StoreFree
    /\ r \notin stored
    /\ Insert(r)
    /\ showing' = [showing EXCEPT ![h] = {r}]
    /\ UNCHANGED <<rooms, blocked, runner, fetch, shown, noteVars, asked>>

(* ...and then, with the store unlocked again, shown.                      *)
LiveShow(h) ==
    /\ showing[h] # {}
    /\ showing' = [showing EXCEPT ![h] = {}]
    /\ Show(h, showing[h])
    /\ UNCHANGED <<rooms, stored, blocked, runner, fetch, noteVars, countVars>>

-----------------------------------------------------------------------------
(* Fetching                                                                *)

Download(f, h, p, request) ==
    /\ fetch[f] = IdleFetch
    /\ fetch' = [fetch EXCEPT ![f] = [pc |-> "download", room |-> h, from |-> p, request |-> request,
                                      generation |-> rooms[h].generation, todo |-> {}, line |-> {}]]

(* receive_offer: an answer to the request that is open, from a provider   *)
(* that has not answered it yet.  A download starts if there is a permit.  *)
ReceiveOffer(h, p) ==
    /\ Idle(h)
    /\ p \notin blocked
    /\ rooms[h].enabled
    /\ rooms[h].request # NoRequest
    /\ p \notin rooms[h].providers
    /\ Cardinality(rooms[h].providers) < MaxProviders
    /\ rooms' = [rooms EXCEPT ![h].providers = @ \cup {p}]
    /\ IF \E f \in Fetches : fetch[f] = IdleFetch
       THEN \E f \in Fetches : Download(f, h, p, rooms[h].request)
       ELSE UNCHANGED fetch
    /\ UNCHANGED <<stored, blocked, runner, showing, shown, noteVars, countVars>>

(* Cmd::HistoryFetch: the program names provider and snapshot.             *)
FetchNow(h, p) ==
    /\ RunnerAt("idle")
    /\ Contains(h)
    /\ asked < MaxAsked
    /\ asked' = asked + 1
    /\ \E f \in Fetches : Download(f, h, p, AnyRequest)
    /\ UNCHANGED <<rooms, stored, blocked, runner, showing, shown, noteVars, writes>>

FetchOver(f) ==
    /\ fetch' = [fetch EXCEPT ![f] = IdleFetch]
    /\ cancelled' = cancelled \ {f}

(* The download fails, takes too long, or is no snapshot.                  *)
DownloadFails(f) ==
    /\ fetch[f].pc = "download"
    /\ FetchOver(f)
    /\ UNCHANGED <<rooms, stored, blocked, runner, showing, shown,
                   published, loaded, wasBlocked, countVars>>

(* Is the result of a download still wanted?                               *)
Wanted(f) ==
    LET h == fetch[f].room
    IN  /\ Contains(h)
        /\ fetch[f].from \notin blocked
        /\ fetch[f].request = AnyRequest \/ (rooms[h].enabled /\ rooms[h].request = fetch[f].request)

(* A snapshot may hold any lines whose authors signed them.                *)
Signed == (Records \ Own) \cup published

Downloaded(f) ==
    /\ fetch[f].pc = "download"
    /\ IF Wanted(f)
       THEN /\ \E lines \in SUBSET Signed : fetch' = [fetch EXCEPT ![f].pc = "ingest", ![f].todo = lines]
            /\ UNCHANGED cancelled
       ELSE FetchOver(f)
    /\ UNCHANGED <<rooms, stored, blocked, runner, showing, shown,
                   published, loaded, wasBlocked, countVars>>

(* ingest_snapshot, line after line: one of a blocked author is skipped... *)
IngestSkip(f, r) ==
    /\ fetch[f].pc = "ingest"
    /\ r \in fetch[f].todo
    /\ AuthorOf[r] \in blocked
    /\ fetch' = [fetch EXCEPT ![f].todo = @ \ {r}]
    /\ UNCHANGED <<rooms, stored, blocked, runner, showing, shown, noteVars, countVars>>

Current(f) == rooms[fetch[f].room].generation = fetch[f].generation

Take(f, r) == fetch' = [fetch EXCEPT ![f].pc = "insert", ![f].todo = @ \ {r}, ![f].line = {r}]

(* Mutation: the generation is not looked at again.                        *)
IngestUnchecked(f, r) ==
    /\ fetch[f].pc = "ingest"
    /\ r \in fetch[f].todo
    /\ AuthorOf[r] \notin blocked
    /\ StoreFree
    /\ writes < MaxWrites
    /\ Take(f, r)
    /\ UNCHANGED <<rooms, stored, blocked, runner, showing, shown, noteVars, countVars>>

(* ...else the store is locked, and if the generation has moved, it ends...*)
IngestCheck(f, r) ==
    /\ fetch[f].pc = "ingest"
    /\ r \in fetch[f].todo
    /\ AuthorOf[r] \notin blocked
    /\ StoreFree
    /\ writes < MaxWrites
    /\ IF Current(f) THEN Take(f, r) /\ UNCHANGED cancelled ELSE FetchOver(f)
    /\ UNCHANGED <<rooms, stored, blocked, runner, showing, shown,
                   published, loaded, wasBlocked, countVars>>

Taken(f) == fetch' = [fetch EXCEPT ![f].pc = "ingest", ![f].line = {}]

(* Mutation: only a handle that still asks is shown the line.              *)
IngestInsertAsked(f) ==
    LET h == fetch[f].room
        new == fetch[f].line \ stored
    IN  /\ fetch[f].pc = "insert"
        /\ Taken(f)
        /\ IF new = {} THEN UNCHANGED <<stored, writes>> ELSE \E r \in new : Insert(r)
        /\ IF rooms[h].request = NoRequest THEN UNCHANGED shown ELSE Show(h, new)
        /\ UNCHANGED <<rooms, blocked, runner, showing, noteVars, asked>>

(* ...else a new line is stored, and shown before the store is unlocked.   *)
IngestInsert(f) ==
    LET new == fetch[f].line \ stored
    IN  /\ fetch[f].pc = "insert"
        /\ Taken(f)
        /\ IF new = {} THEN UNCHANGED <<stored, writes>> ELSE \E r \in new : Insert(r)
        /\ Show(fetch[f].room, new)
        /\ UNCHANGED <<rooms, blocked, runner, showing, noteVars, asked>>

(* ...and when none is left, it is over.                                   *)
Ingested(f) ==
    /\ fetch[f].pc = "ingest"
    /\ fetch[f].todo = {}
    /\ FetchOver(f)
    /\ UNCHANGED <<rooms, stored, blocked, runner, showing, shown,
                   published, loaded, wasBlocked, countVars>>

-----------------------------------------------------------------------------
Runner ==
    \/ ClearStore \/ ClearFails \/ EnableRead \/ EnableShow
    \/ PublishShow \/ LeaveRoom
    \/ \E h \in Handles :
         \/ Join(h) \/ Clear(h) \/ Disable(h) \/ Enable(h) \/ Leave(h)
         \/ \E r \in Records : Publish(h, r)
         \/ \E p \in Peers : FetchNow(h, p)

Task(h) ==
    \/ NeighborUp(h) \/ LiveShow(h)
    \/ \E r \in Records : LiveStore(h, r)
    \/ \E p \in Peers : ReceiveOffer(h, p)

Fetching(f) ==
    \/ DownloadFails(f) \/ Downloaded(f) \/ IngestInsert(f) \/ Ingested(f)
    \/ \E r \in Records : IngestSkip(f, r) \/ IngestCheck(f, r)

Next ==
    \/ Runner
    \/ \E h \in Handles : Task(h) \/ RequestExpires(h)
    \/ \E f \in Fetches : Fetching(f)
    \/ \E r \in Records : Prune(r)
    \/ \E p \in Peers : Block(p) \/ Unblock(p)

Spec == Init /\ [][Next]_vars

-----------------------------------------------------------------------------
(* Correctness                                                             *)

Rooms == [at : {"none", "in", "leaving", "left"}, enabled : BOOLEAN, request : Nat \cup {NoRequest},
          providers : SUBSET Peers, generation : Nat]
Runners == [pc : {"idle", "clear", "read", "show", "publish", "leave"},
            room : Handles \cup {NoHandle}, records : SUBSET Records]
Downloads == [pc : {"idle"} \cup Whole, room : Handles \cup {NoHandle}, from : Peers \cup {Self},
              request : Nat \cup {AnyRequest}, generation : Nat,
              todo : SUBSET Records, line : SUBSET Records]

(* The variables keep their types, one task at a time holds the store, and *)
(* a request no more providers than it may.                                *)
TypeOK ==
    /\ rooms \in [Handles -> Rooms]
    /\ stored \in Leftovers
    /\ blocked \in SUBSET Peers /\ wasBlocked \in SUBSET Peers
    /\ runner \in Runners
    /\ showing \in [Handles -> SUBSET Records]
    /\ fetch \in [Fetches -> Downloads]
    /\ shown \in [Handles -> SUBSET Records]
    /\ published \in SUBSET Records /\ loaded \in SUBSET Handles
    /\ cancelled \in SUBSET Fetches
    /\ asked \in 0..MaxAsked /\ writes \in 0..MaxWrites
    /\ \A f, g \in Fetches : fetch[f].pc = "insert" /\ fetch[g].pc = "insert" => f = g
    /\ \A h \in Handles : Cardinality(rooms[h].providers) <= MaxProviders

(* A line the handle's task or the runner has stored and is about to show. *)
AboutToShow(h) ==
    showing[h] \cup (IF runner.pc = "publish" /\ runner.room = h THEN runner.records ELSE {})

Alone(h) == \A g \in Handles \ {h} : rooms[g].at = "none"

(* The program sees what is stored: once the only handle of the channel    *)
(* was handed the stored lines, every line stored has been shown since the *)
(* last Cleared, or is about to be.                                        *)
StoredShown ==
    \A h \in loaded : Alone(h) /\ rooms[h].at = "in" =>
        \A r \in stored : AuthorOf[r] \in wasBlocked \/ r \in shown[h] \cup AboutToShow(h)

(* docs/DESIGN.md: "queued fetch insertion checks it under the store lock, *)
(* and clear increments it before deleting and acknowledging."  A fetch    *)
(* begun before a clear, a toggle or a leave stores no line after it.      *)
CancelledStoreNothing ==
    [][\A f \in cancelled : fetch'[f] # fetch[f] => stored' \subseteq stored]_vars
=============================================================================
