--------------------------- MODULE EventDelivery ---------------------------
(***************************************************************************)
(* What the network tasks of a node hand to the program that polls it.     *)
(*                                                                         *)
(* Two queues lie between them.  Channel records and history clear         *)
(* acknowledgements go through Delivery (node/history/delivery.rs), a      *)
(* queue for each joined channel, served in turn.  Every other event goes  *)
(* through one bounded channel that drops what does not fit (node.rs).     *)
(* Blocking an author purges the first queue while publishers run.         *)
(***************************************************************************)
EXTENDS Integers, Sequences, FiniteSets, Functions, Subsequence

CONSTANTS
    Rooms,       \* room handles; a handle is never used twice
    Peers,       \* authors of channel records
    Records,     \* encoded originals, equal exactly when their bytes are
    AuthorOf,    \* the author whose signature a record carries
    Cleared,     \* the acknowledgement of a history clear
    Publishers,  \* tasks that emit channel records: room tasks, the runner
    MaxRecords,  \* channel_history::MAX_RECORDS, 256
    Capacity,    \* Config::event_queue_cap
    MaxPoll      \* the largest poll(max) the caller asks for

ASSUME AuthorAssumption == AuthorOf \in [Records -> Peers]
ASSUME ClearedAssumption == Cleared \notin Records
ASSUME BoundAssumption == /\ MaxRecords \in Nat \ {0}
                          /\ Capacity \in Nat \ {0}
                          /\ MaxPoll \in Nat \ {0}

VARIABLES
    used,       \* Shared::next: the handles given out
    active,     \* Delivery::active
    rooms,      \* Delivery::rooms: the pending events of each channel
    ready,      \* Delivery::ready: the channels with pending events, in turn
    blocked,    \* Shared::blocked
    holding,    \* the record a publisher is about to push, under the read guard
    general,    \* how many events the bounded channel holds
    turn,       \* Shared::poll_history_turn
    poll,       \* the poll in progress
    closed      \* Shared::closed

vars == <<used, active, rooms, ready, blocked, holding, general, turn, poll, closed>>

Events == Records \cup {Cleared}
None == << >>

(* What a poll returns: a channel's event or one of the bounded channel.   *)
Polled == (Rooms \X Events) \cup {"general"}

NoPoll == [pc |-> "idle", first |-> FALSE, max |-> 0, out |-> << >>]

Init ==
    /\ used = {}
    /\ active = {}
    /\ rooms = << >>
    /\ ready = << >>
    /\ blocked = {}
    /\ holding = [p \in Publishers |-> None]
    /\ general = 0
    /\ turn = FALSE
    /\ poll = NoPoll
    /\ closed = FALSE

-----------------------------------------------------------------------------
(* Delivery                                                                *)

Pending(r) == IF r \in DOMAIN rooms THEN rooms[r] ELSE << >>

RecordsAt(q) == {i \in DOMAIN q : q[i] # Cleared}

(* Mutations: evict the head, acknowledgement or not; evict the newest.    *)
HeadOfQueue(q) == 1
NewestRecord(q) == CHOOSE i \in RecordsAt(q) : \A j \in RecordsAt(q) : i >= j

(* The position VecDeque::position finds: the oldest record of a queue,    *)
(* past an acknowledgement.                                                *)
OldestRecord(q) == CHOOSE i \in RecordsAt(q) : \A j \in RecordsAt(q) : i <= j

EvictOldest(q) ==
    IF Cardinality(RecordsAt(q)) >= MaxRecords THEN DropAt(q, OldestRecord(q)) ELSE q

(* Mutation: pending originals are not deduplicated.                       *)
EnqueueTwice(q, e) == IF e = Cleared THEN <<Cleared>> ELSE Append(EvictOldest(q), e)

(* What a push leaves in the channel's queue.                              *)
Enqueue(q, e) ==
    IF e = Cleared THEN <<Cleared>>
    ELSE IF \E i \in DOMAIN q : q[i] = e THEN q
    ELSE Append(EvictOldest(q), e)

SetPending(r, q) == rooms' = [s \in DOMAIN rooms \cup {r} |-> IF s = r THEN q ELSE rooms[s]]

(* Mutation: a late push recreates a left channel.                         *)
PushAnyway(r, e) ==
    /\ SetPending(r, Enqueue(Pending(r), e))
    /\ ready' = IF r \in DOMAIN rooms THEN ready ELSE Append(ready, r)

Push(r, e) ==
    IF r \in active
    THEN /\ SetPending(r, Enqueue(Pending(r), e))
         /\ ready' = IF r \in DOMAIN rooms THEN ready ELSE Append(ready, r)
    ELSE UNCHANGED <<rooms, ready>>

(* Take the oldest event of the channel whose turn it is.                  *)
Pop(r) ==
    /\ ready # << >>
    /\ r = Head(ready)
    /\ IF Tail(rooms[r]) = << >>
       THEN /\ rooms' = Restrict(rooms, DOMAIN rooms \ {r})
            /\ ready' = Tail(ready)
       ELSE /\ rooms' = [rooms EXCEPT ![r] = Tail(rooms[r])]
            /\ ready' = Append(Tail(ready), r)

ReadyOnly(S) == ready' = KeepAt(ready, {i \in DOMAIN ready : ready[i] \in S})

Without(q, a) == KeepAt(q, {i \in DOMAIN q : q[i] = Cleared \/ AuthorOf[q[i]] # a})

(* Mutation: the turns of emptied channels stay.                           *)
BlockAuthorStale(a) ==
    LET left == {r \in DOMAIN rooms : Without(rooms[r], a) # << >>}
    IN  /\ rooms' = [r \in left |-> Without(rooms[r], a)]
        /\ UNCHANGED ready

(* Delivery::block_author.                                                 *)
BlockAuthor(a) ==
    LET left == {r \in DOMAIN rooms : Without(rooms[r], a) # << >>}
    IN  /\ rooms' = [r \in left |-> Without(rooms[r], a)]
        /\ ReadyOnly(left)

(* Delivery::forget.                                                       *)
Forget(r) ==
    /\ active' = active \ {r}
    /\ rooms' = Restrict(rooms, DOMAIN rooms \ {r})
    /\ ReadyOnly(DOMAIN rooms \ {r})

-----------------------------------------------------------------------------
(* The program's calls and the runner                                      *)

(* Node::join registers a fresh handle before the runner subscribes.       *)
Join(r) ==
    /\ ~closed
    /\ r \notin used
    /\ used' = used \cup {r}
    /\ active' = active \cup {r}
    /\ UNCHANGED <<rooms, ready, blocked, holding, general, turn, poll, closed>>

(* Runner::room_leave, and a join the store or the channel refuses.        *)
Leave(r) ==
    /\ r \in active
    /\ Forget(r)
    /\ UNCHANGED <<used, blocked, holding, general, turn, poll, closed>>

(* history::emit takes the read guard of blocked, and returns at once if   *)
(* the author is blocked.                                                  *)
EmitCheck(p, r, rec) ==
    /\ holding[p] = None
    /\ AuthorOf[rec] \notin blocked
    /\ holding' = [holding EXCEPT ![p] = <<r, rec>>]
    /\ UNCHANGED <<used, active, rooms, ready, blocked, general, turn, poll, closed>>

(* It keeps the guard through the push.                                    *)
EmitPush(p) ==
    /\ holding[p] # None
    /\ Push(holding[p][1], holding[p][2])
    /\ holding' = [holding EXCEPT ![p] = None]
    /\ UNCHANGED <<used, active, blocked, general, turn, poll, closed>>

(* The runner acknowledges a history clear.                                *)
EmitCleared(r) ==
    /\ Push(r, Cleared)
    /\ UNCHANGED <<used, active, blocked, holding, general, turn, poll, closed>>

(* Mutation: a full bounded channel grows.                                 *)
EmitGeneralUnbounded ==
    /\ general' = general + 1
    /\ UNCHANGED <<used, active, rooms, ready, blocked, holding, turn, poll, closed>>

(* Any other event: try_send, which drops the new one when full.           *)
EmitGeneral ==
    /\ general < Capacity
    /\ general' = general + 1
    /\ UNCHANGED <<used, active, rooms, ready, blocked, holding, turn, poll, closed>>

(* Mutation: the write guard does not wait for publishers.                 *)
BlockUnguarded(a) ==
    /\ ~closed
    /\ blocked' = blocked \cup {a}
    /\ BlockAuthor(a)
    /\ UNCHANGED <<used, active, holding, general, turn, poll, closed>>

(* Node::block takes the write guard, so no publisher holds a read guard.  *)
Block(a) ==
    /\ ~closed
    /\ \A p \in Publishers : holding[p] = None
    /\ blocked' = blocked \cup {a}
    /\ BlockAuthor(a)
    /\ UNCHANGED <<used, active, holding, general, turn, poll, closed>>

Unblock(a) ==
    /\ ~closed
    /\ a \in blocked
    /\ \A p \in Publishers : holding[p] = None
    /\ blocked' = blocked \ {a}
    /\ UNCHANGED <<used, active, rooms, ready, holding, general, turn, poll, closed>>

(* Node::close replaces Delivery by an empty one.                          *)
Close ==
    /\ ~closed
    /\ closed' = TRUE
    /\ active' = {}
    /\ rooms' = << >>
    /\ ready' = << >>
    /\ UNCHANGED <<used, blocked, holding, general, turn, poll>>

-----------------------------------------------------------------------------
(* Node::poll                                                              *)

StartPoll(n) ==
    /\ poll.pc = "idle"
    /\ poll' = [pc |-> "first", first |-> turn, max |-> n, out |-> << >>]
    /\ UNCHANGED <<used, active, rooms, ready, blocked, holding, general, closed>>

(* Mutations: the turn is never passed, or passed once.                    *)
PollBeginNoTurn(n) == StartPoll(n) /\ turn' = turn
PollBeginOnce(n) == StartPoll(n) /\ turn' = TRUE

(* Successive polls start with the other queue.                            *)
PollBegin(n) == StartPoll(n) /\ turn' = ~turn

Got(event) ==
    poll' = [poll EXCEPT !.pc = IF Len(poll.out) + 1 < poll.max THEN "first" ELSE "full",
                         !.first = ~poll.first,
                         !.out = Append(poll.out, event)]

TakeRoom(r) == Pop(r) /\ Got(<<r, Head(rooms[r])>>) /\ UNCHANGED general

TakeGeneral ==
    /\ general > 0
    /\ general' = general - 1
    /\ Got(None)
    /\ UNCHANGED <<rooms, ready>>

(* One queue, and, a step later, the other if the first was empty.         *)
TryHistory(next) ==
    \/ \E r \in Rooms : TakeRoom(r)
    \/ ready = << >> /\ poll' = next /\ UNCHANGED <<rooms, ready, general>>

TryGeneral(next) ==
    \/ TakeGeneral
    \/ general = 0 /\ poll' = next /\ UNCHANGED <<rooms, ready, general>>

PollFirst ==
    /\ poll.pc = "first"
    /\ LET other == [poll EXCEPT !.pc = "second"]
       IN  IF poll.first THEN TryHistory(other) ELSE TryGeneral(other)
    /\ UNCHANGED <<used, active, blocked, holding, turn, closed>>

PollSecond ==
    /\ poll.pc = "second"
    /\ IF poll.first THEN TryGeneral(NoPoll) ELSE TryHistory(NoPoll)
    /\ UNCHANGED <<used, active, blocked, holding, turn, closed>>

PollReturn ==
    /\ poll.pc = "full"
    /\ poll' = NoPoll
    /\ UNCHANGED <<used, active, rooms, ready, blocked, holding, general, turn, closed>>

PollStep == PollFirst \/ PollSecond \/ PollReturn

-----------------------------------------------------------------------------
Next ==
    \/ \E r \in Rooms : Join(r) \/ Leave(r) \/ EmitCleared(r)
    \/ \E p \in Publishers : EmitPush(p)
    \/ \E p \in Publishers, r \in Rooms, rec \in Records : EmitCheck(p, r, rec)
    \/ \E a \in Peers : Block(a) \/ Unblock(a)
    \/ \E n \in 1..MaxPoll : PollBegin(n)
    \/ EmitGeneral \/ Close \/ PollStep

Spec == Init /\ [][Next]_vars

(* The program polls for as long as it runs, and a poll never blocks.      *)
Fairness == WF_vars(\E n \in 1..MaxPoll : PollBegin(n)) /\ WF_vars(PollStep)

FairSpec == Spec /\ Fairness

-----------------------------------------------------------------------------
(* Correctness                                                             *)

PollType ==
    [pc : {"idle", "first", "second", "full"}, first : BOOLEAN, max : 0..MaxPoll,
     out : Seq((Rooms \X Events) \cup {None})]

(* The variables keep their types, and the bounded channel its bound.      *)
TypeOK ==
    /\ used \in SUBSET Rooms
    /\ active \in SUBSET used
    /\ DOMAIN rooms \in SUBSET Rooms
    /\ \A r \in DOMAIN rooms : rooms[r] \in Seq(Events)
    /\ rooms = [r \in DOMAIN rooms |-> rooms[r]]
    /\ ready \in Seq(Rooms)
    /\ blocked \in SUBSET Peers
    /\ holding \in [Publishers -> (Rooms \X Records) \cup {None}]
    /\ general \in 0..Capacity
    /\ turn \in BOOLEAN
    /\ poll \in PollType
    /\ closed \in BOOLEAN

(* A sequence of turns gives each member of D one turn, and nobody else.   *)
Turns(s, D) ==
    /\ \A i, j \in DOMAIN s : s[i] = s[j] => i = j
    /\ {s[i] : i \in DOMAIN s} = D

(* The channels with a turn are exactly those with pending events, each    *)
(* with one turn: pop's unwrap never fails, and no event is stranded.      *)
ReadyMatchesRooms == Turns(ready, DOMAIN rooms)

(* No event twice, at most MaxRecords originals, an acknowledgement first. *)
WellFormed(q) ==
    /\ \A i, j \in DOMAIN q : q[i] = q[j] => i = j
    /\ \A i \in DOMAIN q : q[i] = Cleared => i = 1
    /\ Cardinality(RecordsAt(q)) <= MaxRecords

(* A pending queue is never empty, holds no original twice and at most     *)
(* MaxRecords of them, and an acknowledgement comes before every record.   *)
PendingShape == \A r \in DOMAIN rooms : rooms[r] # << >> /\ WellFormed(rooms[r])

(* Turns and queues of the channels agree, and the queues are well formed. *)
QueuesAgree == ReadyMatchesRooms /\ PendingShape

(* Blocking takes effect at once: from then on no record of the author is  *)
(* pending, whatever a publisher was doing at the time.                    *)
NoBlockedPending ==
    /\ \A r \in DOMAIN rooms : \A i \in RecordsAt(rooms[r]) : AuthorOf[rooms[r][i]] \notin blocked
    /\ \A p \in Publishers : holding[p] # None => AuthorOf[holding[p][2]] \notin blocked

(* A channel that was left, or a closed node, delivers nothing more: a     *)
(* late event never recreates its queue.                                   *)
LeftRoomsSilent ==
    /\ DOMAIN rooms \subseteq active
    /\ closed => active = {}

(* Nothing unwanted is pending, of an author or of a channel.              *)
NothingUnwanted == NoBlockedPending /\ LeftRoomsSilent

AckPending(r) == Cleared \in Range(Pending(r))

(* A pending acknowledgement is never evicted nor purged: only the program *)
(* receiving it, leaving the channel or closing the node ends its wait.    *)
KeepsAck ==
    \A r \in Rooms : AckPending(r) /\ ~AckPending(r)' =>
        \/ r \notin active'
        \/ poll'.out # << >> /\ poll'.out[Len(poll'.out)] = <<r, Cleared>>

(* A full channel gives up its oldest record and nothing else: a record    *)
(* that neither the program nor a block, a clear or a leave took away was  *)
(* the oldest of as many as the channel may hold.                          *)
EvictsOldest ==
    \A r \in Rooms :
        /\ r \in active'
        /\ blocked' = blocked
        /\ poll' = poll
        /\ Pending(r)' # <<Cleared>>
        => LET q == Pending(r)
               lost == {i \in RecordsAt(q) : q[i] \notin Range(Pending(r)')}
           IN  lost # {} => /\ \A i \in lost, j \in RecordsAt(q) : i <= j
                            /\ Cardinality(RecordsAt(q)) = MaxRecords

(* What a full channel may lose: no acknowledgement, and of its records    *)
(* the oldest only (push's choice of a victim).                            *)
LosesOldestOnly == [][KeepsAck /\ EvictsOldest]_vars

Served(r) == \E i \in DOMAIN poll.out : poll.out[i] # None /\ poll.out[i][1] = r

(* However busy the other channels and the rest of the node are, a channel *)
(* with pending events is served.                                          *)
ChannelsServed == \A r \in Rooms : r \in DOMAIN rooms ~> (Served(r) \/ r \notin DOMAIN rooms)

(* However busy the channels are, the rest of the node's events are served. *)
GeneralServed == general > 0 ~> \E i \in DOMAIN poll.out : poll.out[i] = None
=============================================================================
