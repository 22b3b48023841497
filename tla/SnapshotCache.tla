---------------------------- MODULE SnapshotCache ----------------------------
(***************************************************************************)
(* Offering a channel's history to members who ask for it (offer and Cache *)
(* in node/history.rs).                                                    *)
(*                                                                         *)
(* The task of a room reads the stored lines, encodes a snapshot, caches it*)
(* and offers its hash; the next request is answered from the cache, if    *)
(* nothing has changed since.  Whether it has, a revision number tells,    *)
(* which every writer of the store and every change of the block list      *)
(* moves.  No lock is held from the look at the revision to the moment the *)
(* snapshot is in the cache; meanwhile lines come, are cleared, age, their *)
(* authors are blocked, and other handles of the channel offer snapshots.  *)
(***************************************************************************)
EXTENDS HistoryStore

CONSTANTS
    Handles,        \* handles of the channel
    Writers,        \* tasks that store live lines: room tasks and the runner
    NoRecord,       \* no line
    MaxSnapshots,   \* MAX_SNAPSHOTS
    MaxRevision     \* bound: the revision at which nothing new is stored or blocked

ASSUME NoRecordAssumption == NoRecord \notin Records
ASSUME BoundAssumption == MaxSnapshots \in Nat \ {0} /\ MaxRevision \in Nat

VARIABLES
    stored,     \* table channel_history
    revision,   \* Shared::history_revision
    cache,      \* Cache::entries
    serving,    \* handles with history_enabled
    offer,      \* the offer the task of a handle is making
    writing,    \* the line a writer has stored, before it moves the revision
    blocked,    \* Shared::blocked
    unblocking, \* Node::unblock, before it moves the revision
    pruned      \* lines the store dropped since the last clear

vars == <<stored, revision, cache, serving, offer, writing, blocked, unblocking, pruned>>

NoOffer == [pc |-> "none", revision |-> 0, todo |-> {}, records |-> {}]

Init ==
    /\ stored \in Leftovers
    /\ revision = 0
    /\ cache = {}
    /\ serving = {}
    /\ offer = [h \in Handles |-> NoOffer]
    /\ writing = [w \in Writers |-> NoRecord]
    /\ blocked \in SUBSET Peers /\ unblocking = FALSE
    /\ pruned = {}

-----------------------------------------------------------------------------
(* Cache: a snapshot is found under the hash of its lines.                 *)

(* Mutation: the limit is for new hashes only, but the test is inverted.   *)
PutAnyway(c, h, rev, lines) ==
    LET same == {s \in c : s.records = lines}
        entry == [records |-> lines, rooms |-> (UNION {s.rooms : s \in same}) \cup {h}, revision |-> rev]
    IN  IF same # {} /\ Cardinality(c) >= MaxSnapshots THEN c ELSE (c \ same) \cup {entry}

(* Cache::put_bounded: a snapshot that is there gets one more owner and the*)
(* revision; a full cache takes no new one.                                *)
Put(c, h, rev, lines) ==
    LET same == {s \in c : s.records = lines}
        entry == [records |-> lines, rooms |-> (UNION {s.rooms : s \in same}) \cup {h}, revision |-> rev]
    IN  IF same = {} /\ Cardinality(c) >= MaxSnapshots THEN c ELSE (c \ same) \cup {entry}

(* Cache::leave: a snapshot without owners goes.                           *)
Without(c, h) == {s \in {[t EXCEPT !.rooms = @ \ {h}] : t \in c} : s.rooms # {}}

(* Cache::get: what this handle may offer again, if checked lately.        *)
Hits(c, h, rev) == {s \in c : h \in s.rooms /\ s.revision = rev}

(* Cache::prune: a lease is over.                                          *)
Expire(s) ==
    /\ s \in cache
    /\ cache' = cache \ {s}
    /\ UNCHANGED <<stored, revision, serving, offer, writing, blocked, unblocking, pruned>>

-----------------------------------------------------------------------------
(* Offers                                                                  *)

(* offer, for a HistoryRequest: does this handle serve history?            *)
OfferStart(h) ==
    /\ h \in serving
    /\ offer[h].pc = "none"
    /\ offer' = [offer EXCEPT ![h].pc = "asked"]
    /\ UNCHANGED <<stored, revision, cache, serving, writing, blocked, unblocking, pruned>>

(* The revision is read before all else...                                 *)
OfferRevision(h) ==
    /\ offer[h].pc = "asked"
    /\ offer' = [offer EXCEPT ![h].pc = "get", ![h].revision = revision]
    /\ UNCHANGED <<stored, revision, cache, serving, writing, blocked, unblocking, pruned>>

(* ...a snapshot of that revision will do, and its lease is renewed...     *)
OfferCached(h) ==
    /\ offer[h].pc = "get"
    /\ Hits(cache, h, offer[h].revision) # {}
    /\ offer' = [offer EXCEPT ![h] = NoOffer]
    /\ UNCHANGED <<stored, revision, cache, serving, writing, blocked, unblocking, pruned>>

(* ...else what is stored is read, even if a snapshot is there: one that   *)
(* was not checked for two seconds does not do...                          *)
OfferRead(h) ==
    /\ offer[h].pc = "get"
    /\ offer' = [offer EXCEPT ![h].pc = "filter", ![h].todo = stored, ![h].records = {}]
    /\ UNCHANGED <<stored, revision, cache, serving, writing, blocked, unblocking, pruned>>

(* ...one line after the other is looked at, and those of blocked authors  *)
(* are left out...                                                         *)
OfferFilter(h, r) ==
    /\ offer[h].pc = "filter"
    /\ r \in offer[h].todo
    /\ offer' = [offer EXCEPT ![h].todo = @ \ {r}, ![h].records = @ \cup Unblocked({r}, blocked)]
    /\ UNCHANGED <<stored, revision, cache, serving, writing, blocked, unblocking, pruned>>

(* ...there may be none to offer...                                        *)
OfferNothing(h) ==
    /\ offer[h].pc = "filter"
    /\ offer[h].todo = {} /\ offer[h].records = {}
    /\ offer' = [offer EXCEPT ![h] = NoOffer]
    /\ UNCHANGED <<stored, revision, cache, serving, writing, blocked, unblocking, pruned>>

(* Mutation: the snapshot is put under the revision of the moment.         *)
OfferPutNow(h) ==
    /\ offer[h].pc = "filter"
    /\ offer[h].todo = {} /\ offer[h].records # {}
    /\ cache' = Put(cache, h, revision, offer[h].records)
    /\ offer' = [offer EXCEPT ![h] = NoOffer]
    /\ UNCHANGED <<stored, revision, serving, writing, blocked, unblocking, pruned>>

(* ...and the snapshot is cached and offered.                              *)
OfferPut(h) ==
    /\ offer[h].pc = "filter"
    /\ offer[h].todo = {} /\ offer[h].records # {}
    /\ cache' = Put(cache, h, offer[h].revision, offer[h].records)
    /\ offer' = [offer EXCEPT ![h] = NoOffer]
    /\ UNCHANGED <<stored, revision, serving, writing, blocked, unblocking, pruned>>

-----------------------------------------------------------------------------
(* What changes meanwhile                                                  *)

Store(r) ==
    \E kept \in Inserted(stored, r) :
        /\ stored' = kept
        /\ pruned' = (pruned \cup stored \cup {r}) \ kept

(* A live line, or one of our own, is stored with the store locked, and the*)
(* revision moved when it is unlocked again.                               *)
StoreLive(w, r) ==
    /\ writing[w] = NoRecord
    /\ r \notin stored
    /\ revision < MaxRevision
    /\ Store(r)
    /\ writing' = [writing EXCEPT ![w] = r]
    /\ UNCHANGED <<revision, cache, serving, offer, blocked, unblocking>>

Announce(w) ==
    /\ writing[w] # NoRecord
    /\ revision' = revision + 1
    /\ writing' = [writing EXCEPT ![w] = NoRecord]
    /\ UNCHANGED <<stored, cache, serving, offer, blocked, unblocking, pruned>>

(* ingest_snapshot does both with the store locked.                        *)
StoreFetched(r) ==
    /\ r \notin stored
    /\ revision < MaxRevision
    /\ Store(r)
    /\ revision' = revision + 1
    /\ UNCHANGED <<cache, serving, offer, writing, blocked, unblocking>>

(* channel_history_prune: a line ages; the revision does not move.         *)
Prune(r) ==
    /\ r \in stored
    /\ stored' = stored \ {r}
    /\ pruned' = pruned \cup {r}
    /\ UNCHANGED <<revision, cache, serving, offer, writing, blocked, unblocking>>

(* Cmd::HistoryClear, with the store locked.                               *)
Clear(h) ==
    /\ revision < MaxRevision
    /\ stored' = {} /\ pruned' = {}
    /\ cache' = Without(cache, h)
    /\ revision' = revision + 1
    /\ UNCHANGED <<serving, offer, writing, blocked, unblocking>>

(* Cmd::HistoryEnable.                                                     *)
Enable(h) ==
    /\ h \notin serving
    /\ serving' = serving \cup {h}
    /\ UNCHANGED <<stored, revision, cache, offer, writing, blocked, unblocking, pruned>>

(* Cmd::HistoryEnable off, and room_leave.  An offer under way goes on.    *)
Disable(h) ==
    /\ h \in serving
    /\ serving' = serving \ {h}
    /\ cache' = Without(cache, h)
    /\ UNCHANGED <<stored, revision, offer, writing, blocked, unblocking, pruned>>

(* Node::block: both with the block list locked, of a peer already blocked *)
(* too.                                                                    *)
Block(p) ==
    /\ ~unblocking
    /\ revision < MaxRevision
    /\ blocked' = blocked \cup {p}
    /\ revision' = revision + 1
    /\ UNCHANGED <<stored, cache, serving, offer, writing, unblocking, pruned>>

(* Node::unblock unlocks it in between.                                    *)
Unblock(p) ==
    /\ ~unblocking
    /\ p \in blocked
    /\ blocked' = blocked \ {p}
    /\ unblocking' = TRUE
    /\ UNCHANGED <<stored, revision, cache, serving, offer, writing, pruned>>

UnblockAnnounce ==
    /\ unblocking
    /\ unblocking' = FALSE
    /\ revision' = revision + 1
    /\ UNCHANGED <<stored, cache, serving, offer, writing, blocked, pruned>>

Offer(h) ==
    \/ OfferStart(h) \/ OfferRevision(h) \/ OfferCached(h) \/ OfferRead(h)
    \/ \E r \in Records : OfferFilter(h, r)
    \/ OfferNothing(h) \/ OfferPut(h)

Next ==
    \/ \E h \in Handles : Offer(h) \/ Clear(h) \/ Enable(h) \/ Disable(h)
    \/ \E s \in cache : Expire(s)
    \/ \E w \in Writers : Announce(w) \/ \E r \in Records : StoreLive(w, r)
    \/ \E r \in Records : StoreFetched(r) \/ Prune(r)
    \/ \E p \in Peers : Block(p) \/ Unblock(p)
    \/ UnblockAnnounce

Spec == Init /\ [][Next]_vars

-----------------------------------------------------------------------------
(* Correctness                                                             *)

Snapshots == [records : SUBSET Records, rooms : (SUBSET Handles) \ {{}}, revision : Nat]
Offers == [pc : {"none", "asked", "get", "filter"}, revision : Nat,
           todo : SUBSET Records, records : SUBSET Records]

(* The variables keep their types; store and cache keep their limits; there*)
(* is one snapshot per hash, and it has an owner.                          *)
TypeOK ==
    /\ stored \in Leftovers
    /\ revision \in Nat
    /\ cache \in SUBSET Snapshots /\ Cardinality(cache) <= MaxSnapshots
    /\ \A s, t \in cache : s.records = t.records => s = t
    /\ serving \in SUBSET Handles
    /\ offer \in [Handles -> Offers]
    /\ writing \in [Writers -> Records \cup {NoRecord}]
    /\ blocked \in SUBSET Peers /\ unblocking \in BOOLEAN
    /\ pruned \in SUBSET Records

(* Lines stored, for which the revision has not moved yet.                 *)
Unannounced == {writing[w] : w \in Writers}

(* docs/DESIGN.md: "Cache revisions invalidate stale data after new        *)
(* records."  A snapshot of the current revision, which offer hands out    *)
(* again, has nothing that was cleared, nothing of an author who is        *)
(* blocked, and every line that is stored.                                 *)
CacheCurrent ==
    \A s \in cache : s.revision = revision =>
        /\ s.records \subseteq Unblocked(stored \cup pruned, blocked)
        /\ unblocking \/ Unblocked(stored, blocked) \ Unannounced \subseteq s.records
=============================================================================
