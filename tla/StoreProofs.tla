---------------------------- MODULE StoreProofs ----------------------------
(***************************************************************************)
(* Proofs about what the node keeps: the snapshots of the channel history, *)
(* and the tables themselves.                                              *)
(*                                                                         *)
(* SnapshotCache: a snapshot of the current revision is never out of date, *)
(* for any handles, writers, lines and limits.  CacheCurrent is about the  *)
(* cache alone; a snapshot gets there from an offer that has read the      *)
(* revision and the store some steps before, so the invariant says of an   *)
(* offer under way what it has to say of the cache later.                  *)
(*                                                                         *)
(* StoreSchema: a version's tables are there and the identity is one, for  *)
(* any number of processes, versions and statements, with deaths, failures *)
(* and damage at any step.                                                 *)
(*                                                                         *)
(* DeviceLists and NameCardInvites: publications lose no device, bindings  *)
(* follow the lists, and an invite waits for a reason and is dealt with    *)
(* once, for any number of users, devices, clocks, invites and steps.      *)
(*                                                                         *)
(* Of each its types and limits too, and all of it of the four side by     *)
(* side, as they are checked.                                              *)
(***************************************************************************)
EXTENDS MCStore, FiniteSetTheorems, TLAPS

-----------------------------------------------------------------------------
(* The types without the limits, of which CacheCurrent needs nothing.      *)
Entries == [records : SUBSET Records, rooms : SUBSET Handles, revision : Nat]

Types ==
    /\ stored \in SUBSET Records
    /\ revision \in Nat
    /\ cache \in SUBSET Entries
    /\ offer \in [Handles -> Offers]
    /\ writing \in [Writers -> Records \cup {NoRecord}]
    /\ pruned \in SUBSET Records

(* No snapshot and no offer is of a revision to come.                      *)
NoneAhead ==
    /\ \A s \in cache : s.revision <= revision
    /\ \A h \in Handles : offer[h].revision <= revision

(* What CacheCurrent asks of the lines of a snapshot, when some of those   *)
(* read are still to be looked at.                                         *)
Servable(lines, todo) ==
    /\ todo \subseteq stored \cup pruned
    /\ lines \subseteq Unblocked(stored \cup pruned, blocked)
    /\ unblocking \/ Unblocked(stored, blocked) \ Unannounced \subseteq lines \cup todo

OffersCurrent ==
    \A h \in Handles, lines, todo \in SUBSET Records :
        /\ offer[h].pc = "filter" /\ offer[h].revision = revision
        /\ offer[h].records = lines /\ offer[h].todo = todo
        => Servable(lines, todo)

Inv == Types /\ NoneAhead /\ OffersCurrent /\ CacheCurrent

-----------------------------------------------------------------------------
(* Leaving the owner out changes neither lines nor revision.               *)
LEMMA WithoutKeeps ==
    ASSUME NEW c \in SUBSET Entries, NEW h, NEW s \in Without(c, h)
    PROVE  s \in Entries /\ \E t \in c : s.revision = t.revision /\ s.records = t.records
<1>1. PICK t \in c : s = [t EXCEPT !.rooms = @ \ {h}]
  BY DEF Without
<1>2. t \in Entries
  OBVIOUS
<1> QED
  BY <1>1, <1>2 DEF Entries

(* What is put is what was there, or of the given revision and lines.      *)
LEMMA PutKeeps ==
    ASSUME NEW c \in SUBSET Entries, NEW h \in Handles, NEW rev \in Nat, NEW lines \in SUBSET Records,
           NEW s \in Put(c, h, rev, lines)
    PROVE  s \in Entries /\ (s \in c \/ (s.revision = rev /\ s.records = lines))
<1> DEFINE same == {t \in c : t.records = lines}
           owners == (UNION {t.rooms : t \in same}) \cup {h}
<1>1. s \in c \/ s = [records |-> lines, rooms |-> owners, revision |-> rev]
  BY DEF Put
<1>2. owners \in SUBSET Handles
  BY DEF Entries
<1> QED
  BY <1>1, <1>2 DEF Entries

(* A line that is stored stays among the lines stored or dropped, and only *)
(* itself is new in the store.                                             *)
LEMMA StoreKeeps ==
    ASSUME Types, NEW r \in Records, Store(r)
    PROVE  /\ stored' \in SUBSET Records /\ pruned' \in SUBSET Records
           /\ stored' \subseteq stored \cup {r}
           /\ stored \cup pruned \subseteq stored' \cup pruned'
<1>1. PICK kept \in Inserted(stored, r) :
        stored' = kept /\ pruned' = (pruned \cup stored \cup {r}) \ kept
  BY DEF Store
<1>2. kept \subseteq stored \cup {r}
  BY DEF Inserted, Retained
<1> QED
  BY <1>1, <1>2 DEF Types

-----------------------------------------------------------------------------
(* When the revision moves, every snapshot and every offer is old.         *)
LEMMA RevisionMoves ==
    ASSUME Inv, revision' = revision + 1, offer' = offer,
           \A s \in cache' : \E t \in cache : s.revision = t.revision
    PROVE  NoneAhead' /\ OffersCurrent' /\ CacheCurrent'
<1>1. revision \in Nat /\ cache \in SUBSET Entries /\ offer \in [Handles -> Offers]
  BY DEF Inv, Types
<1>2. \A s \in cache' : s.revision \in Nat /\ s.revision <= revision
  BY <1>1 DEF Inv, NoneAhead, Entries
<1>3. \A h \in Handles : offer[h].revision \in Nat /\ offer[h].revision <= revision
  BY <1>1 DEF Inv, NoneAhead, Offers
<1>4. NoneAhead'
  BY <1>1, <1>2, <1>3 DEF NoneAhead
<1>5. \A s \in cache' : s.revision # revision'
  BY <1>1, <1>2
<1>6. \A h \in Handles : offer'[h].revision # revision'
  BY <1>1, <1>3
<1> QED
  BY <1>4, <1>5, <1>6 DEF OffersCurrent, CacheCurrent

(* While it does not move, lines that were servable are so after every step*)
(* that drops or hides nothing they need.                                  *)
LEMMA RevisionStays ==
    ASSUME Inv, revision' = revision, offer' = offer,
           \A s \in cache' : \E t \in cache : s.revision = t.revision /\ s.records = t.records,
           \A lines, todo \in SUBSET Records : Servable(lines, todo) => Servable(lines, todo)'
    PROVE  NoneAhead' /\ OffersCurrent' /\ CacheCurrent'
<1>1. cache \in SUBSET Entries /\ offer \in [Handles -> Offers]
  BY DEF Inv, Types
<1>2. NoneAhead'
  BY <1>1 DEF Inv, NoneAhead
<1>3. OffersCurrent'
  BY DEF Inv, OffersCurrent
<1>4. CacheCurrent'
  <2> SUFFICES ASSUME NEW s \in cache', s.revision = revision'
               PROVE  Servable(s.records, {})'
    BY DEF CacheCurrent, Servable
  <2>1. PICK t \in cache : s.revision = t.revision /\ s.records = t.records
    OBVIOUS
  <2>2. t.records \in SUBSET Records
    BY <1>1 DEF Entries
  <2>3. Servable(t.records, {})
    BY <2>1 DEF Inv, CacheCurrent, Servable
  <2>4. Servable(t.records, {})'
    BY <2>2, <2>3
  <2> QED
    BY <2>1, <2>4 DEF Servable
<1> QED
  BY <1>2, <1>3, <1>4
-----------------------------------------------------------------------------
(* Of the first state: nothing is cached and nothing is under way.         *)
LEMMA InitInv == Init => Inv
<1> SUFFICES ASSUME Init PROVE Inv
  OBVIOUS
<1>1. Types
  BY DEF Init, Types, Leftovers, NoOffer, Offers
<1>2. NoneAhead
  BY DEF Init, NoneAhead, NoOffer
<1>3. OffersCurrent /\ CacheCurrent
  BY DEF Init, OffersCurrent, CacheCurrent, NoOffer
<1> QED
  BY <1>1, <1>2, <1>3 DEF Inv

(* Steps of an offer: the cache and the offer of one handle change.        *)
LEMMA OfferInv ==
    ASSUME Inv, NEW h \in Handles, Offer(h)
    PROVE  Inv'
<1> USE DEF Inv
<1>1. offer \in [Handles -> Offers] /\ offer[h] \in Offers /\ revision \in Nat
      /\ cache \in SUBSET Entries
  BY DEF Types
<1>2. UNCHANGED <<stored, revision, writing, blocked, unblocking, pruned>>
  BY DEF Offer, OfferStart, OfferRevision, OfferCached, OfferRead, OfferFilter, OfferNothing, OfferPut
<1>3. \A lines, todo \in SUBSET Records : Servable(lines, todo) => Servable(lines, todo)'
  BY <1>2 DEF Servable, Unannounced
<1>4. ASSUME offer' \in [Handles -> Offers],
             \A g \in Handles \ {h} : offer'[g] = offer[g],
             offer'[h].revision <= revision,
             offer'[h].pc = "filter" /\ offer'[h].revision = revision =>
                 \A lines, todo \in SUBSET Records :
                     offer'[h].records = lines /\ offer'[h].todo = todo => Servable(lines, todo),
             cache' \in SUBSET Entries,
             \A s \in cache' : s.revision <= revision,
             \A s \in cache' : s.revision = revision => Servable(s.records, {})
      PROVE  Inv'
  <2>1. Types'
    BY <1>2, <1>4 DEF Types
  <2>2. NoneAhead'
    BY <1>2, <1>4 DEF NoneAhead
  <2>3. OffersCurrent'
    <3> SUFFICES ASSUME NEW g \in Handles, NEW lines \in SUBSET Records, NEW todo \in SUBSET Records,
                        offer'[g].pc = "filter", offer'[g].revision = revision,
                        offer'[g].records = lines, offer'[g].todo = todo
                 PROVE  Servable(lines, todo)'
      BY <1>2 DEF OffersCurrent
    <3>1. CASE g = h
      BY <1>3, <1>4, <3>1
    <3>2. CASE g # h
      BY <1>3, <1>4, <3>2 DEF OffersCurrent
    <3> QED
      BY <3>1, <3>2
  <2>4. CacheCurrent'
    BY <1>2, <1>4 DEF CacheCurrent, Servable, Unannounced
  <2> QED
    BY <2>1, <2>2, <2>3, <2>4
<1>5. NoOffer \in Offers /\ NoOffer.revision = 0 /\ NoOffer.pc = "none"
  BY DEF NoOffer, Offers
<1>6. offer[h].revision \in Nat /\ offer[h].revision <= revision /\ 0 <= revision
  BY <1>1 DEF NoneAhead, Offers
<1>7. cache' = cache => /\ cache' \in SUBSET Entries
                        /\ \A s \in cache' : s.revision <= revision
                        /\ \A s \in cache' : s.revision = revision => Servable(s.records, {})
  BY <1>1 DEF NoneAhead, CacheCurrent, Servable
<1>8. offer' = [offer EXCEPT ![h] = NoOffer] =>
        /\ offer' \in [Handles -> Offers]
        /\ \A g \in Handles \ {h} : offer'[g] = offer[g]
        /\ offer'[h].revision <= revision
        /\ offer'[h].pc = "none"
  BY <1>1, <1>5, <1>6
<1>9. CASE OfferStart(h)
  <2>1. cache' = cache /\ offer' = [offer EXCEPT ![h].pc = "asked"]
    BY <1>9 DEF OfferStart
  <2>2. /\ offer' \in [Handles -> Offers]
        /\ \A g \in Handles \ {h} : offer'[g] = offer[g]
        /\ offer'[h].revision = offer[h].revision /\ offer'[h].pc = "asked"
    BY <1>1, <2>1 DEF Offers
  <2> QED
    BY <1>4, <1>6, <1>7, <2>1, <2>2
<1>10. CASE OfferRevision(h)
  <2>1. cache' = cache /\ offer' = [offer EXCEPT ![h].pc = "get", ![h].revision = revision]
    BY <1>10 DEF OfferRevision
  <2>2. /\ offer' \in [Handles -> Offers]
        /\ \A g \in Handles \ {h} : offer'[g] = offer[g]
        /\ offer'[h].revision = revision /\ offer'[h].pc = "get"
    BY <1>1, <2>1 DEF Offers
  <2> QED
    BY <1>1, <1>4, <1>7, <2>1, <2>2
<1>11. CASE OfferCached(h) \/ OfferNothing(h)
  <2>1. cache' = cache /\ offer' = [offer EXCEPT ![h] = NoOffer]
    BY <1>11 DEF OfferCached, OfferNothing
  <2> QED
    BY <1>4, <1>7, <1>8, <2>1
<1>12. CASE OfferRead(h)
  <2>1. cache' = cache /\ offer' = [offer EXCEPT ![h].pc = "filter", ![h].todo = stored, ![h].records = {}]
    BY <1>12 DEF OfferRead
  <2>2. stored \in SUBSET Records
    BY DEF Types
  <2>3. /\ offer' \in [Handles -> Offers]
        /\ \A g \in Handles \ {h} : offer'[g] = offer[g]
        /\ offer'[h].revision = offer[h].revision
        /\ offer'[h].records = {} /\ offer'[h].todo = stored
    BY <1>1, <2>1, <2>2 DEF Offers
  <2>4. Servable({}, stored)
    BY DEF Servable, Unblocked
  <2> QED
    BY <1>4, <1>6, <1>7, <2>1, <2>3, <2>4
<1>13. ASSUME NEW r \in Records, OfferFilter(h, r) PROVE Inv'
  <2> DEFINE lines == offer[h].records
             todo == offer[h].todo
             looked == Unblocked({r}, blocked)
  <2>1. /\ cache' = cache /\ offer[h].pc = "filter" /\ r \in todo
        /\ offer' = [offer EXCEPT ![h].todo = todo \ {r}, ![h].records = lines \cup looked]
    BY <1>13 DEF OfferFilter
  <2>2. lines \in SUBSET Records /\ todo \in SUBSET Records /\ looked \in SUBSET Records
    BY <1>1 DEF Offers, Unblocked
  <2>3. offer[h].revision = revision => Servable(lines, todo)
    BY <2>1, <2>2 DEF OffersCurrent
  <2>4. offer[h].revision = revision => Servable(lines \cup looked, todo \ {r})
    BY <2>1, <2>3 DEF Servable, Unblocked
  <2>5. /\ offer' \in [Handles -> Offers]
        /\ \A g \in Handles \ {h} : offer'[g] = offer[g]
        /\ offer'[h].revision = offer[h].revision
        /\ offer'[h].records = lines \cup looked /\ offer'[h].todo = todo \ {r}
    BY <1>1, <2>1, <2>2 DEF Offers
  <2> QED
    BY <1>4, <1>6, <1>7, <2>1, <2>4, <2>5
<1>14. CASE OfferPut(h)
  <2>1. /\ offer[h].pc = "filter" /\ offer[h].todo = {}
        /\ cache' = Put(cache, h, offer[h].revision, offer[h].records)
        /\ offer' = [offer EXCEPT ![h] = NoOffer]
    BY <1>14 DEF OfferPut
  <2>2. offer[h].records \in SUBSET Records
    BY <1>1 DEF Offers
  <2>3. \A s \in cache' : s \in Entries /\
          (s \in cache \/ (s.revision = offer[h].revision /\ s.records = offer[h].records))
    BY <1>1, <1>6, <2>1, <2>2, PutKeeps
  <2>4. offer[h].revision = revision => Servable(offer[h].records, {})
    BY <2>1, <2>2 DEF OffersCurrent
  <2>5. \A s \in cache' : s.revision <= revision
    BY <1>6, <2>3 DEF NoneAhead
  <2>6. \A s \in cache' : s.revision = revision => Servable(s.records, {})
    BY <2>3, <2>4 DEF CacheCurrent, Servable
  <2> QED
    BY <1>4, <1>8, <2>1, <2>3, <2>5, <2>6
<1> QED
  BY <1>9, <1>10, <1>11, <1>12, <1>13, <1>14 DEF Offer

-----------------------------------------------------------------------------
(* Steps of the others.                                                    *)

(* Steps that change nothing but which lines may be offered at all, or who *)
(* owns a snapshot, or drop a snapshot or a line.                          *)
LEMMA QuietInv ==
    ASSUME Inv,
           \/ \E h \in Handles : Enable(h) \/ Disable(h)
           \/ \E s \in cache : Expire(s)
           \/ \E r \in Records : Prune(r)
           \/ \E p \in Peers : Unblock(p)
           \/ UNCHANGED vars
    PROVE  Inv'
<1> USE DEF Inv
<1>1. revision' = revision /\ offer' = offer /\ writing' = writing
  BY DEF Enable, Disable, Expire, Prune, Unblock, vars
<1>2. cache \in SUBSET Entries
  BY DEF Types
<1>3. \A s \in cache' : s \in Entries /\ \E t \in cache : s.revision = t.revision /\ s.records = t.records
  <2>1. cache' \subseteq cache \/ \E h \in Handles : cache' = Without(cache, h)
    BY DEF Enable, Disable, Expire, Prune, Unblock, vars
  <2> QED
    BY <1>2, <2>1, WithoutKeeps
<1>4. /\ stored' \subseteq stored /\ stored \cup pruned \subseteq stored' \cup pruned'
      /\ pruned' \in SUBSET Records
      /\ blocked' \subseteq blocked
      /\ unblocking' \/ (blocked' = blocked /\ unblocking' = unblocking)
  BY DEF Types, Enable, Disable, Expire, Prune, Unblock, vars
<1>5. Types'
  BY <1>1, <1>3, <1>4 DEF Types
<1>6. \A lines, todo \in SUBSET Records : Servable(lines, todo) => Servable(lines, todo)'
  BY <1>1, <1>4 DEF Servable, Unblocked, Unannounced
<1> QED
  BY <1>1, <1>3, <1>5, <1>6, RevisionStays

(* A live line is stored, and may be missing from a snapshot until the     *)
(* revision moves.                                                         *)
LEMMA StoreLiveInv ==
    ASSUME Inv, NEW w \in Writers, NEW r \in Records, StoreLive(w, r)
    PROVE  Inv'
<1> USE DEF Inv
<1>1. /\ writing[w] = NoRecord /\ writing' = [writing EXCEPT ![w] = r]
      /\ Store(r)
      /\ UNCHANGED <<revision, cache, offer, blocked, unblocking>>
  BY DEF StoreLive
<1>2. writing \in [Writers -> Records \cup {NoRecord}] /\ stored \in SUBSET Records
  BY DEF Types
<1>3. /\ stored' \in SUBSET Records /\ pruned' \in SUBSET Records
      /\ stored' \subseteq stored \cup {r}
      /\ stored \cup pruned \subseteq stored' \cup pruned'
  BY <1>1, StoreKeeps
<1>4. Types'
  BY <1>1, <1>2, <1>3 DEF Types
<1>5. Unannounced \subseteq Unannounced' \cup {NoRecord} /\ r \in Unannounced'
  BY <1>1, <1>2 DEF Unannounced
<1>6. stored' \ Unannounced' \subseteq stored \ Unannounced
  <2> SUFFICES ASSUME NEW x \in stored', x \notin Unannounced'
               PROVE  x \in stored /\ x \notin Unannounced
    OBVIOUS
  <2>1. x \in Records /\ x # NoRecord
    BY <1>3, NoRecordAssumption
  <2> QED
    BY <1>3, <1>5, <2>1
<1>7. \A lines, todo \in SUBSET Records : Servable(lines, todo) => Servable(lines, todo)'
  <2>1. Unblocked(stored, blocked)' \ Unannounced' \subseteq Unblocked(stored, blocked) \ Unannounced
    BY <1>1, <1>6 DEF Unblocked
  <2>2. Unblocked(stored \cup pruned, blocked) \subseteq Unblocked(stored \cup pruned, blocked)'
    BY <1>1, <1>3 DEF Unblocked
  <2> QED
    BY <1>1, <1>3, <2>1, <2>2 DEF Servable
<1> QED
  BY <1>1, <1>4, <1>7, RevisionStays

(* Steps that move the revision.                                           *)
LEMMA MovingInv ==
    ASSUME Inv,
           \/ \E h \in Handles : Clear(h)
           \/ \E w \in Writers : Announce(w)
           \/ \E r \in Records : StoreFetched(r)
           \/ \E p \in Peers : Block(p)
           \/ UnblockAnnounce
    PROVE  Inv'
<1> USE DEF Inv
<1>1. revision' = revision + 1 /\ offer' = offer
  BY DEF Clear, Announce, StoreFetched, Block, UnblockAnnounce
<1>2. cache \in SUBSET Entries /\ revision \in Nat
      /\ writing \in [Writers -> Records \cup {NoRecord}]
  BY DEF Types
<1>3. \A s \in cache' : s \in Entries /\ \E t \in cache : s.revision = t.revision
  <2>1. cache' = cache \/ \E h \in Handles : cache' = Without(cache, h)
    BY DEF Clear, Announce, StoreFetched, Block, UnblockAnnounce
  <2> QED
    BY <1>2, <2>1, WithoutKeeps
<1>4. stored' \in SUBSET Records /\ pruned' \in SUBSET Records
  BY StoreKeeps DEF Types, Clear, Announce, StoreFetched, Block, UnblockAnnounce
<1>5. writing' \in [Writers -> Records \cup {NoRecord}]
  BY <1>2 DEF Clear, Announce, StoreFetched, Block, UnblockAnnounce
<1>6. Types'
  BY <1>1, <1>2, <1>3, <1>4, <1>5 DEF Types
<1> QED
  BY <1>1, <1>3, <1>6, RevisionMoves

(* Every step is one of these.                                             *)
LEMMA NextInv ==
    ASSUME Inv, [Next]_vars
    PROVE  Inv'
<1>1. CASE \E h \in Handles : Offer(h)
  BY <1>1, OfferInv
<1>2. CASE \E w \in Writers, r \in Records : StoreLive(w, r)
  BY <1>2, StoreLiveInv
<1>3. CASE \/ \E h \in Handles : Enable(h) \/ Disable(h)
           \/ \E s \in cache : Expire(s)
           \/ \E r \in Records : Prune(r)
           \/ \E p \in Peers : Unblock(p)
           \/ UNCHANGED vars
  BY <1>3, QuietInv
<1>4. CASE \/ \E h \in Handles : Clear(h)
           \/ \E w \in Writers : Announce(w)
           \/ \E r \in Records : StoreFetched(r)
           \/ \E p \in Peers : Block(p)
           \/ UnblockAnnounce
  BY <1>4, MovingInv
<1> QED
  BY <1>1, <1>2, <1>3, <1>4 DEF Next

(* However offers, writers, clears and changes of the block list interleave*)
(* (node/history.rs, offer and Cache), and whatever the limits are, a      *)
(* snapshot that is handed out again has nothing that was cleared and      *)
(* nothing of a blocked author, and every line that is stored.             *)
THEOREM CacheAlwaysCurrent == Spec => []CacheCurrent
<1>1. Init => Inv
  BY InitInv
<1>2. Inv /\ [Next]_vars => Inv'
  BY NextInv
<1>3. Inv => CacheCurrent
  BY DEF Inv
<1> QED
  BY <1>1, <1>2, <1>3, PTL DEF Spec

(* One snapshot per hash, with an owner, and no more than the limit.       *)
Limited(c) ==
    /\ c \in SUBSET Snapshots /\ IsFiniteSet(c) /\ Cardinality(c) <= MaxSnapshots
    /\ \A s, t \in c : s.records = t.records => s = t

(* A snapshot is put in place of the one with its hash, or where there is  *)
(* room.                                                                   *)
LEMMA PutLimited ==
    ASSUME NEW c, Limited(c), NEW h \in Handles, NEW rev \in Nat, NEW lines \in SUBSET Records
    PROVE  Limited(Put(c, h, rev, lines))
<1> DEFINE same == {s \in c : s.records = lines}
           entry == [records |-> lines, rooms |-> (UNION {s.rooms : s \in same}) \cup {h}, revision |-> rev]
           others == c \ same
<1>1. CASE same = {} /\ Cardinality(c) >= MaxSnapshots
  BY <1>1 DEF Put
<1>2. CASE ~(same = {} /\ Cardinality(c) >= MaxSnapshots)
  <2>1. Put(c, h, rev, lines) = others \cup {entry}
    BY <1>2 DEF Put
  <2>2. entry \in Snapshots
    <3>1. \A s \in same : s.rooms \in SUBSET Handles
      BY DEF Limited, Snapshots
    <3> DEFINE owners == (UNION {s.rooms : s \in same}) \cup {h}
    <3>2. owners \in SUBSET Handles /\ owners # {}
      BY <3>1
    <3>3. ASSUME NEW o \in SUBSET Handles, o # {}
          PROVE  [records |-> lines, rooms |-> o, revision |-> rev] \in Snapshots
      BY <3>3 DEF Snapshots
    <3> HIDE DEF owners
    <3>4. [records |-> lines, rooms |-> owners, revision |-> rev] \in Snapshots
      BY <3>2, <3>3
    <3> QED
      BY <3>4 DEF owners
  <2>3. /\ Cardinality(c) \in Nat /\ IsFiniteSet(others) /\ Cardinality(others) \in Nat
        /\ Cardinality(others) <= Cardinality(c)
    BY FS_CardinalityType, FS_Subset DEF Limited
  <2>4. same # {} => Cardinality(others) < Cardinality(c)
    BY <2>3, FS_Subset DEF Limited
  <2>5. IsFiniteSet(others \cup {entry}) /\ Cardinality(others \cup {entry}) <= Cardinality(others) + 1
    <3> HIDE DEF others, entry
    <3>1. /\ IsFiniteSet(others \cup {entry})
          /\ Cardinality(others \cup {entry})
               = IF entry \in others THEN Cardinality(others) ELSE Cardinality(others) + 1
      BY <2>3, FS_AddElement
    <3> QED
      BY <2>3, <3>1
  <2>6. Cardinality(others \cup {entry}) <= MaxSnapshots
    <3>1. Cardinality(others \cup {entry}) \in Nat
      BY <2>5, FS_CardinalityType
    <3> QED
      BY <1>2, <2>3, <2>4, <2>5, <3>1, BoundAssumption DEF Limited
  <2>7. \A s \in others : s.records # entry.records
    OBVIOUS
  <2>8. others \cup {entry} \in SUBSET Snapshots
    BY <2>2 DEF Limited
  <2> QED
    BY <2>1, <2>5, <2>6, <2>7, <2>8 DEF Limited
<1> QED
  BY <1>1, <1>2

(* Who leaves takes itself out, and what nobody owns goes.                 *)
LEMMA WithoutLimited ==
    ASSUME NEW c, Limited(c), NEW h
    PROVE  Limited(Without(c, h))
<1> DEFINE Left == [t \in c |-> [t EXCEPT !.rooms = @ \ {h}]]
           all == {[t EXCEPT !.rooms = @ \ {h}] : t \in c}
<1>1. Left \in Surjection(c, all)
  BY DEF Surjection
<1>2. IsFiniteSet(all) /\ Cardinality(all) <= Cardinality(c)
  BY <1>1, FS_Surjection DEF Limited
<1>3. Without(c, h) \subseteq all
  BY DEF Without
<1>4. IsFiniteSet(Without(c, h)) /\ Cardinality(Without(c, h)) <= Cardinality(all)
  BY <1>2, <1>3, FS_Subset
<1>5. /\ Cardinality(Without(c, h)) \in Nat /\ Cardinality(all) \in Nat /\ Cardinality(c) \in Nat
  BY <1>2, <1>4, FS_CardinalityType DEF Limited
<1>6. Cardinality(Without(c, h)) <= MaxSnapshots
  BY <1>2, <1>4, <1>5, BoundAssumption DEF Limited
<1>7. \A s \in Without(c, h) : \E t \in c : s = [t EXCEPT !.rooms = @ \ {h}] /\ s.rooms # {}
  BY DEF Without
<1>8. ASSUME NEW s \in Without(c, h) PROVE s \in Snapshots
  BY <1>7 DEF Limited, Snapshots
<1>9. ASSUME NEW s \in Without(c, h), NEW t \in Without(c, h), s.records = t.records PROVE s = t
  <2>1. PICK u \in c : s = [u EXCEPT !.rooms = @ \ {h}]
    BY <1>7
  <2>2. PICK v \in c : t = [v EXCEPT !.rooms = @ \ {h}]
    BY <1>7
  <2>3. u.records = v.records
    BY <1>9, <2>1, <2>2 DEF Limited, Snapshots
  <2> QED
    BY <2>1, <2>2, <2>3 DEF Limited
<1> QED
  BY <1>4, <1>6, <1>8, <1>9 DEF Limited

(* What an insertion leaves is in the limit of the table.                  *)
LEMMA InsertedLeft ==
    ASSUME NEW old \in Leftovers, NEW r \in Records, NEW new \in Inserted(old, r)
    PROVE  new \in Leftovers
<1>1. PICK aged \in SUBSET old : new \in Retained((old \ aged) \cup {r})
  BY DEF Inserted
<1> DEFINE lines == (old \ aged) \cup {r}
<1>2. IsFiniteSet(lines) /\ lines \in SUBSET Records
  <2>1. IsFiniteSet(old \ aged)
    BY FS_Subset DEF Leftovers
  <2> QED
    BY <2>1, FS_AddElement DEF Leftovers
<1>3. new \in SUBSET lines /\ Cardinality(new) <= MaxRecords
  BY <1>1, <1>2, FS_CardinalityType, RetentionAssumption DEF Retained
<1> QED
  BY <1>2, <1>3, FS_Subset DEF Leftovers

SnapshotLimits == TypeOK /\ IsFiniteSet(cache)

LEMMA LimitsAre == SnapshotLimits <=>
    /\ Limited(cache) /\ stored \in Leftovers /\ revision \in Nat /\ serving \in SUBSET Handles
    /\ offer \in [Handles -> Offers] /\ writing \in [Writers -> Records \cup {NoRecord}]
    /\ blocked \in SUBSET Peers /\ unblocking \in BOOLEAN /\ pruned \in SUBSET Records
BY DEF SnapshotLimits, TypeOK, Limited

LEMMA InitLimits == Init => SnapshotLimits
<1>1. NoOffer \in Offers
  BY DEF NoOffer, Offers
<1>2. Limited({})
  BY FS_EmptySet, BoundAssumption DEF Limited
<1> SUFFICES ASSUME Init PROVE SnapshotLimits
  OBVIOUS
<1>3. Limited(cache) /\ stored \in Leftovers /\ revision \in Nat /\ serving \in SUBSET Handles
  BY <1>2 DEF Init
<1>4. offer \in [Handles -> Offers] /\ writing \in [Writers -> Records \cup {NoRecord}]
  BY <1>1 DEF Init
<1>5. blocked \in SUBSET Peers /\ unblocking \in BOOLEAN /\ pruned \in SUBSET Records
  BY DEF Init
<1> QED
  BY <1>3, <1>4, <1>5 DEF SnapshotLimits, TypeOK, Limited

(* The steps of an offer: it is looked at, given up or put.                *)
LEMMA OfferLimits ==
    ASSUME SnapshotLimits, NEW h \in Handles, Offer(h)
    PROVE  SnapshotLimits'
<1>1. /\ Limited(cache) /\ stored \in Leftovers /\ revision \in Nat /\ serving \in SUBSET Handles
      /\ offer \in [Handles -> Offers] /\ writing \in [Writers -> Records \cup {NoRecord}]
      /\ blocked \in SUBSET Peers /\ unblocking \in BOOLEAN /\ pruned \in SUBSET Records
  BY LimitsAre
<1>2. /\ UNCHANGED <<stored, revision, serving, writing, blocked, unblocking, pruned>>
      /\ \/ cache' = cache
         \/ cache' = Put(cache, h, offer[h].revision, offer[h].records)
  BY DEF Offer, OfferStart, OfferRevision, OfferCached, OfferRead, OfferFilter, OfferNothing, OfferPut
<1>3. offer[h] \in Offers /\ offer[h].revision \in Nat /\ offer[h].records \in SUBSET Records
  BY <1>1 DEF Offers
<1>4. Limited(cache')
  BY <1>1, <1>2, <1>3, PutLimited
<1>5. offer' \in [Handles -> Offers]
  <2>1. \E o \in Offers : offer' = [offer EXCEPT ![h] = o]
    <3>0. NoOffer \in Offers /\ stored \in SUBSET Records
      BY <1>1 DEF NoOffer, Offers, Leftovers
    <3>1. CASE OfferStart(h) \/ OfferRevision(h) \/ OfferRead(h)
      <4>1. /\ [offer[h] EXCEPT !.pc = "asked"] \in Offers
            /\ [offer[h] EXCEPT !.pc = "get", !.revision = revision] \in Offers
            /\ [offer[h] EXCEPT !.pc = "filter", !.todo = stored, !.records = {}] \in Offers
        BY <1>1, <1>3, <3>0 DEF Offers
      <4> QED
        BY <1>1, <3>1, <4>1 DEF OfferStart, OfferRevision, OfferRead
    <3>2. CASE OfferCached(h) \/ OfferNothing(h) \/ OfferPut(h)
      BY <3>0, <3>2 DEF OfferCached, OfferNothing, OfferPut
    <3>3. ASSUME NEW r \in Records, OfferFilter(h, r)
          PROVE  \E o \in Offers : offer' = [offer EXCEPT ![h] = o]
      <4>1. Unblocked({r}, blocked) \in SUBSET Records
        BY DEF Unblocked
      <4>2. [offer[h] EXCEPT !.todo = @ \ {r}, !.records = @ \cup Unblocked({r}, blocked)] \in Offers
        BY <1>3, <4>1 DEF Offers
      <4> QED
        BY <1>1, <3>3, <4>2 DEF OfferFilter
    <3> QED
      BY <3>1, <3>2, <3>3 DEF Offer
  <2> QED
    BY <1>1, <2>1
<1> QED
  BY <1>1, <1>2, <1>4, <1>5, LimitsAre DEF SnapshotLimits, TypeOK, Limited

LEMMA NextLimits ==
    ASSUME SnapshotLimits, [Next]_vars
    PROVE  SnapshotLimits'
<1>1. /\ Limited(cache) /\ stored \in Leftovers /\ revision \in Nat /\ serving \in SUBSET Handles
      /\ offer \in [Handles -> Offers] /\ writing \in [Writers -> Records \cup {NoRecord}]
      /\ blocked \in SUBSET Peers /\ unblocking \in BOOLEAN /\ pruned \in SUBSET Records
  BY LimitsAre
<1> SUFFICES /\ Limited(cache') /\ stored' \in Leftovers /\ revision' \in Nat /\ serving' \in SUBSET Handles
             /\ offer' \in [Handles -> Offers] /\ writing' \in [Writers -> Records \cup {NoRecord}]
             /\ blocked' \in SUBSET Peers /\ unblocking' \in BOOLEAN /\ pruned' \in SUBSET Records
  BY DEF SnapshotLimits, TypeOK, Limited
<1>2. stored \in SUBSET Records /\ \A s \in SUBSET stored : s \in Leftovers
  <2> SUFFICES ASSUME NEW s \in SUBSET stored PROVE s \in Leftovers
    BY <1>1 DEF Leftovers
  <2>1. IsFiniteSet(stored) /\ IsFiniteSet(s) /\ Cardinality(s) <= Cardinality(stored)
    BY <1>1, FS_Subset DEF Leftovers
  <2>2. Cardinality(s) \in Nat /\ Cardinality(stored) \in Nat
    BY <2>1, FS_CardinalityType
  <2> QED
    BY <1>1, <2>1, <2>2, RetentionAssumption DEF Leftovers
<1>3. ASSUME NEW h \in Handles, Offer(h) PROVE SnapshotLimits'
  BY <1>3, OfferLimits
<1>4. ASSUME NEW h \in Handles, Clear(h) \/ Enable(h) \/ Disable(h) PROVE SnapshotLimits'
  <2>1. Limited(Without(cache, h))
    BY <1>1, WithoutLimited
  <2>2. {} \in Leftovers
    BY <1>2
  <2>3. CASE Clear(h)
    BY <1>1, <2>1, <2>2, <2>3 DEF Clear, SnapshotLimits, TypeOK, Limited
  <2>4. CASE Enable(h)
    BY <1>1, <2>4 DEF Enable, SnapshotLimits, TypeOK, Limited
  <2>5. CASE Disable(h)
    BY <1>1, <2>1, <2>5 DEF Disable, SnapshotLimits, TypeOK, Limited
  <2> QED
    BY <1>4, <2>3, <2>4, <2>5
<1>5. ASSUME NEW s \in cache, Expire(s) PROVE SnapshotLimits'
  <2>1. Limited(cache \ {s})
    <3>1. IsFiniteSet(cache \ {s}) /\ Cardinality(cache \ {s}) <= Cardinality(cache)
      BY <1>1, FS_Subset DEF Limited
    <3>2. Cardinality(cache \ {s}) \in Nat /\ Cardinality(cache) \in Nat
      BY <1>1, <3>1, FS_CardinalityType DEF Limited
    <3> QED
      BY <1>1, <3>1, <3>2, BoundAssumption DEF Limited
  <2> QED
    BY <1>1, <1>5, <2>1 DEF Expire, SnapshotLimits, TypeOK, Limited
<1>6. ASSUME NEW w \in Writers, NEW r \in Records, StoreLive(w, r) PROVE SnapshotLimits'
  <2>1. stored' \in Inserted(stored, r) /\ pruned' = (pruned \cup stored \cup {r}) \ stored'
    BY <1>6 DEF StoreLive, Store
  <2>2. stored' \in Leftovers
    BY <1>1, <2>1, InsertedLeft
  <2> QED
    BY <1>1, <1>2, <1>6, <2>1, <2>2 DEF StoreLive, SnapshotLimits, TypeOK, Limited
<1>7. ASSUME NEW r \in Records, StoreFetched(r) PROVE SnapshotLimits'
  <2>1. stored' \in Inserted(stored, r) /\ pruned' = (pruned \cup stored \cup {r}) \ stored'
    BY <1>7 DEF StoreFetched, Store
  <2>2. stored' \in Leftovers
    BY <1>1, <2>1, InsertedLeft
  <2> QED
    BY <1>1, <1>2, <1>7, <2>1, <2>2 DEF StoreFetched, SnapshotLimits, TypeOK, Limited
<1>8. ASSUME NEW r \in Records, Prune(r) PROVE SnapshotLimits'
  BY <1>1, <1>2, <1>8 DEF Prune, SnapshotLimits, TypeOK, Limited
<1>9. ASSUME NEW w \in Writers, Announce(w) PROVE SnapshotLimits'
  BY <1>1, <1>9 DEF Announce, SnapshotLimits, TypeOK, Limited
<1>10. ASSUME NEW p \in Peers, Block(p) PROVE SnapshotLimits'
  BY <1>1, <1>10 DEF Block, SnapshotLimits, TypeOK, Limited
<1>11. ASSUME NEW p \in Peers, Unblock(p) PROVE SnapshotLimits'
  BY <1>1, <1>11 DEF Unblock, SnapshotLimits, TypeOK, Limited
<1>12. ASSUME UnblockAnnounce PROVE SnapshotLimits'
  <2>1. revision' \in Nat
    BY <1>1, <1>12 DEF UnblockAnnounce
  <2>2. unblocking' \in BOOLEAN
    BY <1>12, Zenon DEF UnblockAnnounce
  <2> QED
    BY <1>1, <1>12, <2>1, <2>2 DEF UnblockAnnounce, SnapshotLimits, TypeOK, Limited
<1>13. CASE UNCHANGED vars
  BY <1>1, <1>13 DEF vars, SnapshotLimits, TypeOK, Limited
<1> QED
  BY <1>3, <1>4, <1>5, <1>6, <1>7, <1>8, <1>9, <1>10, <1>11, <1>12, <1>13 DEF Next, SnapshotLimits, TypeOK, Limited

(* The cache of snapshots (Cache::put_bounded, leave) and the table        *)
(* (channel_history_insert) keep their limits, whatever these are.         *)
THEOREM SnapshotTypes == Spec => []TypeOK
<1>1. SnapshotLimits => TypeOK
  BY DEF SnapshotLimits
<1> QED
  BY <1>1, InitLimits, NextLimits, PTL DEF Spec

-----------------------------------------------------------------------------
(* How a file comes to have its tables.  A process that is in migrate has  *)
(* run every batch before its own, or the version it read had them, and of *)
(* its own batch every statement before the next one.  Nothing is dropped  *)
(* again, so that holds whatever other processes do.                       *)
HasAll(v) == created[v] = Creates[v]
Batches ==
    /\ \A v \in Versions : v <= userVersion => HasAll(v)
    /\ \A p \in Openers :
          /\ \A v \in Versions : v <= saw[p] => HasAll(v)
          /\ opener[p] = "migrate" => \A v \in Versions : v < batch[p] => HasAll(v)
          /\ InBatch(p) => next[p] <= created[batch[p]] + 1
          /\ opener[p] = "migrate" /\ ~InBatch(p) => next[p] = 1
          /\ opener[p] \in {"identity", "delete", "mint", "open"} => \A v \in Versions : HasAll(v)

(* Without damage the row is a key or missing, and once there it stays.    *)
KeyIsKept ==
    damage = 0 =>
        /\ secret # BadKey
        /\ \A p \in Openers : opener[p] # "delete" /\ identity[p] \in {NoKey, secret}

SchemaInv == SchemaTypeOK /\ Batches /\ KeyIsKept

LEMMA SchemaConstants ==
  /\ SchemaVersion \in Nat /\ Versions = 1 .. SchemaVersion
  /\ \A v \in Versions : Creates[v] \in Nat \ {0}
  /\ NoKey # BadKey /\ NoKey \notin Nat /\ BadKey \notin Nat
BY CreatesAssumption, KeyAssumption DEF SchemaVersion, Versions

LEMMA SchemaStarts ==
  ASSUME SchemaInit
  PROVE  SchemaInv
<1>1. SchemaTypeOK
  BY SchemaConstants, SchemaBoundsAssumption DEF SchemaInit, SchemaTypeOK
<1>2. Batches
  BY SchemaConstants DEF SchemaInit, Batches, HasAll, InBatch
<1>3. KeyIsKept
  BY SchemaConstants DEF SchemaInit, KeyIsKept
<1> QED
  BY <1>1, <1>2, <1>3 DEF SchemaInv

LEMMA SchemaTypeStep ==
  ASSUME SchemaInv, [SchemaNext]_schemaVars
  PROVE  SchemaTypeOK'
<1>a. SchemaTypeOK
  BY DEF SchemaInv
<1>1. ASSUME NEW p \in Openers, OpenStore(p) PROVE SchemaTypeOK'
  BY <1>a, <1>1, SchemaConstants, SchemaBoundsAssumption
     DEF OpenStore, SchemaTypeOK, OpenerGoes, fileVars, atVars, InBatch
<1>2. ASSUME NEW p \in Openers, SkipBatch(p) PROVE SchemaTypeOK'
  BY <1>a, <1>2, SchemaConstants, SchemaBoundsAssumption
     DEF SkipBatch, SchemaTypeOK, OpenerGoes, fileVars, atVars, InBatch
<1>3. ASSUME NEW p \in Openers, Statement(p) PROVE SchemaTypeOK'
  <2> DEFINE v == batch[p]
  <2>1. v \in Versions /\ v \in Nat /\ v + 1 \in 1 .. SchemaVersion + 1 /\ Creates[v] \in Nat
        /\ next[p] \in Nat \ {0} /\ next[p] + 1 \in Nat \ {0}
    <3>1. v \in Versions /\ next[p] \in Nat \ {0}
      BY <1>a, <1>3 DEF Statement, InBatch, SchemaTypeOK
    <3>2. v \in Nat /\ v + 1 \in 1 .. SchemaVersion + 1 /\ Creates[v] \in Nat
      BY <3>1, SchemaConstants
    <3> QED
      BY <3>1, <3>2
  <2>2. CASE next[p] <= Creates[v]
    <3>1. /\ created' = [created EXCEPT ![v] = IF next[p] > created[v] THEN next[p] ELSE created[v]]
          /\ next' = [next EXCEPT ![p] = next[p] + 1]
          /\ UNCHANGED <<userVersion, batch, secret, minted, opener, saw, identity, lives, failures, damage>>
      BY <1>3, <2>2 DEF Statement
    <3>2. (IF next[p] > created[v] THEN next[p] ELSE created[v]) \in Nat
          /\ (IF next[p] > created[v] THEN next[p] ELSE created[v]) <= Creates[v]
      BY <1>a, <2>1, <2>2 DEF SchemaTypeOK
    <3> HIDE DEF v
    <3> QED
      BY <1>a, <2>1, <3>1, <3>2 DEF SchemaTypeOK
  <2>3. CASE ~(next[p] <= Creates[v])
    <3>1. /\ userVersion' = v /\ batch' = [batch EXCEPT ![p] = v + 1] /\ next' = [next EXCEPT ![p] = 1]
          /\ UNCHANGED <<created, secret, minted, opener, saw, identity, lives, failures, damage>>
      BY <1>3, <2>3 DEF Statement
    <3>2. v \in 0 .. SchemaVersion
      BY <2>1, SchemaConstants
    <3> HIDE DEF v
    <3> QED
      BY <1>a, <2>1, <3>1, <3>2 DEF SchemaTypeOK
  <2> QED
    BY <2>2, <2>3
<1>4. ASSUME NEW p \in Openers, Migrated(p) PROVE SchemaTypeOK'
  BY <1>a, <1>4, SchemaConstants, SchemaBoundsAssumption
     DEF Migrated, SchemaTypeOK, OpenerGoes, fileVars, atVars, InBatch
<1>5. ASSUME NEW p \in Openers, ReadKey(p) PROVE SchemaTypeOK'
  BY <1>a, <1>5, SchemaConstants, SchemaBoundsAssumption
     DEF ReadKey, SchemaTypeOK, OpenerGoes, fileVars, atVars, InBatch
<1>6. ASSUME NEW p \in Openers, NoKeyYet(p) PROVE SchemaTypeOK'
  BY <1>a, <1>6, SchemaConstants, SchemaBoundsAssumption
     DEF NoKeyYet, SchemaTypeOK, OpenerGoes, fileVars, atVars, InBatch
<1>7. ASSUME NEW p \in Openers, FindBadKey(p) PROVE SchemaTypeOK'
  BY <1>a, <1>7, SchemaConstants, SchemaBoundsAssumption
     DEF FindBadKey, SchemaTypeOK, OpenerGoes, fileVars, atVars, InBatch
<1>8. ASSUME NEW p \in Openers, DeleteKey(p) PROVE SchemaTypeOK'
  BY <1>a, <1>8, SchemaConstants, SchemaBoundsAssumption
     DEF DeleteKey, SchemaTypeOK, OpenerGoes, fileVars, atVars, InBatch
<1>9. ASSUME NEW p \in Openers, MintKey(p) PROVE SchemaTypeOK'
  <2>1. minted' \in Nat /\ minted' \in 1 .. minted' /\ 1 .. minted \subseteq 1 .. minted'
    BY <1>a, <1>9 DEF MintKey, SchemaTypeOK
  <2>2. opener' \in [Openers -> {"off", "migrate", "identity", "delete", "mint", "open"}]
    BY <1>a, <1>9 DEF MintKey, OpenerGoes, SchemaTypeOK
  <2>3. UNCHANGED <<secret, identity>> \/ (secret' = minted' /\ identity' = [identity EXCEPT ![p] = minted'])
    BY <1>9 DEF MintKey
  <2>4. secret' \in {NoKey, BadKey} \cup 1 .. minted'
    BY <1>a, <2>1, <2>3 DEF SchemaTypeOK
  <2>5. identity' \in [Openers -> {NoKey} \cup 1 .. minted']
    BY <1>a, <2>1, <2>3 DEF SchemaTypeOK
  <2> QED
    BY <1>a, <1>9, <2>1, <2>2, <2>4, <2>5 DEF MintKey, SchemaTypeOK, atVars
<1>10. ASSUME NEW p \in Openers, StatementFails(p) PROVE SchemaTypeOK'
  BY <1>a, <1>10, SchemaConstants, SchemaBoundsAssumption
     DEF StatementFails, SchemaTypeOK, OpenerGoes, fileVars, atVars, InBatch
<1>11. ASSUME NEW p \in Openers, OpenerDies(p) PROVE SchemaTypeOK'
  BY <1>a, <1>11, SchemaConstants, SchemaBoundsAssumption
     DEF OpenerDies, SchemaTypeOK, OpenerGoes, fileVars, atVars, InBatch
<1>12. CASE Damage
  BY <1>a, <1>12, SchemaConstants, SchemaBoundsAssumption
     DEF Damage, SchemaTypeOK, OpenerGoes, fileVars, atVars, InBatch
<1>13. CASE UNCHANGED schemaVars
  BY <1>a, <1>13 DEF schemaVars, SchemaTypeOK
<1> QED
  BY <1>1, <1>2, <1>3, <1>4, <1>5, <1>6, <1>7, <1>8, <1>9, <1>10, <1>11, <1>12, <1>13 DEF SchemaNext

LEMMA BatchesStep ==
  ASSUME SchemaInv, [SchemaNext]_schemaVars
  PROVE  Batches'
<1>a. SchemaTypeOK /\ Batches
  BY DEF SchemaInv
<1>1. ASSUME NEW p \in Openers, OpenStore(p) PROVE Batches'
  BY <1>a, <1>1, SchemaConstants, SchemaBoundsAssumption
     DEF OpenStore, Batches, HasAll, InBatch, SchemaTypeOK, OpenerGoes, fileVars, atVars
<1>2. ASSUME NEW p \in Openers, SkipBatch(p) PROVE Batches'
  <2>1. /\ batch[p] \in Versions /\ saw[p] >= batch[p] /\ batch[p] \in Nat /\ saw[p] \in Nat
        /\ batch' = [batch EXCEPT ![p] = batch[p] + 1] /\ next' = next /\ opener' = opener
        /\ UNCHANGED <<created, userVersion, saw>>
    BY <1>a, <1>2, SchemaConstants DEF SkipBatch, SchemaTypeOK, fileVars
  <2>2. next[p] = 1
    BY <1>a, <1>2, <2>1 DEF SkipBatch, Batches, InBatch
  <2>3. /\ \A v \in Versions : v \in Nat /\ (v < batch[p] + 1 => v < batch[p] \/ v = batch[p])
        /\ HasAll(batch[p])
    BY <1>a, <2>1, SchemaConstants DEF Batches
  <2>4. ASSUME NEW q \in Openers
        PROVE  /\ opener[q] = "migrate" => \A v \in Versions : v < batch'[q] => HasAll(v)
               /\ InBatch(q)' => next[q] <= created[batch'[q]] + 1
               /\ opener[q] = "migrate" /\ ~InBatch(q)' => next[q] = 1
    <3>1. CASE q = p
      <4>1. batch'[q] = batch[p] + 1 /\ next[q] = 1 /\ created' = created
        BY <1>a, <2>1, <2>2, <3>1 DEF SchemaTypeOK
      <4>2. opener[q] = "migrate" => \A v \in Versions : v < batch'[q] => HasAll(v)
        BY <1>a, <2>3, <3>1, <4>1 DEF Batches
      <4>3. InBatch(q)' => created[batch'[q]] \in Nat
        BY <1>a, <2>1 DEF InBatch, SchemaTypeOK
      <4> QED
        BY <4>1, <4>2, <4>3
    <3>2. CASE q # p
      <4>1. batch'[q] = batch[q] /\ (InBatch(q)' <=> InBatch(q))
        BY <1>a, <2>1, <3>2 DEF SchemaTypeOK, InBatch
      <4> QED
        BY <1>a, <4>1 DEF Batches
    <3> QED
      BY <3>1, <3>2
  <2>5. \A v : HasAll(v)' = HasAll(v)
    BY <2>1 DEF HasAll
  <2> QED
    BY <1>a, <2>1, <2>4, <2>5 DEF Batches
<1>3. ASSUME NEW p \in Openers, Statement(p) PROVE Batches'
  <2> DEFINE v == batch[p]
  <2>1. /\ v \in Versions /\ v \in Nat /\ Creates[v] \in Nat /\ next[p] \in Nat \ {0}
        /\ created[v] \in Nat /\ created[v] <= Creates[v] /\ next[p] <= created[v] + 1
        /\ opener[p] = "migrate" /\ saw[p] < v /\ opener' = opener /\ saw' = saw
    BY <1>a, <1>3, SchemaConstants DEF Statement, InBatch, Batches, SchemaTypeOK
  <2>2. CASE next[p] <= Creates[v]
    <3>1. /\ created' = [created EXCEPT ![v] = IF next[p] > created[v] THEN next[p] ELSE created[v]]
          /\ next' = [next EXCEPT ![p] = next[p] + 1] /\ UNCHANGED <<userVersion, batch>>
      BY <1>3, <2>2 DEF Statement
    <3>2. /\ created'[v] >= created[v] /\ created'[v] >= next[p] /\ created'[v] <= Creates[v]
          /\ \A u \in Versions : u # v => created'[u] = created[u]
      BY <1>a, <2>1, <2>2, <3>1 DEF SchemaTypeOK
    <3>3. created'[v] \in Nat /\ \A u \in Versions : HasAll(u) => HasAll(u)'
      BY <1>a, <2>1, <2>2, <3>1, <3>2 DEF HasAll, SchemaTypeOK
    <3>4. \A q \in Openers : InBatch(q)' => next'[q] <= created'[batch'[q]] + 1
      <4> SUFFICES ASSUME NEW q \in Openers, InBatch(q)' PROVE next'[q] <= created'[batch'[q]] + 1
        OBVIOUS
      <4>1. InBatch(q) /\ next[q] <= created[batch[q]] + 1 /\ batch[q] \in Versions
        BY <1>a, <2>1, <3>1 DEF InBatch, Batches
      <4>2. next[q] \in Nat /\ created[batch[q]] \in Nat /\ created'[batch[q]] \in Nat
        BY <1>a, <2>1, <3>2, <3>3, <4>1 DEF SchemaTypeOK
      <4>3. created'[batch[q]] >= created[batch[q]]
        BY <2>1, <3>2, <4>1, <4>2
      <4>4. CASE q = p
        BY <1>a, <2>1, <3>1, <3>2, <3>3, <4>4 DEF SchemaTypeOK
      <4>5. CASE q # p
        BY <1>a, <3>1, <4>1, <4>2, <4>3, <4>5 DEF SchemaTypeOK
      <4> QED
        BY <4>4, <4>5
    <3>5. \A q \in Openers : InBatch(q)' <=> InBatch(q)
      BY <2>1, <3>1 DEF InBatch
    <3>6. InBatch(p) /\ \A q \in Openers : q # p => next'[q] = next[q]
      BY <1>a, <1>3, <3>1 DEF Statement, SchemaTypeOK
    <3>7. \A q \in Openers : opener'[q] = "migrate" /\ ~InBatch(q)' => next'[q] = 1
      BY <1>a, <2>1, <3>5, <3>6 DEF Batches
    <3>8. opener' = opener /\ saw' = saw /\ UNCHANGED <<userVersion, batch>>
      BY <2>1, <3>1
    <3> HIDE DEF v
    <3> QED
      BY <1>a, <3>3, <3>4, <3>7, <3>8 DEF Batches
  <2>3. CASE ~(next[p] <= Creates[v])
    <3>1. /\ userVersion' = v /\ batch' = [batch EXCEPT ![p] = v + 1] /\ next' = [next EXCEPT ![p] = 1]
          /\ UNCHANGED created
      BY <1>3, <2>3 DEF Statement
    <3>2. \A u \in Versions : u < v + 1 => HasAll(u)
      BY <1>a, <2>1, <2>3, SchemaConstants DEF Batches, HasAll
    <3>3. \A u \in Versions : HasAll(u)' <=> HasAll(u)
      BY <3>1 DEF HasAll
    <3>4. \A u \in Versions : u <= v => u < v + 1
      BY <2>1, SchemaConstants
    <3>5. \A q \in Openers : q # p => batch'[q] = batch[q] /\ next'[q] = next[q]
      BY <1>a, <3>1 DEF SchemaTypeOK
    <3>6. batch'[p] = v + 1 /\ next'[p] = 1
      BY <1>a, <3>1 DEF SchemaTypeOK
    <3>7. \A q \in Openers : InBatch(q)' => next'[q] <= created'[batch'[q]] + 1
      <4> SUFFICES ASSUME NEW q \in Openers, InBatch(q)' PROVE next'[q] <= created'[batch'[q]] + 1
        OBVIOUS
      <4>1. CASE q = p
        <5>1. v + 1 \in Versions /\ created[v + 1] \in Nat
          BY <1>a, <3>6, <4>1 DEF InBatch, SchemaTypeOK
        <5> QED
          BY <3>1, <3>6, <4>1, <5>1
      <4>2. CASE q # p
        BY <1>a, <2>1, <3>1, <3>5, <4>2 DEF InBatch, Batches
      <4> QED
        BY <4>1, <4>2
    <3>8. \A q \in Openers : opener'[q] = "migrate" /\ ~InBatch(q)' => next'[q] = 1
      BY <1>a, <2>1, <3>5, <3>6 DEF Batches, InBatch
    <3>9. \A q \in Openers : opener'[q] = "migrate" => \A u \in Versions : u < batch'[q] => HasAll(u)
      BY <1>a, <2>1, <3>2, <3>5, <3>6 DEF Batches
    <3>10. opener' = opener /\ saw' = saw /\ userVersion' = v
      BY <2>1, <3>1
    <3> HIDE DEF v
    <3> QED
      BY <1>a, <3>2, <3>3, <3>4, <3>7, <3>8, <3>9, <3>10 DEF Batches
  <2> QED
    BY <2>2, <2>3
<1>4. ASSUME NEW p \in Openers, Migrated(p) PROVE Batches'
  BY <1>a, <1>4, SchemaConstants, SchemaBoundsAssumption
     DEF Migrated, Batches, HasAll, InBatch, SchemaTypeOK, OpenerGoes, fileVars, atVars
<1>5. ASSUME NEW p \in Openers, ReadKey(p) PROVE Batches'
  BY <1>a, <1>5, SchemaConstants, SchemaBoundsAssumption
     DEF ReadKey, Batches, HasAll, InBatch, SchemaTypeOK, OpenerGoes, fileVars, atVars
<1>6. ASSUME NEW p \in Openers, NoKeyYet(p) PROVE Batches'
  BY <1>a, <1>6, SchemaConstants, SchemaBoundsAssumption
     DEF NoKeyYet, Batches, HasAll, InBatch, SchemaTypeOK, OpenerGoes, fileVars, atVars
<1>7. ASSUME NEW p \in Openers, FindBadKey(p) PROVE Batches'
  BY <1>a, <1>7, SchemaConstants, SchemaBoundsAssumption
     DEF FindBadKey, Batches, HasAll, InBatch, SchemaTypeOK, OpenerGoes, fileVars, atVars
<1>8. ASSUME NEW p \in Openers, DeleteKey(p) PROVE Batches'
  BY <1>a, <1>8, SchemaConstants, SchemaBoundsAssumption
     DEF DeleteKey, Batches, HasAll, InBatch, SchemaTypeOK, OpenerGoes, fileVars, atVars
<1>9. ASSUME NEW p \in Openers, MintKey(p) PROVE Batches'
  BY <1>a, <1>9, SchemaConstants, SchemaBoundsAssumption
     DEF MintKey, Batches, HasAll, InBatch, SchemaTypeOK, OpenerGoes, fileVars, atVars
<1>10. ASSUME NEW p \in Openers, StatementFails(p) PROVE Batches'
  BY <1>a, <1>10, SchemaConstants, SchemaBoundsAssumption
     DEF StatementFails, Batches, HasAll, InBatch, SchemaTypeOK, OpenerGoes, fileVars, atVars
<1>11. ASSUME NEW p \in Openers, OpenerDies(p) PROVE Batches'
  BY <1>a, <1>11, SchemaConstants, SchemaBoundsAssumption
     DEF OpenerDies, Batches, HasAll, InBatch, SchemaTypeOK, OpenerGoes, fileVars, atVars
<1>12. CASE Damage
  BY <1>a, <1>12, SchemaConstants, SchemaBoundsAssumption
     DEF Damage, Batches, HasAll, InBatch, SchemaTypeOK, OpenerGoes, fileVars, atVars
<1>13. CASE UNCHANGED schemaVars
  BY <1>a, <1>13 DEF schemaVars, Batches, HasAll, InBatch, SchemaTypeOK
<1> QED
  BY <1>1, <1>2, <1>3, <1>4, <1>5, <1>6, <1>7, <1>8, <1>9, <1>10, <1>11, <1>12, <1>13 DEF SchemaNext

LEMMA KeysStep ==
  ASSUME SchemaInv, [SchemaNext]_schemaVars
  PROVE  KeyIsKept'
<1>a. SchemaTypeOK /\ KeyIsKept
  BY DEF SchemaInv
<1>1. ASSUME NEW p \in Openers, OpenStore(p) PROVE KeyIsKept'
  BY <1>a, <1>1, SchemaConstants, SchemaBoundsAssumption
     DEF OpenStore, KeyIsKept, SchemaTypeOK, OpenerGoes, fileVars, atVars, InBatch
<1>2. ASSUME NEW p \in Openers, SkipBatch(p) PROVE KeyIsKept'
  BY <1>a, <1>2, SchemaConstants, SchemaBoundsAssumption
     DEF SkipBatch, KeyIsKept, SchemaTypeOK, OpenerGoes, fileVars, atVars, InBatch
<1>3. ASSUME NEW p \in Openers, Statement(p) PROVE KeyIsKept'
  BY <1>a, <1>3, SchemaConstants, SchemaBoundsAssumption
     DEF Statement, KeyIsKept, SchemaTypeOK, OpenerGoes, fileVars, atVars, InBatch
<1>4. ASSUME NEW p \in Openers, Migrated(p) PROVE KeyIsKept'
  BY <1>a, <1>4, SchemaConstants, SchemaBoundsAssumption
     DEF Migrated, KeyIsKept, SchemaTypeOK, OpenerGoes, fileVars, atVars, InBatch
<1>5. ASSUME NEW p \in Openers, ReadKey(p) PROVE KeyIsKept'
  BY <1>a, <1>5, SchemaConstants, SchemaBoundsAssumption
     DEF ReadKey, KeyIsKept, SchemaTypeOK, OpenerGoes, fileVars, atVars, InBatch
<1>6. ASSUME NEW p \in Openers, NoKeyYet(p) PROVE KeyIsKept'
  BY <1>a, <1>6, SchemaConstants, SchemaBoundsAssumption
     DEF NoKeyYet, KeyIsKept, SchemaTypeOK, OpenerGoes, fileVars, atVars, InBatch
<1>7. ASSUME NEW p \in Openers, FindBadKey(p) PROVE KeyIsKept'
  BY <1>a, <1>7, SchemaConstants, SchemaBoundsAssumption
     DEF FindBadKey, KeyIsKept, SchemaTypeOK, OpenerGoes, fileVars, atVars, InBatch
<1>8. ASSUME NEW p \in Openers, DeleteKey(p) PROVE KeyIsKept'
  BY <1>a, <1>8, SchemaConstants, SchemaBoundsAssumption
     DEF DeleteKey, KeyIsKept, SchemaTypeOK, OpenerGoes, fileVars, atVars, InBatch
<1>9. ASSUME NEW p \in Openers, MintKey(p) PROVE KeyIsKept'
  <2>1. CASE UNCHANGED <<secret, identity>>
    BY <1>a, <1>9, <2>1 DEF MintKey, OpenerGoes, KeyIsKept, SchemaTypeOK
  <2>2. CASE secret = NoKey /\ secret' = minted' /\ identity' = [identity EXCEPT ![p] = minted']
    <3>1. minted' \in Nat /\ damage' = damage /\ opener' = [opener EXCEPT ![p] = "open"]
      BY <1>a, <1>9, <2>2, SchemaConstants DEF MintKey, OpenerGoes, SchemaTypeOK
    <3> QED
      BY <1>a, <2>2, <3>1, SchemaConstants DEF KeyIsKept, SchemaTypeOK
  <2> QED
    BY <1>9, <2>1, <2>2 DEF MintKey
<1>10. ASSUME NEW p \in Openers, StatementFails(p) PROVE KeyIsKept'
  BY <1>a, <1>10, SchemaConstants, SchemaBoundsAssumption
     DEF StatementFails, KeyIsKept, SchemaTypeOK, OpenerGoes, fileVars, atVars, InBatch
<1>11. ASSUME NEW p \in Openers, OpenerDies(p) PROVE KeyIsKept'
  BY <1>a, <1>11, SchemaConstants, SchemaBoundsAssumption
     DEF OpenerDies, KeyIsKept, SchemaTypeOK, OpenerGoes, fileVars, atVars, InBatch
<1>12. CASE Damage
  BY <1>a, <1>12, SchemaConstants, SchemaBoundsAssumption
     DEF Damage, KeyIsKept, SchemaTypeOK, OpenerGoes, fileVars, atVars, InBatch
<1>13. CASE UNCHANGED schemaVars
  BY <1>a, <1>13 DEF schemaVars, KeyIsKept, SchemaTypeOK
<1> QED
  BY <1>1, <1>2, <1>3, <1>4, <1>5, <1>6, <1>7, <1>8, <1>9, <1>10, <1>11, <1>12, <1>13 DEF SchemaNext

(* A file that was opened can be relied on: whoever is past migrate has    *)
(* every table, a file never claims a version some table of which it       *)
(* lacks, and unless a row was damaged every process runs with the key on  *)
(* the disk (Store::migrate, Store::identity), for any number of processes *)
(* that share the file, any batches, deaths and failures in between.       *)
THEOREM StoresSound == SchemaSpec => []StoreSound
<1>1. SchemaInit => SchemaInv
  BY SchemaStarts
<1>2. SchemaInv /\ [SchemaNext]_schemaVars => SchemaInv'
  BY SchemaTypeStep, BatchesStep, KeysStep DEF SchemaInv
<1>3. SchemaInv => StoreSound
  BY DEF SchemaInv, Batches, KeyIsKept, HasAll, StoreSound, SchemaComplete, IdentityKept
<1> QED
  BY <1>1, <1>2, <1>3, PTL DEF SchemaSpec

(* Versions, tables, keys and processes keep their types.                  *)
THEOREM SchemaTypes == SchemaSpec => []SchemaTypeOK
<1>1. SchemaInv /\ [SchemaNext]_schemaVars => SchemaInv'
  BY SchemaTypeStep, BatchesStep, KeysStep DEF SchemaInv
<1>2. SchemaInv => SchemaTypeOK
  BY DEF SchemaInv
<1> QED
  BY <1>1, <1>2, SchemaStarts, PTL DEF SchemaSpec

-----------------------------------------------------------------------------
(* Device lists.                                                           *)
Posting == [at : {"rest", "fetch", "send"}, user : Users \cup {NoUser},
            devices : SUBSET Devices, replaces : Int]
DeviceLimits ==
    /\ keys \in [Devices -> Users \cup {NoUser}] /\ time \in [Devices -> Nat]
    /\ list \in [Users -> [devices : SUBSET Devices, at : Int]]
    /\ postings \in [Devices -> Posting]
    /\ fetching \in [Users -> SUBSET Devices] /\ binding \in [Users -> SUBSET Devices]
    /\ row \in [Devices -> Devices]
    /\ rowKey \in [Devices -> Users \cup {NoUser}] /\ shownKey \in [Devices -> Users \cup {NoUser}]
    /\ rekeyed \in BOOLEAN

(* Who publishes does it for a user, and for a user whose publications do  *)
(* not overlap one device at a time.  What it is about to send replaces    *)
(* the list of the relay, unless that could not be fetched.                *)
Heeding(u, d) ==
    postings[d].at = "send" =>
        postings[d].replaces = list[u].at /\ list[u].devices \subseteq postings[d].devices
Publishing ==
    /\ \A d \in Devices : postings[d].at = "rest" <=> postings[d].user = NoUser
    /\ \A u \in Users \ overlapped : \A d, e \in Devices :
          postings[d].user = u /\ postings[e].user = u => d = e
    /\ \A u \in Users \ (overlapped \cup unfetched) :
          u \notin refusedNews /\ \A d \in Devices : postings[d].user = u => Heeding(u, d)

(* A device that is bound to a user, or is going to be, was in a list of   *)
(* that user.  The devices of a friend with a key were; a friend without   *)
(* one has one device.                                                     *)
Binding ==
    /\ \A u \in Users : \A d \in fetching[u] \cup binding[u] : <<u, d>> \in named
    /\ \A d, e \in Devices : row[d] = row[e] /\ rowKey[row[d]] = NoUser => d = e
    /\ ~rekeyed => \A d \in Devices :
          /\ rowKey[row[d]] # NoUser => <<rowKey[row[d]], d>> \in named
          /\ shownKey[d] # NoUser => <<shownKey[d], d>> \in named

DeviceInv == DeviceLimits /\ Publishing /\ Binding

LEMMA DeviceStarts ==
  ASSUME DeviceInit
  PROVE  DeviceInv
<1>1. Resting \in Posting /\ Resting.at = "rest" /\ Resting.user = NoUser
  BY DEF Resting, Posting
<1>2. NoList \in [devices : SUBSET Devices, at : Int]
  BY DEF NoList
<1>3. DeviceLimits
  BY <1>1, <1>2 DEF DeviceInit, DeviceLimits
<1>4. Publishing
  BY <1>1, NoUserAssumption DEF DeviceInit, Publishing, Heeding
<1>5. Binding
  BY DEF DeviceInit, Binding
<1> QED
  BY <1>3, <1>4, <1>5 DEF DeviceInv

(* A device begins, fetches, sends or gives up.                            *)
LEMMA PublishSteps ==
  ASSUME DeviceInv, NEW d \in Devices,
         \/ TimePasses(d) \/ Publish(d) \/ Send(d) \/ SendFails(d)
         \/ \E ok \in BOOLEAN : FetchOwn(d, ok)
         \/ \E u \in Users : TakeKeys(d, u)
  PROVE  DeviceInv'
<1>a. DeviceLimits /\ Publishing /\ Binding
  BY DEF DeviceInv
<1>b. /\ postings[d] \in Posting /\ postings \in [Devices -> Posting]
      /\ Resting \in Posting /\ Resting.at = "rest" /\ Resting.user = NoUser
  BY <1>a DEF DeviceLimits, Resting, Posting
<1>1. Binding'
  BY <1>a DEF Binding, bindVars, TimePasses, Publish, Send, SendFails, FetchOwn, TakeKeys
<1>2. CASE TimePasses(d)
  <2>1. DeviceLimits'
    BY <1>2, <1>a DEF DeviceLimits, TimePasses, bindVars
  <2>2. Publishing'
    BY <1>2, <1>a DEF Publishing, Heeding, TimePasses
  <2> QED
    BY <1>1, <2>1, <2>2 DEF DeviceInv
<1>3. ASSUME NEW u \in Users, TakeKeys(d, u) PROVE DeviceInv'
  <2>1. DeviceLimits'
    BY <1>3, <1>a DEF DeviceLimits, TakeKeys, bindVars
  <2>2. Publishing'
    BY <1>3, <1>a DEF Publishing, Heeding, TakeKeys
  <2> QED
    BY <1>1, <2>1, <2>2 DEF DeviceInv
<1>4. CASE SendFails(d)
  <2>1. /\ postings' = [postings EXCEPT ![d] = Resting]
        /\ UNCHANGED <<keys, time, list, overlapped, unfetched, refusedNews>>
        /\ UNCHANGED <<fetching, binding, row, rowKey, shownKey, rekeyed>>
    BY <1>4 DEF SendFails, bindVars
  <2>2. DeviceLimits'
    BY <1>a, <1>b, <2>1 DEF DeviceLimits
  <2>3. \A e \in Devices : postings'[e] = IF e = d THEN Resting ELSE postings[e]
    BY <1>b, <2>1
  <2>4. Publishing'
    BY <1>a, <1>b, <2>1, <2>3, NoUserAssumption DEF Publishing, Heeding
  <2> QED
    BY <1>1, <2>2, <2>4 DEF DeviceInv
<1>5. CASE Publish(d)
  <2> DEFINE p == [Resting EXCEPT !.at = "fetch", !.user = keys[d]]
  <2>1. /\ postings' = [postings EXCEPT ![d] = p]
        /\ UNCHANGED <<keys, time, list, unfetched, refusedNews>>
        /\ UNCHANGED <<fetching, binding, row, rowKey, shownKey, rekeyed>>
        /\ keys[d] \in Users /\ postings[d].at = "rest"
        /\ overlapped' = IF \E e \in Devices : postings[e].user = keys[d]
                         THEN overlapped \cup {keys[d]} ELSE overlapped
    BY <1>5, <1>a DEF Publish, bindVars, DeviceLimits
  <2>2. p \in Posting /\ p.at = "fetch" /\ p.user = keys[d]
    <3>1. Resting \in Posting
      BY <1>b
    <3> QED
      BY <2>1, <3>1 DEF Posting
  <2> HIDE DEF p
  <2>3. DeviceLimits'
    BY <1>a, <2>1, <2>2 DEF DeviceLimits
  <2>4. \A e \in Devices : postings'[e] = IF e = d THEN p ELSE postings[e]
    BY <1>b, <2>1
  <2>5. Publishing'
    BY <1>a, <2>1, <2>2, <2>4, NoUserAssumption DEF Publishing, Heeding
  <2> QED
    BY <1>1, <2>3, <2>5 DEF DeviceInv
<1>6. ASSUME NEW ok \in BOOLEAN, FetchOwn(d, ok) PROVE DeviceInv'
  <2> DEFINE u == postings[d].user
             found == IF ok THEN list[u] ELSE NoList
             p == [at |-> "send", user |-> u, devices |-> found.devices \cup {d}, replaces |-> found.at]
  <2>1. /\ postings' = [postings EXCEPT ![d] = p]
        /\ UNCHANGED <<keys, time, list, overlapped, refusedNews>>
        /\ UNCHANGED <<fetching, binding, row, rowKey, shownKey, rekeyed>>
        /\ unfetched' = IF ok THEN unfetched ELSE unfetched \cup {u}
        /\ postings[d].at = "fetch"
    BY <1>6 DEF FetchOwn, bindVars, ExistingClaims
  <2>2. u \in Users
    BY <1>a, <1>b, <2>1 DEF Publishing, Posting
  <2>3. found \in [devices : SUBSET Devices, at : Int]
    BY <1>a, <2>2 DEF DeviceLimits, NoList
  <2>4. /\ p \in Posting /\ p.at = "send" /\ p.user = u
        /\ ok => p.replaces = list[u].at /\ list[u].devices \subseteq p.devices
    BY <2>2, <2>3 DEF Posting
  <2> HIDE DEF p, found
  <2>5. DeviceLimits'
    BY <1>a, <2>1, <2>4 DEF DeviceLimits
  <2>6. \A e \in Devices : postings'[e] = IF e = d THEN p ELSE postings[e]
    BY <1>b, <2>1
  <2>7. Publishing'
    BY <1>a, <2>1, <2>2, <2>4, <2>6, NoUserAssumption DEF Publishing, Heeding
  <2> QED
    BY <1>1, <2>5, <2>7 DEF DeviceInv
<1>7. CASE Send(d)
  <2> DEFINE u == postings[d].user
             l == [devices |-> postings[d].devices, at |-> Stamp(d)]
  <2>1. /\ postings' = [postings EXCEPT ![d] = Resting]
        /\ UNCHANGED <<keys, time, overlapped, unfetched>>
        /\ UNCHANGED <<fetching, binding, row, rowKey, shownKey, rekeyed>>
        /\ postings[d].at = "send"
        /\ \/ Stamp(d) > list[u].at /\ list' = [list EXCEPT ![u] = l] /\ UNCHANGED refusedNews
           \/ ~(Stamp(d) > list[u].at) /\ UNCHANGED list /\ refusedNews' = refusedNews \cup {u}
    BY <1>7 DEF Send, bindVars
  <2>2. u \in Users
    BY <1>a, <1>b, <2>1 DEF Publishing, Posting
  <2>3. time[d] \in Int /\ postings[d].replaces \in Int /\ list[u].at \in Int
    BY <1>a, <1>b, <2>2 DEF DeviceLimits, Posting
  <2>4. Stamp(d) \in Int /\ Stamp(d) > postings[d].replaces
    BY <2>3 DEF Stamp
  <2>5. l \in [devices : SUBSET Devices, at : Int]
    BY <1>b, <2>4 DEF Posting
  <2>6. u \notin overlapped \cup unfetched => Stamp(d) > list[u].at
    BY <1>a, <2>1, <2>2, <2>4 DEF Publishing, Heeding
  <2> HIDE DEF l
  <2>7. DeviceLimits'
    BY <1>a, <1>b, <2>1, <2>2, <2>5 DEF DeviceLimits
  <2>8. \A e \in Devices : postings'[e] = IF e = d THEN Resting ELSE postings[e]
    BY <1>b, <2>1
  <2>9. \A v \in Users : v # u => list'[v] = list[v]
    BY <1>a, <2>1 DEF DeviceLimits
  <2>10. /\ \A e \in Devices : postings'[e].at = "rest" <=> postings'[e].user = NoUser
         /\ \A v \in Users \ overlapped' : \A e, f \in Devices :
              postings'[e].user = v /\ postings'[f].user = v => e = f
    BY <1>a, <1>b, <2>1, <2>8, NoUserAssumption DEF Publishing
  <2>11. ASSUME NEW v \in Users \ (overlapped' \cup unfetched')
         PROVE  v \notin refusedNews' /\ \A e \in Devices : postings'[e].user = v => Heeding(v, e)'
    <3>1. v \notin refusedNews'
      BY <1>a, <2>1, <2>6, <2>11 DEF Publishing
    <3>2. ASSUME NEW e \in Devices, postings'[e].user = v PROVE Heeding(v, e)'
      <4>1. e # d /\ postings'[e] = postings[e]
        BY <1>b, <2>8, <3>2, NoUserAssumption
      <4>2. v # u
        BY <1>a, <2>1, <2>11, <3>2, <4>1 DEF Publishing
      <4>3. Heeding(v, e)
        BY <1>a, <2>1, <2>11, <3>2, <4>1 DEF Publishing
      <4> QED
        BY <2>9, <4>1, <4>2, <4>3 DEF Heeding
    <3> QED
      BY <3>1, <3>2
  <2>12. Publishing'
    BY <2>10, <2>11 DEF Publishing
  <2> QED
    BY <1>1, <2>7, <2>12 DEF DeviceInv
<1> QED
  BY <1>2, <1>3, <1>4, <1>5, <1>6, <1>7

(* The friend's node.                                                      *)
LEMMA BindSteps ==
  ASSUME DeviceInv,
         \/ \E u \in Users : FetchDevices(u) \/ BindShown(u)
         \/ \E u \in Users, d \in Devices : BindStored(u, d)
         \/ RestartFriend
  PROVE  DeviceInv'
<1>a. DeviceLimits /\ Publishing /\ Binding
  BY DEF DeviceInv
<1>b. UNCHANGED publishVars
  BY DEF FetchDevices, BindShown, BindStored, RestartFriend
<1>1. Publishing'
  BY <1>a, <1>b DEF Publishing, Heeding, publishVars
<1>2. ASSUME NEW u \in Users, FetchDevices(u) PROVE DeviceInv'
  <2>1. /\ list[u].devices \subseteq Devices
        /\ fetching' = [fetching EXCEPT ![u] = list[u].devices]
        /\ named' = named \cup ({u} \X list[u].devices)
        /\ UNCHANGED <<binding, row, rowKey, shownKey, rekeyed>>
    BY <1>2, <1>a DEF FetchDevices, DeviceLimits
  <2>2. DeviceLimits'
    BY <1>a, <1>b, <2>1 DEF DeviceLimits, publishVars
  <2>3. \A v \in Users : fetching'[v] = IF v = u THEN list[u].devices ELSE fetching[v]
    BY <1>a, <2>1 DEF DeviceLimits
  <2>4. Binding'
    BY <1>a, <2>1, <2>3 DEF Binding
  <2> QED
    BY <1>1, <2>2, <2>4 DEF DeviceInv
<1>3. ASSUME NEW u \in Users, BindShown(u) PROVE DeviceInv'
  <2>1. /\ binding' = [binding EXCEPT ![u] = {}]
        /\ shownKey' = [d \in Devices |-> IF d \in binding[u] THEN u ELSE shownKey[d]]
        /\ UNCHANGED <<fetching, row, rowKey, named, rekeyed>>
    BY <1>3 DEF BindShown
  <2>2. DeviceLimits'
    BY <1>a, <1>b, <2>1 DEF DeviceLimits, publishVars
  <2>3. \A v \in Users : binding'[v] \subseteq binding[v]
    BY <1>a, <2>1 DEF DeviceLimits
  <2>4. Binding'
    BY <1>a, <2>1, <2>3 DEF Binding
  <2> QED
    BY <1>1, <2>2, <2>4 DEF DeviceInv
<1>4. ASSUME NEW u \in Users, NEW d \in Devices, BindStored(u, d) PROVE DeviceInv'
  <2>1. /\ d \in fetching[u]
        /\ fetching' = [fetching EXCEPT ![u] = @ \ {d}] /\ binding' = [binding EXCEPT ![u] = {d}]
        /\ UNCHANGED <<shownKey, named>>
    BY <1>4 DEF BindStored
  <2>2. <<u, d>> \in named
    BY <1>a, <2>1 DEF Binding
  <2>3. /\ fetching' \in [Users -> SUBSET Devices] /\ binding' \in [Users -> SUBSET Devices]
        /\ \A v \in Users : /\ fetching'[v] \subseteq fetching[v]
                            /\ binding'[v] \subseteq binding[v] \cup (IF v = u THEN {d} ELSE {})
    BY <1>a, <2>1 DEF DeviceLimits
  <2>4. \A v \in Users : \A e \in fetching'[v] \cup binding'[v] : <<v, e>> \in named'
    BY <1>a, <2>1, <2>2, <2>3 DEF Binding
  <2>5. row \in [Devices -> Devices] /\ rowKey \in [Devices -> Users \cup {NoUser}] /\ row[d] \in Devices
    BY <1>a DEF DeviceLimits
  <2>6. ASSUME NEW owner \in Devices, rowKey[owner] = u, row' = Moves(d, owner), UNCHANGED rekeyed,
               rowKey' = [r \in Devices |-> IF r \in {row'[e] : e \in Devices} THEN rowKey[r] ELSE NoUser]
        PROVE  DeviceInv'
    <3>1. row' \in [Devices -> Devices] /\ \A e \in Devices : row'[e] = IF e = d THEN owner ELSE row[e]
      BY <2>5, <2>6 DEF Moves
    <3>2. rowKey' \in [Devices -> Users \cup {NoUser}] /\ \A e \in Devices : rowKey'[row'[e]] = rowKey[row'[e]]
      BY <2>5, <2>6, <3>1
    <3>3. DeviceLimits'
      BY <1>a, <1>b, <2>1, <2>3, <2>6, <3>1, <3>2 DEF DeviceLimits, publishVars
    <3>4. Binding'
      <4>1. \A e, f \in Devices : row'[e] = row'[f] /\ rowKey'[row'[e]] = NoUser => e = f
        <5> SUFFICES ASSUME NEW e \in Devices, NEW f \in Devices, row'[e] = row'[f], rowKey[row'[e]] = NoUser
                     PROVE  e = f
          BY <3>2
        <5>1. e # d /\ f # d
          BY <2>6, <3>1, NoUserAssumption
        <5> QED
          BY <1>a, <3>1, <5>1 DEF Binding
      <4>2. ASSUME ~rekeyed', NEW e \in Devices, rowKey'[row'[e]] # NoUser
            PROVE  <<rowKey'[row'[e]], e>> \in named'
        <5>1. CASE e = d
          BY <2>1, <2>2, <2>6, <3>1, <3>2, <5>1
        <5>2. CASE e # d
          <6>1. row'[e] = row[e] /\ rowKey'[row'[e]] = rowKey[row[e]]
            BY <3>1, <3>2, <5>2
          <6>2. ~rekeyed /\ rowKey[row[e]] # NoUser
            BY <2>6, <4>2, <6>1
          <6>3. <<rowKey[row[e]], e>> \in named
            BY <1>a, <6>2 DEF Binding
          <6> QED
            BY <2>1, <6>1, <6>3
        <5> QED
          BY <5>1, <5>2
      <4>3. ~rekeyed' => \A e \in Devices : shownKey'[e] # NoUser => <<shownKey'[e], e>> \in named'
        BY <1>a, <2>1, <2>6 DEF Binding
      <4> QED
        BY <2>4, <4>1, <4>2, <4>3 DEF Binding
    <3> QED
      BY <1>1, <3>3, <3>4 DEF DeviceInv
  <2>7. CASE /\ \A r \in Devices : rowKey[r] # u
             /\ rowKey' = [rowKey EXCEPT ![row[d]] = u]
             /\ rekeyed' = (rekeyed \/ rowKey[row[d]] # NoUser)
             /\ UNCHANGED row
    <3>1. rowKey' \in [Devices -> Users \cup {NoUser}]
      BY <2>5, <2>7
    <3>2. \A e \in Devices : rowKey'[row'[e]] = IF row[e] = row[d] THEN u ELSE rowKey[row[e]]
      BY <2>5, <2>7
    <3>3. rekeyed' \in BOOLEAN
      BY <1>a, <2>7 DEF DeviceLimits
    <3>4. DeviceLimits'
      BY <1>a, <1>b, <2>1, <2>3, <2>7, <3>1, <3>3 DEF DeviceLimits, publishVars
    <3>5. Binding'
      <4>1. \A e, f \in Devices : row'[e] = row'[f] /\ rowKey'[row'[e]] = NoUser => e = f
        <5> SUFFICES ASSUME NEW e \in Devices, NEW f \in Devices, row[e] = row[f], rowKey'[row'[e]] = NoUser
                     PROVE  e = f
          BY <2>7
        <5>1. rowKey[row[e]] = NoUser
          BY <3>2, NoUserAssumption
        <5> QED
          BY <1>a, <5>1 DEF Binding
      <4>2. ASSUME ~rekeyed', NEW e \in Devices, rowKey'[row'[e]] # NoUser
            PROVE  <<rowKey'[row'[e]], e>> \in named'
        <5>1. ~rekeyed /\ rowKey[row[d]] = NoUser
          BY <1>a, <2>7, <4>2 DEF DeviceLimits
        <5>2. CASE row[e] = row[d]
          <6>1. e = d
            BY <1>a, <5>1, <5>2 DEF Binding
          <6>2. rowKey'[row'[e]] = u
            BY <3>2, <5>2
          <6> QED
            BY <2>1, <2>2, <6>1, <6>2
        <5>3. CASE row[e] # row[d]
          <6>1. rowKey'[row'[e]] = rowKey[row[e]]
            BY <3>2, <5>3
          <6> QED
            BY <1>a, <2>1, <4>2, <5>1, <6>1 DEF Binding
        <5> QED
          BY <5>2, <5>3
      <4>3. ~rekeyed' => \A e \in Devices : shownKey'[e] # NoUser => <<shownKey'[e], e>> \in named'
        BY <1>a, <2>1, <2>7 DEF Binding, DeviceLimits
      <4> QED
        BY <2>4, <4>1, <4>2, <4>3 DEF Binding
    <3> QED
      BY <1>1, <3>4, <3>5 DEF DeviceInv
  <2> QED
    BY <1>4, <2>6, <2>7 DEF BindStored
<1>5. CASE RestartFriend
  <2>1. /\ fetching' = [u \in Users |-> {}] /\ binding' = [u \in Users |-> {}]
        /\ shownKey' = [d \in Devices |-> rowKey[row[d]]]
        /\ UNCHANGED <<row, rowKey, named, rekeyed>>
    BY <1>5 DEF RestartFriend
  <2>2. DeviceLimits'
    BY <1>a, <1>b, <2>1 DEF DeviceLimits, publishVars
  <2>3. Binding'
    BY <1>a, <2>1 DEF Binding
  <2> QED
    BY <1>1, <2>2, <2>3 DEF DeviceInv
<1> QED
  BY <1>2, <1>3, <1>4, <1>5

LEMMA DeviceStep ==
  ASSUME DeviceInv, [DeviceNext]_deviceVars
  PROVE  DeviceInv'
<1>1. DeviceInv /\ UNCHANGED deviceVars => DeviceInv'
  BY DEF DeviceInv, DeviceLimits, Publishing, Heeding, Binding, deviceVars
<1> QED
  BY <1>1, PublishSteps, BindSteps DEF DeviceNext

(* However the clocks of a user's devices differ, publications that fetch  *)
(* the list and do not overlap are not refused as old and lose no device   *)
(* of it; and while no friend's key is replaced, a device is shown with a  *)
(* key only if a list of that key named it, through merges and restarts.   *)
THEOREM ListsAlwaysTrue == DeviceSpec => []ListsTrue
<1>1. DeviceInit => DeviceInv
  BY DeviceStarts
<1>2. DeviceInv /\ [DeviceNext]_deviceVars => DeviceInv'
  BY DeviceStep
<1>3. DeviceInv => ListsTrue
  <2> SUFFICES ASSUME DeviceInv PROVE ListsTrue
    OBVIOUS
  <2>1. ASSUME NEW u \in Users \ (overlapped \cup unfetched), NEW d \in Devices,
               postings[d].at = "send", postings[d].user = u
        PROVE  list[u].devices \subseteq postings[d].devices /\ Stamp(d) > list[u].at
    <3>1. Heeding(u, d)
      BY <2>1 DEF DeviceInv, Publishing
    <3>2. time[d] \in Int /\ postings[d] \in Posting
      BY DEF DeviceInv, DeviceLimits
    <3>3. postings[d].replaces \in Int
      BY <3>2 DEF Posting
    <3>4. Stamp(d) > postings[d].replaces
      BY <3>2, <3>3 DEF Stamp
    <3> QED
      BY <2>1, <3>1, <3>4 DEF Heeding
  <2>2. PublicationsHeard
    BY <2>1 DEF DeviceInv, Publishing, PublicationsHeard
  <2>3. ShownAsListed
    BY DEF DeviceInv, Binding, ShownAsListed
  <2> QED
    BY <2>2, <2>3 DEF ListsTrue
<1> QED
  BY <1>1, <1>2, <1>3, PTL DEF DeviceSpec

(* A list is replaced by one of a second later at most, and that costs one *)
(* of the publications: no time stamp runs further ahead of the clocks     *)
(* than there were publications that are over.                             *)
Busy == {d \in Devices : postings[d].at # "rest"}
Over == published - Cardinality(Busy)
Ahead == -1 .. (MaxTime + Over)
Stamped ==
    /\ time \in [Devices -> 0..MaxTime] /\ published \in 0..MaxPublish
    /\ IsFiniteSet(Busy) /\ Over \in Nat
    /\ \A u \in Users : list[u].at \in Ahead
    /\ \A d \in Devices : postings[d].replaces \in Ahead
Histories ==
    /\ named \subseteq Users \X Devices
    /\ overlapped \subseteq Users /\ unfetched \subseteq Users /\ refusedNews \subseteq Users
DeviceBounds == DeviceLimits /\ Stamped /\ Histories

LEMMA DevicesTyped ==
    ASSUME DeviceBounds
    PROVE  DevicesTypeOK
<1>1. MaxTime + Over \in 0 .. MaxStamp /\ MaxStamp \in Nat
  <2>1. Cardinality(Busy) \in Nat
    BY FS_CardinalityType DEF DeviceBounds, Stamped
  <2> QED
    BY <2>1, DeviceBoundsAssumption DEF DeviceBounds, Stamped, Over, MaxStamp
<1>2. \A k \in Ahead : k \in -1 .. MaxStamp
  BY <1>1 DEF Ahead
<1>3. ASSUME NEW u \in Users PROVE list[u] \in [devices : SUBSET Devices, at : -1..MaxStamp]
  BY <1>2 DEF DeviceBounds, DeviceLimits, Stamped
<1>4. ASSUME NEW d \in Devices
      PROVE  postings[d] \in [at : {"rest", "fetch", "send"}, user : Users \cup {NoUser},
                              devices : SUBSET Devices, replaces : -1..MaxStamp]
  BY <1>2 DEF DeviceBounds, DeviceLimits, Stamped, Posting
<1>5. /\ list \in [Users -> [devices : SUBSET Devices, at : -1..MaxStamp]]
      /\ postings \in [Devices -> [at : {"rest", "fetch", "send"}, user : Users \cup {NoUser},
                                   devices : SUBSET Devices, replaces : -1..MaxStamp]]
  BY <1>3, <1>4 DEF DeviceBounds, DeviceLimits
<1> QED
  BY <1>5 DEF DeviceBounds, DeviceLimits, Stamped, Histories, DevicesTypeOK

LEMMA BoundsStart ==
    ASSUME DeviceInit
    PROVE  DeviceBounds
<1>1. Busy = {}
  BY DEF DeviceInit, Busy, Resting
<1>2. IsFiniteSet(Busy) /\ Cardinality(Busy) = 0
  BY <1>1, FS_EmptySet
<1>3. published = 0 /\ Over = 0
  BY <1>2 DEF DeviceInit, Over
<1>4. -1 \in Ahead
  BY <1>3, DeviceBoundsAssumption DEF Ahead
<1>5. Stamped
  BY <1>2, <1>3, <1>4, DeviceBoundsAssumption DEF DeviceInit, Stamped, NoList, Resting
<1> QED
  BY <1>5, DeviceStarts DEF DeviceInv, DeviceBounds, Histories, DeviceInit

(* A publication begins, or one that is under way is over.                 *)
LEMMA Begins ==
    ASSUME Stamped, NEW d \in Devices, postings[d].at = "rest",
           \A e \in Devices : e # d => postings'[e] = postings[e],
           postings'[d].at # "rest", published' = published + 1
    PROVE  IsFiniteSet(Busy') /\ Over' = Over
<1>1. Busy' = Busy \cup {d} /\ d \notin Busy
  BY DEF Busy
<1>2. IsFiniteSet(Busy) /\ Cardinality(Busy) \in Nat /\ published \in Nat
  BY FS_CardinalityType DEF Stamped
<1>3. IsFiniteSet(Busy') /\ Cardinality(Busy') = Cardinality(Busy) + 1
  BY <1>1, <1>2, FS_AddElement
<1> QED
  BY <1>2, <1>3 DEF Over

LEMMA Ends ==
    ASSUME Stamped, NEW d \in Devices, postings[d].at # "rest",
           \A e \in Devices : e # d => postings'[e] = postings[e],
           postings'[d].at = "rest", published' = published
    PROVE  IsFiniteSet(Busy') /\ Over' = Over + 1
<1>1. Busy' = Busy \ {d} /\ d \in Busy
  BY DEF Busy
<1>2. IsFiniteSet(Busy) /\ Cardinality(Busy) \in Nat /\ published \in Nat
  BY FS_CardinalityType DEF Stamped
<1>3. IsFiniteSet(Busy') /\ Cardinality(Busy') = Cardinality(Busy) - 1
  BY <1>1, <1>2, FS_RemoveElement
<1> QED
  BY <1>2, <1>3 DEF Over

LEMMA StampedSteps ==
    ASSUME DeviceLimits, Publishing, Stamped, NEW d \in Devices,
           \/ TimePasses(d) \/ Publish(d) \/ Send(d) \/ SendFails(d)
           \/ \E ok \in BOOLEAN : FetchOwn(d, ok)
           \/ \E u \in Users : TakeKeys(d, u)
    PROVE  Stamped'
<1>a. /\ time \in [Devices -> 0..MaxTime] /\ published \in 0..MaxPublish /\ Over \in Nat
      /\ IsFiniteSet(Busy) /\ MaxTime \in Nat /\ MaxPublish \in Nat
      /\ \A u \in Users : list[u].at \in Ahead
      /\ \A e \in Devices : postings[e].replaces \in Ahead
  BY DeviceBoundsAssumption DEF Stamped
<1>b. postings \in [Devices -> Posting] /\ postings[d] \in Posting
  BY DEF DeviceLimits
<1>1. CASE TimePasses(d)
  <2>1. time' \in [Devices -> 0..MaxTime] /\ UNCHANGED <<list, postings, published>>
    BY <1>a, <1>1 DEF TimePasses
  <2> QED
    BY <1>a, <2>1 DEF Stamped, Busy, Over, Ahead
<1>2. ASSUME NEW u \in Users, TakeKeys(d, u) PROVE Stamped'
  BY <1>2, <1>a DEF TakeKeys, Stamped, Busy, Over, Ahead
<1>3. CASE Publish(d)
  <2> DEFINE q == [Resting EXCEPT !.at = "fetch", !.user = keys[d]]
  <2>1. q.at = "fetch" /\ q.replaces = -1
    BY DEF Resting
  <2>2. /\ postings[d].at = "rest" /\ published < MaxPublish /\ published' = published + 1
        /\ postings' = [postings EXCEPT ![d] = q] /\ UNCHANGED <<time, list>>
    BY <1>3 DEF Publish
  <2> HIDE DEF q
  <2>3. \A e \in Devices : postings'[e] = IF e = d THEN q ELSE postings[e]
    BY <1>b, <2>2
  <2>4. IsFiniteSet(Busy') /\ Over' = Over
    BY <2>1, <2>2, <2>3, Begins
  <2>5. Ahead' = Ahead /\ -1 \in Ahead
    BY <1>a, <2>4 DEF Ahead
  <2>6. published' \in 0 .. MaxPublish
    BY <1>a, <2>2
  <2>7. \A e \in Devices : postings'[e].replaces \in Ahead
    BY <1>a, <2>1, <2>3, <2>5
  <2> QED
    BY <1>a, <2>2, <2>4, <2>5, <2>6, <2>7 DEF Stamped
<1>4. ASSUME NEW ok \in BOOLEAN, FetchOwn(d, ok) PROVE Stamped'
  <2> DEFINE u == postings[d].user
             found == IF ok THEN ExistingClaims(u) ELSE NoList
             q == [at |-> "send", user |-> u, devices |-> found.devices \cup {d}, replaces |-> found.at]
  <2>1. q.at = "send" /\ q.replaces = found.at
    OBVIOUS
  <2>2. /\ postings[d].at = "fetch" /\ postings' = [postings EXCEPT ![d] = q]
        /\ UNCHANGED <<time, list, published>>
    BY <1>4 DEF FetchOwn
  <2>4. found.at \in Ahead
    <3>1. -1 \in Ahead
      BY <1>a DEF Ahead
    <3>2. CASE ok /\ u \in Users
      BY <1>a, <3>2 DEF ExistingClaims
    <3>3. CASE ~ok
      BY <3>1, <3>3 DEF NoList
    <3>4. u \in Users
      <4>1. u \in Users \cup {NoUser} /\ u # NoUser
        BY <1>b, <2>2 DEF Posting, Publishing
      <4> QED
        BY <4>1
    <3> QED
      BY <3>2, <3>3, <3>4
  <2> HIDE DEF q, found
  <2>3. \A e \in Devices : postings'[e] = IF e = d THEN q ELSE postings[e]
    BY <1>b, <2>2
  <2>5. Busy' = Busy
    BY <2>1, <2>2, <2>3 DEF Busy
  <2>6. Over' = Over /\ Ahead' = Ahead
    BY <2>2, <2>5 DEF Over, Ahead
  <2>7. \A e \in Devices : postings'[e].replaces \in Ahead
    BY <1>a, <2>1, <2>3, <2>4
  <2> QED
    BY <1>a, <2>2, <2>5, <2>6, <2>7 DEF Stamped
<1>5. CASE Send(d) \/ SendFails(d)
  <2>1. /\ postings[d].at # "rest" /\ postings' = [postings EXCEPT ![d] = Resting]
        /\ UNCHANGED <<time, published>>
        /\ \/ UNCHANGED list
           \/ \E u : list' = [list EXCEPT ![u] = [devices |-> postings[d].devices, at |-> Stamp(d)]]
    BY <1>5 DEF Send, SendFails
  <2>2. Resting.at = "rest" /\ Resting.replaces = -1
    BY DEF Resting
  <2>3. \A e \in Devices : postings'[e] = IF e = d THEN Resting ELSE postings[e]
    BY <1>b, <2>1
  <2>4. IsFiniteSet(Busy') /\ Over' = Over + 1
    BY <2>1, <2>2, <2>3, Ends
  <2>5. Ahead \subseteq Ahead' /\ -1 \in Ahead'
    BY <1>a, <2>4 DEF Ahead
  <2>6. Stamp(d) \in Ahead'
    <3>1. time[d] \in 0 .. MaxTime /\ postings[d].replaces \in -1 .. (MaxTime + Over)
      BY <1>a DEF Ahead
    <3>2. Stamp(d) \in -1 .. (MaxTime + (Over + 1))
      BY <1>a, <3>1 DEF Stamp
    <3> QED
      BY <2>4, <3>2 DEF Ahead
  <2>7. \A u \in Users : list'[u].at \in Ahead'
    <3>1. list \in [Users -> [devices : SUBSET Devices, at : Int]]
      BY DEF DeviceLimits
    <3> QED
      BY <1>a, <2>1, <2>5, <2>6, <3>1
  <2>8. \A e \in Devices : postings'[e].replaces \in Ahead'
    BY <1>a, <2>2, <2>3, <2>5
  <2> QED
    BY <1>a, <2>1, <2>4, <2>7, <2>8 DEF Stamped
<1> QED
  BY <1>1, <1>2, <1>3, <1>4, <1>5

LEMMA HistorySteps ==
    ASSUME DeviceInv, Histories, [DeviceNext]_deviceVars
    PROVE  Histories'
<1>a. DeviceLimits /\ Publishing
  BY DEF DeviceInv
<1>1. ASSUME NEW d \in Devices, TimePasses(d) \/ SendFails(d) \/ \E u \in Users : TakeKeys(d, u)
      PROVE  Histories'
  BY <1>1 DEF Histories, TimePasses, SendFails, TakeKeys, bindVars
<1>2. ASSUME NEW d \in Devices, Publish(d) PROVE Histories'
  <2>1. keys[d] \in Users
    BY <1>2, <1>a DEF Publish, DeviceLimits
  <2> QED
    BY <1>2, <2>1 DEF Histories, Publish, bindVars
<1>3. ASSUME NEW d \in Devices, Send(d) \/ \E ok \in BOOLEAN : FetchOwn(d, ok) PROVE Histories'
  <2>1. postings[d].user \in Users
    <3>1. postings[d] \in Posting /\ postings[d].at # "rest"
      BY <1>3, <1>a DEF Send, FetchOwn, DeviceLimits
    <3>2. postings[d].user \in Users \cup {NoUser} /\ postings[d].user # NoUser
      BY <1>a, <3>1 DEF Posting, Publishing
    <3> QED
      BY <3>2
  <2>2. CASE Send(d)
    BY <2>1, <2>2 DEF Histories, Send, bindVars
  <2>3. ASSUME NEW ok \in BOOLEAN, FetchOwn(d, ok) PROVE Histories'
    BY <2>1, <2>3 DEF Histories, FetchOwn, bindVars
  <2> QED
    BY <1>3, <2>2, <2>3
<1>4. ASSUME NEW u \in Users, NEW d \in Devices, BindStored(u, d) PROVE Histories'
  BY <1>4 DEF Histories, BindStored, publishVars
<1>5. ASSUME NEW u \in Users, FetchDevices(u) PROVE Histories'
  <2>1. list[u].devices \subseteq Devices
    BY <1>a DEF DeviceLimits
  <2> QED
    BY <1>5, <2>1 DEF Histories, FetchDevices, publishVars
<1>6. ASSUME NEW u \in Users, BindShown(u) PROVE Histories'
  BY <1>6 DEF Histories, BindShown, publishVars
<1>7. CASE RestartFriend
  BY <1>7 DEF Histories, RestartFriend, publishVars
<1>8. CASE UNCHANGED deviceVars
  BY <1>8 DEF Histories, deviceVars
<1> QED
  BY <1>1, <1>2, <1>3, <1>4, <1>5, <1>6, <1>7, <1>8 DEF DeviceNext

LEMMA BindsStamped ==
    ASSUME Stamped,
           \/ \E u \in Users : FetchDevices(u) \/ BindShown(u)
           \/ \E u \in Users, d \in Devices : BindStored(u, d)
           \/ RestartFriend \/ UNCHANGED deviceVars
    PROVE  Stamped'
<1>1. UNCHANGED <<time, list, postings, published>>
  BY DEF FetchDevices, BindShown, BindStored, RestartFriend, deviceVars, publishVars
<1> QED
  BY <1>1 DEF Stamped, Busy, Over, Ahead

(* However often the lists of the users are replaced, their time stamps    *)
(* (device_list_event) stay within the clocks and the number of the        *)
(* publications, and the node's friends, keys and histories keep types.    *)
THEOREM DeviceTypes == DeviceSpec => []DevicesTypeOK
<1>1. DeviceInit => DeviceInv /\ Stamped /\ Histories
  BY DeviceStarts, BoundsStart DEF DeviceBounds
<1>2. DeviceInv /\ [DeviceNext]_deviceVars => DeviceInv'
  BY DeviceStep
<1>3. DeviceInv /\ Stamped /\ [DeviceNext]_deviceVars => Stamped'
  BY StampedSteps, BindsStamped DEF DeviceNext, DeviceInv
<1>4. DeviceInv /\ Histories /\ [DeviceNext]_deviceVars => Histories'
  BY HistorySteps
<1>5. DeviceInv /\ Stamped /\ Histories => DevicesTypeOK
  BY DevicesTyped DEF DeviceInv, DeviceBounds
<1> QED
  BY <1>1, <1>2, <1>3, <1>4, <1>5, PTL DEF DeviceSpec

-----------------------------------------------------------------------------
(* Invites that come by Nostr.                                             *)
Accept == [invite : Invites, runs : BOOLEAN]
Pending == [invite : Invites, handle : Nat]
Event == [kind : {"invite", "added", "failed"}, invite : Invites, handle : Nat]
InviteLimits ==
    /\ accepting \in Seq(Accept) /\ waiting \in Seq(Event) /\ ignored \in Seq(Invites)
    /\ inbox \subseteq Invites /\ pendingInvites \subseteq Pending
    /\ \A i \in DOMAIN waiting : waiting[i].kind = "invite" <=> waiting[i].handle = NotAccepting

(* An answer is on its way to each invite that is being accepted, under a  *)
(* handle of its own.                                                      *)
AnswerComes(h) ==
    \/ accepting[h].runs
    \/ \E i \in DOMAIN waiting : waiting[i].handle = h
    \/ h \in missed
Asked ==
    /\ \A p \in pendingInvites : p.handle # NotAccepting =>
          p.handle \in DOMAIN accepting /\ AnswerComes(p.handle)
    /\ \A p, q \in pendingInvites : p.handle = q.handle /\ p.handle # NotAccepting => p = q

(* What was dealt with is remembered until it is forgotten.                *)
Dealt == dealt \subseteq Remembered /\ DealtWithGone

InviteInv == InviteLimits /\ Asked /\ Dealt

LEMMA InvitesStart ==
  ASSUME InvitesInit
  PROVE  InviteInv
<1>1. /\ accepting = <<>> /\ waiting = <<>> /\ ignored = <<>> /\ inbox = {} /\ pendingInvites = {}
      /\ dealt = {}
  BY DEF InvitesInit
<1> QED
  BY <1>1 DEF InviteInv, InviteLimits, Asked, Dealt, DealtWithGone, Keys

(* What an event leaves of the queue.                                      *)
LEMMA RaisesOne ==
  ASSUME InviteLimits, NEW e \in Event, e.kind = "invite" <=> e.handle = NotAccepting, Raises(e)
  PROVE  /\ waiting' \in Seq(Event) /\ missed \subseteq missed'
         /\ \A i \in DOMAIN waiting' : waiting'[i].kind = "invite" <=> waiting'[i].handle = NotAccepting
         /\ \A i \in DOMAIN waiting : i \in DOMAIN waiting' /\ waiting'[i] = waiting[i]
         /\ e.handle # NotAccepting =>
              e.handle \in missed' \/ \E i \in DOMAIN waiting' : waiting'[i].handle = e.handle
<1>a. waiting \in Seq(Event)
  BY DEF InviteLimits
<1>1. CASE UNCHANGED waiting /\ missed' = missed \cup ({e.handle} \ {NotAccepting})
  BY <1>1, <1>a DEF InviteLimits
<1>2. CASE waiting' = Append(waiting, e) /\ UNCHANGED missed
  <2>1. /\ waiting' \in Seq(Event) /\ Len(waiting) \in Nat /\ DOMAIN waiting = 1 .. Len(waiting)
        /\ DOMAIN waiting' = 1 .. (Len(waiting) + 1)
        /\ waiting'[Len(waiting) + 1] = e
        /\ \A i \in 1 .. Len(waiting) : waiting'[i] = waiting[i]
    BY <1>2, <1>a
  <2>2. /\ Len(waiting) + 1 \in DOMAIN waiting'
        /\ \A i \in DOMAIN waiting' : i = Len(waiting) + 1 \/ i \in DOMAIN waiting
        /\ \A i \in DOMAIN waiting : i \in DOMAIN waiting'
    BY <2>1
  <2>3. \A i \in DOMAIN waiting' : waiting'[i].kind = "invite" <=> waiting'[i].handle = NotAccepting
    BY <2>1, <2>2 DEF InviteLimits
  <2> QED
    BY <1>2, <2>1, <2>2, <2>3
<1> QED
  BY <1>1, <1>2 DEF Raises

(* What is remembered covers what was dealt with.                          *)
LEMMA RememberKeeps ==
  ASSUME InviteLimits, dealt \subseteq Remembered, NEW i \in Invites, Remember(i)
  PROVE  ignored' \in Seq(Invites) /\ dealt' \subseteq Remembered' /\ dealt' \subseteq dealt \cup {i}
<1> DEFINE kept == IF i \in Remembered THEN ignored ELSE Append(ignored, i)
<1>a. ignored \in Seq(Invites)
  BY DEF InviteLimits
<1>1. kept \in Seq(Invites) /\ \A x \in dealt \cup {i} : \E k \in DOMAIN kept : kept[k] = x
  <2>1. CASE i \in Remembered
    BY <1>a, <2>1 DEF Remembered
  <2>2. CASE i \notin Remembered
    <3>1. /\ kept \in Seq(Invites) /\ Len(ignored) \in Nat /\ DOMAIN ignored = 1 .. Len(ignored)
          /\ DOMAIN kept = 1 .. (Len(ignored) + 1)
          /\ kept[Len(ignored) + 1] = i
          /\ \A k \in 1 .. Len(ignored) : kept[k] = ignored[k]
      BY <1>a, <2>2
    <3> HIDE DEF kept
    <3>2. Len(ignored) + 1 \in DOMAIN kept /\ \A k \in DOMAIN ignored : k \in DOMAIN kept
      BY <3>1
    <3> QED
      BY <3>1, <3>2 DEF Remembered
  <2> QED
    BY <2>1, <2>2
<1>2. \/ /\ Len(kept) > IgnoreCapacity /\ ignored' = Tail(kept)
         /\ dealt' = (dealt \cup {i}) \ {Head(kept)}
      \/ ignored' = kept /\ dealt' = dealt \cup {i}
  BY DEF Remember
<1> HIDE DEF kept
<1>3. CASE ignored' = kept /\ dealt' = dealt \cup {i}
  <2>1. Remembered' = {kept[k] : k \in DOMAIN kept}
    BY <1>3 DEF Remembered
  <2> QED
    BY <1>1, <1>3, <2>1
<1>4. CASE /\ Len(kept) > IgnoreCapacity /\ ignored' = Tail(kept)
           /\ dealt' = (dealt \cup {i}) \ {Head(kept)}
  <2>1. /\ Len(kept) \in Nat /\ Len(kept) > 0 /\ DOMAIN kept = 1 .. Len(kept)
    BY <1>1, <1>4, InboxBoundsAssumption
  <2>2. /\ ignored' \in Seq(Invites) /\ DOMAIN ignored' = 1 .. (Len(kept) - 1)
        /\ Head(kept) = kept[1]
        /\ \A k \in 1 .. (Len(kept) - 1) : ignored'[k] = kept[k + 1]
    BY <1>1, <1>4, <2>1
  <2>3. ASSUME NEW x \in dealt' PROVE x \in Remembered'
    <3>1. PICK k \in 1 .. Len(kept) : kept[k] = x
      BY <1>1, <1>4, <2>1
    <3>2. k # 1
      BY <1>4, <2>2, <3>1
    <3>3. k - 1 \in 1 .. (Len(kept) - 1) /\ (k - 1) + 1 = k
      BY <2>1, <3>2
    <3>4. ignored'[k - 1] = x
      BY <2>2, <3>1, <3>3
    <3> QED
      BY <2>2, <3>3, <3>4 DEF Remembered
  <2> QED
    BY <1>4, <2>2, <2>3
<1> QED
  BY <1>2, <1>3, <1>4

(* The node raises events.                                                 *)
LEMMA InboxRaisesKeeps ==
  ASSUME InviteInv, InboxRaises
  PROVE  InviteInv'
<1>a. InviteLimits /\ Asked /\ Dealt
  BY DEF InviteInv
<1>b. UNCHANGED <<accepting, ignored, pendingInvites, dealt>>
  BY DEF InboxRaises, pluginInbox
<1>1. PICK i \in inbox :
         /\ inbox' = inbox \ {i}
         /\ IF News(i) THEN Raises([kind |-> "invite", invite |-> i, handle |-> NotAccepting])
            ELSE UNCHANGED <<waiting, missed>>
  BY DEF InboxRaises
<1> DEFINE e == [kind |-> "invite", invite |-> i, handle |-> NotAccepting]
<1>2. e \in Event /\ e.kind = "invite" /\ e.handle = NotAccepting
  BY <1>a DEF InviteLimits, Event, NotAccepting
<1>3. Raises(e) \/ UNCHANGED <<waiting, missed>>
  BY <1>1
<1> HIDE DEF e
<1>4. /\ waiting' \in Seq(Event) /\ missed \subseteq missed'
      /\ \A k \in DOMAIN waiting' : waiting'[k].kind = "invite" <=> waiting'[k].handle = NotAccepting
      /\ \A k \in DOMAIN waiting : k \in DOMAIN waiting' /\ waiting'[k] = waiting[k]
  <2>1. CASE Raises(e)
    BY <1>2, <1>a, <2>1, RaisesOne
  <2>2. CASE UNCHANGED <<waiting, missed>>
    BY <1>a, <2>2 DEF InviteLimits
  <2> QED
    BY <1>3, <2>1, <2>2
<1>5. InviteLimits'
  BY <1>1, <1>4, <1>a, <1>b DEF InviteLimits
<1>6. Asked'
  BY <1>4, <1>a, <1>b DEF Asked, AnswerComes
<1>7. Dealt'
  BY <1>a, <1>b DEF Dealt, DealtWithGone, Keys, Remembered
<1> QED
  BY <1>5, <1>6, <1>7 DEF InviteInv

LEMMA AcceptEndsKeeps ==
  ASSUME InviteInv, NEW h \in DOMAIN accepting, AcceptEnds(h)
  PROVE  InviteInv'
<1>a. InviteLimits /\ Asked /\ Dealt
  BY DEF InviteInv
<1>b. UNCHANGED <<inbox, ignored, pendingInvites, dealt>>
  BY DEF AcceptEnds, pluginInbox
<1>1. /\ accepting \in Seq(Accept) /\ h \in Nat \ {NotAccepting} /\ accepting[h] \in Accept
  BY <1>a DEF InviteLimits, NotAccepting
<1>2. accepting[h].invite \in Invites
  BY <1>1 DEF Accept
<1>3. PICK kind \in {"added", "failed"} : Raises([kind |-> kind, invite |-> accepting[h].invite, handle |-> h])
  BY DEF AcceptEnds
<1> DEFINE e == [kind |-> kind, invite |-> accepting[h].invite, handle |-> h]
<1>4. e \in Event /\ e.kind # "invite" /\ e.handle = h /\ Raises(e)
  BY <1>1, <1>2, <1>3 DEF Event
<1> HIDE DEF e
<1>5. /\ waiting' \in Seq(Event) /\ missed \subseteq missed'
      /\ \A k \in DOMAIN waiting' : waiting'[k].kind = "invite" <=> waiting'[k].handle = NotAccepting
      /\ \A k \in DOMAIN waiting : k \in DOMAIN waiting' /\ waiting'[k] = waiting[k]
      /\ h \in missed' \/ \E k \in DOMAIN waiting' : waiting'[k].handle = h
  BY <1>1, <1>4, <1>a, RaisesOne
<1>6. accepting' \in Seq(Accept) /\ DOMAIN accepting' = DOMAIN accepting
      /\ \A k \in DOMAIN accepting : k # h => accepting'[k] = accepting[k]
  <2> DEFINE a == [accepting[h] EXCEPT !.runs = FALSE]
  <2>1. a \in Accept
    BY <1>1 DEF Accept
  <2>2. accepting' = [accepting EXCEPT ![h] = a]
    BY DEF AcceptEnds
  <2> HIDE DEF a
  <2> QED
    BY <1>1, <2>1, <2>2
<1>7. InviteLimits'
  BY <1>5, <1>6, <1>a, <1>b DEF InviteLimits
<1>8. ASSUME NEW p \in pendingInvites, p.handle # NotAccepting
      PROVE  p.handle \in DOMAIN accepting' /\ AnswerComes(p.handle)'
  <2>1. p.handle \in DOMAIN accepting /\ AnswerComes(p.handle)
    BY <1>8, <1>a DEF Asked
  <2>2. CASE p.handle = h
    BY <1>5, <1>6, <2>1, <2>2 DEF AnswerComes
  <2>3. CASE p.handle # h
    BY <1>5, <1>6, <2>1, <2>3 DEF AnswerComes
  <2> QED
    BY <2>2, <2>3
<1>9. Asked'
  BY <1>8, <1>a, <1>b DEF Asked
<1>10. Dealt'
  BY <1>a, <1>b DEF Dealt, DealtWithGone, Keys, Remembered
<1> QED
  BY <1>7, <1>9, <1>10 DEF InviteInv

(* The player accepts one, or ignores it.                                  *)
LEMMA AcceptKeeps ==
  ASSUME InviteInv, NEW p \in pendingInvites, AcceptNostrInvite(p)
  PROVE  InviteInv'
<1>a. InviteLimits /\ Asked /\ Dealt
  BY DEF InviteInv
<1> DEFINE a == [invite |-> p.invite, runs |-> TRUE]
           q == [p EXCEPT !.handle = Len(accepting')]
<1>1. /\ UNCHANGED <<inbox, waiting, missed, ignored, dealt>>
      /\ accepting' = Append(accepting, a) /\ pendingInvites' = (pendingInvites \ {p}) \cup {q}
  BY DEF AcceptNostrInvite
<1>2. p \in Pending /\ p.invite \in Invites
  BY <1>a DEF InviteLimits, Pending
<1>3. a \in Accept /\ a.runs
  BY <1>2 DEF Accept
<1> HIDE DEF a
<1>4. /\ accepting' \in Seq(Accept) /\ Len(accepting) \in Nat /\ Len(accepting') = Len(accepting) + 1
      /\ DOMAIN accepting = 1 .. Len(accepting) /\ DOMAIN accepting' = 1 .. (Len(accepting) + 1)
      /\ accepting'[Len(accepting) + 1] = a
      /\ \A k \in 1 .. Len(accepting) : accepting'[k] = accepting[k]
  BY <1>1, <1>3, <1>a DEF InviteLimits
<1>5. q \in Pending /\ q.invite = p.invite /\ q.handle = Len(accepting) + 1
  BY <1>2, <1>4 DEF Pending
<1> HIDE DEF q
<1>6. InviteLimits'
  BY <1>1, <1>4, <1>5, <1>a DEF InviteLimits
<1>7. \A r \in pendingInvites : r.handle # NotAccepting =>
         /\ r.handle \in 1 .. Len(accepting) /\ AnswerComes(r.handle)'
  BY <1>1, <1>4, <1>a DEF Asked, AnswerComes
<1>8. \A k : k = Len(accepting) + 1 => AnswerComes(k)'
  BY <1>3, <1>4 DEF AnswerComes
<1>9. \A r \in pendingInvites : r.handle # q.handle
  BY <1>4, <1>5, <1>7 DEF NotAccepting
<1>10. /\ \A r \in pendingInvites' : r.handle # NotAccepting =>
            r.handle \in DOMAIN accepting' /\ AnswerComes(r.handle)'
       /\ \A r, s \in pendingInvites' : r.handle = s.handle /\ r.handle # NotAccepting => r = s
  <2>1. ASSUME NEW r \in pendingInvites', r.handle # NotAccepting
        PROVE  r.handle \in DOMAIN accepting' /\ AnswerComes(r.handle)'
    <3>1. CASE r = q
      <4>1. r.handle = Len(accepting) + 1
        BY <1>5, <3>1
      <4> QED
        BY <1>4, <1>8, <4>1
    <3>2. CASE r \in pendingInvites
      BY <1>4, <1>7, <2>1, <3>2
    <3> QED
      BY <1>1, <3>1, <3>2
  <2>2. ASSUME NEW r \in pendingInvites', NEW s \in pendingInvites', r.handle = s.handle,
               r.handle # NotAccepting
        PROVE  r = s
    BY <1>1, <1>9, <1>a, <2>2 DEF Asked
  <2> QED
    BY <2>1, <2>2
<1>11. Asked'
  BY <1>10 DEF Asked
<1>12. Dealt'
  <2>1. \A r, s \in pendingInvites' : r.invite = s.invite => r = s
    BY <1>1, <1>5, <1>a DEF Dealt, DealtWithGone
  <2>2. Keys' \subseteq Keys
    BY <1>1, <1>5 DEF Keys
  <2> QED
    BY <1>1, <1>a, <2>1, <2>2 DEF Dealt, DealtWithGone, Remembered
<1> QED
  BY <1>6, <1>11, <1>12 DEF InviteInv

(* One that is remembered is pending no longer.                            *)
LEMMA DealtWith ==
  ASSUME InviteInv, NEW p \in pendingInvites, pendingInvites' = pendingInvites \ {p}, Remember(p.invite)
  PROVE  Dealt' /\ ignored' \in Seq(Invites)
<1>a. InviteLimits /\ Dealt
  BY DEF InviteInv
<1>1. p.invite \in Invites
  BY <1>a DEF InviteLimits, Pending
<1>2. ignored' \in Seq(Invites) /\ dealt' \subseteq Remembered' /\ dealt' \subseteq dealt \cup {p.invite}
  BY <1>1, <1>a, RememberKeeps DEF Dealt
<1>3. Keys' \subseteq Keys \ {p.invite}
  BY <1>a DEF Keys, Dealt, DealtWithGone
<1>4. \A r, s \in pendingInvites' : r.invite = s.invite => r = s
  BY <1>a DEF Dealt, DealtWithGone
<1> QED
  BY <1>2, <1>3, <1>4, <1>a DEF Dealt, DealtWithGone

LEMMA IgnoreKeeps ==
  ASSUME InviteInv, NEW p \in pendingInvites, IgnoreNostrInvite(p)
  PROVE  InviteInv'
<1>a. InviteLimits /\ Asked
  BY DEF InviteInv
<1>1. /\ pendingInvites' = pendingInvites \ {p} /\ Remember(p.invite)
      /\ UNCHANGED <<inbox, accepting, waiting, missed>>
  BY DEF IgnoreNostrInvite, inboxSide
<1>2. Dealt' /\ ignored' \in Seq(Invites)
  BY <1>1, DealtWith
<1>3. InviteLimits'
  BY <1>1, <1>2, <1>a DEF InviteLimits
<1>4. Asked'
  BY <1>1, <1>a DEF Asked, AnswerComes
<1> QED
  BY <1>2, <1>3, <1>4 DEF InviteInv

(* The plugin hears of an invite, or how an acceptance ended.              *)
LEMMA HearKeeps ==
  ASSUME InviteInv, HearInviteEvent
  PROVE  InviteInv'
<1>a. InviteLimits /\ Asked /\ Dealt
  BY DEF InviteInv
<1>b. UNCHANGED <<inbox, accepting, missed>> /\ waiting # <<>> /\ waiting' = Tail(waiting)
  BY DEF HearInviteEvent
<1> DEFINE e == Head(waiting)
<1>1. /\ Len(waiting) \in Nat /\ Len(waiting) > 0 /\ DOMAIN waiting = 1 .. Len(waiting)
      /\ waiting' \in Seq(Event) /\ DOMAIN waiting' = 1 .. (Len(waiting) - 1)
      /\ \A k \in 1 .. (Len(waiting) - 1) : waiting'[k] = waiting[k + 1]
      /\ e = waiting[1] /\ e \in Event
  BY <1>a, <1>b DEF InviteLimits
<1>2. /\ \A k \in DOMAIN waiting' : k + 1 \in DOMAIN waiting /\ waiting'[k] = waiting[k + 1]
      /\ \A k \in DOMAIN waiting : k # 1 => k - 1 \in DOMAIN waiting' /\ waiting'[k - 1] = waiting[k]
      /\ 1 \in DOMAIN waiting
  BY <1>1
<1>3. e.kind = "invite" <=> e.handle = NotAccepting
  BY <1>1, <1>2, <1>a DEF InviteLimits
<1>c. e.invite \in Invites /\ e.handle \in Nat
  BY <1>1 DEF Event
<1>4. CASE /\ e.kind = "invite" /\ UNCHANGED <<ignored, dealt>>
           /\ IF invitesOn THEN Add(e.invite) ELSE UNCHANGED <<pendingInvites, admissions>>
  <2> DEFINE q == [invite |-> e.invite, handle |-> NotAccepting]
  <2>1. \/ UNCHANGED pendingInvites
        \/ e.invite \notin Remembered \cup Keys /\ pendingInvites' = pendingInvites \cup {q}
    BY <1>4 DEF Add
  <2>2. q \in Pending /\ q.invite = e.invite /\ q.handle = NotAccepting
    BY <1>c DEF Pending, NotAccepting
  <2> HIDE DEF q, e
  <2>3. InviteLimits'
    BY <1>1, <1>2, <1>4, <1>a, <1>b, <2>1, <2>2 DEF InviteLimits
  <2>4. \A p \in pendingInvites : p.handle # NotAccepting =>
          p.handle \in DOMAIN accepting' /\ AnswerComes(p.handle)'
    <3> SUFFICES ASSUME NEW p \in pendingInvites, p.handle # NotAccepting
                 PROVE  p.handle \in DOMAIN accepting' /\ AnswerComes(p.handle)'
      OBVIOUS
    <3>1. p.handle \in DOMAIN accepting /\ AnswerComes(p.handle)
      BY <1>a DEF Asked
    <3>2. p.handle # e.handle
      BY <1>3, <1>4
    <3> QED
      BY <1>1, <1>2, <1>b, <3>1, <3>2 DEF AnswerComes
  <2>5. Asked'
    BY <1>a, <2>1, <2>2, <2>4 DEF Asked
  <2>6. Dealt'
    <3>1. CASE UNCHANGED pendingInvites
      BY <1>4, <1>a, <3>1 DEF Dealt, DealtWithGone, Keys, Remembered
    <3>2. CASE e.invite \notin Remembered \cup Keys /\ pendingInvites' = pendingInvites \cup {q}
      <4>1. Keys' = Keys \cup {e.invite}
        BY <2>2, <3>2 DEF Keys
      <4>2. \A r, s \in pendingInvites' : r.invite = s.invite => r = s
        BY <1>a, <2>2, <3>2 DEF Dealt, DealtWithGone, Keys
      <4> QED
        BY <1>4, <1>a, <3>2, <4>1, <4>2 DEF Dealt, DealtWithGone, Remembered
    <3> QED
      BY <2>1, <3>1, <3>2
  <2> QED
    BY <2>3, <2>5, <2>6 DEF InviteInv
<1>5. CASE e.kind # "invite" /\ Complete(e.handle, e.kind = "added")
  <2> DEFINE h == e.handle
             p == CHOOSE p \in pendingInvites : p.handle = h
             q == [p EXCEPT !.handle = NotAccepting]
  <2>1. h # NotAccepting
    BY <1>3, <1>5
  <2>2. \A r \in pendingInvites : r.handle # NotAccepting /\ r.handle # h =>
          r.handle \in DOMAIN accepting' /\ AnswerComes(r.handle)'
    <3> SUFFICES ASSUME NEW r \in pendingInvites, r.handle # NotAccepting, r.handle # h
                 PROVE  r.handle \in DOMAIN accepting' /\ AnswerComes(r.handle)'
      OBVIOUS
    <3>1. r.handle \in DOMAIN accepting /\ AnswerComes(r.handle)
      BY <1>a DEF Asked
    <3> QED
      BY <1>1, <1>2, <1>b, <3>1 DEF AnswerComes
  <2>3. CASE UNCHANGED <<pendingInvites, ignored, dealt>> /\ \A r \in pendingInvites : r.handle # h
    <3>1. InviteLimits'
      BY <1>1, <1>2, <1>a, <1>b, <2>3 DEF InviteLimits
    <3>2. Asked'
      BY <1>a, <2>2, <2>3 DEF Asked
    <3>3. Dealt'
      BY <1>a, <2>3 DEF Dealt, DealtWithGone, Keys, Remembered
    <3> QED
      BY <3>1, <3>2, <3>3 DEF InviteInv
  <2>4. ASSUME \E r \in pendingInvites : r.handle = h
        PROVE  InviteInv'
    <3>1. p \in pendingInvites /\ p.handle = h
      BY <2>4
    <3>2. \/ pendingInvites' = pendingInvites \ {p} /\ Remember(p.invite)
          \/ pendingInvites' = (pendingInvites \ {p}) \cup {q} /\ UNCHANGED <<ignored, dealt>>
      BY <1>5, <2>4 DEF Complete
    <3>3. p \in Pending
      BY <1>a, <3>1 DEF InviteLimits
    <3>4. q \in Pending /\ q.invite = p.invite /\ q.handle = NotAccepting
      BY <3>3 DEF Pending, NotAccepting
    <3> HIDE DEF p, q
    <3>5. \A r \in pendingInvites \ {p} : r.handle # h
      BY <1>a, <2>1, <3>1 DEF Asked
    <3>6. CASE pendingInvites' = pendingInvites \ {p} /\ Remember(p.invite)
      <4>1. Dealt' /\ ignored' \in Seq(Invites)
        BY <3>1, <3>6, DealtWith
      <4>2. InviteLimits'
        BY <1>1, <1>2, <1>a, <1>b, <3>6, <4>1 DEF InviteLimits
      <4>3. Asked'
        BY <1>a, <2>2, <3>5, <3>6 DEF Asked
      <4> QED
        BY <4>1, <4>2, <4>3 DEF InviteInv
    <3>7. CASE pendingInvites' = (pendingInvites \ {p}) \cup {q} /\ UNCHANGED <<ignored, dealt>>
      <4>1. InviteLimits'
        BY <1>1, <1>2, <1>a, <1>b, <3>4, <3>7 DEF InviteLimits
      <4>2. Asked'
        BY <1>a, <2>2, <3>4, <3>5, <3>7 DEF Asked
      <4>3. \A r, s \in pendingInvites' : r.invite = s.invite => r = s
        BY <1>a, <3>1, <3>4, <3>7 DEF Dealt, DealtWithGone
      <4>4. Keys' \subseteq Keys
        BY <3>1, <3>4, <3>7 DEF Keys
      <4>5. Dealt'
        BY <1>a, <3>7, <4>3, <4>4 DEF Dealt, DealtWithGone, Remembered
      <4> QED
        BY <4>1, <4>2, <4>5 DEF InviteInv
    <3> QED
      BY <3>2, <3>6, <3>7
  <2> QED
    BY <1>5, <2>3, <2>4 DEF Complete
<1> QED
  BY <1>4, <1>5 DEF HearInviteEvent

LEMMA InviteStep ==
  ASSUME InviteInv, [InvitesNext]_inviteVars
  PROVE  InviteInv'
<1>a. InviteLimits /\ Asked /\ Dealt
  BY DEF InviteInv
<1>1. ASSUME UNCHANGED <<accepting, waiting, missed, ignored, pendingInvites, dealt>>, inbox' \subseteq Invites
      PROVE  InviteInv'
  BY <1>1, <1>a DEF InviteInv, InviteLimits, Asked, AnswerComes, Dealt, DealtWithGone, Keys, Remembered
<1>2. CASE (\E i \in Invites : Expires(i)) \/ (\E s \in Inviters : ListsChange(s)) \/ CheckInbox
  <2>1. UNCHANGED <<accepting, waiting, missed, ignored, pendingInvites, dealt>> /\ inbox' \subseteq Invites
    BY <1>2, <1>a DEF Expires, ListsChange, CheckInbox, Found, inboxSide, pluginInbox, InviteLimits
  <2> QED
    BY <1>1, <2>1
<1>3. CASE SetNostrInvitesEnabled
  <2>1. /\ pendingInvites' \subseteq pendingInvites
        /\ UNCHANGED <<accepting, waiting, missed, ignored, dealt, inbox>>
    BY <1>3 DEF SetNostrInvitesEnabled, inboxSide
  <2> QED
    BY <1>a, <2>1
       DEF InviteInv, InviteLimits, Asked, AnswerComes, Dealt, DealtWithGone, Keys, Remembered
<1>4. CASE NextNode
  <2>1. /\ pendingInvites' = {} /\ accepting' = <<>> /\ waiting' = <<>> /\ inbox' = {}
        /\ UNCHANGED <<ignored, dealt>>
    BY <1>4 DEF NextNode
  <2>2. InviteLimits'
    BY <1>a, <2>1 DEF InviteLimits
  <2> QED
    BY <1>a, <2>1, <2>2 DEF InviteInv, Asked, Dealt, DealtWithGone, Keys, Remembered
<1>5. CASE UNCHANGED inviteVars
  BY <1>1, <1>5, <1>a DEF inviteVars, InviteLimits
<1> QED
  BY <1>2, <1>3, <1>4, <1>5, InboxRaisesKeeps, AcceptEndsKeeps, AcceptKeeps, IgnoreKeeps, HearKeeps
     DEF InvitesNext

(* However switches, ignored and repeated invites, dropped events and new  *)
(* nodes interleave, the player waits for the answer to an accepted invite *)
(* with a reason, no invite is pending twice, and one that was dealt with  *)
(* does not come back while it is remembered.                              *)
THEOREM InboxAlwaysTrue == InvitesSpec => []InboxTrue
<1>1. InvitesInit => InviteInv
  BY InvitesStart
<1>2. InviteInv /\ [InvitesNext]_inviteVars => InviteInv'
  BY InviteStep
<1>3. InviteInv => InboxTrue
  BY DEF InviteInv, Asked, AnswerComes, Dealt, InboxTrue, AskingForReason
<1> QED
  BY <1>1, <1>2, <1>3, PTL DEF InvitesSpec

(* The limits of the node, of its handles and of the channel.              *)
NodeLimits ==
    /\ expired \subseteq Invites /\ standing \in [Inviters -> {"stranger", "friend", "blocked"}]
    /\ nodeCount \in 1..MaxNodes /\ Len(accepting) <= MaxAccepts /\ Len(waiting) <= MaxWaiting
    /\ missed \subseteq AcceptHandles /\ invitesOn \in BOOLEAN

(* The limits of the plugin's inbox (NostrInbox).                          *)
InboxLimits ==
    /\ IsFiniteSet(pendingInvites) /\ Cardinality(pendingInvites) <= InboxCapacity
    /\ Len(ignored) <= IgnoreCapacity
    /\ admissions \in [Inviters -> 0..SenderWindowLimit]

LEMMA InvitesTyped ==
    ASSUME InviteInv, NodeLimits, InboxLimits
    PROVE  InvitesTypeOK
<1>1. inbox \subseteq Invites /\ ignored \in Seq(Invites) /\ accepting \in Seq(Accept)
  BY DEF InviteInv, InviteLimits
<1>2. dealt \subseteq Invites
  BY <1>1 DEF InviteInv, Dealt, Remembered
<1>3. ASSUME NEW p \in pendingInvites
      PROVE  p \in [invite : Invites, handle : AcceptHandles \cup {NotAccepting}]
  <2>1. p \in Pending /\ (p.handle # NotAccepting => p.handle \in DOMAIN accepting)
    BY DEF InviteInv, InviteLimits, Asked
  <2>2. p.handle \in AcceptHandles \cup {NotAccepting}
    BY <1>1, <2>1, InboxBoundsAssumption DEF NodeLimits, AcceptHandles
  <2> QED
    BY <2>1, <2>2 DEF Pending
<1> QED
  BY <1>1, <1>2, <1>3 DEF NodeLimits, InboxLimits, InvitesTypeOK

LEMMA LimitsStart ==
    ASSUME InvitesInit
    PROVE  NodeLimits /\ InboxLimits
<1>1. Cardinality({}) = 0 /\ IsFiniteSet({})
  BY FS_EmptySet
<1>2. NodeLimits
  BY InboxBoundsAssumption DEF InvitesInit, NodeLimits
<1>3. InboxLimits
  BY <1>1, InboxBoundsAssumption DEF InvitesInit, InboxLimits
<1> QED
  BY <1>2, <1>3

(* A member of a set that another takes the place of.                      *)
LEMMA Replaced ==
    ASSUME NEW P, IsFiniteSet(P), NEW p \in P, NEW q
    PROVE  IsFiniteSet((P \ {p}) \cup {q}) /\ Cardinality((P \ {p}) \cup {q}) <= Cardinality(P)
<1> DEFINE R == P \ {p}
<1>1. IsFiniteSet(R) /\ Cardinality(R) = Cardinality(P) - 1
  BY FS_RemoveElement
<1>2. Cardinality(P) \in Nat /\ Cardinality(R) \in Nat
  BY <1>1, FS_CardinalityType
<1> HIDE DEF R
<1>3. /\ IsFiniteSet(R \cup {q})
      /\ Cardinality(R \cup {q}) = IF q \in R THEN Cardinality(R) ELSE Cardinality(R) + 1
  BY <1>1, FS_AddElement
<1>4. IsFiniteSet(R \cup {q}) /\ Cardinality(R \cup {q}) <= Cardinality(P)
  BY <1>1, <1>2, <1>3
<1> QED
  BY <1>4 DEF R

LEMMA Fewer ==
    ASSUME InboxLimits, pendingInvites' \subseteq pendingInvites
    PROVE  IsFiniteSet(pendingInvites') /\ Cardinality(pendingInvites') <= InboxCapacity
<1>1. IsFiniteSet(pendingInvites') /\ Cardinality(pendingInvites') <= Cardinality(pendingInvites)
  BY FS_Subset DEF InboxLimits
<1>2. Cardinality(pendingInvites') \in Nat /\ Cardinality(pendingInvites) \in Nat
  BY <1>1, FS_CardinalityType DEF InboxLimits
<1> QED
  BY <1>1, <1>2, InboxBoundsAssumption DEF InboxLimits

LEMMA RemembersFew ==
    ASSUME ignored \in Seq(Invites), Len(ignored) <= IgnoreCapacity, NEW i \in Invites, Remember(i)
    PROVE  Len(ignored') <= IgnoreCapacity
<1> DEFINE kept == IF i \in Remembered THEN ignored ELSE Append(ignored, i)
<1>1. kept \in Seq(Invites) /\ Len(kept) <= IgnoreCapacity + 1
  BY InboxBoundsAssumption
<1>2. IF Len(kept) > IgnoreCapacity THEN ignored' = Tail(kept) ELSE ignored' = kept
  BY DEF Remember
<1> HIDE DEF kept
<1>3. CASE Len(kept) > IgnoreCapacity
  <2>1. ignored' = Tail(kept) /\ Len(kept) \in Nat /\ Len(kept) > 0
    BY <1>1, <1>2, <1>3, InboxBoundsAssumption
  <2>2. Len(ignored') = Len(kept) - 1
    BY <1>1, <2>1
  <2> QED
    BY <1>1, <2>1, <2>2, InboxBoundsAssumption
<1>4. CASE ~(Len(kept) > IgnoreCapacity)
  BY <1>1, <1>2, <1>4, InboxBoundsAssumption
<1> QED
  BY <1>3, <1>4

LEMMA AddsFew ==
    ASSUME InboxLimits, NEW i \in Invites, Add(i)
    PROVE  /\ IsFiniteSet(pendingInvites') /\ Cardinality(pendingInvites') <= InboxCapacity
           /\ admissions' \in [Inviters -> 0..SenderWindowLimit]
<1> DEFINE s == InviterOf[i]
           q == [invite |-> i, handle |-> NotAccepting]
<1>1. s \in Inviters
  BY InvitersAssumption
<1>2. Cardinality(pendingInvites) \in Nat
  BY FS_CardinalityType DEF InboxLimits
<1>3. CASE UNCHANGED <<pendingInvites, admissions>>
  BY <1>3 DEF InboxLimits
<1>4. CASE /\ ~(Cardinality(pendingInvites) >= InboxCapacity)
           /\ \E window \in {admissions, [x \in Inviters |-> 0]} :
                IF Admitted(window, s)
                THEN /\ admissions' = [window EXCEPT ![s] = @ + 1]
                     /\ pendingInvites' = pendingInvites \cup {q}
                ELSE admissions' = window /\ UNCHANGED pendingInvites
  <2>1. PICK window \in {admissions, [x \in Inviters |-> 0]} :
            IF Admitted(window, s)
            THEN /\ admissions' = [window EXCEPT ![s] = @ + 1]
                 /\ pendingInvites' = pendingInvites \cup {q}
            ELSE admissions' = window /\ UNCHANGED pendingInvites
    BY <1>4
  <2>2. window \in [Inviters -> 0..SenderWindowLimit]
    BY InboxBoundsAssumption DEF InboxLimits
  <2>3. Admitted(window, s) => window[s] < SenderWindowLimit
    BY Zenon DEF Admitted
  <2>4. admissions' \in [Inviters -> 0..SenderWindowLimit]
    <3>1. CASE Admitted(window, s)
      <4>1. window[s] + 1 \in 0 .. SenderWindowLimit
        BY <1>1, <2>2, <2>3, <3>1, InboxBoundsAssumption
      <4> QED
        BY <2>1, <2>2, <3>1, <4>1
    <3> QED
      BY <2>1, <2>2, <3>1
  <2>5. /\ IsFiniteSet(pendingInvites \cup {q})
        /\ Cardinality(pendingInvites \cup {q}) =
             IF q \in pendingInvites THEN Cardinality(pendingInvites) ELSE Cardinality(pendingInvites) + 1
    <3> HIDE DEF q
    <3> QED
      BY FS_AddElement DEF InboxLimits
  <2>6. IsFiniteSet(pendingInvites') /\ Cardinality(pendingInvites') <= InboxCapacity
    <3>1. pendingInvites' = pendingInvites \/ pendingInvites' = pendingInvites \cup {q}
      BY <2>1
    <3> HIDE DEF q
    <3>2. CASE pendingInvites' = pendingInvites
      BY <3>2 DEF InboxLimits
    <3>3. CASE pendingInvites' = pendingInvites \cup {q}
      <4>1. Cardinality(pendingInvites) < InboxCapacity
        BY <1>2, <1>4, InboxBoundsAssumption
      <4>2. Cardinality(pendingInvites \cup {q}) <= InboxCapacity
        BY <1>2, <2>5, <4>1, InboxBoundsAssumption
      <4> QED
        BY <2>5, <3>3, <4>2
    <3> QED
      BY <3>1, <3>2, <3>3
  <2> QED
    BY <2>4, <2>6
<1> QED
  BY <1>3, <1>4 DEF Add

LEMMA RaisesFew ==
    ASSUME waiting \in Seq(Event), Len(waiting) <= MaxWaiting, NEW e \in Event, Raises(e)
    PROVE  Len(waiting') <= MaxWaiting /\ missed' \subseteq missed \cup ({e.handle} \ {NotAccepting})
BY InboxBoundsAssumption DEF Raises

LEMMA InboxSteps ==
    ASSUME InviteInv, InboxLimits, [InvitesNext]_inviteVars
    PROVE  InboxLimits'
<1>a. /\ accepting \in Seq(Accept) /\ waiting \in Seq(Event) /\ ignored \in Seq(Invites)
      /\ pendingInvites \subseteq Pending
  BY DEF InviteInv, InviteLimits
<1>1. ASSUME UNCHANGED <<pendingInvites, ignored, admissions>> PROVE InboxLimits'
  BY <1>1 DEF InboxLimits
<1>2. CASE \/ \E i \in Invites : Expires(i)
           \/ \E s \in Inviters : ListsChange(s)
           \/ InboxRaises \/ CheckInbox \/ UNCHANGED inviteVars
  BY <1>1, <1>2 DEF Expires, ListsChange, InboxRaises, CheckInbox, pluginInbox, inviteVars
<1>3. ASSUME NEW h \in DOMAIN accepting, AcceptEnds(h) PROVE InboxLimits'
  BY <1>1, <1>3 DEF AcceptEnds, pluginInbox
<1>4. ASSUME NEW p \in pendingInvites, AcceptNostrInvite(p) PROVE InboxLimits'
  <2>1. /\ pendingInvites' = (pendingInvites \ {p}) \cup {[p EXCEPT !.handle = Len(accepting')]}
        /\ UNCHANGED <<ignored, admissions>>
    BY <1>4 DEF AcceptNostrInvite
  <2> DEFINE q == [p EXCEPT !.handle = Len(accepting')]
  <2> HIDE DEF q
  <2>2. IsFiniteSet(pendingInvites') /\ Cardinality(pendingInvites') <= Cardinality(pendingInvites)
    BY <2>1, Replaced DEF InboxLimits, q
  <2>3. Cardinality(pendingInvites') \in Nat /\ Cardinality(pendingInvites) \in Nat
    BY <2>2, FS_CardinalityType DEF InboxLimits
  <2> QED
    BY <2>1, <2>2, <2>3, InboxBoundsAssumption DEF InboxLimits
<1>5. ASSUME NEW p \in pendingInvites, IgnoreNostrInvite(p) PROVE InboxLimits'
  <2>1. pendingInvites' = pendingInvites \ {p} /\ Remember(p.invite) /\ UNCHANGED admissions
    BY <1>5 DEF IgnoreNostrInvite
  <2>2. p.invite \in Invites
    BY <1>a DEF Pending
  <2>3. Len(ignored') <= IgnoreCapacity
    BY <1>a, <2>1, <2>2, RemembersFew DEF InboxLimits
  <2>4. IsFiniteSet(pendingInvites') /\ Cardinality(pendingInvites') <= InboxCapacity
    BY <2>1, Fewer
  <2> QED
    BY <2>1, <2>3, <2>4 DEF InboxLimits
<1>6. CASE SetNostrInvitesEnabled \/ NextNode
  <2>1. pendingInvites' \subseteq pendingInvites /\ UNCHANGED <<ignored, admissions>>
    BY <1>6 DEF SetNostrInvitesEnabled, NextNode
  <2>2. IsFiniteSet(pendingInvites') /\ Cardinality(pendingInvites') <= InboxCapacity
    BY <2>1, Fewer
  <2> QED
    BY <2>1, <2>2 DEF InboxLimits
<1>7. CASE HearInviteEvent
  <2> DEFINE e == Head(waiting)
             h == e.handle
             p == CHOOSE p \in pendingInvites : p.handle = h
             q == [p EXCEPT !.handle = NotAccepting]
  <2>1. e \in Event /\ e.invite \in Invites
    <3>1. waiting # <<>>
      BY <1>7 DEF HearInviteEvent
    <3>2. e \in Event
      BY <1>a, <3>1
    <3> QED
      BY <3>2 DEF Event
  <2>2. \/ Add(e.invite) /\ UNCHANGED ignored
        \/ UNCHANGED <<pendingInvites, ignored, admissions>>
        \/ Complete(h, e.kind = "added") /\ UNCHANGED admissions
    BY <1>7 DEF HearInviteEvent
  <2>3. CASE Add(e.invite) /\ UNCHANGED ignored
    <3> HIDE DEF e
    <3> QED
      BY <2>1, <2>3, AddsFew DEF InboxLimits
  <2>4. CASE Complete(h, e.kind = "added") /\ UNCHANGED admissions
    <3>1. CASE \E r \in pendingInvites : r.handle = h
      <4>1. p \in pendingInvites
        BY <3>1
      <4>2. p.invite \in Invites
        BY <1>a, <4>1 DEF Pending
      <4>3. \/ pendingInvites' = pendingInvites \ {p} /\ Remember(p.invite)
            \/ pendingInvites' = (pendingInvites \ {p}) \cup {q} /\ UNCHANGED ignored
        BY <2>4, <3>1 DEF Complete
      <4> HIDE DEF p, q
      <4>4. Len(ignored') <= IgnoreCapacity
        BY <1>a, <4>2, <4>3, RemembersFew DEF InboxLimits
      <4>5. CASE pendingInvites' = pendingInvites \ {p}
        <5>1. IsFiniteSet(pendingInvites') /\ Cardinality(pendingInvites') <= InboxCapacity
          BY <4>5, Fewer
        <5> QED
          BY <2>4, <4>4, <5>1 DEF InboxLimits
      <4>6. CASE pendingInvites' = (pendingInvites \ {p}) \cup {q}
        <5>1. IsFiniteSet(pendingInvites') /\ Cardinality(pendingInvites') <= Cardinality(pendingInvites)
          BY <4>1, <4>6, Replaced DEF InboxLimits
        <5>2. Cardinality(pendingInvites') \in Nat /\ Cardinality(pendingInvites) \in Nat
          BY <5>1, FS_CardinalityType DEF InboxLimits
        <5> QED
          BY <2>4, <4>4, <5>1, <5>2, InboxBoundsAssumption DEF InboxLimits
      <4> QED
        BY <4>3, <4>5, <4>6
    <3>2. CASE UNCHANGED <<pendingInvites, ignored, dealt>>
      BY <1>1, <2>4, <3>2
    <3> QED
      BY <2>4, <3>1, <3>2 DEF Complete
  <2> QED
    BY <1>1, <2>2, <2>3, <2>4
<1> QED
  BY <1>2, <1>3, <1>4, <1>5, <1>6, <1>7 DEF InvitesNext

LEMMA NodeSteps ==
    ASSUME InviteInv, NodeLimits, [InvitesNext]_inviteVars
    PROVE  NodeLimits'
<1>a. /\ accepting \in Seq(Accept) /\ waiting \in Seq(Event) /\ inbox \subseteq Invites
      /\ pendingInvites \subseteq Pending
  BY DEF InviteInv, InviteLimits
<1>1. ASSUME NEW i \in Invites, Expires(i) PROVE NodeLimits'
  BY <1>1 DEF NodeLimits, Expires, inboxSide, pluginInbox
<1>2. ASSUME NEW s \in Inviters, ListsChange(s) PROVE NodeLimits'
  BY <1>2 DEF NodeLimits, ListsChange, pluginInbox
<1>3. CASE CheckInbox \/ UNCHANGED inviteVars \/ \E p \in pendingInvites : IgnoreNostrInvite(p)
  <2>1. UNCHANGED <<expired, standing, nodeCount, accepting, waiting, missed, invitesOn>>
    BY <1>3 DEF CheckInbox, IgnoreNostrInvite, inviteVars, inboxSide, pluginInbox
  <2> QED
    BY <2>1 DEF NodeLimits
<1>4. CASE InboxRaises
  <2>1. PICK i \in inbox :
           IF News(i) THEN Raises([kind |-> "invite", invite |-> i, handle |-> NotAccepting])
           ELSE UNCHANGED <<waiting, missed>>
    BY <1>4 DEF InboxRaises
  <2> DEFINE e == [kind |-> "invite", invite |-> i, handle |-> NotAccepting]
  <2>2. e \in Event /\ e.handle = NotAccepting
    BY <1>a DEF Event, NotAccepting
  <2>3. Raises(e) \/ UNCHANGED <<waiting, missed>>
    BY <2>1
  <2> HIDE DEF e
  <2>4. Len(waiting') <= MaxWaiting /\ missed' \subseteq missed
    BY <1>a, <2>2, <2>3, RaisesFew DEF NodeLimits
  <2> QED
    BY <1>4, <2>4 DEF NodeLimits, InboxRaises, pluginInbox
<1>5. ASSUME NEW h \in DOMAIN accepting, AcceptEnds(h) PROVE NodeLimits'
  <2>1. accepting[h] \in Accept /\ h \in 1 .. Len(accepting) /\ Len(accepting) \in Nat
    BY <1>a
  <2>2. h \in AcceptHandles /\ h \in Nat /\ accepting[h].invite \in Invites
    BY <2>1, InboxBoundsAssumption DEF NodeLimits, AcceptHandles, Accept
  <2>3. PICK kind \in {"added", "failed"} : Raises([kind |-> kind, invite |-> accepting[h].invite, handle |-> h])
    BY <1>5 DEF AcceptEnds
  <2> DEFINE e == [kind |-> kind, invite |-> accepting[h].invite, handle |-> h]
  <2>4. e \in Event /\ e.handle = h /\ Raises(e)
    BY <2>2, <2>3 DEF Event
  <2> HIDE DEF e
  <2>5. Len(waiting') <= MaxWaiting /\ missed' \subseteq AcceptHandles
    <3>1. Len(waiting') <= MaxWaiting /\ missed' \subseteq missed \cup ({e.handle} \ {NotAccepting})
      BY <1>a, <2>4, RaisesFew DEF NodeLimits
    <3> QED
      BY <2>2, <2>4, <3>1 DEF NodeLimits
  <2>6. Len(accepting') = Len(accepting)
    BY <1>5, <1>a DEF AcceptEnds
  <2>7. standing' \in [Inviters -> {"stranger", "friend", "blocked"}]
    BY <1>5 DEF AcceptEnds, NodeLimits
  <2> QED
    BY <1>5, <2>5, <2>6, <2>7 DEF NodeLimits, AcceptEnds, pluginInbox
<1>6. ASSUME NEW p \in pendingInvites, AcceptNostrInvite(p) PROVE NodeLimits'
  <2>1. Len(accepting) < MaxAccepts /\ accepting' = Append(accepting, [invite |-> p.invite, runs |-> TRUE])
    BY <1>6 DEF AcceptNostrInvite
  <2>2. Len(accepting') <= MaxAccepts
    <3>1. [invite |-> p.invite, runs |-> TRUE] \in Accept
      BY <1>a DEF Pending, Accept
    <3>2. Len(accepting') = Len(accepting) + 1 /\ Len(accepting) \in Nat
      BY <1>a, <2>1, <3>1
    <3> QED
      BY <2>1, <3>2, InboxBoundsAssumption
  <2> QED
    BY <1>6, <2>2 DEF NodeLimits, AcceptNostrInvite
<1>7. CASE HearInviteEvent
  <2>1. waiting # <<>> /\ waiting' = Tail(waiting)
        /\ UNCHANGED <<expired, standing, nodeCount, accepting, missed, invitesOn>>
    BY <1>7 DEF HearInviteEvent
  <2>2. Len(waiting') <= Len(waiting) /\ Len(waiting) \in Nat /\ Len(waiting') \in Nat
    BY <1>a, <2>1
  <2> QED
    BY <2>1, <2>2, InboxBoundsAssumption DEF NodeLimits
<1>8. CASE SetNostrInvitesEnabled
  <2>1. invitesOn' \in BOOLEAN
    BY <1>8, Zenon DEF SetNostrInvitesEnabled
  <2> QED
    BY <1>8, <2>1 DEF NodeLimits, SetNostrInvitesEnabled, inboxSide
<1>9. CASE NextNode
  <2>1. nodeCount' \in 1 .. MaxNodes
    BY <1>9, InboxBoundsAssumption DEF NodeLimits, NextNode
  <2>2. Len(accepting') <= MaxAccepts /\ Len(waiting') <= MaxWaiting /\ missed' = {}
    BY <1>9, InboxBoundsAssumption DEF NextNode
  <2> QED
    BY <1>9, <2>1, <2>2 DEF NodeLimits, NextNode
<1> QED
  BY <1>1, <1>2, <1>3, <1>4, <1>5, <1>6, <1>7, <1>8, <1>9 DEF InvitesNext

(* Inbox, memory, channel, handles and admission windows keep the limits   *)
(* NostrInbox and the node set, whatever these are.                        *)
THEOREM InviteTypes == InvitesSpec => []InvitesTypeOK
<1>1. InvitesInit => InviteInv /\ NodeLimits /\ InboxLimits
  BY InvitesStart, LimitsStart
<1>2. InviteInv /\ [InvitesNext]_inviteVars => InviteInv'
  BY InviteStep
<1>3. InviteInv /\ NodeLimits /\ [InvitesNext]_inviteVars => NodeLimits'
  BY NodeSteps
<1>4. InviteInv /\ InboxLimits /\ [InvitesNext]_inviteVars => InboxLimits'
  BY InboxSteps
<1>5. InviteInv /\ NodeLimits /\ InboxLimits => InvitesTypeOK
  BY InvitesTyped
<1> QED
  BY <1>1, <1>2, <1>3, <1>4, <1>5, PTL DEF InvitesSpec

-----------------------------------------------------------------------------
(* The parts side by side: what one does is a step of it, and the others   *)
(* stand still.                                                            *)
THEOREM StoreParts == StoreSpec => Spec /\ DeviceSpec /\ SchemaSpec /\ InvitesSpec
<1>1. StoreInit => Init /\ DeviceInit /\ SchemaInit /\ InvitesInit
  BY DEF StoreInit
<1>2. ASSUME [StoreNext]_<<part, vars, deviceVars, schemaVars, inviteVars>>
      PROVE  [Next]_vars /\ [DeviceNext]_deviceVars /\ [SchemaNext]_schemaVars /\ [InvitesNext]_inviteVars
  <2>1. CASE UNCHANGED <<part, vars, deviceVars, schemaVars, inviteVars>>
    BY <2>1
  <2>2. CASE StoreNext
    BY <2>2 DEF StoreNext, OthersRest
  <2> QED
    BY <1>2, <2>1, <2>2
<1> QED
  BY <1>1, <1>2, PTL DEF StoreSpec, Spec, DeviceSpec, SchemaSpec, InvitesSpec

(* Whichever part moves, its variables keep their types and limits...      *)
THEOREM StoreTypes == StoreSpec => []StoreTypeOK
<1>1. TypeOK /\ DevicesTypeOK /\ SchemaTypeOK /\ InvitesTypeOK => StoreTypeOK
  BY DEF StoreTypeOK
<1> QED
  BY <1>1, StoreParts, SnapshotTypes, DeviceTypes, SchemaTypes, InviteTypes, PTL

(* ...and all that is promised of the parts holds of them side by side.    *)
THEOREM StoreKeepsPromises == StoreSpec => [](CacheCurrent /\ ListsTrue /\ StoreSound /\ InboxTrue)
BY StoreParts, CacheAlwaysCurrent, ListsAlwaysTrue, StoresSound, InboxAlwaysTrue, PTL

=============================================================================
