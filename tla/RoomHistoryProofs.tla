-------------------------- MODULE RoomHistoryProofs --------------------------
(***************************************************************************)
(* What RoomHistory promises, for any members, lines, handles and fetches. *)
(*                                                                         *)
(* A fetch that was called off carries a generation its handle has left    *)
(* behind, and is not in the middle of a write: a clear waits for the      *)
(* store, and a toggle or a leave spares the writer (CalledOff).  What is  *)
(* stored while the runner is between the read and the showing of the      *)
(* stored lines is shown by whoever stored it (Loading).                   *)
(***************************************************************************)
EXTENDS RoomHistory, FiniteSetTheorems, TLAPS

-----------------------------------------------------------------------------
(* The inductive invariant                                                 *)

(* The runner and the fetches work for handles that have joined, and only  *)
(* these were handed what is stored.                                       *)
Joined ==
    /\ runner.pc # "idle" => runner.room \in Handles /\ rooms[runner.room].at # "none"
    /\ \A f \in Fetches : fetch[f].pc # "idle" =>
          fetch[f].room \in Handles /\ rooms[fetch[f].room].at # "none"
    /\ \A h \in loaded : rooms[h].at # "none"

(* The providers of a request are finitely many.                           *)
FewProviders == \A h \in Handles : IsFiniteSet(rooms[h].providers)

(* No fetch is ahead of its handle; one that was called off is behind, and *)
(* does not hold the store.                                                *)
Generations ==
    \A f \in Fetches : fetch[f].pc # "idle" => fetch[f].generation <= rooms[fetch[f].room].generation
CalledOff ==
    \A f \in cancelled :
        fetch[f].pc \in NotWriting /\ fetch[f].generation < rooms[fetch[f].room].generation

(* Who is blocked was blocked.                                             *)
BlockedWas == blocked \subseteq wasBlocked

(* The only handle is about to be handed what was read, or has been shown  *)
(* or is about to be shown what was stored since.                          *)
Loading ==
    runner.pc = "show" /\ Alone(runner.room) =>
        \A r \in stored :
            \/ AuthorOf[r] \in wasBlocked
            \/ r \in runner.records \cup shown[runner.room] \cup showing[runner.room]

(* The parts of TypeOK that are proved together.                           *)
RestTyped ==
    /\ blocked \in SUBSET Peers /\ wasBlocked \in SUBSET Peers
    /\ published \in SUBSET Records /\ loaded \in SUBSET Handles
    /\ cancelled \in SUBSET Fetches
    /\ asked \in 0..MaxAsked /\ writes \in 0..MaxWrites

OneWriter == \A f, g \in Fetches : fetch[f].pc = "insert" /\ fetch[g].pc = "insert" => f = g
ProvidersBound ==
    \A h \in Handles : IsFiniteSet(rooms[h].providers) /\ Cardinality(rooms[h].providers) <= MaxProviders

HistoryTyped == TypeOK /\ Joined /\ FewProviders

-----------------------------------------------------------------------------
(* Types                                                                   *)

(* What the store is after an insertion.                                   *)
LEMMA InsertedIs ==
  ASSUME stored \in Leftovers, NEW r \in Records, NEW s \in Inserted(stored, r)
  PROVE  s \in Leftovers /\ s \subseteq stored \cup {r}
<1>1. PICK aged \in SUBSET stored : s \in Retained((stored \ aged) \cup {r})
  BY DEF Inserted
<1> DEFINE lines == (stored \ aged) \cup {r}
<1>2. IsFiniteSet(lines) /\ Cardinality(lines) \in Nat /\ lines \subseteq Records /\ lines \subseteq stored \cup {r}
  <2>1. IsFiniteSet(stored) /\ stored \subseteq Records
    BY DEF Leftovers
  <2>2. IsFiniteSet(stored \ aged)
    BY <2>1, FS_Difference
  <2>3. IsFiniteSet(lines)
    BY <2>2, FS_AddElement
  <2> QED
    BY <2>1, <2>3, FS_CardinalityType
<1>3. /\ s \in SUBSET lines
      /\ Cardinality(s) = IF Cardinality(lines) > MaxRecords THEN MaxRecords ELSE Cardinality(lines)
  BY <1>1 DEF Retained
<1>4. IsFiniteSet(s)
  BY <1>2, <1>3, FS_Subset
<1>5. Cardinality(s) <= MaxRecords
  BY <1>2, <1>3, RetentionAssumption
<1> HIDE DEF lines
<1> QED
  BY <1>2, <1>3, <1>4, <1>5 DEF Leftovers

LEMMA HistoryShapes ==
  ASSUME HistoryTyped
  PROVE  /\ rooms \in [Handles -> Rooms] /\ runner \in Runners /\ fetch \in [Fetches -> Downloads]
         /\ stored \in Leftovers /\ stored \subseteq Records
         /\ showing \in [Handles -> SUBSET Records] /\ shown \in [Handles -> SUBSET Records]
         /\ blocked \subseteq Peers /\ wasBlocked \subseteq Peers
         /\ published \subseteq Records /\ loaded \subseteq Handles /\ cancelled \subseteq Fetches
         /\ asked \in 0 .. MaxAsked /\ writes \in 0 .. MaxWrites
         /\ asked \in Nat /\ writes \in Nat
<1>1. asked \in 0 .. MaxAsked /\ writes \in 0 .. MaxWrites
  BY DEF HistoryTyped, TypeOK
<1>2. asked \in Nat /\ writes \in Nat
  BY <1>1, BoundAssumption
<1>3. stored \in Leftovers /\ stored \subseteq Records
  BY DEF HistoryTyped, TypeOK, Leftovers
<1> QED
  BY <1>1, <1>2, <1>3 DEF HistoryTyped, TypeOK

LEMMA RoomsTyped ==
  ASSUME HistoryTyped, [Next]_vars
  PROVE  rooms' \in [Handles -> Rooms]
<1>1. CASE UNCHANGED <<rooms>>
  BY <1>1 DEF HistoryTyped, TypeOK
<1>2. ASSUME \/ EnableRead \/ PublishShow
             \/ \E h \in Handles, r \in Records :
                   \/ Publish(h, r) \/ LiveStore(h, r)
             \/ \E h \in Handles, p \in Peers : FetchNow(h, p)
             \/ \E h \in Handles : LiveShow(h)
             \/ \E f \in Fetches :
                   \/ DownloadFails(f) \/ Downloaded(f) \/ IngestInsert(f) \/ Ingested(f)
             \/ \E f \in Fetches, r \in Records :
                   \/ IngestSkip(f, r) \/ IngestCheck(f, r)
             \/ \E r \in Records : Prune(r)
             \/ \E p \in Peers :
                   \/ Block(p) \/ Unblock(p)
      PROVE  UNCHANGED <<rooms>>
  BY <1>2
     DEF EnableRead, PublishShow, Publish, FetchNow, LiveShow, LiveStore, DownloadFails, Downloaded,
         IngestInsert, Ingested, IngestSkip, IngestCheck, Prune, Block, Unblock, noteVars,
         countVars, FetchOver, Insert, Show, Download, Taken
<1>3. CASE ClearStore
  <2>1. runner.room \in Handles
    BY <1>3 DEF ClearStore, RunnerAt, HistoryTyped, Joined
  <2>2. [rooms[runner.room] EXCEPT !.generation = @ + 1] \in Rooms
    BY <2>1, HistoryShapes DEF Rooms
  <2> QED
    BY <1>3, <2>1, <2>2, HistoryShapes DEF ClearStore
<1>4. CASE ClearFails
  <2>1. runner.room \in Handles
    BY <1>4 DEF ClearFails, RunnerAt, HistoryTyped, Joined
  <2>2. [rooms[runner.room] EXCEPT !.generation = @ + 1] \in Rooms
    BY <2>1, HistoryShapes DEF Rooms
  <2> QED
    BY <1>4, <2>1, <2>2, HistoryShapes DEF ClearFails
<1>5. CASE EnableShow
  BY <1>5, HistoryShapes
     DEF EnableShow, Rooms, Ask, RunnerAt, RunnerDone, Joined, HistoryTyped, IdleRunner
<1>6. CASE LeaveRoom
  <2>1. runner.room \in Handles
    BY <1>6 DEF LeaveRoom, RunnerAt, HistoryTyped, Joined
  <2>2. [NoRoom EXCEPT !.at = "left", !.generation = rooms[runner.room].generation + 1] \in Rooms
    <3>1. rooms[runner.room].generation + 1 \in Nat
      BY <2>1, HistoryShapes DEF Rooms
    <3>2. NoRoom \in Rooms
      BY DEF NoRoom, Rooms
    <3>3. [NoRoom EXCEPT !.at = "left"] \in Rooms
      BY <3>2 DEF Rooms
    <3> QED
      BY <3>1, <3>3 DEF Rooms
  <2> QED
    BY <1>6, <2>1, <2>2, HistoryShapes DEF LeaveRoom
<1>7. ASSUME NEW h \in Handles, Join(h) PROVE rooms' \in [Handles -> Rooms]
  BY <1>7, HistoryShapes DEF Join, Rooms, Joined, HistoryTyped
<1>8. ASSUME NEW h \in Handles, Clear(h) PROVE rooms' \in [Handles -> Rooms]
  BY <1>8, HistoryShapes DEF Clear, Rooms, Command, Joined, HistoryTyped, Contains
<1>9. ASSUME NEW h \in Handles, Disable(h) PROVE rooms' \in [Handles -> Rooms]
  <2>1. PICK on \in BOOLEAN : Toggled(h, on)
    BY <1>9 DEF Disable
  <2>2. rooms[h] \in Rooms /\ rooms[h].generation + 1 \in Nat
    BY HistoryShapes DEF Rooms
  <2>3. [rooms[h] EXCEPT !.enabled = on, !.request = NoRequest, !.providers = {}, !.generation = @ + 1] \in Rooms
    BY <2>2 DEF Rooms
  <2> QED
    BY <2>1, <2>3, HistoryShapes DEF Toggled
<1>10. ASSUME NEW h \in Handles, Enable(h) PROVE rooms' \in [Handles -> Rooms]
  <2>1. PICK on \in BOOLEAN : Toggled(h, on)
    BY <1>10 DEF Enable
  <2>2. rooms[h] \in Rooms /\ rooms[h].generation + 1 \in Nat
    BY HistoryShapes DEF Rooms
  <2>3. [rooms[h] EXCEPT !.enabled = on, !.request = NoRequest, !.providers = {}, !.generation = @ + 1] \in Rooms
    BY <2>2 DEF Rooms
  <2> QED
    BY <2>1, <2>3, HistoryShapes DEF Toggled
<1>11. ASSUME NEW h \in Handles, Leave(h) PROVE rooms' \in [Handles -> Rooms]
  BY <1>11, HistoryShapes DEF Leave, Rooms, RunnerAt, Joined, HistoryTyped
<1>12. ASSUME NEW h \in Handles, NeighborUp(h) PROVE rooms' \in [Handles -> Rooms]
  BY <1>12, HistoryShapes DEF NeighborUp, Rooms, Ask, Joined, HistoryTyped, Idle
<1>13. ASSUME NEW h \in Handles, RequestExpires(h) PROVE rooms' \in [Handles -> Rooms]
  BY <1>13, HistoryShapes DEF RequestExpires, Rooms, Joined, HistoryTyped
<1>14. ASSUME NEW h \in Handles, NEW p \in Peers, ReceiveOffer(h, p)
      PROVE  rooms' \in [Handles -> Rooms]
  BY <1>14, HistoryShapes DEF ReceiveOffer, Rooms, Joined, HistoryTyped, Idle, Download, IdleFetch
<1>15. CASE UNCHANGED vars
  BY <1>1, <1>15 DEF vars, noteVars, countVars
<1> QED
  BY <1>1, <1>2, <1>3, <1>4, <1>5, <1>6, <1>7, <1>8, <1>9, <1>10, <1>11, <1>12, <1>13, <1>14, <1>15
     DEF Next, Runner, Task, Fetching

LEMMA RunnerTyped ==
  ASSUME HistoryTyped, [Next]_vars
  PROVE  runner' \in Runners
<1>1. CASE UNCHANGED <<runner>>
  BY <1>1 DEF HistoryTyped, TypeOK
<1>2. ASSUME \/ \E h \in Handles :
                   \/ Join(h) \/ NeighborUp(h) \/ LiveShow(h) \/ RequestExpires(h)
             \/ \E h \in Handles, p \in Peers :
                   \/ FetchNow(h, p) \/ ReceiveOffer(h, p)
             \/ \E h \in Handles, r \in Records : LiveStore(h, r)
             \/ \E f \in Fetches :
                   \/ DownloadFails(f) \/ Downloaded(f) \/ IngestInsert(f) \/ Ingested(f)
             \/ \E f \in Fetches, r \in Records :
                   \/ IngestSkip(f, r) \/ IngestCheck(f, r)
             \/ \E r \in Records : Prune(r)
             \/ \E p \in Peers :
                   \/ Block(p) \/ Unblock(p)
      PROVE  UNCHANGED <<runner>>
  BY <1>2
     DEF Join, FetchNow, NeighborUp, LiveShow, RequestExpires, LiveStore, ReceiveOffer,
         DownloadFails, Downloaded, IngestInsert, Ingested, IngestSkip, IngestCheck, Prune, Block,
         Unblock, noteVars, countVars, FetchOver, Insert, Show, Ask, Download, Taken
<1>3. CASE ClearStore
  BY <1>3, HistoryShapes
     DEF ClearStore, Runners, RunnerAt, RunnerDone, Joined, HistoryTyped, CallOff, IdleRunner
<1>4. CASE ClearFails
  BY <1>4, HistoryShapes
     DEF ClearFails, Runners, RunnerAt, RunnerDone, Joined, HistoryTyped, CallOff, IdleRunner
<1>5. CASE EnableRead
  BY <1>5, HistoryShapes DEF EnableRead, Runners, RunnerAt, Joined, HistoryTyped
<1>6. CASE EnableShow
  BY <1>6, HistoryShapes
     DEF EnableShow, Runners, Ask, RunnerAt, RunnerDone, Joined, HistoryTyped, IdleRunner
<1>7. CASE PublishShow
  BY <1>7, HistoryShapes
     DEF PublishShow, Runners, RunnerAt, RunnerDone, Joined, HistoryTyped, IdleRunner
<1>8. CASE LeaveRoom
  BY <1>8, HistoryShapes
     DEF LeaveRoom, Runners, RunnerAt, RunnerDone, Joined, HistoryTyped, CallOff, IdleRunner, NoRoom
<1>9. ASSUME NEW h \in Handles, Clear(h) PROVE runner' \in Runners
  BY <1>9, HistoryShapes DEF Clear, Runners, Command, Joined, HistoryTyped, Contains
<1>10. ASSUME NEW h \in Handles, Disable(h) PROVE runner' \in Runners
  BY <1>10, HistoryShapes
     DEF Disable, Runners, Command, Toggled, Joined, HistoryTyped, Contains, CallOff
<1>11. ASSUME NEW h \in Handles, Enable(h) PROVE runner' \in Runners
  BY <1>11, HistoryShapes
     DEF Enable, Runners, Command, Toggled, Joined, HistoryTyped, Contains, CallOff
<1>12. ASSUME NEW h \in Handles, Leave(h) PROVE runner' \in Runners
  BY <1>12, HistoryShapes DEF Leave, Runners, RunnerAt, Joined, HistoryTyped
<1>13. ASSUME NEW h \in Handles, NEW r \in Records, Publish(h, r) PROVE runner' \in Runners
  BY <1>13, HistoryShapes DEF Publish, Runners, RunnerAt, Joined, HistoryTyped, Contains
<1>14. CASE UNCHANGED vars
  BY <1>1, <1>14 DEF vars, noteVars, countVars
<1> QED
  BY <1>1, <1>2, <1>3, <1>4, <1>5, <1>6, <1>7, <1>8, <1>9, <1>10, <1>11, <1>12, <1>13, <1>14
     DEF Next, Runner, Task, Fetching

LEMMA FetchTyped ==
  ASSUME HistoryTyped, [Next]_vars
  PROVE  fetch' \in [Fetches -> Downloads]
<1>1. CASE UNCHANGED <<fetch>>
  BY <1>1 DEF HistoryTyped, TypeOK
<1>2. ASSUME \/ ClearStore \/ ClearFails \/ EnableRead \/ EnableShow
             \/ PublishShow \/ LeaveRoom
             \/ \E h \in Handles :
                   \/ Join(h) \/ Clear(h) \/ Disable(h) \/ Enable(h)
                   \/ Leave(h) \/ NeighborUp(h) \/ LiveShow(h) \/ RequestExpires(h)
             \/ \E h \in Handles, r \in Records :
                   \/ Publish(h, r) \/ LiveStore(h, r)
             \/ \E r \in Records : Prune(r)
             \/ \E p \in Peers :
                   \/ Block(p) \/ Unblock(p)
      PROVE  UNCHANGED <<fetch>>
  BY <1>2
     DEF ClearStore, ClearFails, EnableRead, EnableShow, PublishShow, LeaveRoom, Join, Clear,
         Disable, Enable, Leave, Publish, NeighborUp, LiveShow, RequestExpires, LiveStore, Prune,
         Block, Unblock, noteVars, countVars, Command, Insert, Show, Ask, CallOff, Toggled
<1>3. ASSUME NEW h \in Handles, NEW p \in Peers, FetchNow(h, p)
      PROVE  fetch' \in [Fetches -> Downloads]
  BY <1>3, HistoryShapes, NoneAssumption
     DEF FetchNow, Downloads, Rooms, Whole, NotWriting, RunnerAt, Joined, HistoryTyped, Contains,
         Download, IdleFetch
<1>4. ASSUME NEW h \in Handles, NEW p \in Peers, ReceiveOffer(h, p)
      PROVE  fetch' \in [Fetches -> Downloads]
  BY <1>4, HistoryShapes, NoneAssumption
     DEF ReceiveOffer, Downloads, Rooms, Whole, NotWriting, Joined, HistoryTyped, Idle, Download,
         IdleFetch
<1>5. ASSUME NEW f \in Fetches, DownloadFails(f) PROVE fetch' \in [Fetches -> Downloads]
  BY <1>5, HistoryShapes, NoneAssumption
     DEF DownloadFails, Downloads, Rooms, Whole, NotWriting, Joined, HistoryTyped, FetchOver,
         IdleFetch
<1>6. ASSUME NEW f \in Fetches, Downloaded(f) PROVE fetch' \in [Fetches -> Downloads]
  <2>1. CASE Wanted(f)
    <3>1. PICK lines \in SUBSET Signed : fetch' = [fetch EXCEPT ![f].pc = "ingest", ![f].todo = lines]
      BY <1>6, <2>1 DEF Downloaded
    <3>2. lines \subseteq Records
      BY HistoryShapes DEF Signed
    <3>3. [fetch[f] EXCEPT !.pc = "ingest", !.todo = lines] \in Downloads
      BY <3>2, HistoryShapes DEF Downloads, Whole, NotWriting
    <3> QED
      BY <3>1, <3>3, HistoryShapes
  <2>2. CASE ~Wanted(f)
    <3>1. IdleFetch \in Downloads
      BY DEF IdleFetch, Downloads
    <3> QED
      BY <1>6, <2>2, <3>1, HistoryShapes DEF Downloaded, FetchOver
  <2> QED
    BY <2>1, <2>2
<1>7. ASSUME NEW f \in Fetches, IngestInsert(f) PROVE fetch' \in [Fetches -> Downloads]
  <2>1. [fetch[f] EXCEPT !.pc = "ingest", !.line = {}] \in Downloads
    BY HistoryShapes DEF Downloads, Whole, NotWriting
  <2> QED
    BY <1>7, <2>1, HistoryShapes DEF IngestInsert, Taken
<1>8. ASSUME NEW f \in Fetches, Ingested(f) PROVE fetch' \in [Fetches -> Downloads]
  BY <1>8, HistoryShapes, NoneAssumption
     DEF Ingested, Downloads, Rooms, Whole, NotWriting, Joined, HistoryTyped, FetchOver, IdleFetch
<1>9. ASSUME NEW f \in Fetches, NEW r \in Records, IngestSkip(f, r)
      PROVE  fetch' \in [Fetches -> Downloads]
  <2>1. [fetch[f] EXCEPT !.todo = @ \ {r}] \in Downloads
    BY HistoryShapes DEF Downloads, Whole, NotWriting
  <2> QED
    BY <1>9, <2>1, HistoryShapes DEF IngestSkip
<1>10. ASSUME NEW f \in Fetches, NEW r \in Records, IngestCheck(f, r)
      PROVE  fetch' \in [Fetches -> Downloads]
  <2>1. [fetch[f] EXCEPT !.pc = "insert", !.todo = @ \ {r}, !.line = {r}] \in Downloads
    BY HistoryShapes DEF Downloads, Whole, NotWriting
  <2>2. IdleFetch \in Downloads
    BY DEF IdleFetch, Downloads
  <2> QED
    BY <1>10, <2>1, <2>2, HistoryShapes DEF IngestCheck, Take, FetchOver
<1>11. CASE UNCHANGED vars
  BY <1>1, <1>11 DEF vars, noteVars, countVars
<1> QED
  BY <1>1, <1>2, <1>3, <1>4, <1>5, <1>6, <1>7, <1>8, <1>9, <1>10, <1>11
     DEF Next, Runner, Task, Fetching

LEMMA StoredTyped ==
  ASSUME HistoryTyped, [Next]_vars
  PROVE  stored' \in Leftovers
<1>1. CASE UNCHANGED <<stored>>
  BY <1>1 DEF HistoryTyped, TypeOK
<1>2. ASSUME \/ ClearFails \/ EnableRead \/ EnableShow \/ PublishShow
             \/ LeaveRoom
             \/ \E h \in Handles :
                   \/ Join(h) \/ Clear(h) \/ Disable(h) \/ Enable(h)
                   \/ Leave(h) \/ NeighborUp(h) \/ LiveShow(h) \/ RequestExpires(h)
             \/ \E h \in Handles, p \in Peers :
                   \/ FetchNow(h, p) \/ ReceiveOffer(h, p)
             \/ \E f \in Fetches :
                   \/ DownloadFails(f) \/ Downloaded(f) \/ Ingested(f)
             \/ \E f \in Fetches, r \in Records :
                   \/ IngestSkip(f, r) \/ IngestCheck(f, r)
             \/ \E p \in Peers :
                   \/ Block(p) \/ Unblock(p)
      PROVE  UNCHANGED <<stored>>
  BY <1>2
     DEF ClearFails, EnableRead, EnableShow, PublishShow, LeaveRoom, Join, Clear, Disable, Enable,
         Leave, FetchNow, NeighborUp, LiveShow, RequestExpires, ReceiveOffer, DownloadFails,
         Downloaded, Ingested, IngestSkip, IngestCheck, Block, Unblock, noteVars, countVars,
         Command, FetchOver, Show, Ask, Download, CallOff, Toggled
<1>3. CASE ClearStore
  <2>1. {} \in Leftovers
    BY FS_EmptySet, RetentionAssumption DEF Leftovers
  <2> QED
    BY <1>3, <2>1 DEF ClearStore
<1>4. ASSUME NEW h \in Handles, NEW r \in Records, Publish(h, r) PROVE stored' \in Leftovers
  BY <1>4, HistoryShapes, InsertedIs DEF Publish, Insert, RunnerAt, Joined, HistoryTyped, Contains
<1>5. ASSUME NEW h \in Handles, NEW r \in Records, LiveStore(h, r) PROVE stored' \in Leftovers
  BY <1>5, HistoryShapes, InsertedIs DEF LiveStore, Insert, Joined, HistoryTyped, Idle
<1>6. ASSUME NEW f \in Fetches, IngestInsert(f) PROVE stored' \in Leftovers
  <2>1. fetch[f].line \subseteq Records
    BY HistoryShapes DEF Downloads
  <2>2. stored' = stored \/ \E r \in fetch[f].line : stored' \in Inserted(stored, r)
    BY <1>6 DEF IngestInsert, Insert
  <2> QED
    BY <2>1, <2>2, HistoryShapes, InsertedIs
<1>7. ASSUME NEW r \in Records, Prune(r) PROVE stored' \in Leftovers
  <2>1. IsFiniteSet(stored) /\ stored \subseteq Records /\ Cardinality(stored) <= MaxRecords
    BY HistoryShapes DEF Leftovers
  <2>2. IsFiniteSet(stored \ {r}) /\ Cardinality(stored \ {r}) <= Cardinality(stored)
    BY <2>1, FS_Subset
  <2>3. Cardinality(stored \ {r}) \in Nat /\ Cardinality(stored) \in Nat
    BY <2>1, <2>2, FS_CardinalityType
  <2> QED
    BY <1>7, <2>1, <2>2, <2>3, RetentionAssumption DEF Prune, Leftovers
<1>8. CASE UNCHANGED vars
  BY <1>1, <1>8 DEF vars, noteVars, countVars
<1> QED
  BY <1>1, <1>2, <1>3, <1>4, <1>5, <1>6, <1>7, <1>8 DEF Next, Runner, Task, Fetching

LEMMA ShownTyped ==
  ASSUME HistoryTyped, [Next]_vars
  PROVE  /\ shown' \in [Handles -> SUBSET Records]
         /\ showing' \in [Handles -> SUBSET Records]
<1>1. CASE UNCHANGED <<shown, showing>>
  BY <1>1 DEF HistoryTyped, TypeOK
<1>2. ASSUME \/ ClearFails \/ EnableRead \/ LeaveRoom
             \/ \E h \in Handles :
                   \/ Join(h) \/ Clear(h) \/ Disable(h) \/ Enable(h)
                   \/ Leave(h) \/ NeighborUp(h) \/ RequestExpires(h)
             \/ \E h \in Handles, r \in Records : Publish(h, r)
             \/ \E h \in Handles, p \in Peers :
                   \/ FetchNow(h, p) \/ ReceiveOffer(h, p)
             \/ \E f \in Fetches :
                   \/ DownloadFails(f) \/ Downloaded(f) \/ Ingested(f)
             \/ \E f \in Fetches, r \in Records :
                   \/ IngestSkip(f, r) \/ IngestCheck(f, r)
             \/ \E r \in Records : Prune(r)
             \/ \E p \in Peers :
                   \/ Block(p) \/ Unblock(p)
      PROVE  UNCHANGED <<shown, showing>>
  BY <1>2
     DEF ClearFails, EnableRead, LeaveRoom, Join, Clear, Disable, Enable, Leave, Publish, FetchNow,
         NeighborUp, RequestExpires, ReceiveOffer, DownloadFails, Downloaded, Ingested, IngestSkip,
         IngestCheck, Prune, Block, Unblock, noteVars, countVars, Command, FetchOver, Insert, Ask,
         Download, CallOff, Toggled
<1>3. CASE ClearStore
  BY <1>3, HistoryShapes
     DEF ClearStore, Downloads, Runners, RunnerAt, RunnerDone, Joined, HistoryTyped, CallOff,
         IdleRunner
<1>4. CASE EnableShow
  BY <1>4, HistoryShapes
     DEF EnableShow, Show, Unblocked, Downloads, Runners, Ask, RunnerAt, RunnerDone, Joined,
         HistoryTyped, IdleRunner
<1>5. CASE PublishShow
  BY <1>5, HistoryShapes
     DEF PublishShow, Show, Unblocked, Downloads, Runners, RunnerAt, RunnerDone, Joined,
         HistoryTyped, IdleRunner
<1>6. ASSUME NEW h \in Handles, LiveShow(h)
      PROVE  shown' \in [Handles -> SUBSET Records] /\ showing' \in [Handles -> SUBSET Records]
  BY <1>6, HistoryShapes DEF LiveShow, Show, Unblocked, Downloads, Runners, Joined, HistoryTyped
<1>7. ASSUME NEW h \in Handles, NEW r \in Records, LiveStore(h, r)
      PROVE  shown' \in [Handles -> SUBSET Records] /\ showing' \in [Handles -> SUBSET Records]
  BY <1>7, HistoryShapes DEF LiveStore, Downloads, Runners, Joined, HistoryTyped, Idle
<1>8. ASSUME NEW f \in Fetches, IngestInsert(f)
      PROVE  shown' \in [Handles -> SUBSET Records] /\ showing' \in [Handles -> SUBSET Records]
  BY <1>8, HistoryShapes
     DEF IngestInsert, Show, Unblocked, Downloads, Runners, Joined, HistoryTyped, Taken
<1>9. CASE UNCHANGED vars
  BY <1>1, <1>9 DEF vars, noteVars, countVars
<1> QED
  BY <1>1, <1>2, <1>3, <1>4, <1>5, <1>6, <1>7, <1>8, <1>9 DEF Next, Runner, Task, Fetching

LEMMA RestTypedStep ==
  ASSUME HistoryTyped, [Next]_vars
  PROVE  RestTyped'
<1>1. CASE UNCHANGED <<blocked, published, loaded, wasBlocked, cancelled, asked, writes>>
  BY <1>1 DEF HistoryTyped, TypeOK, RestTyped
<1>2. ASSUME \/ EnableRead \/ PublishShow
             \/ \E h \in Handles :
                   \/ Join(h) \/ Leave(h) \/ LiveShow(h) \/ RequestExpires(h)
             \/ \E h \in Handles, p \in Peers : ReceiveOffer(h, p)
             \/ \E f \in Fetches, r \in Records : IngestSkip(f, r)
             \/ \E r \in Records : Prune(r)
      PROVE  UNCHANGED <<blocked, published, loaded, wasBlocked, cancelled, asked, writes>>
  BY <1>2
     DEF EnableRead, PublishShow, Join, Leave, LiveShow, RequestExpires, ReceiveOffer, IngestSkip,
         Prune, noteVars, countVars, Show, Download
<1>3. CASE ClearStore
  BY <1>3, HistoryShapes, BoundAssumption
     DEF ClearStore, RestTyped, countVars, RunnerAt, RunnerDone, Joined, HistoryTyped, CallOff,
         IdleRunner
<1>4. CASE ClearFails
  BY <1>4, HistoryShapes, BoundAssumption
     DEF ClearFails, RestTyped, countVars, RunnerAt, RunnerDone, Joined, HistoryTyped, CallOff,
         IdleRunner
<1>5. CASE EnableShow
  BY <1>5, HistoryShapes, BoundAssumption
     DEF EnableShow, RestTyped, Ask, RunnerAt, RunnerDone, Joined, HistoryTyped, IdleRunner
<1>6. CASE LeaveRoom
  BY <1>6, HistoryShapes, BoundAssumption
     DEF LeaveRoom, RestTyped, countVars, RunnerAt, RunnerDone, Joined, HistoryTyped, CallOff,
         IdleRunner, NoRoom
<1>7. ASSUME NEW h \in Handles, Clear(h) PROVE RestTyped'
  BY <1>7, HistoryShapes, BoundAssumption
     DEF Clear, RestTyped, noteVars, Command, Joined, HistoryTyped, Contains
<1>8. ASSUME NEW h \in Handles, Disable(h) PROVE RestTyped'
  BY <1>8, HistoryShapes, BoundAssumption
     DEF Disable, RestTyped, Command, Toggled, Joined, HistoryTyped, Contains, CallOff
<1>9. ASSUME NEW h \in Handles, Enable(h) PROVE RestTyped'
  BY <1>9, HistoryShapes, BoundAssumption
     DEF Enable, RestTyped, Command, Toggled, Joined, HistoryTyped, Contains, CallOff
<1>10. ASSUME NEW h \in Handles, NEW r \in Records, Publish(h, r) PROVE RestTyped'
  BY <1>10, HistoryShapes, BoundAssumption
     DEF Publish, RestTyped, Insert, RunnerAt, Joined, HistoryTyped, Contains
<1>11. ASSUME NEW h \in Handles, NEW p \in Peers, FetchNow(h, p) PROVE RestTyped'
  BY <1>11, HistoryShapes, BoundAssumption
     DEF FetchNow, RestTyped, noteVars, RunnerAt, Joined, HistoryTyped, Contains, Download,
         IdleFetch
<1>12. ASSUME NEW h \in Handles, NeighborUp(h) PROVE RestTyped'
  BY <1>12, HistoryShapes, BoundAssumption
     DEF NeighborUp, RestTyped, noteVars, Ask, Joined, HistoryTyped, Idle
<1>13. ASSUME NEW h \in Handles, NEW r \in Records, LiveStore(h, r) PROVE RestTyped'
  BY <1>13, HistoryShapes, BoundAssumption
     DEF LiveStore, RestTyped, Insert, noteVars, Joined, HistoryTyped, Idle
<1>14. ASSUME NEW f \in Fetches, DownloadFails(f) PROVE RestTyped'
  BY <1>14, HistoryShapes, BoundAssumption
     DEF DownloadFails, RestTyped, countVars, Joined, HistoryTyped, FetchOver, IdleFetch
<1>15. ASSUME NEW f \in Fetches, Downloaded(f) PROVE RestTyped'
  BY <1>15, HistoryShapes, BoundAssumption
     DEF Downloaded, RestTyped, countVars, Joined, HistoryTyped, FetchOver, IdleFetch
<1>16. ASSUME NEW f \in Fetches, IngestInsert(f) PROVE RestTyped'
  BY <1>16, HistoryShapes, BoundAssumption
     DEF IngestInsert, RestTyped, Insert, noteVars, Joined, HistoryTyped, Taken
<1>17. ASSUME NEW f \in Fetches, Ingested(f) PROVE RestTyped'
  BY <1>17, HistoryShapes, BoundAssumption
     DEF Ingested, RestTyped, countVars, Joined, HistoryTyped, FetchOver, IdleFetch
<1>18. ASSUME NEW f \in Fetches, NEW r \in Records, IngestCheck(f, r) PROVE RestTyped'
  BY <1>18, HistoryShapes, BoundAssumption
     DEF IngestCheck, RestTyped, countVars, Joined, HistoryTyped, FetchOver, Take, IdleFetch
<1>19. ASSUME NEW p \in Peers, Block(p) PROVE RestTyped'
  BY <1>19, HistoryShapes, BoundAssumption DEF Block, RestTyped, countVars, Joined, HistoryTyped
<1>20. ASSUME NEW p \in Peers, Unblock(p) PROVE RestTyped'
  BY <1>20, HistoryShapes, BoundAssumption
     DEF Unblock, RestTyped, noteVars, countVars, Joined, HistoryTyped
<1>21. CASE UNCHANGED vars
  BY <1>1, <1>21 DEF vars, noteVars, countVars
<1> QED
  BY <1>1, <1>2, <1>3, <1>4, <1>5, <1>6, <1>7, <1>8, <1>9, <1>10, <1>11, <1>12, <1>13, <1>14, <1>15,
     <1>16, <1>17, <1>18, <1>19, <1>20, <1>21
     DEF Next, Runner, Task, Fetching

-----------------------------------------------------------------------------
(* The steps of a fetch                                                    *)

(* What a fetch has become after a step of its own.                        *)
LEMMA DownloadedIs ==
  ASSUME HistoryTyped, NEW f \in Fetches, Downloaded(f)
  PROVE  /\ fetch[f].pc = "download" /\ \A g \in Fetches \ {f} : fetch'[g] = fetch[g]
         /\ \/ fetch'[f].pc = "idle" /\ cancelled' = cancelled \ {f}
            \/ /\ fetch'[f].pc = "ingest" /\ cancelled' = cancelled
               /\ fetch'[f].room = fetch[f].room /\ fetch'[f].generation = fetch[f].generation
<1>1. CASE Wanted(f)
  <2>1. PICK lines \in SUBSET Signed : fetch' = [fetch EXCEPT ![f].pc = "ingest", ![f].todo = lines]
    BY <1>1 DEF Downloaded
  <2>2. fetch'[f] = [fetch[f] EXCEPT !.pc = "ingest", !.todo = lines]
        /\ \A g \in Fetches \ {f} : fetch'[g] = fetch[g]
    BY <2>1, HistoryShapes
  <2>3. cancelled' = cancelled /\ fetch[f].pc = "download"
    BY <1>1 DEF Downloaded
  <2> QED
    BY <2>2, <2>3, HistoryShapes DEF Downloads
<1>2. CASE ~Wanted(f)
  BY <1>2, HistoryShapes DEF Downloaded, FetchOver, IdleFetch
<1> QED
  BY <1>1, <1>2

LEMMA IngestCheckIs ==
  ASSUME HistoryTyped, NEW f \in Fetches, NEW r \in Records, IngestCheck(f, r)
  PROVE  /\ fetch[f].pc = "ingest" /\ StoreFree
         /\ \A g \in Fetches \ {f} : fetch'[g] = fetch[g]
         /\ \/ fetch'[f].pc = "idle" /\ cancelled' = cancelled \ {f}
            \/ /\ fetch'[f].pc = "insert" /\ cancelled' = cancelled /\ Current(f)
               /\ fetch'[f].room = fetch[f].room /\ fetch'[f].generation = fetch[f].generation
<1>1. CASE Current(f)
  BY <1>1, HistoryShapes DEF IngestCheck, Take, Downloads
<1>2. CASE ~Current(f)
  BY <1>2, HistoryShapes DEF IngestCheck, FetchOver, IdleFetch
<1> QED
  BY <1>1, <1>2

LEMMA IngestInsertIs ==
  ASSUME HistoryTyped, NEW f \in Fetches, IngestInsert(f)
  PROVE  /\ fetch[f].pc = "insert"
         /\ \E new \in SUBSET Records :
                 stored' \subseteq stored \cup new /\ Show(fetch[f].room, new)
<1> DEFINE new == fetch[f].line \ stored
<1>1. new \in SUBSET Records
  BY HistoryShapes DEF Downloads
<1>2. Show(fetch[f].room, new) /\ fetch[f].pc = "insert"
  BY DEF IngestInsert
<1>3. stored' = stored \/ \E r \in new : stored' \in Inserted(stored, r)
  BY DEF IngestInsert, Insert
<1> HIDE DEF new
<1>4. stored' \subseteq stored \cup new
  BY <1>1, <1>3, HistoryShapes, InsertedIs
<1> QED
  BY <1>1, <1>2, <1>4

(* An offer begins a fetch of the handle as it is, or none.                *)
LEMMA ReceiveOfferIs ==
  ASSUME HistoryTyped, NEW h \in Handles, NEW p \in Peers, ReceiveOffer(h, p)
  PROVE  /\ rooms[h].at = "in" /\ cancelled' = cancelled
         /\ \A g \in Handles : rooms'[g].at = rooms[g].at /\ rooms'[g].generation = rooms[g].generation
         /\ \/ fetch' = fetch
            \/ \E f \in Fetches :
                 /\ fetch[f].pc = "idle" /\ \A g \in Fetches \ {f} : fetch'[g] = fetch[g]
                 /\ fetch'[f].pc = "download" /\ fetch'[f].room = h
                 /\ fetch'[f].generation = rooms[h].generation
<1>1. rooms[h].at = "in" /\ cancelled' = cancelled
  BY DEF ReceiveOffer, Idle, noteVars
<1>2. \A g \in Handles : rooms'[g].at = rooms[g].at /\ rooms'[g].generation = rooms[g].generation
  BY HistoryShapes DEF ReceiveOffer, Rooms
<1>3. CASE fetch' = fetch
  BY <1>1, <1>2, <1>3
<1>4. CASE \E f \in Fetches : Download(f, h, p, rooms[h].request)
  BY <1>1, <1>2, <1>4, HistoryShapes DEF Download, IdleFetch
<1> QED
  BY <1>3, <1>4 DEF ReceiveOffer

LEMMA OneWriterStep ==
  ASSUME HistoryTyped, [Next]_vars, OneWriter
  PROVE  OneWriter'
<1>1. CASE UNCHANGED <<fetch>>
  BY <1>1 DEF OneWriter
<1>2. ASSUME \/ ClearStore \/ ClearFails \/ EnableRead \/ EnableShow
             \/ PublishShow \/ LeaveRoom
             \/ \E h \in Handles :
                   \/ Join(h) \/ Clear(h) \/ Disable(h) \/ Enable(h)
                   \/ Leave(h) \/ NeighborUp(h) \/ LiveShow(h) \/ RequestExpires(h)
             \/ \E h \in Handles, r \in Records :
                   \/ Publish(h, r) \/ LiveStore(h, r)
             \/ \E r \in Records : Prune(r)
             \/ \E p \in Peers :
                   \/ Block(p) \/ Unblock(p)
      PROVE  UNCHANGED <<fetch>>
  BY <1>2
     DEF ClearStore, ClearFails, EnableRead, EnableShow, PublishShow, LeaveRoom, Join, Clear,
         Disable, Enable, Leave, Publish, NeighborUp, LiveShow, RequestExpires, LiveStore, Prune,
         Block, Unblock, noteVars, countVars, Command, Insert, Show, Ask, CallOff, Toggled
<1>3. ASSUME NEW h \in Handles, NEW p \in Peers, FetchNow(h, p) PROVE OneWriter'
  BY <1>3, HistoryShapes DEF FetchNow, OneWriter, RunnerAt, Contains, Download, IdleFetch, noteVars
<1>4. ASSUME NEW h \in Handles, NEW p \in Peers, ReceiveOffer(h, p) PROVE OneWriter'
  BY <1>4, HistoryShapes DEF ReceiveOffer, OneWriter, Idle, Download, IdleFetch, noteVars, countVars
<1>5. ASSUME NEW f \in Fetches, DownloadFails(f) PROVE OneWriter'
  BY <1>5, HistoryShapes DEF DownloadFails, OneWriter, FetchOver, IdleFetch, countVars
<1>6. ASSUME NEW f \in Fetches, Downloaded(f) PROVE OneWriter'
  <2>1. \A g \in Fetches : fetch'[g].pc = "insert" => fetch[g].pc = "insert"
    BY <1>6, DownloadedIs
  <2> QED
    BY <2>1 DEF OneWriter
<1>7. ASSUME NEW f \in Fetches, IngestInsert(f) PROVE OneWriter'
  BY <1>7, HistoryShapes DEF IngestInsert, OneWriter, Taken, noteVars, Insert, Show
<1>8. ASSUME NEW f \in Fetches, Ingested(f) PROVE OneWriter'
  BY <1>8, HistoryShapes DEF Ingested, OneWriter, FetchOver, IdleFetch, countVars
<1>9. ASSUME NEW f \in Fetches, NEW r \in Records, IngestSkip(f, r) PROVE OneWriter'
  BY <1>9, HistoryShapes DEF IngestSkip, OneWriter, noteVars, countVars
<1>10. ASSUME NEW f \in Fetches, NEW r \in Records, IngestCheck(f, r) PROVE OneWriter'
  BY <1>10, IngestCheckIs DEF OneWriter, StoreFree
<1>11. CASE UNCHANGED vars
  BY <1>1, <1>11 DEF vars, noteVars, countVars
<1> QED
  BY <1>1, <1>2, <1>3, <1>4, <1>5, <1>6, <1>7, <1>8, <1>9, <1>10, <1>11
     DEF Next, Runner, Task, Fetching

LEMMA NoProviders == IsFiniteSet({}) /\ Cardinality({}) <= MaxProviders
BY FS_EmptySet, BoundAssumption

LEMMA ProvidersBoundStep ==
  ASSUME HistoryTyped, [Next]_vars, ProvidersBound
  PROVE  ProvidersBound'
<1>1. CASE UNCHANGED <<rooms>>
  BY <1>1 DEF ProvidersBound
<1>2. ASSUME \/ EnableRead \/ PublishShow
             \/ \E h \in Handles, r \in Records :
                   \/ Publish(h, r) \/ LiveStore(h, r)
             \/ \E h \in Handles, p \in Peers : FetchNow(h, p)
             \/ \E h \in Handles : LiveShow(h)
             \/ \E f \in Fetches :
                   \/ DownloadFails(f) \/ Downloaded(f) \/ IngestInsert(f) \/ Ingested(f)
             \/ \E f \in Fetches, r \in Records :
                   \/ IngestSkip(f, r) \/ IngestCheck(f, r)
             \/ \E r \in Records : Prune(r)
             \/ \E p \in Peers :
                   \/ Block(p) \/ Unblock(p)
      PROVE  UNCHANGED <<rooms>>
  BY <1>2
     DEF EnableRead, PublishShow, Publish, FetchNow, LiveShow, LiveStore, DownloadFails, Downloaded,
         IngestInsert, Ingested, IngestSkip, IngestCheck, Prune, Block, Unblock, noteVars,
         countVars, FetchOver, Insert, Show, Download, Taken
<1>3. CASE ClearStore
  <2>1. \A g \in Handles : rooms'[g].providers \in {{}, rooms[g].providers}
    BY <1>3, HistoryShapes DEF ClearStore, Rooms
  <2> QED
    BY <2>1, NoProviders DEF ProvidersBound
<1>4. CASE ClearFails
  <2>1. \A g \in Handles : rooms'[g].providers \in {{}, rooms[g].providers}
    BY <1>4, HistoryShapes DEF ClearFails, Rooms
  <2> QED
    BY <2>1, NoProviders DEF ProvidersBound
<1>5. CASE EnableShow
  <2>1. \A g \in Handles : rooms'[g].providers \in {{}, rooms[g].providers}
    BY <1>5, HistoryShapes DEF EnableShow, Ask, Rooms
  <2> QED
    BY <2>1, NoProviders DEF ProvidersBound
<1>6. CASE LeaveRoom
  <2>1. \A g \in Handles : rooms'[g].providers \in {{}, rooms[g].providers}
    BY <1>6, HistoryShapes DEF LeaveRoom, NoRoom, Rooms
  <2> QED
    BY <2>1, NoProviders DEF ProvidersBound
<1>7. ASSUME NEW h \in Handles, Join(h) PROVE ProvidersBound'
  <2>1. \A g \in Handles : rooms'[g].providers \in {{}, rooms[g].providers}
    BY <1>7, HistoryShapes DEF Join, Rooms
  <2> QED
    BY <2>1, NoProviders DEF ProvidersBound
<1>8. ASSUME NEW h \in Handles, Clear(h) PROVE ProvidersBound'
  <2>1. \A g \in Handles : rooms'[g].providers \in {{}, rooms[g].providers}
    BY <1>8, HistoryShapes DEF Clear, Command, Rooms
  <2> QED
    BY <2>1, NoProviders DEF ProvidersBound
<1>9. ASSUME NEW h \in Handles, Disable(h) PROVE ProvidersBound'
  <2>1. \A g \in Handles : rooms'[g].providers \in {{}, rooms[g].providers}
    BY <1>9, HistoryShapes DEF Disable, Command, Toggled, Rooms
  <2> QED
    BY <2>1, NoProviders DEF ProvidersBound
<1>10. ASSUME NEW h \in Handles, Enable(h) PROVE ProvidersBound'
  <2>1. \A g \in Handles : rooms'[g].providers \in {{}, rooms[g].providers}
    BY <1>10, HistoryShapes DEF Enable, Command, Toggled, Rooms
  <2> QED
    BY <2>1, NoProviders DEF ProvidersBound
<1>11. ASSUME NEW h \in Handles, Leave(h) PROVE ProvidersBound'
  <2>1. \A g \in Handles : rooms'[g].providers \in {{}, rooms[g].providers}
    BY <1>11, HistoryShapes DEF Leave, Rooms
  <2> QED
    BY <2>1, NoProviders DEF ProvidersBound
<1>12. ASSUME NEW h \in Handles, NeighborUp(h) PROVE ProvidersBound'
  <2>1. \A g \in Handles : rooms'[g].providers \in {{}, rooms[g].providers}
    BY <1>12, HistoryShapes DEF NeighborUp, Ask, Rooms
  <2> QED
    BY <2>1, NoProviders DEF ProvidersBound
<1>13. ASSUME NEW h \in Handles, RequestExpires(h) PROVE ProvidersBound'
  <2>1. \A g \in Handles : rooms'[g].providers \in {{}, rooms[g].providers}
    BY <1>13, HistoryShapes DEF RequestExpires, Rooms
  <2> QED
    BY <2>1, NoProviders DEF ProvidersBound
<1>14. ASSUME NEW h \in Handles, NEW p \in Peers, ReceiveOffer(h, p) PROVE ProvidersBound'
  <2>1. IsFiniteSet(rooms[h].providers) /\ Cardinality(rooms[h].providers) < MaxProviders
        /\ p \notin rooms[h].providers
    BY <1>14 DEF ReceiveOffer, ProvidersBound
  <2>2. IsFiniteSet(rooms[h].providers \cup {p}) /\ Cardinality(rooms[h].providers \cup {p}) = Cardinality(rooms[h].providers) + 1
    BY <2>1, FS_AddElement
  <2>3. Cardinality(rooms[h].providers) \in Nat
    BY <2>1, FS_CardinalityType
  <2>4. Cardinality(rooms[h].providers \cup {p}) <= MaxProviders
    BY <2>1, <2>2, <2>3, BoundAssumption
  <2>5. \A g \in Handles : rooms'[g].providers = IF g = h THEN rooms[h].providers \cup {p} ELSE rooms[g].providers
    BY <1>14, HistoryShapes DEF ReceiveOffer, Rooms
  <2> QED
    BY <2>2, <2>4, <2>5 DEF ProvidersBound
<1>15. CASE UNCHANGED vars
  BY <1>1, <1>15 DEF vars, noteVars, countVars
<1> QED
  BY <1>1, <1>2, <1>3, <1>4, <1>5, <1>6, <1>7, <1>8, <1>9, <1>10, <1>11, <1>12, <1>13, <1>14, <1>15
     DEF Next, Runner, Task, Fetching

LEMMA JoinedStep ==
  ASSUME HistoryTyped, [Next]_vars
  PROVE  Joined'
<1>1. CASE UNCHANGED <<rooms, runner, fetch, loaded>>
  BY <1>1 DEF Joined, HistoryTyped
<1>2. ASSUME \/ \E h \in Handles : LiveShow(h)
             \/ \E h \in Handles, r \in Records : LiveStore(h, r)
             \/ \E r \in Records : Prune(r)
             \/ \E p \in Peers :
                   \/ Block(p) \/ Unblock(p)
      PROVE  UNCHANGED <<rooms, runner, fetch, loaded>>
  BY <1>2 DEF LiveShow, LiveStore, Prune, Block, Unblock, noteVars, countVars, Insert, Show
<1>3. CASE ClearStore
  BY <1>3, HistoryShapes
     DEF ClearStore, Joined, HistoryTyped, Rooms, Runners, RunnerAt, RunnerDone, CallOff,
         IdleRunner, countVars
<1>4. CASE ClearFails
  BY <1>4, HistoryShapes
     DEF ClearFails, Joined, HistoryTyped, Rooms, Runners, RunnerAt, RunnerDone, CallOff,
         IdleRunner, countVars
<1>5. CASE EnableRead
  BY <1>5, HistoryShapes
     DEF EnableRead, Joined, HistoryTyped, Rooms, Runners, RunnerAt, noteVars, countVars
<1>6. CASE EnableShow
  <2>1. runner.room \in Handles /\ rooms[runner.room].at # "none"
    BY <1>6 DEF EnableShow, RunnerAt, HistoryTyped, Joined
  <2>2. \A g \in Handles : rooms'[g].at = rooms[g].at
    BY <1>6, HistoryShapes DEF EnableShow, Ask, Rooms
  <2>3. /\ fetch' = fetch /\ loaded' = loaded \cup {runner.room} /\ runner' = IdleRunner
        /\ loaded \subseteq Handles
    BY <1>6, HistoryShapes DEF EnableShow, RunnerDone
  <2> QED
    BY <2>1, <2>2, <2>3 DEF Joined, HistoryTyped, IdleRunner
<1>7. CASE PublishShow
  BY <1>7, HistoryShapes
     DEF PublishShow, Joined, HistoryTyped, Rooms, Runners, RunnerAt, RunnerDone, IdleRunner,
         noteVars, countVars, Show
<1>8. CASE LeaveRoom
  BY <1>8, HistoryShapes
     DEF LeaveRoom, Joined, HistoryTyped, Rooms, Runners, RunnerAt, RunnerDone, CallOff, IdleRunner,
         NoRoom, countVars
<1>9. ASSUME NEW h \in Handles, Join(h) PROVE Joined'
  BY <1>9, HistoryShapes DEF Join, Joined, HistoryTyped, Rooms, Runners, noteVars, countVars
<1>10. ASSUME NEW h \in Handles, Clear(h) PROVE Joined'
  BY <1>10, HistoryShapes
     DEF Clear, Joined, HistoryTyped, Rooms, Runners, Command, Contains, noteVars
<1>11. ASSUME NEW h \in Handles, Disable(h) PROVE Joined'
  BY <1>11, HistoryShapes
     DEF Disable, Joined, HistoryTyped, Rooms, Runners, Command, Toggled, Contains, CallOff
<1>12. ASSUME NEW h \in Handles, Enable(h) PROVE Joined'
  BY <1>12, HistoryShapes
     DEF Enable, Joined, HistoryTyped, Rooms, Runners, Command, Toggled, Contains, CallOff
<1>13. ASSUME NEW h \in Handles, Leave(h) PROVE Joined'
  BY <1>13, HistoryShapes
     DEF Leave, Joined, HistoryTyped, Rooms, Runners, RunnerAt, noteVars, countVars
<1>14. ASSUME NEW h \in Handles, NEW r \in Records, Publish(h, r) PROVE Joined'
  BY <1>14, HistoryShapes
     DEF Publish, Joined, HistoryTyped, Rooms, Runners, RunnerAt, Contains, Insert
<1>15. ASSUME NEW h \in Handles, NEW p \in Peers, FetchNow(h, p) PROVE Joined'
  BY <1>15, HistoryShapes
     DEF FetchNow, Joined, HistoryTyped, Rooms, Runners, RunnerAt, Contains, Download, IdleFetch,
         noteVars
<1>16. ASSUME NEW h \in Handles, NeighborUp(h) PROVE Joined'
  BY <1>16, HistoryShapes DEF NeighborUp, Joined, HistoryTyped, Rooms, Runners, Ask, Idle, noteVars
<1>17. ASSUME NEW h \in Handles, RequestExpires(h) PROVE Joined'
  BY <1>17, HistoryShapes
     DEF RequestExpires, Joined, HistoryTyped, Rooms, Runners, noteVars, countVars
<1>18. ASSUME NEW h \in Handles, NEW p \in Peers, ReceiveOffer(h, p) PROVE Joined'
  <2>1. runner' = runner /\ loaded' = loaded /\ loaded \subseteq Handles
    BY <1>18, HistoryShapes DEF ReceiveOffer, noteVars
  <2> QED
    BY <1>18, <2>1, ReceiveOfferIs DEF Joined, HistoryTyped
<1>19. ASSUME NEW f \in Fetches, DownloadFails(f) PROVE Joined'
  BY <1>19, HistoryShapes
     DEF DownloadFails, Joined, HistoryTyped, Rooms, Runners, FetchOver, IdleFetch, countVars
<1>20. ASSUME NEW f \in Fetches, Downloaded(f) PROVE Joined'
  <2>1. runner' = runner /\ rooms' = rooms /\ loaded' = loaded
    BY <1>20 DEF Downloaded
  <2>2. \A g \in Fetches : fetch'[g].pc # "idle" => fetch[g].pc # "idle" /\ fetch'[g].room = fetch[g].room
    BY <1>20, DownloadedIs
  <2> QED
    BY <2>1, <2>2 DEF Joined, HistoryTyped
<1>21. ASSUME NEW f \in Fetches, IngestInsert(f) PROVE Joined'
  BY <1>21, HistoryShapes
     DEF IngestInsert, Joined, HistoryTyped, Rooms, Runners, Taken, noteVars, Insert, Show
<1>22. ASSUME NEW f \in Fetches, Ingested(f) PROVE Joined'
  BY <1>22, HistoryShapes
     DEF Ingested, Joined, HistoryTyped, Rooms, Runners, FetchOver, IdleFetch, countVars
<1>23. ASSUME NEW f \in Fetches, NEW r \in Records, IngestSkip(f, r) PROVE Joined'
  BY <1>23, HistoryShapes DEF IngestSkip, Joined, HistoryTyped, Rooms, Runners, noteVars, countVars
<1>24. ASSUME NEW f \in Fetches, NEW r \in Records, IngestCheck(f, r) PROVE Joined'
  <2>1. runner' = runner /\ rooms' = rooms /\ loaded' = loaded
    BY <1>24 DEF IngestCheck
  <2>2. \A g \in Fetches : fetch'[g].pc # "idle" => fetch[g].pc # "idle" /\ fetch'[g].room = fetch[g].room
    BY <1>24, IngestCheckIs
  <2> QED
    BY <2>1, <2>2 DEF Joined, HistoryTyped
<1>25. CASE UNCHANGED vars
  BY <1>1, <1>25 DEF vars, noteVars, countVars
<1> QED
  BY <1>1, <1>2, <1>3, <1>4, <1>5, <1>6, <1>7, <1>8, <1>9, <1>10, <1>11, <1>12, <1>13, <1>14, <1>15,
     <1>16, <1>17, <1>18, <1>19, <1>20, <1>21, <1>22, <1>23, <1>24, <1>25
     DEF Next, Runner, Task, Fetching

LEMMA HistoryTypedStep ==
  ASSUME HistoryTyped, [Next]_vars
  PROVE  HistoryTyped'
<1>1. rooms' \in [Handles -> Rooms] /\ runner' \in Runners /\ fetch' \in [Fetches -> Downloads] /\ stored' \in Leftovers
  BY RoomsTyped, RunnerTyped, FetchTyped, StoredTyped
<1>2. shown' \in [Handles -> SUBSET Records] /\ showing' \in [Handles -> SUBSET Records]
  BY ShownTyped
<1>3. RestTyped'
  BY RestTypedStep
<1>4. OneWriter' /\ ProvidersBound'
  <2>1. OneWriter /\ ProvidersBound
    BY DEF HistoryTyped, TypeOK, OneWriter, ProvidersBound, FewProviders
  <2> QED
    BY <2>1, OneWriterStep, ProvidersBoundStep
<1> QED
  BY <1>1, <1>2, <1>3, <1>4, JoinedStep
     DEF HistoryTyped, TypeOK, RestTyped, OneWriter, ProvidersBound, FewProviders

-----------------------------------------------------------------------------
(* What was called off                                                     *)

LEMMA GenerationsStep ==
  ASSUME HistoryTyped, [Next]_vars, Generations
  PROVE  Generations'
<1>1. CASE UNCHANGED <<rooms, fetch>>
  BY <1>1 DEF Generations
<1>2. ASSUME \/ EnableRead \/ PublishShow
             \/ \E h \in Handles, r \in Records :
                   \/ Publish(h, r) \/ LiveStore(h, r)
             \/ \E h \in Handles : LiveShow(h)
             \/ \E r \in Records : Prune(r)
             \/ \E p \in Peers :
                   \/ Block(p) \/ Unblock(p)
      PROVE  UNCHANGED <<rooms, fetch>>
  BY <1>2
     DEF EnableRead, PublishShow, Publish, LiveShow, LiveStore, Prune, Block, Unblock, noteVars,
         countVars, Insert, Show
<1>3. CASE ClearStore
  BY <1>3, HistoryShapes
     DEF ClearStore, Generations, HistoryTyped, Joined, Rooms, Downloads, RunnerAt, RunnerDone,
         CallOff, IdleRunner, countVars
<1>4. CASE ClearFails
  BY <1>4, HistoryShapes
     DEF ClearFails, Generations, HistoryTyped, Joined, Rooms, Downloads, RunnerAt, RunnerDone,
         CallOff, IdleRunner, countVars
<1>5. CASE EnableShow
  BY <1>5, HistoryShapes
     DEF EnableShow, Generations, HistoryTyped, Joined, Rooms, Downloads, Ask, RunnerAt, RunnerDone,
         IdleRunner, Show
<1>6. CASE LeaveRoom
  BY <1>6, HistoryShapes
     DEF LeaveRoom, Generations, HistoryTyped, Joined, Rooms, Downloads, RunnerAt, RunnerDone,
         CallOff, IdleRunner, NoRoom, countVars
<1>7. ASSUME NEW h \in Handles, Join(h) PROVE Generations'
  BY <1>7, HistoryShapes
     DEF Join, Generations, HistoryTyped, Joined, Rooms, Downloads, noteVars, countVars
<1>8. ASSUME NEW h \in Handles, Clear(h) PROVE Generations'
  BY <1>8, HistoryShapes
     DEF Clear, Generations, HistoryTyped, Joined, Rooms, Downloads, Command, Contains, noteVars
<1>9. ASSUME NEW h \in Handles, Disable(h) PROVE Generations'
  BY <1>9, HistoryShapes
     DEF Disable, Generations, HistoryTyped, Joined, Rooms, Downloads, Command, Toggled, Contains,
         CallOff
<1>10. ASSUME NEW h \in Handles, Enable(h) PROVE Generations'
  BY <1>10, HistoryShapes
     DEF Enable, Generations, HistoryTyped, Joined, Rooms, Downloads, Command, Toggled, Contains,
         CallOff
<1>11. ASSUME NEW h \in Handles, Leave(h) PROVE Generations'
  BY <1>11, HistoryShapes
     DEF Leave, Generations, HistoryTyped, Joined, Rooms, Downloads, RunnerAt, noteVars, countVars
<1>12. ASSUME NEW h \in Handles, NEW p \in Peers, FetchNow(h, p) PROVE Generations'
  BY <1>12, HistoryShapes
     DEF FetchNow, Generations, HistoryTyped, Joined, Rooms, Downloads, RunnerAt, Contains,
         Download, IdleFetch, noteVars
<1>13. ASSUME NEW h \in Handles, NeighborUp(h) PROVE Generations'
  BY <1>13, HistoryShapes
     DEF NeighborUp, Generations, HistoryTyped, Joined, Rooms, Downloads, Ask, Idle, noteVars
<1>14. ASSUME NEW h \in Handles, RequestExpires(h) PROVE Generations'
  BY <1>14, HistoryShapes
     DEF RequestExpires, Generations, HistoryTyped, Joined, Rooms, Downloads, noteVars, countVars
<1>15. ASSUME NEW h \in Handles, NEW p \in Peers, ReceiveOffer(h, p) PROVE Generations'
  BY <1>15, HistoryShapes
     DEF ReceiveOffer, Generations, HistoryTyped, Joined, Rooms, Downloads, Idle, Download,
         IdleFetch, noteVars, countVars
<1>16. ASSUME NEW f \in Fetches, DownloadFails(f) PROVE Generations'
  BY <1>16, HistoryShapes
     DEF DownloadFails, Generations, HistoryTyped, Joined, Rooms, Downloads, FetchOver, IdleFetch,
         countVars
<1>17. ASSUME NEW f \in Fetches, Downloaded(f) PROVE Generations'
  BY <1>17, HistoryShapes
     DEF Downloaded, Generations, HistoryTyped, Joined, Rooms, Downloads, FetchOver, IdleFetch,
         countVars
<1>18. ASSUME NEW f \in Fetches, IngestInsert(f) PROVE Generations'
  BY <1>18, HistoryShapes
     DEF IngestInsert, Generations, HistoryTyped, Joined, Rooms, Downloads, Taken, noteVars, Insert,
         Show
<1>19. ASSUME NEW f \in Fetches, Ingested(f) PROVE Generations'
  BY <1>19, HistoryShapes
     DEF Ingested, Generations, HistoryTyped, Joined, Rooms, Downloads, FetchOver, IdleFetch,
         countVars
<1>20. ASSUME NEW f \in Fetches, NEW r \in Records, IngestSkip(f, r) PROVE Generations'
  BY <1>20, HistoryShapes
     DEF IngestSkip, Generations, HistoryTyped, Joined, Rooms, Downloads, noteVars, countVars
<1>21. ASSUME NEW f \in Fetches, NEW r \in Records, IngestCheck(f, r) PROVE Generations'
  <2>1. rooms' = rooms
    BY <1>21 DEF IngestCheck
  <2> QED
    BY <1>21, <2>1, IngestCheckIs DEF Generations
<1>22. CASE UNCHANGED vars
  BY <1>1, <1>22 DEF vars, noteVars, countVars
<1> QED
  BY <1>1, <1>2, <1>3, <1>4, <1>5, <1>6, <1>7, <1>8, <1>9, <1>10, <1>11, <1>12, <1>13, <1>14, <1>15,
     <1>16, <1>17, <1>18, <1>19, <1>20, <1>21, <1>22
     DEF Next, Runner, Task, Fetching

LEMMA CalledOffStep ==
  ASSUME HistoryTyped, [Next]_vars, Generations, CalledOff
  PROVE  CalledOff'
<1>1. CASE UNCHANGED <<rooms, fetch, cancelled>>
  BY <1>1 DEF CalledOff
<1>2. ASSUME \/ EnableRead \/ PublishShow
             \/ \E h \in Handles, r \in Records :
                   \/ Publish(h, r) \/ LiveStore(h, r)
             \/ \E h \in Handles : LiveShow(h)
             \/ \E r \in Records : Prune(r)
             \/ \E p \in Peers :
                   \/ Block(p) \/ Unblock(p)
      PROVE  UNCHANGED <<rooms, fetch, cancelled>>
  BY <1>2
     DEF EnableRead, PublishShow, Publish, LiveShow, LiveStore, Prune, Block, Unblock, noteVars,
         countVars, Insert, Show
<1>3. CASE ClearStore
  BY <1>3, HistoryShapes
     DEF ClearStore, CalledOff, Generations, HistoryTyped, Joined, Rooms, Downloads, Whole,
         NotWriting, StoreFree, RunnerAt, RunnerDone, CallOff, IdleRunner, countVars
<1>4. CASE ClearFails
  BY <1>4, HistoryShapes
     DEF ClearFails, CalledOff, Generations, HistoryTyped, Joined, Rooms, Downloads, Whole,
         NotWriting, StoreFree, RunnerAt, RunnerDone, CallOff, IdleRunner, countVars
<1>5. CASE EnableShow
  BY <1>5, HistoryShapes
     DEF EnableShow, CalledOff, Generations, HistoryTyped, Joined, Rooms, Downloads, Whole,
         NotWriting, Ask, RunnerAt, RunnerDone, IdleRunner, Show
<1>6. CASE LeaveRoom
  BY <1>6, HistoryShapes
     DEF LeaveRoom, CalledOff, Generations, HistoryTyped, Joined, Rooms, Downloads, Whole,
         NotWriting, RunnerAt, RunnerDone, CallOff, IdleRunner, NoRoom, countVars
<1>7. ASSUME NEW h \in Handles, Join(h) PROVE CalledOff'
  BY <1>7, HistoryShapes
     DEF Join, CalledOff, Generations, HistoryTyped, Joined, Rooms, Downloads, Whole, NotWriting,
         noteVars, countVars
<1>8. ASSUME NEW h \in Handles, Clear(h) PROVE CalledOff'
  BY <1>8, HistoryShapes
     DEF Clear, CalledOff, Generations, HistoryTyped, Joined, Rooms, Downloads, Whole, NotWriting,
         Command, Contains, noteVars
<1>9. ASSUME NEW h \in Handles, Disable(h) PROVE CalledOff'
  <2>1. /\ cancelled' = cancelled \cup {f \in Fetches : fetch[f].room = h /\ fetch[f].pc \in NotWriting}
        /\ fetch' = fetch
    BY <1>9 DEF Disable, CallOff
  <2>2. /\ rooms'[h].generation = rooms[h].generation + 1
        /\ \A g \in Handles \ {h} : rooms'[g] = rooms[g]
    BY <1>9, HistoryShapes DEF Disable, Toggled, Rooms
  <2>3. \A f \in cancelled' :
           /\ f \in Fetches /\ fetch[f].pc \in NotWriting /\ fetch[f].room \in Handles
           /\ fetch[f].generation \in Nat /\ rooms[fetch[f].room].generation \in Nat
           /\ fetch[f].generation <= rooms[fetch[f].room].generation
    BY <2>1, HistoryShapes
       DEF CalledOff, Generations, HistoryTyped, Joined, NotWriting, Downloads, Rooms
  <2>4. \A f \in cancelled' : fetch[f].room # h => fetch[f].generation < rooms[fetch[f].room].generation
    BY <2>1 DEF CalledOff
  <2>5. \A f \in cancelled' : fetch[f].generation < rooms'[fetch[f].room].generation
    BY <2>2, <2>3, <2>4
  <2> QED
    BY <2>1, <2>3, <2>5 DEF CalledOff
<1>10. ASSUME NEW h \in Handles, Enable(h) PROVE CalledOff'
  BY <1>10, HistoryShapes
     DEF Enable, CalledOff, Generations, HistoryTyped, Joined, Rooms, Downloads, Whole, NotWriting,
         Command, Toggled, Contains, CallOff
<1>11. ASSUME NEW h \in Handles, Leave(h) PROVE CalledOff'
  BY <1>11, HistoryShapes
     DEF Leave, CalledOff, Generations, HistoryTyped, Joined, Rooms, Downloads, Whole, NotWriting,
         RunnerAt, noteVars, countVars
<1>12. ASSUME NEW h \in Handles, NEW p \in Peers, FetchNow(h, p) PROVE CalledOff'
  BY <1>12, HistoryShapes
     DEF FetchNow, CalledOff, Generations, HistoryTyped, Joined, Rooms, Downloads, Whole,
         NotWriting, RunnerAt, Contains, Download, IdleFetch, noteVars
<1>13. ASSUME NEW h \in Handles, NeighborUp(h) PROVE CalledOff'
  BY <1>13, HistoryShapes
     DEF NeighborUp, CalledOff, Generations, HistoryTyped, Joined, Rooms, Downloads, Whole,
         NotWriting, Ask, Idle, noteVars
<1>14. ASSUME NEW h \in Handles, RequestExpires(h) PROVE CalledOff'
  BY <1>14, HistoryShapes
     DEF RequestExpires, CalledOff, Generations, HistoryTyped, Joined, Rooms, Downloads, Whole,
         NotWriting, noteVars, countVars
<1>15. ASSUME NEW h \in Handles, NEW p \in Peers, ReceiveOffer(h, p) PROVE CalledOff'
  BY <1>15, ReceiveOfferIs, HistoryShapes DEF CalledOff, HistoryTyped, Joined, NotWriting
<1>16. ASSUME NEW f \in Fetches, DownloadFails(f) PROVE CalledOff'
  BY <1>16, HistoryShapes
     DEF DownloadFails, CalledOff, Generations, HistoryTyped, Joined, Rooms, Downloads, Whole,
         NotWriting, FetchOver, IdleFetch, countVars
<1>17. ASSUME NEW f \in Fetches, Downloaded(f) PROVE CalledOff'
  BY <1>17, HistoryShapes
     DEF Downloaded, CalledOff, Generations, HistoryTyped, Joined, Rooms, Downloads, Whole,
         NotWriting, FetchOver, IdleFetch, countVars
<1>18. ASSUME NEW f \in Fetches, IngestInsert(f) PROVE CalledOff'
  BY <1>18, HistoryShapes
     DEF IngestInsert, CalledOff, Generations, HistoryTyped, Joined, Rooms, Downloads, Whole,
         NotWriting, Taken, noteVars, Insert, Show
<1>19. ASSUME NEW f \in Fetches, Ingested(f) PROVE CalledOff'
  BY <1>19, HistoryShapes
     DEF Ingested, CalledOff, Generations, HistoryTyped, Joined, Rooms, Downloads, Whole,
         NotWriting, FetchOver, IdleFetch, countVars
<1>20. ASSUME NEW f \in Fetches, NEW r \in Records, IngestSkip(f, r) PROVE CalledOff'
  BY <1>20, HistoryShapes
     DEF IngestSkip, CalledOff, Generations, HistoryTyped, Joined, Rooms, Downloads, Whole,
         NotWriting, noteVars, countVars
<1>21. ASSUME NEW f \in Fetches, NEW r \in Records, IngestCheck(f, r) PROVE CalledOff'
  <2>1. rooms' = rooms
    BY <1>21 DEF IngestCheck
  <2>2. Current(f) => f \notin cancelled
    BY HistoryShapes DEF Current, CalledOff, HistoryTyped, Joined, NotWriting, Downloads, Rooms
  <2>3. \A g \in cancelled' : g \in cancelled /\ fetch'[g] = fetch[g]
    <3>1. CASE cancelled' = cancelled \ {f}
      BY <1>21, <3>1, IngestCheckIs, HistoryShapes
    <3>2. CASE cancelled' = cancelled /\ Current(f)
      BY <1>21, <2>2, <3>2, IngestCheckIs, HistoryShapes
    <3> QED
      BY <1>21, <3>1, <3>2, IngestCheckIs
  <2> QED
    BY <2>1, <2>3 DEF CalledOff
<1>22. CASE UNCHANGED vars
  BY <1>1, <1>22 DEF vars, noteVars, countVars
<1> QED
  BY <1>1, <1>2, <1>3, <1>4, <1>5, <1>6, <1>7, <1>8, <1>9, <1>10, <1>11, <1>12, <1>13, <1>14, <1>15,
     <1>16, <1>17, <1>18, <1>19, <1>20, <1>21, <1>22
     DEF Next, Runner, Task, Fetching

LEMMA CancelledStoreStep ==
  ASSUME HistoryTyped, [Next]_vars, CalledOff
  PROVE  \A f \in cancelled : fetch'[f] # fetch[f] => stored' \subseteq stored
<1>1. CASE UNCHANGED <<stored>>
  BY <1>1 DEF CalledOff
<1>2. ASSUME \/ ClearFails \/ EnableRead \/ EnableShow \/ PublishShow
             \/ LeaveRoom
             \/ \E h \in Handles :
                   \/ Join(h) \/ Clear(h) \/ Disable(h) \/ Enable(h)
                   \/ Leave(h) \/ NeighborUp(h) \/ LiveShow(h) \/ RequestExpires(h)
             \/ \E h \in Handles, p \in Peers :
                   \/ FetchNow(h, p) \/ ReceiveOffer(h, p)
             \/ \E f \in Fetches :
                   \/ DownloadFails(f) \/ Downloaded(f) \/ Ingested(f)
             \/ \E f \in Fetches, r \in Records :
                   \/ IngestSkip(f, r) \/ IngestCheck(f, r)
             \/ \E p \in Peers :
                   \/ Block(p) \/ Unblock(p)
      PROVE  UNCHANGED <<stored>>
  BY <1>2
     DEF ClearFails, EnableRead, EnableShow, PublishShow, LeaveRoom, Join, Clear, Disable, Enable,
         Leave, FetchNow, NeighborUp, LiveShow, RequestExpires, ReceiveOffer, DownloadFails,
         Downloaded, Ingested, IngestSkip, IngestCheck, Block, Unblock, noteVars, countVars,
         Command, FetchOver, Show, Ask, Download, CallOff, Toggled
<1>3. CASE ClearStore
  BY <1>3, HistoryShapes
     DEF ClearStore, CalledOff, NotWriting, RunnerAt, RunnerDone, CallOff, IdleRunner, countVars
<1>4. ASSUME NEW h \in Handles, NEW r \in Records, Publish(h, r)
      PROVE  \A g \in cancelled : fetch'[g] # fetch[g] => stored' \subseteq stored
  BY <1>4, HistoryShapes DEF Publish, CalledOff, NotWriting, RunnerAt, Contains, Insert
<1>5. ASSUME NEW h \in Handles, NEW r \in Records, LiveStore(h, r)
      PROVE  \A g \in cancelled : fetch'[g] # fetch[g] => stored' \subseteq stored
  BY <1>5, HistoryShapes DEF LiveStore, CalledOff, NotWriting, Idle, noteVars, Insert
<1>6. ASSUME NEW f \in Fetches, IngestInsert(f)
      PROVE  \A g \in cancelled : fetch'[g] # fetch[g] => stored' \subseteq stored
  BY <1>6, HistoryShapes DEF IngestInsert, CalledOff, NotWriting, Taken, noteVars, Insert, Show
<1>7. ASSUME NEW r \in Records, Prune(r)
      PROVE  \A g \in cancelled : fetch'[g] # fetch[g] => stored' \subseteq stored
  BY <1>7, HistoryShapes DEF Prune, CalledOff, NotWriting, noteVars, countVars
<1>8. CASE UNCHANGED vars
  BY <1>1, <1>8 DEF vars, noteVars, countVars
<1> QED
  BY <1>1, <1>2, <1>3, <1>4, <1>5, <1>6, <1>7, <1>8 DEF Next, Runner, Task, Fetching

-----------------------------------------------------------------------------
(* What the program sees                                                   *)

LEMMA BlockedWasStep ==
  ASSUME HistoryTyped, [Next]_vars, BlockedWas
  PROVE  BlockedWas'
<1>1. CASE UNCHANGED <<blocked, wasBlocked>>
  BY <1>1 DEF BlockedWas
<1>2. ASSUME \/ ClearStore \/ ClearFails \/ EnableRead \/ EnableShow
             \/ PublishShow \/ LeaveRoom
             \/ \E h \in Handles :
                   \/ Join(h) \/ Clear(h) \/ Disable(h) \/ Enable(h)
                   \/ Leave(h) \/ NeighborUp(h) \/ LiveShow(h) \/ RequestExpires(h)
             \/ \E h \in Handles, r \in Records :
                   \/ Publish(h, r) \/ LiveStore(h, r)
             \/ \E h \in Handles, p \in Peers :
                   \/ FetchNow(h, p) \/ ReceiveOffer(h, p)
             \/ \E f \in Fetches :
                   \/ DownloadFails(f) \/ Downloaded(f) \/ IngestInsert(f) \/ Ingested(f)
             \/ \E f \in Fetches, r \in Records :
                   \/ IngestSkip(f, r) \/ IngestCheck(f, r)
             \/ \E r \in Records : Prune(r)
      PROVE  UNCHANGED <<blocked, wasBlocked>>
  BY <1>2
     DEF ClearStore, ClearFails, EnableRead, EnableShow, PublishShow, LeaveRoom, Join, Clear,
         Disable, Enable, Leave, Publish, FetchNow, NeighborUp, LiveShow, RequestExpires, LiveStore,
         ReceiveOffer, DownloadFails, Downloaded, IngestInsert, Ingested, IngestSkip, IngestCheck,
         Prune, noteVars, countVars, Command, FetchOver, Insert, Show, Ask, Download, CallOff,
         Taken, Toggled
<1>3. ASSUME NEW p \in Peers, Block(p) PROVE BlockedWas'
  BY <1>3, HistoryShapes DEF Block, BlockedWas, countVars
<1>4. ASSUME NEW p \in Peers, Unblock(p) PROVE BlockedWas'
  BY <1>4, HistoryShapes DEF Unblock, BlockedWas, noteVars, countVars
<1>5. CASE UNCHANGED vars
  BY <1>1, <1>5 DEF vars, noteVars, countVars
<1> QED
  BY <1>1, <1>2, <1>3, <1>4, <1>5 DEF Next, Runner, Task, Fetching

LEMMA LoadingStep ==
  ASSUME HistoryTyped, [Next]_vars, BlockedWas, Loading
  PROVE  Loading'
<1>1. CASE UNCHANGED <<rooms, stored, runner, showing, shown, wasBlocked>>
  BY <1>1 DEF Loading, Alone
<1>2. ASSUME \/ \E h \in Handles, p \in Peers : FetchNow(h, p)
             \/ \E f \in Fetches :
                   \/ DownloadFails(f) \/ Downloaded(f) \/ Ingested(f)
             \/ \E f \in Fetches, r \in Records :
                   \/ IngestSkip(f, r) \/ IngestCheck(f, r)
             \/ \E p \in Peers : Unblock(p)
      PROVE  UNCHANGED <<rooms, stored, runner, showing, shown, wasBlocked>>
  BY <1>2
     DEF FetchNow, DownloadFails, Downloaded, Ingested, IngestSkip, IngestCheck, Unblock, noteVars,
         countVars, FetchOver, Download
<1>3. CASE ClearStore
  BY <1>3, HistoryShapes, InsertedIs
     DEF ClearStore, Loading, BlockedWas, Alone, HistoryTyped, Joined, Rooms, RunnerAt, RunnerDone,
         CallOff, IdleRunner, countVars
<1>4. CASE ClearFails
  BY <1>4, HistoryShapes, InsertedIs
     DEF ClearFails, Loading, BlockedWas, Alone, HistoryTyped, Joined, Rooms, RunnerAt, RunnerDone,
         CallOff, IdleRunner, countVars
<1>5. CASE EnableRead
  BY <1>5, HistoryShapes, InsertedIs
     DEF EnableRead, Loading, BlockedWas, Alone, HistoryTyped, Joined, Rooms, RunnerAt, noteVars,
         countVars
<1>6. CASE EnableShow
  BY <1>6, HistoryShapes, InsertedIs
     DEF EnableShow, Loading, BlockedWas, Alone, HistoryTyped, Joined, Rooms, Unblocked, Ask,
         RunnerAt, RunnerDone, IdleRunner, Show
<1>7. CASE PublishShow
  BY <1>7, HistoryShapes, InsertedIs
     DEF PublishShow, Loading, BlockedWas, Alone, HistoryTyped, Joined, Rooms, Unblocked, RunnerAt,
         RunnerDone, IdleRunner, noteVars, countVars, Show
<1>8. CASE LeaveRoom
  BY <1>8, HistoryShapes, InsertedIs
     DEF LeaveRoom, Loading, BlockedWas, Alone, HistoryTyped, Joined, Rooms, RunnerAt, RunnerDone,
         CallOff, IdleRunner, NoRoom, countVars
<1>9. ASSUME NEW h \in Handles, Join(h) PROVE Loading'
  <2>1. UNCHANGED <<stored, runner, showing, shown, wasBlocked>>
    BY <1>9 DEF Join, noteVars
  <2>2. /\ \A g \in Handles \ {h} : rooms'[g] = rooms[g]
        /\ rooms[h].at = "none" /\ rooms'[h].at = "in"
    BY <1>9, HistoryShapes DEF Join, Rooms
  <2>3. runner.pc = "show" => runner.room \in Handles /\ runner.room # h
    BY <2>2 DEF HistoryTyped, Joined
  <2> QED
    BY <2>1, <2>2, <2>3 DEF Loading, Alone
<1>10. ASSUME NEW h \in Handles, Clear(h) PROVE Loading'
  BY <1>10, HistoryShapes, InsertedIs
     DEF Clear, Loading, BlockedWas, Alone, HistoryTyped, Joined, Rooms, Command, Contains, noteVars
<1>11. ASSUME NEW h \in Handles, Disable(h) PROVE Loading'
  BY <1>11, HistoryShapes, InsertedIs
     DEF Disable, Loading, BlockedWas, Alone, HistoryTyped, Joined, Rooms, Command, Toggled,
         Contains, CallOff
<1>12. ASSUME NEW h \in Handles, Enable(h) PROVE Loading'
  BY <1>12, HistoryShapes, InsertedIs
     DEF Enable, Loading, BlockedWas, Alone, HistoryTyped, Joined, Rooms, Command, Toggled,
         Contains, CallOff
<1>13. ASSUME NEW h \in Handles, Leave(h) PROVE Loading'
  BY <1>13, HistoryShapes, InsertedIs
     DEF Leave, Loading, BlockedWas, Alone, HistoryTyped, Joined, Rooms, RunnerAt, noteVars,
         countVars
<1>14. ASSUME NEW h \in Handles, NEW r \in Records, Publish(h, r) PROVE Loading'
  BY <1>14, HistoryShapes, InsertedIs
     DEF Publish, Loading, BlockedWas, Alone, HistoryTyped, Joined, Rooms, RunnerAt, Contains,
         Insert
<1>15. ASSUME NEW h \in Handles, NeighborUp(h) PROVE Loading'
  <2>1. \A g \in Handles : rooms'[g].at = rooms[g].at
    BY <1>15, HistoryShapes DEF NeighborUp, Ask, Rooms
  <2>2. UNCHANGED <<stored, runner, showing, shown, wasBlocked>>
    BY <1>15 DEF NeighborUp, noteVars
  <2> QED
    BY <2>1, <2>2 DEF Loading, Alone
<1>16. ASSUME NEW h \in Handles, LiveShow(h) PROVE Loading'
  BY <1>16, HistoryShapes, InsertedIs
     DEF LiveShow, Loading, BlockedWas, Alone, HistoryTyped, Joined, Rooms, Unblocked, noteVars,
         countVars, Show
<1>17. ASSUME NEW h \in Handles, RequestExpires(h) PROVE Loading'
  <2>1. \A g \in Handles : rooms'[g].at = rooms[g].at
    BY <1>17, HistoryShapes DEF RequestExpires, Rooms
  <2>2. UNCHANGED <<stored, runner, showing, shown, wasBlocked>>
    BY <1>17 DEF RequestExpires, noteVars
  <2> QED
    BY <2>1, <2>2 DEF Loading, Alone
<1>18. ASSUME NEW h \in Handles, NEW r \in Records, LiveStore(h, r) PROVE Loading'
  BY <1>18, HistoryShapes, InsertedIs
     DEF LiveStore, Loading, BlockedWas, Alone, HistoryTyped, Joined, Rooms, Idle, noteVars, Insert
<1>19. ASSUME NEW h \in Handles, NEW p \in Peers, ReceiveOffer(h, p) PROVE Loading'
  BY <1>19, HistoryShapes, InsertedIs
     DEF ReceiveOffer, Loading, BlockedWas, Alone, HistoryTyped, Joined, Rooms, Idle, Download,
         IdleFetch, noteVars, countVars
<1>20. ASSUME NEW f \in Fetches, IngestInsert(f) PROVE Loading'
  <2>1. PICK new \in SUBSET Records :
           stored' \subseteq stored \cup new /\ Show(fetch[f].room, new)
    BY <1>20, IngestInsertIs
  <2>2. UNCHANGED <<rooms, runner, showing, wasBlocked, blocked>>
    BY <1>20 DEF IngestInsert, noteVars
  <2>3. fetch[f].pc = "insert" /\ fetch[f].room \in Handles /\ rooms[fetch[f].room].at # "none"
    BY <1>20 DEF IngestInsert, HistoryTyped, Joined
  <2>4. /\ \A g \in Handles : shown[g] \subseteq shown'[g]
        /\ \A r \in new : AuthorOf[r] \in blocked \/ r \in shown'[fetch[f].room]
    BY <2>1, <2>3, HistoryShapes DEF Show, Unblocked
  <2>5. runner.pc = "show" => runner.room \in Handles
    BY DEF HistoryTyped, Joined
  <2>6. runner.pc = "show" /\ Alone(runner.room) => fetch[f].room = runner.room
    BY <2>3 DEF Alone
  <2> QED
    BY <2>1, <2>2, <2>3, <2>4, <2>5, <2>6 DEF Loading, Alone, BlockedWas
<1>21. ASSUME NEW r \in Records, Prune(r) PROVE Loading'
  BY <1>21, HistoryShapes, InsertedIs
     DEF Prune, Loading, BlockedWas, Alone, HistoryTyped, Joined, Rooms, noteVars, countVars
<1>22. ASSUME NEW p \in Peers, Block(p) PROVE Loading'
  BY <1>22, HistoryShapes, InsertedIs
     DEF Block, Loading, BlockedWas, Alone, HistoryTyped, Joined, Rooms, countVars
<1>23. CASE UNCHANGED vars
  BY <1>1, <1>23 DEF vars, noteVars, countVars
<1> QED
  BY <1>1, <1>2, <1>3, <1>4, <1>5, <1>6, <1>7, <1>8, <1>9, <1>10, <1>11, <1>12, <1>13, <1>14, <1>15,
     <1>16, <1>17, <1>18, <1>19, <1>20, <1>21, <1>22, <1>23
     DEF Next, Runner, Task, Fetching

LEMMA StoredShownStep ==
  ASSUME HistoryTyped, [Next]_vars, BlockedWas, Loading, StoredShown
  PROVE  StoredShown'
<1>1. CASE UNCHANGED <<rooms, stored, runner, showing, shown, wasBlocked, loaded>>
  BY <1>1 DEF StoredShown, Alone, AboutToShow
<1>2. ASSUME \/ \E h \in Handles, p \in Peers : FetchNow(h, p)
             \/ \E f \in Fetches :
                   \/ DownloadFails(f) \/ Downloaded(f) \/ Ingested(f)
             \/ \E f \in Fetches, r \in Records :
                   \/ IngestSkip(f, r) \/ IngestCheck(f, r)
             \/ \E p \in Peers : Unblock(p)
      PROVE  UNCHANGED <<rooms, stored, runner, showing, shown, wasBlocked, loaded>>
  BY <1>2
     DEF FetchNow, DownloadFails, Downloaded, Ingested, IngestSkip, IngestCheck, Unblock, noteVars,
         countVars, FetchOver, Download
<1>3. CASE ClearStore
  BY <1>3, HistoryShapes, InsertedIs
     DEF ClearStore, StoredShown, AboutToShow, Loading, BlockedWas, Alone, HistoryTyped, Joined,
         Rooms, RunnerAt, RunnerDone, CallOff, IdleRunner, countVars
<1>4. CASE ClearFails
  BY <1>4, HistoryShapes, InsertedIs
     DEF ClearFails, StoredShown, AboutToShow, Loading, BlockedWas, Alone, HistoryTyped, Joined,
         Rooms, RunnerAt, RunnerDone, CallOff, IdleRunner, countVars
<1>5. CASE EnableRead
  BY <1>5, HistoryShapes, InsertedIs
     DEF EnableRead, StoredShown, AboutToShow, Loading, BlockedWas, Alone, HistoryTyped, Joined,
         Rooms, RunnerAt, noteVars, countVars
<1>6. CASE EnableShow
  BY <1>6, HistoryShapes, InsertedIs
     DEF EnableShow, StoredShown, AboutToShow, Loading, BlockedWas, Alone, HistoryTyped, Joined,
         Rooms, Unblocked, Ask, RunnerAt, RunnerDone, IdleRunner, Show
<1>7. CASE PublishShow
  BY <1>7, HistoryShapes, InsertedIs
     DEF PublishShow, StoredShown, AboutToShow, Loading, BlockedWas, Alone, HistoryTyped, Joined,
         Rooms, Unblocked, RunnerAt, RunnerDone, IdleRunner, noteVars, countVars, Show
<1>8. CASE LeaveRoom
  BY <1>8, HistoryShapes, InsertedIs
     DEF LeaveRoom, StoredShown, AboutToShow, Loading, BlockedWas, Alone, HistoryTyped, Joined,
         Rooms, RunnerAt, RunnerDone, CallOff, IdleRunner, NoRoom, countVars
<1>9. ASSUME NEW h \in Handles, Join(h) PROVE StoredShown'
  <2>1. UNCHANGED <<stored, runner, showing, shown, wasBlocked, loaded>>
    BY <1>9 DEF Join, noteVars
  <2>2. /\ \A g \in Handles \ {h} : rooms'[g] = rooms[g]
        /\ rooms[h].at = "none" /\ rooms'[h].at = "in"
    BY <1>9, HistoryShapes DEF Join, Rooms
  <2>3. h \notin loaded
    BY <2>2 DEF HistoryTyped, Joined
  <2> QED
    BY <2>1, <2>2, <2>3, HistoryShapes DEF StoredShown, AboutToShow, Alone
<1>10. ASSUME NEW h \in Handles, Clear(h) PROVE StoredShown'
  BY <1>10, HistoryShapes, InsertedIs
     DEF Clear, StoredShown, AboutToShow, Loading, BlockedWas, Alone, HistoryTyped, Joined, Rooms,
         Command, Contains, noteVars
<1>11. ASSUME NEW h \in Handles, Disable(h) PROVE StoredShown'
  BY <1>11, HistoryShapes, InsertedIs
     DEF Disable, StoredShown, AboutToShow, Loading, BlockedWas, Alone, HistoryTyped, Joined, Rooms,
         Command, Toggled, Contains, CallOff
<1>12. ASSUME NEW h \in Handles, Enable(h) PROVE StoredShown'
  BY <1>12, HistoryShapes, InsertedIs
     DEF Enable, StoredShown, AboutToShow, Loading, BlockedWas, Alone, HistoryTyped, Joined, Rooms,
         Command, Toggled, Contains, CallOff
<1>13. ASSUME NEW h \in Handles, Leave(h) PROVE StoredShown'
  BY <1>13, HistoryShapes, InsertedIs
     DEF Leave, StoredShown, AboutToShow, Loading, BlockedWas, Alone, HistoryTyped, Joined, Rooms,
         RunnerAt, noteVars, countVars
<1>14. ASSUME NEW h \in Handles, NEW r \in Records, Publish(h, r) PROVE StoredShown'
  BY <1>14, HistoryShapes, InsertedIs
     DEF Publish, StoredShown, AboutToShow, Loading, BlockedWas, Alone, HistoryTyped, Joined, Rooms,
         RunnerAt, Contains, Insert
<1>15. ASSUME NEW h \in Handles, NeighborUp(h) PROVE StoredShown'
  <2>1. \A g \in Handles : rooms'[g].at = rooms[g].at
    BY <1>15, HistoryShapes DEF NeighborUp, Ask, Rooms
  <2>2. UNCHANGED <<stored, runner, showing, shown, wasBlocked, loaded>>
    BY <1>15 DEF NeighborUp, noteVars
  <2> QED
    BY <2>1, <2>2, HistoryShapes DEF StoredShown, AboutToShow, Alone
<1>16. ASSUME NEW h \in Handles, LiveShow(h) PROVE StoredShown'
  BY <1>16, HistoryShapes, InsertedIs
     DEF LiveShow, StoredShown, AboutToShow, Loading, BlockedWas, Alone, HistoryTyped, Joined,
         Rooms, Unblocked, noteVars, countVars, Show
<1>17. ASSUME NEW h \in Handles, RequestExpires(h) PROVE StoredShown'
  <2>1. \A g \in Handles : rooms'[g].at = rooms[g].at
    BY <1>17, HistoryShapes DEF RequestExpires, Rooms
  <2>2. UNCHANGED <<stored, runner, showing, shown, wasBlocked, loaded>>
    BY <1>17 DEF RequestExpires, noteVars
  <2> QED
    BY <2>1, <2>2, HistoryShapes DEF StoredShown, AboutToShow, Alone
<1>18. ASSUME NEW h \in Handles, NEW r \in Records, LiveStore(h, r) PROVE StoredShown'
  BY <1>18, HistoryShapes, InsertedIs
     DEF LiveStore, StoredShown, AboutToShow, Loading, BlockedWas, Alone, HistoryTyped, Joined,
         Rooms, Idle, noteVars, Insert
<1>19. ASSUME NEW h \in Handles, NEW p \in Peers, ReceiveOffer(h, p) PROVE StoredShown'
  BY <1>19, HistoryShapes, InsertedIs
     DEF ReceiveOffer, StoredShown, AboutToShow, Loading, BlockedWas, Alone, HistoryTyped, Joined,
         Rooms, Idle, Download, IdleFetch, noteVars, countVars
<1>20. ASSUME NEW f \in Fetches, IngestInsert(f) PROVE StoredShown'
  <2>1. PICK new \in SUBSET Records :
           stored' \subseteq stored \cup new /\ Show(fetch[f].room, new)
    BY <1>20, IngestInsertIs
  <2>2. UNCHANGED <<rooms, runner, showing, wasBlocked, blocked, loaded>>
    BY <1>20 DEF IngestInsert, noteVars
  <2>3. fetch[f].pc = "insert" /\ fetch[f].room \in Handles /\ rooms[fetch[f].room].at # "none"
    BY <1>20 DEF IngestInsert, HistoryTyped, Joined
  <2>4. /\ \A g \in Handles : shown[g] \subseteq shown'[g]
        /\ \A r \in new : AuthorOf[r] \in blocked \/ r \in shown'[fetch[f].room]
    BY <2>1, <2>3, HistoryShapes DEF Show, Unblocked
  <2>5. \A g \in loaded : Alone(g) => g = fetch[f].room
    BY <2>3 DEF Alone
  <2> QED
    BY <2>1, <2>2, <2>3, <2>4, <2>5, HistoryShapes DEF StoredShown, AboutToShow, Alone, BlockedWas
<1>21. ASSUME NEW r \in Records, Prune(r) PROVE StoredShown'
  BY <1>21, HistoryShapes, InsertedIs
     DEF Prune, StoredShown, AboutToShow, Loading, BlockedWas, Alone, HistoryTyped, Joined, Rooms,
         noteVars, countVars
<1>22. ASSUME NEW p \in Peers, Block(p) PROVE StoredShown'
  BY <1>22, HistoryShapes, InsertedIs
     DEF Block, StoredShown, AboutToShow, Loading, BlockedWas, Alone, HistoryTyped, Joined, Rooms,
         countVars
<1>23. CASE UNCHANGED vars
  BY <1>1, <1>23 DEF vars, noteVars, countVars
<1> QED
  BY <1>1, <1>2, <1>3, <1>4, <1>5, <1>6, <1>7, <1>8, <1>9, <1>10, <1>11, <1>12, <1>13, <1>14, <1>15,
     <1>16, <1>17, <1>18, <1>19, <1>20, <1>21, <1>22, <1>23
     DEF Next, Runner, Task, Fetching

-----------------------------------------------------------------------------
(* The theorems                                                            *)

LEMMA InitTyped == Init => HistoryTyped
<1> SUFFICES ASSUME Init PROVE HistoryTyped
  OBVIOUS
<1>1. NoRoom \in Rooms /\ IdleRunner \in Runners /\ IdleFetch \in Downloads
  BY DEF NoRoom, Rooms, IdleRunner, Runners, IdleFetch, Downloads
<1>2. rooms \in [Handles -> Rooms] /\ runner \in Runners /\ fetch \in [Fetches -> Downloads]
  BY <1>1 DEF Init
<1>3. RestTyped
  BY BoundAssumption DEF Init, RestTyped, Own
<1>4. OneWriter
  BY DEF Init, OneWriter, IdleFetch
<1>5. ProvidersBound
  BY NoProviders DEF Init, ProvidersBound, NoRoom
<1>6. Joined
  BY DEF Init, Joined, IdleRunner, IdleFetch
<1> QED
  BY <1>2, <1>3, <1>4, <1>5, <1>6
     DEF Init, HistoryTyped, TypeOK, RestTyped, OneWriter, ProvidersBound, FewProviders

LEMMA AlwaysTyped == Spec => []HistoryTyped
<1>1. HistoryTyped /\ [Next]_vars => HistoryTyped'
  BY HistoryTypedStep
<1> QED
  BY InitTyped, <1>1, PTL DEF Spec

(* The variables keep their types, for any members, lines, handles and     *)
(* fetches.  In particular one fetch at a time holds the store, because    *)
(* ingest_snapshot looks at it and takes it in one step; and a request     *)
(* never has more providers than it may.                                   *)
THEOREM HistoryTypes == Spec => []TypeOK
<1>1. HistoryTyped => TypeOK
  BY DEF HistoryTyped
<1> QED
  BY AlwaysTyped, <1>1, PTL

(* A fetch begun before a clear, a toggle or a leave stores no line after  *)
(* it: each of these moves the generation of the handle, and ingest looks  *)
(* at the generation with the store locked.                                *)
THEOREM CalledOffFetchStoresNothing == Spec => CancelledStoreNothing
<1> DEFINE Inv == HistoryTyped /\ Generations /\ CalledOff
<1>1. Init => Inv
  BY InitTyped DEF Init, Generations, CalledOff, IdleFetch
<1>2. Inv /\ [Next]_vars => Inv'
  BY HistoryTypedStep, GenerationsStep, CalledOffStep
<1>3. Inv /\ [Next]_vars
        => [\A f \in cancelled : fetch'[f] # fetch[f] => stored' \subseteq stored]_vars
  BY CancelledStoreStep
<1> QED
  BY <1>1, <1>2, <1>3, PTL DEF Spec, CancelledStoreNothing

(* The program sees what is stored, whatever the order in which the        *)
(* runner, the handle's task and the fetches lock and unlock the store:    *)
(* who stores a line shows it, and a clear empties both.                   *)
THEOREM TheProgramSeesTheStore == Spec => []StoredShown
<1> DEFINE Inv == HistoryTyped /\ BlockedWas /\ Loading /\ StoredShown
<1>1. Init => Inv
  BY InitTyped DEF Init, BlockedWas, Loading, StoredShown, IdleRunner
<1>2. Inv /\ [Next]_vars => Inv'
  BY HistoryTypedStep, BlockedWasStep, LoadingStep, StoredShownStep
<1>3. Inv => StoredShown
  OBVIOUS
<1> QED
  BY <1>1, <1>2, <1>3, PTL DEF Spec
=============================================================================
