----------------------------- MODULE SharedFiles -----------------------------
(***************************************************************************)
(* Files a player shares (LanternService.cs, PrepareFileOffer to           *)
(* WithdrawFileOffer) and the node that imports and offers them (node.rs,  *)
(* blob_add_* to blob_unoffer; friend_file_offer in node/friends.rs).      *)
(*                                                                         *)
(* A background task of the plugin reads the file and hands it to the      *)
(* node, which answers with a handle and imports the file later.  The      *)
(* handle goes to the framework thread through a queue, the outcome of the *)
(* import through the node's events: either may come first.  A file is     *)
(* offered when both are known, to the channel or friend it was meant for. *)
(* A node offers by hash: files with the same bytes are one, except that a *)
(* sealed channel's files are encrypted afresh every time.                 *)
(*                                                                         *)
(* Stopping and starting the service is one action, Restart: without a     *)
(* node every operation here refuses.                                      *)
(***************************************************************************)
EXTENDS Integers, Sequences, FiniteSets

CONSTANTS
    Channels,                  \* rooms of the saved channels
    Pal,                       \* the friend
    Bytes,                     \* contents of files
    FileLimit,                 \* files of one session (16 in the code)
    EarlyLimit,                \* early outcomes kept (8 in the code)
    MaxShares,                 \* bound on the files a node is given in one session
    MaxStrays,                 \* bound on outcomes of downloads nobody waits for: EarlyLimit
                               \* of them in one preparation leave no room for the own one
    MaxSession                 \* bound on the sessions

ASSUME ShareAssumption == Pal \notin Channels
ASSUME ShareBoundsAssumption ==
    /\ FileLimit \in Nat /\ MaxShares \in Nat /\ MaxSession \in Nat \ {0}
    /\ EarlyLimit \in Nat /\ MaxStrays \in Nat /\ MaxStrays < EarlyLimit

Targets == Channels \cup {Pal}
Handles == 1..MaxShares
NoHandle == 0
NoPublication == [handle |-> NoHandle, to |-> Pal]

VARIABLES
    sealed,       \* the channels that are sealed: never changes
    session,      \* generation
    sendBusy,     \* FileSendBusy
    publication,  \* filePublication
    early,        \* earlyFilePublication: handles with an outcome
    outgoing,     \* outgoingFiles
    shared,       \* sharedFileCount
    joined,       \* Channels of the plugin
    muted, pal,   \* conversations that are muted; the friend is one and linked
    preparers,    \* background tasks
    prepared,     \* their answers, queued for the framework thread
    blobs,        \* Shared.blobs: own files of the node
    imports,      \* Cmd::BlobAdd* not handled by the runner
    outcomes,     \* BlobDone and BlobFailed events not polled
    openRooms,    \* Shared.rooms
    offering,     \* RoomState.offering
    twins,        \* history: hashes withdrawn while another listed file had them
    unheard       \* history: files whose outcome the full event channel dropped

pluginSide == <<sealed, session, sendBusy, publication, early, outgoing, shared, joined, muted, pal>>
taskSide == <<preparers, prepared>>
nodeSide == <<blobs, imports, outcomes, openRooms, offering>>
shareVars == <<sealed, session, sendBusy, publication, early, outgoing, shared, joined, muted, pal,
               preparers, prepared, blobs, imports, outcomes, openRooms, offering, twins,
               unheard>>

NoBlob == [is |-> "none", bytes |-> NoHandle, to |-> Pal]
Outcome == [handle : Handles, ok : BOOLEAN]

(* What a room calls a file by: encryption makes a hash of its own.        *)
Hash(h) == IF blobs[h].to \in sealed THEN [sealed |-> h] ELSE [plain |-> blobs[h].bytes]

ShareInit ==
    /\ sealed \in SUBSET Channels
    /\ session = 1 /\ sendBusy = FALSE /\ publication = NoPublication
    /\ early = {} /\ outgoing = {} /\ shared = 0
    /\ joined = Channels /\ muted = {} /\ pal = TRUE
    /\ preparers = {} /\ prepared = <<>>
    /\ blobs = [h \in Handles |-> NoBlob] /\ imports = <<>> /\ outcomes = {}
    /\ openRooms = Channels /\ offering = [r \in Channels |-> {}]
    /\ twins = {} /\ unheard = {}

-----------------------------------------------------------------------------
(* The framework thread                                                    *)

PublicationAllowed(to) == to \notin muted /\ IF to = Pal THEN pal ELSE to \in joined

PrepareFileOffer(to, bytes) ==
    /\ ~sendBusy /\ PublicationAllowed(to) /\ shared < FileLimit
    /\ sendBusy' = TRUE
    /\ preparers' = preparers \cup {[session |-> session, to |-> to, bytes |-> bytes,
                                     at |-> "reading", handle |-> NoHandle]}
    /\ UNCHANGED <<sealed, session, publication, early, outgoing, shared, joined, muted, pal, prepared>>
    /\ UNCHANGED nodeSide /\ UNCHANGED <<twins, unheard>>

(* Node::blob_offer: the file is imported, and encrypted for this room or  *)
(* not at all.                                                             *)
CanOffer(r, h) ==
    /\ blobs[h].is = "ready" /\ r \in openRooms
    /\ IF r \in sealed THEN blobs[h].to = r ELSE blobs[h].to \notin sealed

(* Node::friend_file_offer.                                                *)
CanOfferFriend(h) == pal /\ blobs[h].is = "ready" /\ blobs[h].to \notin sealed

Offers(p) ==
    IF p.to = Pal /\ CanOfferFriend(p.handle)
    THEN outgoing' = outgoing \cup {p} /\ UNCHANGED offering
    ELSE IF p.to # Pal /\ CanOffer(p.to, p.handle)
    THEN /\ outgoing' = outgoing \cup {p}
         /\ offering' = [offering EXCEPT ![p.to] = @ \cup {Hash(p.handle)}]
    ELSE UNCHANGED <<outgoing, offering>>

(* FilePublicationResult, once the publication p is known.                 *)
Published(p, ok) ==
    /\ sendBusy' = FALSE /\ publication' = NoPublication
    /\ IF ok /\ PublicationAllowed(p.to) THEN Offers(p) ELSE UNCHANGED <<outgoing, offering>>

(* FilePublicationResult.  The mutant drops an outcome that comes before   *)
(* the handle.                                                             *)
PublicationResultLate(h, ok) ==
    IF sendBusy /\ publication # NoPublication /\ publication.handle = h
    THEN Published(publication, ok) /\ UNCHANGED early
    ELSE UNCHANGED <<sendBusy, publication, early, outgoing, offering>>

PublicationResult(h, ok) ==
    IF sendBusy /\ publication = NoPublication
    THEN /\ early' = IF Cardinality(early) < EarlyLimit /\ \A e \in early : e.handle # h
                     THEN early \cup {[handle |-> h, ok |-> ok]} ELSE early
         /\ UNCHANGED <<sendBusy, publication, outgoing, offering>>
    ELSE IF sendBusy /\ publication.handle = h
    THEN Published(publication, ok) /\ UNCHANGED early
    ELSE UNCHANGED <<sendBusy, publication, early, outgoing, offering>>

HearPrepared ==
    /\ prepared # <<>> /\ prepared' = Tail(prepared)
    /\ LET a == Head(prepared)
           p == [handle |-> a.handle, to |-> a.to]
       IN IF a.session # session
          THEN UNCHANGED <<sendBusy, publication, early, outgoing, shared, offering>>
          ELSE /\ early' = {}
               /\ IF a.handle = NoHandle
                  THEN sendBusy' = FALSE /\ UNCHANGED <<publication, outgoing, shared, offering>>
                  ELSE /\ shared' = shared + 1
                       /\ \/ \E e \in early : e.handle = a.handle /\ Published(p, e.ok)
                          \/ /\ \A e \in early : e.handle # a.handle
                             /\ publication' = p /\ UNCHANGED <<sendBusy, outgoing, offering>>
    /\ UNCHANGED <<sealed, session, joined, muted, pal, preparers, blobs, imports, outcomes, openRooms,
                   twins, unheard>>

(* OnUpdate polls the outcome of an own file.                              *)
PollOutcome(o) ==
    /\ outcomes' = outcomes \ {o}
    /\ PublicationResult(o.handle, o.ok)
    /\ UNCHANGED <<sealed, session, shared, joined, muted, pal, blobs, imports, openRooms, twins, unheard>>
    /\ UNCHANGED taskSide

(* The outcome of a download whose offer was forgotten meanwhile.          *)
PollStray ==
    /\ \E s \in 1..MaxStrays : PublicationResult(NoHandle - s, TRUE)
    /\ UNCHANGED <<sealed, session, shared, joined, muted, pal, blobs, imports, outcomes, openRooms, twins, unheard>>
    /\ UNCHANGED taskSide

(* friend_file_withdraw: asks the friend, and changes nothing here.        *)
AsksFriend(o) == pal /\ UNCHANGED <<offering, twins>>

(* Node::blob_unoffer takes the hash out of the room's offers.             *)
Unoffers(o) ==
    /\ o.to \in openRooms
    /\ offering' = [offering EXCEPT ![o.to] = @ \ {Hash(o.handle)}]
    /\ twins' = IF \E p \in outgoing \ {o} : p.to = o.to /\ Hash(p.handle) = Hash(o.handle)
                THEN twins \cup {<<o.to, Hash(o.handle)>>} ELSE twins

WithdrawFileOffer(o) ==
    /\ o \in outgoing /\ outgoing' = outgoing \ {o}
    /\ IF o.to = Pal THEN AsksFriend(o) ELSE Unoffers(o)
    /\ UNCHANGED <<sealed, session, sendBusy, publication, early, shared, joined, muted, pal, blobs,
                   imports, outcomes, openRooms, unheard>>
    /\ UNCHANGED taskSide

LeaveChannel(r) ==
    /\ r \in joined
    /\ joined' = joined \ {r} /\ outgoing' = {o \in outgoing : o.to # r}
    /\ UNCHANGED <<sealed, session, sendBusy, publication, early, shared, muted, pal, twins, unheard>>
    /\ UNCHANGED taskSide /\ UNCHANGED nodeSide

(* RemoveFriend and Block.                                                 *)
DropFriend ==
    /\ pal /\ pal' = FALSE
    /\ outgoing' = {o \in outgoing : o.to # Pal}
    /\ UNCHANGED <<sealed, session, sendBusy, publication, early, shared, joined, muted, twins, unheard>>
    /\ UNCHANGED taskSide /\ UNCHANGED nodeSide

Mute(to) ==
    /\ muted' = IF to \in muted THEN muted \ {to} ELSE muted \cup {to}
    /\ UNCHANGED <<sealed, session, sendBusy, publication, early, outgoing, shared, joined, pal, twins, unheard>>
    /\ UNCHANGED taskSide /\ UNCHANGED nodeSide

(* Stop, and Start with a new node that joins the saved channels.          *)
Restart ==
    /\ session < MaxSession /\ session' = session + 1
    /\ sendBusy' = FALSE /\ publication' = NoPublication /\ early' = {} /\ outgoing' = {} /\ shared' = 0
    /\ blobs' = [h \in Handles |-> NoBlob] /\ imports' = <<>> /\ outcomes' = {}
    /\ openRooms' = joined /\ offering' = [r \in Channels |-> {}] /\ twins' = {} /\ unheard' = {}
    /\ UNCHANGED <<sealed, joined, muted, pal>> /\ UNCHANGED taskSide

-----------------------------------------------------------------------------
(* The background tasks                                                    *)

TaskBecomes(t, u) == preparers' = (preparers \ {t}) \cup {u}

ReadOffer(t) ==
    /\ t.at = "reading"
    /\ TaskBecomes(t, [t EXCEPT !.at = "calling"]) \/ TaskBecomes(t, [t EXCEPT !.at = "out"])
    /\ UNCHANGED prepared /\ UNCHANGED pluginSide /\ UNCHANGED nodeSide /\ UNCHANGED <<twins, unheard>>

(* A task of an earlier session gives up, or has passed its check and gets *)
(* an answer of the node that is being closed.                             *)
GiveUp(t) ==
    /\ t.at = "calling" /\ t.session # session
    /\ preparers' = preparers \ {t} \/ TaskBecomes(t, [t EXCEPT !.at = "out"])
    /\ UNCHANGED prepared /\ UNCHANGED pluginSide /\ UNCHANGED nodeSide /\ UNCHANGED <<twins, unheard>>

(* blob_add_bytes, or blob_add_sealed_bytes, which needs the room.         *)
BlobAdd(t) ==
    /\ t.at = "calling" /\ t.session = session
    /\ IF t.to \in sealed /\ t.to \notin openRooms
       THEN TaskBecomes(t, [t EXCEPT !.at = "out"]) /\ UNCHANGED <<blobs, imports>>
       ELSE \E h \in Handles :
              /\ blobs[h].is = "none" /\ \A k \in 1..(h - 1) : blobs[k].is # "none"
              /\ blobs' = [blobs EXCEPT ![h] = [is |-> "adding", bytes |-> t.bytes, to |-> t.to]]
              /\ imports' = Append(imports, h)
              /\ TaskBecomes(t, [t EXCEPT !.at = "out", !.handle = h])
    /\ UNCHANGED <<prepared, outcomes, openRooms, offering, twins, unheard>> /\ UNCHANGED pluginSide

TaskAnswers(t) ==
    /\ t.at = "out"
    /\ preparers' = preparers \ {t}
    /\ prepared' = Append(prepared, [session |-> t.session, to |-> t.to, handle |-> t.handle])
    /\ UNCHANGED pluginSide /\ UNCHANGED nodeSide /\ UNCHANGED <<twins, unheard>>

-----------------------------------------------------------------------------
(* The node's runner                                                       *)

(* finish_add; the bounded channel may drop the event.                     *)
FinishAdd ==
    /\ imports # <<>> /\ imports' = Tail(imports)
    /\ LET h == Head(imports)
       IN \E ok, kept \in BOOLEAN :
            /\ blobs' = [blobs EXCEPT ![h].is = IF ok THEN "ready" ELSE "failed"]
            /\ outcomes' = IF kept THEN outcomes \cup {[handle |-> h, ok |-> ok]} ELSE outcomes
            /\ unheard' = IF kept THEN unheard ELSE unheard \cup {h}
    /\ UNCHANGED <<openRooms, offering, twins>> /\ UNCHANGED pluginSide /\ UNCHANGED taskSide

RunnerLeaves(r) ==
    /\ r \in openRooms \ joined
    /\ openRooms' = openRooms \ {r} /\ offering' = [offering EXCEPT ![r] = {}]
    /\ UNCHANGED <<blobs, imports, outcomes, twins, unheard>> /\ UNCHANGED pluginSide
    /\ UNCHANGED taskSide

ShareNext ==
    \/ \E to \in Targets, b \in Bytes : PrepareFileOffer(to, b)
    \/ HearPrepared \/ PollStray \/ DropFriend \/ Restart \/ FinishAdd
    \/ \E o \in outcomes : PollOutcome(o)
    \/ \E o \in outgoing : WithdrawFileOffer(o)
    \/ \E r \in Channels : LeaveChannel(r) \/ RunnerLeaves(r)
    \/ \E to \in Targets : Mute(to)
    \/ \E t \in preparers : ReadOffer(t) \/ GiveUp(t) \/ BlobAdd(t) \/ TaskAnswers(t)

ShareSpec == ShareInit /\ [][ShareNext]_shareVars

-----------------------------------------------------------------------------
ShareTypeOK ==
    /\ sealed \subseteq Channels /\ session \in 1..MaxSession /\ sendBusy \in BOOLEAN /\ pal \in BOOLEAN
    /\ publication.handle \in Handles \cup {NoHandle} /\ publication.to \in Targets
    /\ Cardinality(early) <= EarlyLimit
    /\ outgoing \subseteq [handle : Handles, to : Targets]
    /\ shared \in 0..FileLimit /\ joined \subseteq Channels /\ muted \subseteq Targets
    /\ \A h \in Handles : blobs[h].is \in {"none", "adding", "ready", "failed"}
    /\ imports \in Seq(Handles) /\ outcomes \subseteq Outcome
    /\ openRooms \subseteq Channels

(* The plugin prepares a file for a reason: its task is at work or the     *)
(* answer queued, or the handle is known and the import is queued, or its  *)
(* outcome is not polled or was dropped by the full event channel.  So an  *)
(* outcome that overtakes the handle, a restart and a failure at any step  *)
(* never block the next file.                                              *)
SendBusyForReason ==
    sendBusy =>
        IF publication = NoPublication
        THEN \/ \E t \in preparers : t.session = session
             \/ \E i \in DOMAIN prepared : prepared[i].session = session
        ELSE LET h == publication.handle
             IN blobs[h].is = "adding" \/ h \in unheard \/ \E o \in outcomes : o.handle = h

(* What the player sees as shared is what the node offers in that channel, *)
(* and the other way around.  Only of two listed files with the same bytes *)
(* may one be offered no longer: the withdrawal of the other one withdrew  *)
(* it too; twins marks those.                                              *)
PublishedAsListed ==
    /\ \A o \in outgoing :
         o.to # Pal => Hash(o.handle) \in offering[o.to] \/ <<o.to, Hash(o.handle)>> \in twins
    /\ \A r \in joined : \A x \in offering[r] : \E o \in outgoing : o.to = r /\ Hash(o.handle) = x

SharesTrue == SendBusyForReason /\ PublishedAsListed
=============================================================================
