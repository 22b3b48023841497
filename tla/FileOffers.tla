----------------------------- MODULE FileOffers -----------------------------
(***************************************************************************)
(* The plugin's list of files that peers offer (FileOffers.cs), as         *)
(* operators on a function from blob handles to what the list holds.       *)
(* Offers and fetches are counted here too: a fetch keeps its place from   *)
(* the click to the terminal event of the native job.                      *)
(***************************************************************************)
EXTENDS Naturals, FiniteSets

CONSTANTS
    Blobs,          \* handles of offered blobs
    Senders,        \* peers that offer files
    SenderOf,       \* FileOffer.Peer
    Slots,          \* ConcurrentFetches, and the permits of file_downloads
    PeerCapacity    \* PeerCapacity, and the same limit in remote_offer_allowed

ASSUME SenderAssumption == SenderOf \in [Blobs -> Senders]
ASSUME LimitAssumption == Slots \in Nat \ {0} /\ PeerCapacity \in Nat \ {0}

NoPath == 0
Absent == [state |-> "Absent", path |-> NoPath, withdrawn |-> FALSE]
Offered == [Absent EXCEPT !.state = "Offered"]

Listed(o) == {b \in Blobs : o[b].state # "Absent"}
Busy(o) == {b \in Blobs : o[b].state \in {"Fetching", "Canceling"}}

(* Add: known handles and offers beyond a peer's share are refused.  The   *)
(* caller's tests of room, mute and block are its own.                     *)
Add(o, b) ==
    LET ofPeer == {c \in Listed(o) : SenderOf[c] = SenderOf[b]}
    IN  IF b \in Listed(o) \/ Cardinality(ofPeer) >= PeerCapacity THEN o
        ELSE [o EXCEPT ![b] = Offered]

(* BeginFetch, its condition and its effect.                               *)
CanBegin(o, b) ==
    /\ o[b].state \in {"Offered", "Failed", "Canceled"}
    /\ Cardinality(Busy(o)) < Slots

BeginFetch(o, b, path) == [o EXCEPT ![b].state = "Fetching", ![b].path = path]

CancelRequested(o, b) ==
    IF o[b].state = "Fetching" THEN [o EXCEPT ![b].state = "Canceling"] ELSE o

Forget(o, S) == [b \in Blobs |-> IF b \in S THEN Absent ELSE o[b]]

(* Withdraw: a transfer is asked to stop and keeps its place; a saved file *)
(* stays listed; anything else goes.                                       *)
Withdraw(o, b) ==
    IF o[b].state \in {"Fetching", "Canceling", "Saved"}
    THEN [CancelRequested(o, b) EXCEPT ![b].withdrawn = TRUE]
    ELSE Forget(o, {b})

(* Mutation: a result is taken for Fetching only.                          *)
CompleteFetching(o, b, verified) ==
    IF o[b].state # "Fetching" THEN o
    ELSE [o EXCEPT ![b].state = IF verified THEN "Saved" ELSE "Failed"]

(* Complete: a job's result is taken once, canceled or not; it may be      *)
(* success although a cancellation was asked for.                          *)
Complete(o, b, verified) ==
    IF b \notin Busy(o) THEN o
    ELSE IF ~verified /\ o[b].withdrawn THEN Forget(o, {b})
    ELSE [o EXCEPT ![b].state = IF verified THEN "Saved"
                                ELSE IF @ = "Canceling" THEN "Canceled" ELSE "Failed"]
=============================================================================
