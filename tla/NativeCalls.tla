---------------------------- MODULE NativeCalls ----------------------------
(***************************************************************************)
(* The C ABI (lantern-ffi/src/lib.rs) under the C# binding                 *)
(* (LanternNode.cs): a node is opened and closed, its events are polled    *)
(* into slots that point into buffers of the node, and texts are read with *)
(* a first call that may only tell how much room the text needs.           *)
(*                                                                         *)
(* One thread polls, as lantern.h asks; another reads a text; any thread   *)
(* may dispose of the binding, and the program has stopped calling by      *)
(* then.  A text and a payload are numbers: which they are of what the     *)
(* node had, and a text has a length.                                      *)
(***************************************************************************)
EXTENDS Integers, Sequences

CONSTANTS
    Emittable,    \* events the node emits here, [is, mark] records
    MaxEmitted,   \* bound on their number
    SlotCount,    \* LtEvent[64] of the binding
    FirstRoom,    \* TextBufferSize
    MaxLength,    \* bound on the length of a text
    MaxEdits,     \* bound on how often the text changes
    Disposers     \* threads that dispose of the binding

ASSUME CallBoundsAssumption ==
    /\ SlotCount \in Nat \ {0} /\ FirstRoom \in Nat \ {0}
    /\ MaxEmitted \in Nat /\ MaxLength \in Nat /\ MaxEdits \in Nat

VARIABLES
    opening,   \* how far the binding's Open is
    handle,    \* the binding's handle is not zero
    native,    \* what became of the native node
    disposing, \* threads between taking the handle and lt_node_close's return
    released,  \* the program calls no more
    emitted,   \* history: the events of the node, in order
    drained,   \* how many of them were polled
    seq,       \* Arena.seq
    buffers,   \* Arena.buffers: addresses that may be read
    slots,     \* eventBuffer
    polled,    \* slots written by the last poll and not copied yet
    got,       \* what the binding handed to the program, in order
    text,      \* the text of the node: which version, and its length
    reader,    \* the thread that reads the text
    readings   \* history: versions the text had since that thread began

lifeVars == <<opening, handle, native, disposing, released>>
pollVars == <<emitted, drained, seq, buffers, slots, polled, got>>
textVars == <<text, reader, readings>>
callVars == <<opening, handle, native, disposing, released, emitted, drained, seq, buffers,
              slots, polled, got, text, reader, readings>>

Null == 0
Blank == [kind |-> 0, seq |-> 0, data |-> Null]
Resting == [at |-> "rest", room |-> 0, version |-> 0]

-----------------------------------------------------------------------------
(* The kinds: LT_EV_ constants by number, and the binding's names for them *)

EventKinds == <<
    "Ready", "RoomJoined", "RoomLeft", "PeerJoined", "PeerLeft", "Presence", "Message",
    "Direct", "Connected", "Disconnected", "BlobOffer", "BlobProgress", "BlobDone",
    "BlobFailed", "Ticket", "Publishing", "Error", "Log", "FriendAdded", "FriendRemoved",
    "InviteFailed", "FriendOnline", "FriendOffline", "FriendText", "FriendDelivered",
    "ChannelInvite", "RateLimited", "Announcement", "SupportMessage", "SupportReply",
    "SupportDelivered", "SupportFailed", "SelfTest", "ChannelRecord", "ChannelHistory",
    "ChannelHistoryCleared", "NostrDone", "NostrFailed", "NostrInvite", "NostrDevices",
    "BlobWithdrawn">>

LanternEventKind == <<
    "Ready", "RoomJoined", "RoomLeft", "PeerJoined", "PeerLeft", "Presence", "Message",
    "Direct", "Connected", "Disconnected", "BlobOffer", "BlobProgress", "BlobDone",
    "BlobFailed", "Ticket", "Publishing", "Error", "Log", "FriendAdded", "FriendRemoved",
    "InviteFailed", "FriendOnline", "FriendOffline", "FriendText", "FriendDelivered",
    "ChannelInvite", "RateLimited", "Announcement", "SupportMessage", "SupportReply",
    "SupportDelivered", "SupportFailed", "SelfTest", "ChannelRecord", "ChannelHistory",
    "ChannelHistoryCleared", "NostrDone", "NostrFailed", "NostrInvite", "NostrDevices",
    "BlobWithdrawn">>

(* The arms of lt_poll that write no payload.                              *)
RoomSilent == {"RoomJoined", "RoomLeft", "PeerJoined", "PeerLeft", "ChannelHistoryCleared",
               "Connected", "Disconnected"}
FileSilent == {"BlobWithdrawn"}
FriendSilent == {"FriendRemoved", "FriendOffline", "FriendDelivered"}
AuthorSilent == {"SupportDelivered"}
Silent == RoomSilent \cup FileSilent \cup FriendSilent \cup AuthorSilent

(* Two events are told apart by their kind alone.  A call is a line of the *)
(* log: "call signalling event (not in the C ABI yet)".                    *)
CallNames == {"CallIncoming", "CallAnswered", "CallEnded"}
KindOfName(e) == IF e.is \in CallNames THEN "Log" ELSE e.is     \* a mutant
KindName(e) ==
    CASE e.is = "ChannelRecord" /\ e.mark -> "ChannelHistory"
      [] e.is = "NostrDone" /\ ~e.mark -> "NostrFailed"
      [] e.is \in CallNames -> "Log"
      [] OTHER -> e.is

(* The node's events (event.rs).  Historical records and successful jobs   *)
(* are marked.                                                             *)
NodeEvents == ({EventKinds[k] : k \in DOMAIN EventKinds} \ {"ChannelHistory", "NostrFailed"}) \cup CallNames

ASSUME EmittableAssumption ==
    \A e \in Emittable : /\ e \in [is : NodeEvents, mark : BOOLEAN]
                         /\ e.mark => e.is \in {"ChannelRecord", "NostrDone"}

Kind(e) == CHOOSE k \in DOMAIN EventKinds : EventKinds[k] = KindName(e)

CallInit ==
    /\ opening = "off" /\ handle = FALSE /\ native = "none" /\ disposing = {} /\ released = FALSE
    /\ emitted = <<>> /\ drained = 0 /\ seq = 0 /\ buffers = {}
    /\ slots = [i \in 1..SlotCount |-> Blank] /\ polled = 0 /\ got = <<>>
    /\ text = [version |-> 0, length |-> 0]
    /\ reader = Resting /\ readings = {}

-----------------------------------------------------------------------------
(* Opening and closing                                                     *)

(* lt_node_open: out_node is NULL unless it answers LT_OK.                 *)
NodeOpen ==
    /\ opening = "off"
    /\ \/ opening' = "opened" /\ native' = "open"
       \/ opening' = "failed" /\ UNCHANGED native
    /\ UNCHANGED <<handle, disposing, released>> /\ UNCHANGED pollVars /\ UNCHANGED textVars

(* The binding opts into signed records before the program has the node.   *)
EnableRecords ==
    /\ opening = "opened"
    /\ handle' = TRUE
    /\ \/ opening' = "ready" /\ UNCHANGED released
       \/ opening' = "refused" /\ released' = TRUE
    /\ UNCHANGED <<native, disposing>> /\ UNCHANGED pollVars /\ UNCHANGED textVars

Release ==
    /\ opening = "ready" /\ ~released /\ polled = 0 /\ reader.at = "rest"
    /\ released' = TRUE
    /\ UNCHANGED <<opening, handle, native, disposing>> /\ UNCHANGED pollVars /\ UNCHANGED textVars

(* Interlocked.Exchange takes the handle for one thread.  The mutant looks *)
(* at it and sets it to zero later, in lt_node_close's return.             *)
ZeroedLate == UNCHANGED handle
Zeroed == handle' = FALSE

Dispose(d) ==
    /\ released /\ handle /\ d \notin disposing
    /\ Zeroed
    /\ disposing' = disposing \cup {d}
    /\ UNCHANGED <<opening, native, released>> /\ UNCHANGED pollVars /\ UNCHANGED textVars

(* lt_node_close: Box::from_raw frees the node.                            *)
NodeClose(d) ==
    /\ d \in disposing
    /\ disposing' = disposing \ {d} /\ handle' = FALSE
    /\ native' = IF native = "open" THEN "closed" ELSE "closed twice"
    /\ UNCHANGED <<opening, released>> /\ UNCHANGED pollVars /\ UNCHANGED textVars

-----------------------------------------------------------------------------
(* Events                                                                  *)

Emit ==
    /\ native = "open" /\ Len(emitted) < MaxEmitted
    /\ \E e \in Emittable : emitted' = Append(emitted, e)
    /\ UNCHANGED <<drained, seq, buffers, slots, polled, got>>
    /\ UNCHANGED lifeVars /\ UNCHANGED textVars

MayCall == opening = "ready" /\ ~released

Handed(i) == emitted[drained + i]
Slot(i) == [kind |-> Kind(Handed(i)), seq |-> seq + i,
            data |-> IF Handed(i).is \in Silent THEN Null ELSE drained + i]

(* A mutant: what one event hands out dies with the next event.            *)
PollNativeLast(n) ==
    /\ seq' = seq + n /\ drained' = drained + n
    /\ buffers' = {drained + n} \ {drained + i : i \in {j \in 1..n : Handed(j).is \in Silent}}
    /\ slots' = [i \in 1..SlotCount |-> IF i <= n THEN Slot(i) ELSE slots[i]]

(* lt_poll.  A payload's address is the number of its event; what earlier  *)
(* polls handed out may not be read any more.  Slots past the last event   *)
(* keep what they had.                                                     *)
PollNative(n) ==
    /\ seq' = seq + n /\ drained' = drained + n
    /\ buffers' = {drained + i : i \in {j \in 1..n : Handed(j).is \notin Silent}}
    /\ slots' = [i \in 1..SlotCount |-> IF i <= n THEN Slot(i) ELSE slots[i]]

Smaller(a, b) == IF a <= b THEN a ELSE b

(* The program asks for one event or for as many as there are slots.       *)
Poll ==
    /\ MayCall /\ polled = 0
    /\ \E want \in {1, SlotCount} :
         LET n == Smaller(want, Len(emitted) - drained)
         IN n > 0 /\ PollNative(n) /\ polled' = n
    /\ UNCHANGED <<emitted, got>> /\ UNCHANGED lifeVars /\ UNCHANGED textVars

(* The binding copies a slot; what it reads of a freed buffer is anything. *)
Copied(s) ==
    [kind |-> LanternEventKind[s.kind], seq |-> s.seq,
     data |-> IF s.data = Null THEN 0 ELSE IF s.data \in buffers THEN s.data ELSE -1]

CopyOut ==
    /\ polled > 0
    /\ got' = got \o [i \in 1..polled |-> Copied(slots[i])]
    /\ polled' = 0
    /\ UNCHANGED <<emitted, drained, seq, buffers, slots>> /\ UNCHANGED lifeVars /\ UNCHANGED textVars

-----------------------------------------------------------------------------
(* Texts                                                                   *)

(* The node's friends, bookmarks or tickets change while a text is read.   *)
Edit ==
    /\ native = "open" /\ text.version < MaxEdits
    /\ \E n \in 0..MaxLength : text' = [version |-> text.version + 1, length |-> n]
    /\ readings' = IF reader.at = "rest" THEN readings ELSE readings \cup {text'}
    /\ UNCHANGED reader /\ UNCHANGED lifeVars /\ UNCHANGED pollVars

(* write_text: the text and its NUL, or how long the text is.              *)
FitsTightly(room) == room >= text.length + 2     \* a mutant counts the NUL twice
Fits(room) == room >= text.length + 1

TextFirst ==
    /\ MayCall /\ reader.at = "rest"
    /\ reader' = IF Fits(FirstRoom)
                 THEN [at |-> "given", room |-> FirstRoom, version |-> text.version]
                 ELSE [at |-> "again", room |-> text.length + 1, version |-> text.version]
    /\ readings' = {text}
    /\ UNCHANGED text /\ UNCHANGED lifeVars /\ UNCHANGED pollVars

TextAgain ==
    /\ reader.at = "again"
    /\ reader' = [reader EXCEPT !.at = IF Fits(reader.room) THEN "given" ELSE "thrown",
                                !.version = text.version]
    /\ UNCHANGED <<text, readings>> /\ UNCHANGED lifeVars /\ UNCHANGED pollVars

TextReturns ==
    /\ reader.at \in {"given", "thrown"}
    /\ reader' = Resting /\ readings' = {}
    /\ UNCHANGED text /\ UNCHANGED lifeVars /\ UNCHANGED pollVars

CallNext ==
    \/ NodeOpen \/ EnableRecords \/ Release
    \/ \E d \in Disposers : Dispose(d) \/ NodeClose(d)
    \/ Emit \/ Poll \/ CopyOut
    \/ Edit \/ TextFirst \/ TextAgain \/ TextReturns

CallSpec == CallInit /\ [][CallNext]_callVars

-----------------------------------------------------------------------------
CallTypeOK ==
    /\ opening \in {"off", "opened", "failed", "ready", "refused"}
    /\ handle \in BOOLEAN /\ released \in BOOLEAN
    /\ native \in {"none", "open", "closed", "closed twice"}
    /\ disposing \subseteq Disposers
    /\ emitted \in Seq(Emittable) /\ drained \in 0..Len(emitted) /\ seq \in Nat
    /\ buffers \subseteq 1..MaxEmitted /\ polled \in 0..SlotCount
    /\ \A i \in 1..SlotCount : slots[i].kind \in 0..Len(EventKinds) /\ slots[i].data \in 0..MaxEmitted
    /\ text \in [version : 0..MaxEdits, length : 0..MaxLength]
    /\ reader.at \in {"rest", "given", "again", "thrown"}
    /\ readings \subseteq [version : 0..MaxEdits, length : 0..MaxLength]

(* The program is handed every event the node gave to lt_poll, once, in    *)
(* order and numbered without a gap, under its own name and with its own   *)
(* payload: LanternNode.Poll "copies every payload, so nothing here points *)
(* into native memory once it returns".  Events that differ have different *)
(* names, unless both are lines of the log: a line of the past is never    *)
(* taken for a new one ("never replay timers/notifications", lantern.h).   *)
EventsHanded ==
    /\ \A i \in DOMAIN got :
         /\ got[i].seq = i
         /\ got[i].data = IF emitted[i].is \in Silent THEN 0 ELSE i
         /\ got[i].kind \in {emitted[i].is, "ChannelHistory", "NostrFailed", "Log"}
    /\ \A i, j \in DOMAIN got :
         got[i].kind = got[j].kind /\ got[i].kind # "Log" => emitted[i] = emitted[j]

(* A text is what the node had at one moment of the call, and the second   *)
(* call fails only if the text grew after the first ("retry with *out_len  *)
(* + 1 bytes on LT_E_BUFFER", lantern.h).                                  *)
TextsGiven ==
    /\ reader.at = "given" => \E t \in readings : t.version = reader.version
    /\ reader.at = "thrown" => \E t \in readings : t.length >= reader.room

(* A native node that was opened is held by the binding or being closed,   *)
(* whichever of Open's steps fails, and it is closed at most once whoever  *)
(* disposes of the binding.                                                *)
NodesReturned ==
    /\ native = "open" /\ opening # "opened" => handle \/ disposing # {}
    /\ native # "closed twice"

BindingTrue == EventsHanded /\ TextsGiven /\ NodesReturned
=============================================================================
