----------------------------- MODULE DeviceLists -----------------------------
(***************************************************************************)
(* Device lists over nostr (nostr.rs and node/nostr.rs): the devices of a  *)
(* user publish, each with its own clock, one list per user that a relay   *)
(* keeps only the newest of; a friend's node fetches a list and binds the  *)
(* friend devices it names to the user, in the database                    *)
(* (friend_bind_nostr in store.rs) and in memory (bind_friends).           *)
(*                                                                         *)
(* Every claim in a list is the one its device signed for that user: a     *)
(* list is the set of its devices.  The relay is external.                 *)
(***************************************************************************)
EXTENDS Integers, FiniteSets

CONSTANTS
    Devices,
    Users,       \* nostr keys
    NoUser,
    MaxTime,     \* bound on the clocks
    MaxPublish   \* bound on the publications that begin

ASSUME NoUserAssumption == NoUser \notin Users
ASSUME DeviceBoundsAssumption == MaxTime \in Nat /\ MaxPublish \in Nat

VARIABLES
    keys,       \* the user whose secret a device holds
    time,       \* the time a device reads
    list,       \* what the relay holds of a user
    postings,   \* a device's publication under way
    published,  \* publications begun
    fetching,   \* devices the friend's node has still to bind to a user
    binding,    \* the device bound in the database and not yet in memory
    row,        \* the friend a device is under in the database
    rowKey,     \* the nostr key of a friend in the database
    shownKey,   \* the nostr key of a device in memory (FriendInfo::nostr)
    named,      \* history: users whose fetched list named a device
    overlapped, \* history: users with overlapping publications
    unfetched,  \* history: users a publication of whom could not fetch the list
    rekeyed,    \* history: a friend's key was replaced by another one
    refusedNews \* history: users a publication of whom the relay refused

deviceVars == <<keys, time, list, postings, published, fetching, binding, row, rowKey,
                shownKey, named, overlapped, unfetched, rekeyed, refusedNews>>
publishVars == <<keys, time, list, postings, published, overlapped, unfetched, refusedNews>>
bindVars == <<fetching, binding, row, rowKey, shownKey, named, rekeyed>>

MaxStamp == MaxTime + MaxPublish
NoList == [devices |-> {}, at |-> -1]
Resting == [at |-> "rest", user |-> NoUser, devices |-> {}, replaces |-> -1]

(* Two invites are two friends with a device each.                         *)
DeviceInit ==
    /\ keys = [d \in Devices |-> NoUser]
    /\ time = [d \in Devices |-> 0]
    /\ list = [u \in Users |-> NoList]
    /\ postings = [d \in Devices |-> Resting] /\ published = 0
    /\ fetching = [u \in Users |-> {}]
    /\ binding = [u \in Users |-> {}]
    /\ row = [d \in Devices |-> d]
    /\ rowKey = [d \in Devices |-> NoUser]
    /\ shownKey = [d \in Devices |-> NoUser]
    /\ named = {} /\ overlapped = {} /\ unfetched = {} /\ rekeyed = FALSE /\ refusedNews = {}

-----------------------------------------------------------------------------
(* Publishing.  (Once the last publication has begun, neither keys nor the *)
(* clock of a device that is at rest matter any more: both stay.)          *)

TimePasses(d) ==
    /\ time[d] < MaxTime
    /\ published < MaxPublish \/ postings[d].at # "rest"
    /\ time' = [time EXCEPT ![d] = @ + 1]
    /\ UNCHANGED <<keys, list, postings, published, overlapped, unfetched, refusedNews>>
    /\ UNCHANGED bindVars

(* nostr_keys makes keys on first use, nostr_import takes those of another *)
(* device.                                                                 *)
TakeKeys(d, u) ==
    /\ keys[d] # u /\ published < MaxPublish
    /\ keys' = [keys EXCEPT ![d] = u]
    /\ UNCHANGED <<time, list, postings, published, overlapped, unfetched, refusedNews>>
    /\ UNCHANGED bindVars

Publish(d) ==
    /\ keys[d] # NoUser /\ postings[d].at = "rest" /\ published < MaxPublish
    /\ published' = published + 1
    /\ postings' = [postings EXCEPT ![d] = [Resting EXCEPT !.at = "fetch", !.user = keys[d]]]
    /\ overlapped' = IF \E e \in Devices : postings[e].user = keys[d]
                     THEN overlapped \cup {keys[d]} ELSE overlapped
    /\ UNCHANGED <<keys, time, list, unfetched, refusedNews>> /\ UNCHANGED bindVars

(* existing_claims: a fetch that fails is a list that is empty.            *)
ExistingClaims(u) == list[u]

FetchOwn(d, ok) ==
    /\ postings[d].at = "fetch"
    /\ LET u == postings[d].user
           found == IF ok THEN ExistingClaims(u) ELSE NoList
       IN /\ postings' = [postings EXCEPT ![d] =
                [at |-> "send", user |-> u, devices |-> found.devices \cup {d},
                 replaces |-> found.at]]
          /\ unfetched' = IF ok THEN unfetched ELSE unfetched \cup {u}
    /\ UNCHANGED <<keys, time, list, published, overlapped, refusedNews>> /\ UNCHANGED bindVars

(* device_list_event moves the time stamp past the list it replaces.       *)
StampNow(d) == time[d]     \* a mutant: the time, whatever it replaces
Stamp(d) == IF postings[d].replaces >= time[d] THEN postings[d].replaces + 1 ELSE time[d]

(* The relay refuses a list that is not newer than the one it has.         *)
Send(d) ==
    /\ postings[d].at = "send"
    /\ LET u == postings[d].user
       IN IF Stamp(d) > list[u].at
          THEN /\ list' = [list EXCEPT ![u] = [devices |-> postings[d].devices, at |-> Stamp(d)]]
               /\ UNCHANGED refusedNews
          ELSE refusedNews' = refusedNews \cup {u} /\ UNCHANGED list
    /\ postings' = [postings EXCEPT ![d] = Resting]
    /\ UNCHANGED <<keys, time, published, overlapped, unfetched>> /\ UNCHANGED bindVars

(* No relay is reached, or the program ends.                               *)
SendFails(d) ==
    /\ postings[d].at # "rest"
    /\ postings' = [postings EXCEPT ![d] = Resting]
    /\ UNCHANGED <<keys, time, list, published, overlapped, unfetched, refusedNews>>
    /\ UNCHANGED bindVars

-----------------------------------------------------------------------------
(* The friend's node                                                       *)

(* nostr_fetch_devices                                                     *)
FetchDevices(u) ==
    /\ fetching[u] = {} /\ binding[u] = {} /\ list[u].devices # {}
    /\ fetching' = [fetching EXCEPT ![u] = list[u].devices]
    /\ named' = named \cup ({u} \X list[u].devices)
    /\ UNCHANGED <<binding, row, rowKey, shownKey, rekeyed>> /\ UNCHANGED publishVars

(* friend_bind_nostr: the friend with the key takes the device; without    *)
(* one, the friend the device is under takes the key.                      *)
(* The mutant moves the owner's devices under the friend of the device.    *)
MovesOwner(d, owner) == [e \in Devices |-> IF row[e] = owner THEN row[d] ELSE row[e]]
Moves(d, owner) == [row EXCEPT ![d] = owner]

BindStored(u, d) ==
    /\ d \in fetching[u] /\ binding[u] = {}
    /\ fetching' = [fetching EXCEPT ![u] = @ \ {d}]
    /\ binding' = [binding EXCEPT ![u] = {d}]
    /\ \/ \E owner \in Devices :
            /\ rowKey[owner] = u /\ row' = Moves(d, owner)
            /\ rowKey' = [r \in Devices |-> IF r \in {row'[e] : e \in Devices}
                                            THEN rowKey[r] ELSE NoUser]
            /\ UNCHANGED rekeyed
       \/ /\ \A r \in Devices : rowKey[r] # u
          /\ rowKey' = [rowKey EXCEPT ![row[d]] = u]
          /\ rekeyed' = (rekeyed \/ rowKey[row[d]] # NoUser)
          /\ UNCHANGED row
    /\ UNCHANGED <<shownKey, named>> /\ UNCHANGED publishVars

BindShown(u) ==
    /\ binding[u] # {}
    /\ binding' = [binding EXCEPT ![u] = {}]
    /\ shownKey' = [d \in Devices |-> IF d \in binding[u] THEN u ELSE shownKey[d]]
    /\ UNCHANGED <<fetching, row, rowKey, named, rekeyed>> /\ UNCHANGED publishVars

(* A restart reads the friends back from the database (load in friends.rs).*)
RestartFriend ==
    /\ fetching' = [u \in Users |-> {}] /\ binding' = [u \in Users |-> {}]
    /\ shownKey' = [d \in Devices |-> rowKey[row[d]]]
    /\ UNCHANGED <<row, rowKey, named, rekeyed>> /\ UNCHANGED publishVars

DeviceNext ==
    \/ \E d \in Devices :
        \/ TimePasses(d) \/ Publish(d) \/ Send(d) \/ SendFails(d)
        \/ \E ok \in BOOLEAN : FetchOwn(d, ok)
        \/ \E u \in Users : TakeKeys(d, u) \/ BindStored(u, d)
    \/ \E u \in Users : FetchDevices(u) \/ BindShown(u)
    \/ RestartFriend

DeviceSpec == DeviceInit /\ [][DeviceNext]_deviceVars

-----------------------------------------------------------------------------
DevicesTypeOK ==
    /\ keys \in [Devices -> Users \cup {NoUser}] /\ time \in [Devices -> 0..MaxTime]
    /\ list \in [Users -> [devices : SUBSET Devices, at : -1..MaxStamp]]
    /\ postings \in [Devices -> [at : {"rest", "fetch", "send"}, user : Users \cup {NoUser},
                                   devices : SUBSET Devices, replaces : -1..MaxStamp]]
    /\ published \in 0..MaxPublish
    /\ fetching \in [Users -> SUBSET Devices] /\ binding \in [Users -> SUBSET Devices]
    /\ row \in [Devices -> Devices]
    /\ rowKey \in [Devices -> Users \cup {NoUser}] /\ shownKey \in [Devices -> Users \cup {NoUser}]
    /\ named \subseteq Users \X Devices
    /\ overlapped \subseteq Users /\ unfetched \subseteq Users /\ refusedNews \subseteq Users /\ rekeyed \in BOOLEAN

(* However the clocks of a user's devices differ, publications that fetch  *)
(* the list and do not overlap are never refused as old, and a device that *)
(* is about to publish has the newest list in hand: "two devices           *)
(* publishing within the same second must still move the time forward"     *)
(* (device_list_event in nostr.rs, existing_claims in node/nostr.rs).      *)
PublicationsHeard ==
    \A u \in Users \ (overlapped \cup unfetched) :
        /\ u \notin refusedNews
        /\ \A d \in Devices : postings[d].at = "send" /\ postings[d].user = u
             => list[u].devices \subseteq postings[d].devices /\ Stamp(d) > list[u].at

(* A device is shown with a nostr key only if the list of that key named   *)
(* it, through merges of friends and restarts ("set only once a device     *)
(* list signed by that key has listed this device", friends.rs), as long   *)
(* as no friend's key was replaced by another (friend_bind_nostr then      *)
(* changes the key of all of the friend's devices).                        *)
ShownAsListed ==
    ~rekeyed => \A d \in Devices : shownKey[d] # NoUser => <<shownKey[d], d>> \in named

(* A user's publications reach its friends, and nothing else does.         *)
ListsTrue == PublicationsHeard /\ ShownAsListed
=============================================================================
