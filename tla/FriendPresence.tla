--------------------------- MODULE FriendPresence ---------------------------
(***************************************************************************)
(* How a friend's status gets onto the list of a node (heard, set_offline, *)
(* on_frame and heartbeat_loop in node/friends.rs).                        *)
(*                                                                         *)
(* The friend says its status when a link comes up, when the player        *)
(* changes it, and with every heartbeat, unless it is invisible.  Every    *)
(* frame is a stream of its own, sent by a task of its own, so the last    *)
(* word need not arrive last.  The watching node forgets who is silent.    *)
(***************************************************************************)
EXTENDS Integers

CONSTANTS
    Visible,      \* Status: online, away, busy
    Invisible,
    Silence,      \* beats of silence after which a friend is offline
    MaxChanges,   \* bound on the changes of status
    MaxBreaks,    \* bound on the links that break
    MaxDrops,     \* bound on the frames the watching node's limiter drops
    MaxFlight     \* bound on equal frames under way

ASSUME InvisibleAssumption == Invisible \notin Visible
ASSUME PresenceBoundsAssumption ==
    /\ Silence \in Nat /\ MaxChanges \in Nat /\ MaxBreaks \in Nat /\ MaxDrops \in Nat
    /\ MaxFlight \in Nat \ {0}

VARIABLES
    status,     \* the friend's Me::status
    changes,
    announcing, \* FriendCmd::Announce is queued
    linkUp,     \* a link between the two nodes
    broken,
    inFlight,   \* frames under way on the link, by the status they carry
    dropped,
    online,     \* FriendDevice::online at the watching node
    shown,      \* FriendDevice::status there
    silent      \* beats since a frame was heard; Silence + 1 when never

presenceVars == <<status, changes, announcing, linkUp, broken, inFlight, dropped,
                  online, shown, silent>>
friendVars == <<status, changes, announcing>>
linkVars == <<linkUp, broken, inFlight, dropped>>
listVars == <<online, shown, silent>>

Statuses == Visible \cup {Invisible}
Nothing == [s \in Statuses |-> 0]
Never == Silence + 1

PresenceInit ==
    /\ status \in Statuses /\ changes = 0 /\ announcing = FALSE
    /\ linkUp = FALSE /\ broken = 0 /\ inFlight = Nothing /\ dropped = 0
    /\ online = FALSE /\ shown = Invisible /\ silent = Never

Sends(s) == inFlight' = [inFlight EXCEPT ![s] = IF @ < MaxFlight THEN @ + 1 ELSE @]

-----------------------------------------------------------------------------
(* The friend                                                              *)

SetPresence(s) ==
    /\ changes < MaxChanges /\ s # status
    /\ changes' = changes + 1
    /\ status' = s
    /\ announcing' = TRUE
    /\ UNCHANGED <<linkVars, listVars>>

(* The runner says the status as it is by then.                            *)
Announce ==
    /\ announcing
    /\ announcing' = FALSE
    /\ IF linkUp THEN Sends(status) ELSE UNCHANGED inFlight
    /\ UNCHANGED <<status, changes, linkUp, broken, dropped, listVars>>

(* heartbeat_loop: an invisible node says nothing.                         *)
Beat ==
    /\ linkUp /\ status # Invisible
    /\ Sends(status)
    /\ UNCHANGED <<friendVars, linkUp, broken, dropped, listVars>>

(* run_link begins with hello_frame, invisible or not.                     *)
LinkUp ==
    /\ ~linkUp
    /\ linkUp' = TRUE
    /\ inFlight' = [Nothing EXCEPT ![status] = 1]
    /\ UNCHANGED <<friendVars, broken, dropped, listVars>>

-----------------------------------------------------------------------------
(* The watching node                                                       *)

(* heard.  The mutant looks at a status only when the friend was offline.  *)
HeardOnce(s) ==
    IF s = Invisible
    THEN online' = FALSE /\ shown' = s /\ silent' = Never
    ELSE online' = TRUE /\ shown' = (IF online THEN shown ELSE s) /\ silent' = 0

Heard(s) ==
    IF s = Invisible
    THEN online' = FALSE /\ shown' = s /\ silent' = Never
    ELSE online' = TRUE /\ shown' = s /\ silent' = 0

HearFrame(s) ==
    /\ inFlight[s] > 0
    /\ inFlight' = [inFlight EXCEPT ![s] = @ - 1]
    /\ Heard(s)
    /\ UNCHANGED <<friendVars, linkUp, broken, dropped>>

(* The limiter drops a frame of a link that is too busy.                   *)
LimiterDrops(s) ==
    /\ inFlight[s] > 0 /\ dropped < MaxDrops
    /\ inFlight' = [inFlight EXCEPT ![s] = @ - 1]
    /\ dropped' = dropped + 1
    /\ UNCHANGED <<friendVars, linkUp, broken, listVars>>

(* heartbeat_loop at the watching node: it counts the beats and forgets    *)
(* who was silent for too long.  The mutant waits for the link to break.   *)
SilentWhileLinked == ~linkUp
SilentTooLong == silent > Silence

WatchSilence ==
    /\ online \/ silent < Never
    /\ silent' = IF silent < Never THEN silent + 1 ELSE silent
    /\ online' = (online /\ ~SilentTooLong)
    /\ UNCHANGED <<friendVars, linkVars, shown>>

(* set_offline when the link's task ends; its frames are gone.             *)
LinkBreaks ==
    /\ linkUp /\ broken < MaxBreaks
    /\ linkUp' = FALSE /\ broken' = broken + 1
    /\ inFlight' = Nothing
    /\ online' = FALSE /\ silent' = Never
    /\ UNCHANGED <<friendVars, dropped, shown>>

PresenceNext ==
    \/ \E s \in Statuses : SetPresence(s) \/ HearFrame(s) \/ LimiterDrops(s)
    \/ Announce \/ Beat \/ LinkUp \/ WatchSilence \/ LinkBreaks

PresenceSpec == PresenceInit /\ [][PresenceNext]_presenceVars

(* The two loops tick, the runner works off its queue, frames arrive, and  *)
(* a node without a link dials again.                                      *)
PresenceFairness ==
    /\ WF_presenceVars(Announce) /\ WF_presenceVars(Beat) /\ WF_presenceVars(WatchSilence)
    /\ WF_presenceVars(LinkUp)
    /\ \A s \in Statuses : WF_presenceVars(HearFrame(s))

PresenceFairSpec == PresenceSpec /\ PresenceFairness

-----------------------------------------------------------------------------
PresenceTypeOK ==
    /\ status \in Statuses /\ shown \in Statuses
    /\ changes \in 0..MaxChanges /\ broken \in 0..MaxBreaks /\ dropped \in 0..MaxDrops
    /\ announcing \in BOOLEAN /\ linkUp \in BOOLEAN /\ online \in BOOLEAN
    /\ inFlight \in [Statuses -> 0..MaxFlight]
    /\ silent \in 0..Never

(* A friend that goes invisible and stays so is shown offline for good,    *)
(* whichever of its frames arrived last or were dropped: "Invisible stops  *)
(* the heartbeat and friends see this node go offline" (set_presence).     *)
InvisibleUnseen == <>[](status = Invisible) => <>[](~online)

(* The status a friend settles on is the one it is shown with, again and   *)
(* again, and no other is shown any more (heard, heartbeat_loop).          *)
StatusArrives ==
    \A s \in Visible :
        <>[](status = s) => []<>(online /\ shown = s) /\ <>[](online => shown = s)
=============================================================================
