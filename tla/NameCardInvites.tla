-------------------------- MODULE NameCardInvites --------------------------
(***************************************************************************)
(* Friend invites that come by Nostr: the node reads them from relays and  *)
(* raises an event for each that is news to it (nostr_check_inbox in       *)
(* node/nostr.rs), the plugin keeps the pending ones and remembers those   *)
(* dealt with (NostrInbox.cs, LanternService.cs), and accepts one through  *)
(* the node, which answers later with an event.  The bounded channel may   *)
(* drop every event.                                                       *)
(*                                                                         *)
(* Relays hold what anybody sent, for any time, and answer with any part   *)
(* of it; what the inviter answers is its own affair (FriendRegistry).     *)
(***************************************************************************)
EXTENDS Integers, Sequences, FiniteSets

CONSTANTS
    Invites,             \* tickets
    Inviters,            \* those who send them, one device each
    InviterOf,           \* [Invites -> Inviters]
    InboxCapacity,       \* pending invites (32 in the code)
    SenderCapacity,      \* pending invites of one sender (4)
    IgnoreCapacity,      \* remembered invites (256)
    WindowLimit,         \* invites admitted in 30 seconds (64)
    SenderWindowLimit,   \* and of one sender (8)
    MaxAccepts,          \* bound on the handles of one node
    MaxWaiting,          \* bound on the events not polled
    MaxNodes             \* bound on the nodes, one after the other

ASSUME InvitersAssumption == InviterOf \in [Invites -> Inviters]
ASSUME InboxBoundsAssumption ==
    /\ InboxCapacity \in Nat /\ SenderCapacity \in Nat /\ IgnoreCapacity \in Nat
    /\ WindowLimit \in Nat /\ SenderWindowLimit \in Nat
    /\ MaxAccepts \in Nat /\ MaxWaiting \in Nat /\ MaxNodes \in Nat \ {0}

NotAccepting == 0
AcceptHandles == 1..MaxAccepts

VARIABLES
    expired,        \* invites whose time is over
    standing,       \* what an inviter is to the node: a stranger, a friend, or blocked
    nodeCount,      \* nodes opened so far
    inbox,          \* nostr_check_inbox: invites it has still to go through
    accepting,      \* invite_accept: handles at work, with their invite
    waiting,        \* events not polled
    missed,         \* history: handles whose event the full channel dropped
    invitesOn,      \* NostrInvitesEnabled
    pendingInvites, \* NostrInbox.pending
    ignored,        \* NostrInbox.ignored, the oldest first
    admissions,     \* NostrInbox.admissions: admitted in this window, by sender
    dealt           \* history: invites ignored, or known to be accepted, and not forgotten

inboxSide == <<standing, nodeCount, inbox, accepting, waiting, missed>>
pluginInbox == <<invitesOn, pendingInvites, ignored, admissions, dealt>>
inviteVars == <<expired, standing, nodeCount, inbox, accepting, waiting, missed, invitesOn,
                pendingInvites, ignored, admissions, dealt>>

InvitesInit ==
    /\ expired = {} /\ standing = [s \in Inviters |-> "stranger"]
    /\ nodeCount = 1 /\ inbox = {} /\ accepting = <<>> /\ waiting = <<>> /\ missed = {}
    /\ invitesOn = TRUE /\ pendingInvites = {} /\ ignored = <<>>
    /\ admissions = [s \in Inviters |-> 0] /\ dealt = {}

Keys == {p.invite : p \in pendingInvites}
Remembered == {ignored[i] : i \in DOMAIN ignored}

-----------------------------------------------------------------------------
(* The node                                                                *)

Expires(i) ==
    /\ i \notin expired /\ expired' = expired \cup {i}
    /\ UNCHANGED inboxSide /\ UNCHANGED pluginInbox

(* Whatever happens in the node's friend and block lists meanwhile.        *)
ListsChange(s) ==
    /\ \E now \in {"stranger", "friend", "blocked"} \ {standing[s]} :
         standing' = [standing EXCEPT ![s] = now]
    /\ UNCHANGED <<expired, nodeCount, inbox, accepting, waiting, missed>>
    /\ UNCHANGED pluginInbox

(* Shared::emit: what does not fit into the channel is dropped.            *)
Raises(e) ==
    IF Len(waiting) < MaxWaiting
    THEN waiting' = Append(waiting, e) /\ UNCHANGED missed
    ELSE UNCHANGED waiting /\ missed' = missed \cup ({e.handle} \ {NotAccepting})

News(i) == standing[InviterOf[i]] = "stranger" /\ i \notin expired

InboxRaises ==
    /\ \E i \in inbox :
         /\ inbox' = inbox \ {i}
         /\ IF News(i) THEN Raises([kind |-> "invite", invite |-> i, handle |-> NotAccepting])
            ELSE UNCHANGED <<waiting, missed>>
    /\ UNCHANGED <<expired, standing, nodeCount, accepting>>
    /\ UNCHANGED pluginInbox

(* accept_invite ends: the inviter welcomes the node, or that was not to   *)
(* be heard.                                                               *)
AcceptEnds(h) ==
    /\ accepting[h].runs
    /\ accepting' = [accepting EXCEPT ![h].runs = FALSE]
    /\ LET i == accepting[h].invite
       IN \/ /\ standing' = [standing EXCEPT ![InviterOf[i]] = "friend"]
             /\ Raises([kind |-> "added", invite |-> i, handle |-> h])
          \/ /\ UNCHANGED standing
             /\ Raises([kind |-> "failed", invite |-> i, handle |-> h])
    /\ UNCHANGED <<expired, nodeCount, inbox>> /\ UNCHANGED pluginInbox

-----------------------------------------------------------------------------
(* The plugin's framework thread                                           *)

(* Relays::invites: some of what was wrapped for this user and opens.      *)
Found == (SUBSET Invites) \ {{}}

(* One name-card job at a time, for a player who wants invites.            *)
CheckInbox ==
    /\ invitesOn /\ inbox = {}
    /\ \E found \in Found : inbox' = found
    /\ UNCHANGED <<expired, standing, nodeCount, accepting, waiting, missed>>
    /\ UNCHANGED pluginInbox

Admitted(n, s) ==
    LET total[S \in SUBSET Inviters] ==
            IF S = {} THEN 0 ELSE LET x == CHOOSE x \in S : TRUE IN n[x] + total[S \ {x}]
    IN total[Inviters] < WindowLimit /\ n[s] < SenderWindowLimit

(* NostrInbox.Add.  An invite is refused without a trace, or counted in    *)
(* the window, which may just have begun.                                  *)
Add(i) ==
    LET s == InviterOf[i]
    IN  IF \/ i \in Remembered \cup Keys \/ Cardinality(pendingInvites) >= InboxCapacity
           \/ Cardinality({p \in pendingInvites : InviterOf[p.invite] = s}) >= SenderCapacity
        THEN UNCHANGED <<pendingInvites, admissions>>
        ELSE \E window \in {admissions, [x \in Inviters |-> 0]} :
               IF Admitted(window, s)
               THEN /\ admissions' = [window EXCEPT ![s] = @ + 1]
                    /\ pendingInvites' = pendingInvites \cup {[invite |-> i, handle |-> NotAccepting]}
               ELSE admissions' = window /\ UNCHANGED pendingInvites

(* NostrInbox.Remember, which forgets the oldest.                          *)
Remember(i) ==
    LET kept == IF i \in Remembered THEN ignored ELSE Append(ignored, i)
    IN  IF Len(kept) > IgnoreCapacity
        THEN ignored' = Tail(kept) /\ dealt' = (dealt \cup {i}) \ {Head(kept)}
        ELSE ignored' = kept /\ dealt' = dealt \cup {i}

(* NostrInbox.Complete.  The mutant leaves an accept that failed as it is. *)
CompleteAdded(h, success) ==
    IF success /\ \E p \in pendingInvites : p.handle = h
    THEN LET p == CHOOSE p \in pendingInvites : p.handle = h
         IN pendingInvites' = pendingInvites \ {p} /\ Remember(p.invite)
    ELSE UNCHANGED <<pendingInvites, ignored, dealt>>

Complete(h, success) ==
    IF \E p \in pendingInvites : p.handle = h
    THEN LET p == CHOOSE p \in pendingInvites : p.handle = h
         IN IF success
            THEN pendingInvites' = pendingInvites \ {p} /\ Remember(p.invite)
            ELSE /\ pendingInvites' = (pendingInvites \ {p}) \cup {[p EXCEPT !.handle = NotAccepting]}
                 /\ UNCHANGED <<ignored, dealt>>
    ELSE UNCHANGED <<pendingInvites, ignored, dealt>>

HearInviteEvent ==
    /\ waiting # <<>> /\ waiting' = Tail(waiting)
    /\ LET e == Head(waiting)
       IN \/ /\ e.kind = "invite" /\ UNCHANGED <<ignored, dealt>>
             /\ IF invitesOn THEN Add(e.invite) ELSE UNCHANGED <<pendingInvites, admissions>>
          \/ /\ e.kind # "invite" /\ Complete(e.handle, e.kind = "added") /\ UNCHANGED admissions
    /\ UNCHANGED <<expired, standing, nodeCount, inbox, accepting, missed, invitesOn>>

(* AcceptNostrInvite: Node::invite_accept refuses what it can see is void. *)
AcceptNostrInvite(p) ==
    /\ invitesOn /\ p \in pendingInvites /\ p.handle = NotAccepting
    /\ standing[InviterOf[p.invite]] # "blocked" /\ p.invite \notin expired
    /\ Len(accepting) < MaxAccepts
    /\ accepting' = Append(accepting, [invite |-> p.invite, runs |-> TRUE])
    /\ pendingInvites' = (pendingInvites \ {p}) \cup {[p EXCEPT !.handle = Len(accepting')]}
    /\ UNCHANGED <<expired, standing, nodeCount, inbox, waiting, missed>>
    /\ UNCHANGED <<invitesOn, ignored, admissions, dealt>>

IgnoreNostrInvite(p) ==
    /\ p \in pendingInvites /\ p.handle = NotAccepting
    /\ pendingInvites' = pendingInvites \ {p} /\ Remember(p.invite)
    /\ UNCHANGED <<invitesOn, admissions>> /\ UNCHANGED <<expired, inboxSide>>

SetNostrInvitesEnabled ==
    /\ invitesOn' = ~invitesOn
    /\ pendingInvites' = IF invitesOn THEN {} ELSE pendingInvites
    /\ UNCHANGED <<ignored, admissions, dealt>> /\ UNCHANGED <<expired, inboxSide>>

(* Stop, and Start with a new node, whose handles begin anew.              *)
NextNode ==
    /\ nodeCount < MaxNodes /\ nodeCount' = nodeCount + 1
    /\ inbox' = {} /\ accepting' = <<>> /\ waiting' = <<>> /\ missed' = {}
    /\ pendingInvites' = {}
    /\ UNCHANGED <<expired, standing, invitesOn, ignored, admissions, dealt>>

InvitesNext ==
    \/ \E i \in Invites : Expires(i)
    \/ \E s \in Inviters : ListsChange(s)
    \/ InboxRaises \/ CheckInbox \/ HearInviteEvent
    \/ \E h \in DOMAIN accepting : AcceptEnds(h)
    \/ \E p \in pendingInvites : AcceptNostrInvite(p) \/ IgnoreNostrInvite(p)
    \/ SetNostrInvitesEnabled \/ NextNode

InvitesSpec == InvitesInit /\ [][InvitesNext]_inviteVars

-----------------------------------------------------------------------------
InvitesTypeOK ==
    /\ expired \subseteq Invites /\ standing \in [Inviters -> {"stranger", "friend", "blocked"}]
    /\ nodeCount \in 1..MaxNodes /\ inbox \subseteq Invites
    /\ Len(accepting) <= MaxAccepts /\ Len(waiting) <= MaxWaiting
    /\ missed \subseteq AcceptHandles /\ invitesOn \in BOOLEAN
    /\ pendingInvites \subseteq [invite : Invites, handle : AcceptHandles \cup {NotAccepting}]
    /\ Cardinality(pendingInvites) <= InboxCapacity /\ Len(ignored) <= IgnoreCapacity
    /\ admissions \in [Inviters -> 0..SenderWindowLimit] /\ dealt \subseteq Invites

(* The player waits for an answer ("Already asking them...") for a reason: *)
(* the node still asks the inviter, or its event is not polled or was      *)
(* dropped, whatever was turned off, ignored or restarted meanwhile.       *)
AskingForReason ==
    \A p \in pendingInvites : p.handle # NotAccepting =>
        \/ accepting[p.handle].runs
        \/ \E i \in DOMAIN waiting : waiting[i].handle = p.handle
        \/ p.handle \in missed

(* What the player ignored, or the inviter has accepted, does not come     *)
(* back however often the relays repeat it, until more than IgnoreCapacity *)
(* others were dealt with; and no invite is pending twice.                 *)
DealtWithGone ==
    /\ Keys \cap dealt = {}
    /\ \A p, q \in pendingInvites : p.invite = q.invite => p = q

InboxTrue == AskingForReason /\ DealtWithGone
=============================================================================
