--------------------------- MODULE SupportMessages ---------------------------
(***************************************************************************)
(* Letters between a player and the author of the plugin (support_send,    *)
(* support_reply, send_support, stranger and support_frame in              *)
(* node/friends.rs).                                                       *)
(*                                                                         *)
(* A letter has a connection of its own, to a node that need not be a      *)
(* friend, and a verdict: SupportDelivered or SupportFailed.  It is also a *)
(* row among the writer's messages.  When the two are friends, or become   *)
(* friends later, a friend link sends every row that was not acknowledged  *)
(* once more, as a Text with the same id.                                  *)
(***************************************************************************)
EXTENDS Integers

CONSTANTS
    Letters,     \* message ids
    Replies,     \* those the author writes
    MaxSwitches, \* bound on changes of the support contacts and the friend lists
    MaxMishaps   \* bound on failing statements, refusals and deaths of processes

ASSUME RepliesAssumption == Replies \subseteq Letters
ASSUME LetterBoundsAssumption == MaxSwitches \in Nat /\ MaxMishaps \in Nat

Parties == {"player", "author"}

VARIABLES
    contact,    \* Shared::support_contacts of the player has the author
    listing,    \* the parties that have the other on the friend list
    switches,
    rows,       \* outgoing rows on the writer's disk
    marked,     \* those with delivered_at
    taken,       \* incoming rows on the reader's disk
    sender,     \* where the writer's command and send_support are
    session,    \* where the reader's task for the letter's connection is
    onWay,      \* frames on that connection
    texts,      \* Text frames with the letter on a friend link, read or not
    showing,    \* those the reader keeps and is about to show
    confirms,   \* Ack frames on a friend link
    displayed,  \* how often the reader's program was told
    verdicts,   \* SupportDelivered and SupportFailed the writer's was told
    confirmed,  \* FriendDelivered the writer's program was told
    mishaps

letterVars == <<contact, listing, switches, rows, marked, taken, sender, session, onWay,
                texts, showing, confirms, displayed, verdicts, confirmed, mishaps>>
switchVars == <<contact, listing, switches>>
readerVars == <<taken, displayed>>
writerVars == <<rows, marked, verdicts, confirmed>>
linkedVars == <<texts, showing, confirms>>

Writer(l) == IF l \in Replies THEN "author" ELSE "player"
Reader(l) == IF l \in Replies THEN "player" ELSE "author"

SupportInit ==
    /\ contact \in BOOLEAN /\ listing = {} /\ switches = 0
    /\ rows = {} /\ marked = {} /\ taken = {}
    /\ sender = [l \in Letters |-> "unwritten"]
    /\ session = [l \in Letters |-> "none"]
    /\ onWay = [l \in Letters |-> {}]
    /\ texts = {} /\ showing = {} /\ confirms = {}
    /\ displayed = [l \in Letters |-> 0]
    /\ verdicts = [l \in Letters |-> {}]
    /\ confirmed = {}
    /\ mishaps = 0

Mishap == mishaps < MaxMishaps /\ mishaps' = mishaps + 1

-----------------------------------------------------------------------------
(* Around the letters                                                      *)

(* set_support_contacts.                                                   *)
SetContacts ==
    /\ switches < MaxSwitches /\ switches' = switches + 1
    /\ contact' = ~contact
    /\ UNCHANGED <<listing, rows, marked, taken, sender, session, onWay, linkedVars,
                   displayed, verdicts, confirmed, mishaps>>

(* The other becomes a friend, or is one no more (see FriendRegistry).     *)
ListChanges(n) ==
    /\ switches < MaxSwitches /\ switches' = switches + 1
    /\ listing' = IF n \in listing THEN listing \ {n} ELSE listing \cup {n}
    /\ UNCHANGED <<contact, rows, marked, taken, sender, session, onWay, linkedVars,
                   displayed, verdicts, confirmed, mishaps>>

-----------------------------------------------------------------------------
(* The writer                                                              *)

SenderGoes(l, here, there) == sender[l] = here /\ sender' = [sender EXCEPT ![l] = there]

(* Node::support_send looks for the contact, Node::support_reply does not. *)
Write(l) ==
    /\ l \in Replies \/ contact
    /\ SenderGoes(l, "unwritten", "queued")
    /\ UNCHANGED <<switchVars, readerVars, writerVars, linkedVars, session, onWay, mishaps>>

(* FriendCmd::Support: message_out, which may fail, and then a task.       *)
KeepCopy(l) ==
    /\ SenderGoes(l, "queued", "dial")
    /\ \/ rows' = rows \cup {l} /\ UNCHANGED mishaps
       \/ Mishap /\ UNCHANGED rows
    /\ UNCHANGED <<switchVars, readerVars, marked, verdicts, confirmed, linkedVars, session, onWay>>

Verdict(l, v) == verdicts' = [verdicts EXCEPT ![l] = @ \cup {v}]

(* send_support: the connection comes up, and the reader takes it for a    *)
(* friend's or a stranger's (FriendProtocol::accept).                      *)
DialReader(l) ==
    /\ SenderGoes(l, "dial", "send")
    /\ session' = [session EXCEPT ![l] = IF Reader(l) \in listing THEN "friend" ELSE "stranger"]
    /\ UNCHANGED <<switchVars, readerVars, writerVars, linkedVars, onWay, mishaps>>

SendLetter(l) ==
    /\ SenderGoes(l, "send", "wait")
    /\ onWay' = [onWay EXCEPT ![l] = @ \cup {"letter"}]
    /\ UNCHANGED <<switchVars, readerVars, writerVars, linkedVars, session, mishaps>>

(* No connection, no stream, no answer in time, or the reader closed it.   *)
Fails(l) ==
    /\ \/ sender[l] \in {"dial", "send"} /\ Mishap
       \/ sender[l] = "wait" /\ "ack" \notin onWay[l] /\ session[l] = "closed" /\ UNCHANGED mishaps
       \/ sender[l] = "wait" /\ session[l] # "closed" /\ Mishap
    /\ sender' = [sender EXCEPT ![l] = "over"]
    /\ Verdict(l, "failed")
    /\ UNCHANGED <<switchVars, readerVars, rows, marked, confirmed, linkedVars, session, onWay>>

(* The Ack: message_delivered, whatever it says, and SupportDelivered.     *)
AckRead(l) ==
    /\ "ack" \in onWay[l]
    /\ SenderGoes(l, "wait", "over")
    /\ marked' = marked \cup (rows \cap {l})
    /\ Verdict(l, "delivered")
    /\ UNCHANGED <<switchVars, readerVars, rows, confirmed, linkedVars, session, onWay, mishaps>>

-----------------------------------------------------------------------------
(* The reader                                                              *)

SessionGoes(l, from, to) ==
    /\ session[l] \in from
    /\ session' = [session EXCEPT ![l] = to]

(* Is the letter taken?  By the author always, by a player from a contact; *)
(* a link whose other end is a friend no more takes nothing (on_frame).    *)
Takes(l) ==
    /\ session[l] = "friend" => Reader(l) \in listing
    /\ l \in Replies => contact

(* Mutation: every letter that is taken is news.                           *)
TakenAnyway(l) == taken' = taken \cup {l}

(* Store::message_in, on a letter or on a Text: news when it was not there.*)
MessageIn(l) == taken' = taken \cup {l} /\ l \notin taken

(* support_frame, before it tells the program.                             *)
ReadLetter(l) ==
    /\ "letter" \in onWay[l] /\ Takes(l)
    /\ onWay' = [onWay EXCEPT ![l] = @ \ {"letter"}]
    /\ \/ MessageIn(l) /\ SessionGoes(l, {"friend", "stranger"}, "show")
       \/ l \in taken /\ SessionGoes(l, {"friend", "stranger"}, "answer") /\ UNCHANGED taken
    /\ UNCHANGED <<switchVars, displayed, writerVars, linkedVars, sender, mishaps>>

ShowLetter(l) ==
    /\ SessionGoes(l, {"show"}, "answer")
    /\ displayed' = [displayed EXCEPT ![l] = @ + 1]
    /\ UNCHANGED <<switchVars, taken, writerVars, linkedVars, sender, onWay, mishaps>>

(* The Ack may come too late for the writer, or for its connection.        *)
AnswerLetter(l) ==
    /\ SessionGoes(l, {"answer"}, "answered")
    /\ onWay' = [onWay EXCEPT ![l] = IF sender[l] = "wait" THEN @ \cup {"ack"} ELSE @]
    /\ UNCHANGED <<switchVars, readerVars, writerVars, linkedVars, sender, mishaps>>

(* The mutant answers although the letter could not be stored.             *)
NoRowButAnswer(l) ==
    /\ "letter" \in onWay[l] /\ Takes(l)
    /\ Mishap
    /\ onWay' = [onWay EXCEPT ![l] = {"ack"}]
    /\ SessionGoes(l, {"friend", "stranger"}, "answered")
    /\ UNCHANGED <<switchVars, readerVars, writerVars, linkedVars, sender>>

(* message_in fails: no answer.                                            *)
NoRow(l) ==
    /\ "letter" \in onWay[l] /\ Takes(l)
    /\ Mishap
    /\ onWay' = [onWay EXCEPT ![l] = @ \ {"letter"}]
    /\ SessionGoes(l, {"friend", "stranger"}, "answered")
    /\ UNCHANGED <<switchVars, readerVars, writerVars, linkedVars, sender>>

(* The session ends: the writer closed, the letter is not taken, nothing   *)
(* came in time, or the limiter says no.                                   *)
SessionEnds(l) ==
    /\ \/ sender[l] = "over" /\ UNCHANGED mishaps
       \/ "letter" \in onWay[l] /\ ~Takes(l) /\ UNCHANGED mishaps
       \/ sender[l] # "over" /\ Mishap
    /\ SessionGoes(l, {"friend", "stranger", "answered"}, "closed")
    /\ onWay' = [onWay EXCEPT ![l] = @ \cap {"ack"}]
    /\ UNCHANGED <<switchVars, readerVars, writerVars, linkedVars, sender>>

-----------------------------------------------------------------------------
(* The friend link between the two, when both sides keep one               *)

(* flush_outbox.                                                           *)
FlushText(l) ==
    /\ Writer(l) \in listing
    /\ l \in rows \ marked
    /\ texts' = texts \cup {l}
    /\ UNCHANGED <<switchVars, readerVars, writerVars, showing, confirms, sender, session, onWay, mishaps>>

(* on_frame, Text: to the disk, news or not...                             *)
ReadText(l) ==
    /\ l \in texts \ showing
    /\ Reader(l) \in listing
    /\ \/ MessageIn(l) /\ showing' = showing \cup {l} /\ UNCHANGED <<texts, confirms>>
       \/ l \in taken /\ texts' = texts \ {l} /\ confirms' = confirms \cup {l} /\ UNCHANGED <<taken, showing>>
    /\ UNCHANGED <<switchVars, displayed, writerVars, sender, session, onWay, mishaps>>

(* ...to the program, and an Ack.                                          *)
ShowText(l) ==
    /\ l \in showing
    /\ showing' = showing \ {l} /\ texts' = texts \ {l} /\ confirms' = confirms \cup {l}
    /\ displayed' = [displayed EXCEPT ![l] = @ + 1]
    /\ UNCHANGED <<switchVars, taken, writerVars, sender, session, onWay, mishaps>>

(* on_frame, Ack: FriendDelivered when the row was not marked before.      *)
ReadConfirm(l) ==
    /\ l \in confirms
    /\ Writer(l) \in listing
    /\ confirms' = confirms \ {l}
    /\ marked' = marked \cup (rows \cap {l})
    /\ confirmed' = IF l \in rows \ marked THEN confirmed \cup {l} ELSE confirmed
    /\ UNCHANGED <<switchVars, readerVars, rows, verdicts, texts, showing, sender, session, onWay, mishaps>>

(* The link ends, and its frames are gone.                                 *)
LinkLost ==
    /\ texts \cup confirms # {}
    /\ texts' = showing /\ confirms' = {}
    /\ UNCHANGED <<switchVars, readerVars, writerVars, showing, sender, session, onWay, mishaps>>

(* A process dies: its tasks and every connection are gone, the rows stay. *)
PartyDies(n) ==
    /\ Mishap
    /\ sender' = [l \in Letters |-> IF Writer(l) = n /\ sender[l] # "unwritten" THEN "over" ELSE sender[l]]
    /\ session' = [l \in Letters |->
            IF session[l] = "none" THEN "none"
            ELSE IF Reader(l) = n \/ session[l] \notin {"show", "answer"} THEN "closed" ELSE session[l]]
    /\ onWay' = [l \in Letters |-> {}]
    /\ showing' = {l \in showing : Reader(l) # n}
    /\ texts' = showing' /\ confirms' = {}
    /\ UNCHANGED <<switchVars, readerVars, writerVars>>

WriterStep(l) == Write(l) \/ KeepCopy(l) \/ DialReader(l) \/ SendLetter(l) \/ Fails(l) \/ AckRead(l)
ReaderStep(l) == ReadLetter(l) \/ ShowLetter(l) \/ AnswerLetter(l) \/ NoRow(l) \/ SessionEnds(l)
LinkedStep(l) == FlushText(l) \/ ReadText(l) \/ ShowText(l) \/ ReadConfirm(l)

SupportNext ==
    \/ SetContacts
    \/ \E n \in Parties : ListChanges(n) \/ PartyDies(n)
    \/ \E l \in Letters : WriterStep(l) \/ ReaderStep(l) \/ LinkedStep(l)
    \/ LinkLost

SupportSpec == SupportInit /\ [][SupportNext]_letterVars

-----------------------------------------------------------------------------
SupportTypeOK ==
    /\ contact \in BOOLEAN /\ listing \subseteq Parties /\ switches \in 0..MaxSwitches
    /\ rows \subseteq Letters /\ taken \subseteq Letters
    /\ marked \subseteq rows /\ confirmed \subseteq marked
    /\ sender \in [Letters -> {"unwritten", "queued", "dial", "send", "wait", "over"}]
    /\ session \in [Letters -> {"none", "friend", "stranger", "show", "answer", "answered", "closed"}]
    /\ onWay \in [Letters -> SUBSET {"letter", "ack"}]
    /\ showing \subseteq texts /\ texts \subseteq Letters /\ confirms \subseteq Letters
    /\ displayed \in [Letters -> Nat]
    /\ verdicts \in [Letters -> SUBSET {"delivered", "failed"}]
    /\ mishaps \in 0..MaxMishaps

(* A letter is shown once, whether as a letter, or as the text of a friend *)
(* it was sent again as, or both at the same moment (message_in).          *)
LetterOnce == \A l \in Letters : displayed[l] <= 1

(* The writer is told one verdict, and is told that a letter was delivered *)
(* only when it is on the reader's disk, whatever was lost, failed or died *)
(* (support_frame acknowledges after message_in only).                     *)
VerdictTrue ==
    \A l \in Letters :
        /\ verdicts[l] # {"delivered", "failed"}
        /\ "delivered" \in verdicts[l] \/ l \in marked => l \in taken

(* What either program is told of a letter is so, and said once.           *)
LettersTrue == LetterOnce /\ VerdictTrue
=============================================================================
