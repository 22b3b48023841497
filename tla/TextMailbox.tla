---------------------------- MODULE TextMailbox ----------------------------
(***************************************************************************)
(* What friends are promised about direct texts, whatever links, losses    *)
(* and restarts lie between them (docs/DESIGN.md, "Text"): a text that was *)
(* stored is received at most once, shown at most once, and acknowledged   *)
(* only after it was received.                                             *)
(***************************************************************************)
EXTENDS Naturals

CONSTANT Texts    \* message ids, each with one sender and one recipient

VARIABLES
    stored,       \* outgoing rows: on the sender's disk
    received,     \* incoming rows: on the recipient's disk
    shown,        \* how often the recipient's program was told
    acked         \* outgoing rows with delivered_at

mail == <<stored, received, shown, acked>>

Init ==
    /\ stored = {}
    /\ received = {}
    /\ shown = [t \in Texts |-> 0]
    /\ acked = {}

Store(t) ==
    /\ t \notin stored
    /\ stored' = stored \cup {t}
    /\ UNCHANGED <<received, shown, acked>>

Receive(t) ==
    /\ t \in stored \ received
    /\ received' = received \cup {t}
    /\ UNCHANGED <<stored, shown, acked>>

Show(t) ==
    /\ t \in received
    /\ shown[t] = 0
    /\ shown' = [shown EXCEPT ![t] = 1]
    /\ UNCHANGED <<stored, received, acked>>

Acknowledge(t) ==
    /\ t \in (stored \cap received) \ acked
    /\ acked' = acked \cup {t}
    /\ UNCHANGED <<stored, received, shown>>

Next == \E t \in Texts : Store(t) \/ Receive(t) \/ Show(t) \/ Acknowledge(t)

Spec == Init /\ [][Next]_mail
=============================================================================
