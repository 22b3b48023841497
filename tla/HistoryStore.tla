---------------------------- MODULE HistoryStore ----------------------------
(* The table channel_history of one channel (store.rs): signed lines, as   *)
(* many as the retention limit allows.                                     *)
EXTENDS Integers, FiniteSets

CONSTANTS
    Peers,          \* other members of the channel
    Self,           \* this node
    Records,        \* signed lines
    AuthorOf,       \* who signed a line
    MaxRecords      \* MAX_RECORDS

ASSUME AuthorAssumption == AuthorOf \in [Records -> Peers \cup {Self}]
ASSUME RetentionAssumption == MaxRecords \in Nat \ {0}

(* What the limit leaves of some lines: the newest, which of lines that    *)
(* came in the same millisecond may be any.                                *)
Retained(lines) ==
    {kept \in SUBSET lines :
        Cardinality(kept) = IF Cardinality(lines) > MaxRecords THEN MaxRecords ELSE Cardinality(lines)}

(* Mutation: only what is too old is dropped.                              *)
InsertedAll(stored, r) == {(stored \ aged) \cup {r} : aged \in SUBSET stored}

(* The table after a line that is not in it was inserted: what is too old  *)
(* by now is dropped, and then what the limit does not leave.              *)
Inserted(stored, r) == UNION {Retained((stored \ aged) \cup {r}) : aged \in SUBSET stored}

(* What earlier processes may have left in the table.                      *)
Leftovers == {s \in SUBSET Records : IsFiniteSet(s) /\ Cardinality(s) <= MaxRecords}

(* Lines of authors who are not blocked.                                   *)
Unblocked(lines, blocked) == {r \in lines : AuthorOf[r] \notin blocked}
=============================================================================
