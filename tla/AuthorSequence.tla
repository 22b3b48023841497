--------------------------- MODULE AuthorSequence ---------------------------
(***************************************************************************)
(* Numbers of an author's announcements (lantern author keygen and sign:   *)
(* cli author.rs and author/sequence.rs).                                  *)
(*                                                                         *)
(* Every announcement is signed by a process of its own, offline, and its  *)
(* number must never have been given to another text.  What keeps them     *)
(* apart is a directory beside the key: a file for every number ever       *)
(* reserved, a file with the public key, and a lock file.  A process may   *)
(* die anywhere; what it leaves behind makes later ones fail until a person*)
(* has looked at it.  The signature exists before the number is reserved,  *)
(* but is printed after.                                                   *)
(***************************************************************************)
EXTENDS Integers, FiniteSets

CONSTANTS
    Signers,   \* processes: runs of the tool, each with a text of its own
    NoSigner,  \* no process
    MaxSeq     \* bound on the numbers

ASSUME NoSignerAssumption == NoSigner \notin Signers
ASSUME MaxSeqAssumption == MaxSeq \in Nat \ {0}

Seqs == 1 .. MaxSeq
NoPrevious == -1

VARIABLES
    keyFile,   \* the key exists
    directory, \* sequence::directory: "absent", "empty", "opened" (author file without its text) or "owned"
    reserved,  \* the numbers with a .reserved file
    lockFile,  \* who created the lock, NoSigner if there is none
    signer,    \* what a process is about to do, and with which options
    before,    \* the greatest number this key signed before there was a directory
    printed    \* announcements that were printed: number and whose text

sequenceVars == <<keyFile, directory, reserved, lockFile, signer, before, printed>>

Fresh == [pc |-> "fresh", seq |-> 0, previous |-> NoPrevious]

(* A key of an earlier version has no directory; it may have signed.       *)
SequenceInit ==
    /\ keyFile \in BOOLEAN
    /\ before \in IF keyFile THEN {0, 1} ELSE {0}
    /\ directory = "absent"
    /\ reserved = {}
    /\ lockFile = NoSigner
    /\ signer = [p \in Signers |-> Fresh]
    /\ printed = {}

At(p, pc) == signer[p].pc = pc
Goes(p, pc) == signer' = [signer EXCEPT ![p].pc = pc]

(* The numbers of what was printed.                                        *)
Given == {a.seq : a \in printed}

-----------------------------------------------------------------------------
(* lantern author keygen: a key is never overwritten...                    *)
Keygen(p) ==
    /\ At(p, "fresh")
    /\ ~keyFile
    /\ keyFile' = TRUE
    /\ signer' = [signer EXCEPT ![p] = [pc |-> "mkdir", seq |-> 0, previous |-> 0]]
    /\ UNCHANGED <<directory, reserved, lockFile, before, printed>>

(* lantern author sign: the number is positive; --previous-seq is a number *)
(* the author knows the key never went beyond.  The key signs...           *)
Sign(p) ==
    /\ At(p, "fresh")
    /\ keyFile
    /\ \E seq \in Seqs, previous \in {NoPrevious} \cup {n \in 0 .. MaxSeq : n >= before} :
          signer' = [signer EXCEPT ![p] = [pc |-> "look", seq |-> seq, previous |-> previous]]
    /\ UNCHANGED <<keyFile, directory, reserved, lockFile, before, printed>>

(* Mutation: without --previous-seq, a directory is started at zero.       *)
LookAbsentAny(p) ==
    /\ At(p, "look")
    /\ directory = "absent"
    /\ signer' = [signer EXCEPT ![p].pc = "mkdir", ![p].previous = IF @ = NoPrevious THEN 0 ELSE @]
    /\ UNCHANGED <<keyFile, directory, reserved, lockFile, before, printed>>

(* ...reserve: without a directory it takes --previous-seq to start one... *)
LookAbsent(p) ==
    /\ At(p, "look")
    /\ directory = "absent"
    /\ Goes(p, IF signer[p].previous # NoPrevious /\ signer[p].seq > signer[p].previous
               THEN "mkdir" ELSE "failed")
    /\ UNCHANGED <<keyFile, directory, reserved, lockFile, before, printed>>

(* ...and with one, --previous-seq is refused...                           *)
LookPresent(p) ==
    /\ At(p, "look")
    /\ directory # "absent"
    /\ Goes(p, IF signer[p].previous = NoPrevious THEN "lock" ELSE "failed")
    /\ UNCHANGED <<keyFile, directory, reserved, lockFile, before, printed>>

(* ...initialize: only one process makes the directory...                  *)
MakeDirectory(p) ==
    /\ At(p, "mkdir")
    /\ IF directory = "absent"
       THEN directory' = "empty" /\ Goes(p, "open")
       ELSE Goes(p, "failed") /\ UNCHANGED directory
    /\ UNCHANGED <<keyFile, reserved, lockFile, before, printed>>

(* ...the author file is there before its text is...                       *)
OpenAuthor(p) ==
    /\ At(p, "open")
    /\ directory' = "opened"
    /\ Goes(p, "write")
    /\ UNCHANGED <<keyFile, reserved, lockFile, before, printed>>

WriteAuthor(p) ==
    /\ At(p, "write")
    /\ directory' = "owned"
    /\ Goes(p, "first")
    /\ UNCHANGED <<keyFile, reserved, lockFile, before, printed>>

(* ...the first record is the greatest number signed so far; keygen is done*)
(* with that, sign goes on...                                              *)
WriteFirst(p) ==
    /\ At(p, "first")
    /\ reserved' = reserved \cup {signer[p].previous}
    /\ Goes(p, IF signer[p].seq = 0 THEN "done" ELSE "lock")
    /\ UNCHANGED <<keyFile, directory, lockFile, before, printed>>

-----------------------------------------------------------------------------
(* Mutation: a lock that is there is taken over.                           *)
TakeAnyLock(p) ==
    /\ At(p, "lock")
    /\ lockFile' = p /\ Goes(p, "read")
    /\ UNCHANGED <<keyFile, directory, reserved, before, printed>>

(* ...a lock that is there is somebody's, dead or alive...                 *)
TakeLock(p) ==
    /\ At(p, "lock")
    /\ IF lockFile = NoSigner
       THEN lockFile' = p /\ Goes(p, "read")
       ELSE Goes(p, "failed") /\ UNCHANGED lockFile
    /\ UNCHANGED <<keyFile, directory, reserved, before, printed>>

(* ...the directory must be of this key...                                 *)
ReadAuthor(p) ==
    /\ At(p, "read")
    /\ Goes(p, IF directory = "owned" THEN "scan" ELSE "unlock")
    /\ UNCHANGED <<keyFile, directory, reserved, lockFile, before, printed>>

(* ...have a record, and none at or above the number wanted...             *)
Scan(p) ==
    /\ At(p, "scan")
    /\ Goes(p, IF reserved # {} /\ \A n \in reserved : signer[p].seq > n THEN "reserve" ELSE "unlock")
    /\ UNCHANGED <<keyFile, directory, reserved, lockFile, before, printed>>

(* ...the record is created, if nobody else has...                         *)
Reserve(p) ==
    /\ At(p, "reserve")
    /\ reserved' = reserved \cup {signer[p].seq}
    /\ Goes(p, IF signer[p].seq \in reserved THEN "unlock" ELSE "reserved")
    /\ UNCHANGED <<keyFile, directory, lockFile, before, printed>>

(* ...or cannot be written to its end: the number is gone...               *)
ReserveFails(p) ==
    /\ At(p, "reserve")
    /\ reserved' = reserved \cup {signer[p].seq}
    /\ Goes(p, "unlock")
    /\ UNCHANGED <<keyFile, directory, lockFile, before, printed>>

(* Mutation: a failure prints as well, and the record stays as it was.     *)
UnlockPrints(p) ==
    /\ At(p, "unlock") \/ At(p, "reserved")
    /\ lockFile' = NoSigner
    /\ Goes(p, "print")
    /\ UNCHANGED <<keyFile, directory, reserved, before, printed>>

(* ...Lock::drop removes the lock file, after a failure too...             *)
Unlock(p) ==
    /\ At(p, "unlock") \/ At(p, "reserved")
    /\ lockFile' = NoSigner
    /\ Goes(p, IF At(p, "reserved") THEN "print" ELSE "failed")
    /\ UNCHANGED <<keyFile, directory, reserved, before, printed>>

(* ...and only now the announcement is shown to the author.                *)
PrintOut(p) ==
    /\ At(p, "print")
    /\ printed' = printed \cup {[seq |-> signer[p].seq, text |-> p]}
    /\ Goes(p, "done")
    /\ UNCHANGED <<keyFile, directory, reserved, lockFile, before>>

-----------------------------------------------------------------------------
Over == {"fresh", "done", "failed", "dead"}

(* A process dies; before it has the lock, a write that fails is the same. *)
Die(p) ==
    /\ signer[p].pc \notin Over
    /\ Goes(p, "dead")
    /\ UNCHANGED <<keyFile, directory, reserved, lockFile, before, printed>>

(* sequence.rs:2: "A stale lock fails closed and needs operator review":   *)
(* the operator removes the lock of a process that is dead.                *)
Review ==
    /\ lockFile # NoSigner
    /\ At(lockFile, "dead")
    /\ lockFile' = NoSigner
    /\ UNCHANGED <<keyFile, directory, reserved, signer, before, printed>>

SequenceNext ==
    \/ \E p \in Signers :
        \/ Keygen(p) \/ Sign(p) \/ LookAbsent(p) \/ LookPresent(p)
        \/ MakeDirectory(p) \/ OpenAuthor(p) \/ WriteAuthor(p) \/ WriteFirst(p)
        \/ TakeLock(p) \/ ReadAuthor(p) \/ Scan(p) \/ Reserve(p) \/ ReserveFails(p) \/ Unlock(p) \/ PrintOut(p) \/ Die(p)
    \/ Review

SequenceSpec == SequenceInit /\ [][SequenceNext]_sequenceVars

-----------------------------------------------------------------------------
Steps == {"look", "mkdir", "open", "write", "first", "lock", "read", "scan", "reserve",
          "reserved", "unlock", "print"} \cup Over
Announcements == [seq : Seqs, text : Signers]

SequenceTypeOK ==
    /\ keyFile \in BOOLEAN /\ before \in {0, 1}
    /\ directory \in {"absent", "empty", "opened", "owned"}
    /\ reserved \subseteq 0 .. MaxSeq
    /\ lockFile \in Signers \cup {NoSigner}
    /\ signer \in [Signers -> [pc : Steps, seq : 0 .. MaxSeq, previous : NoPrevious .. MaxSeq]]
    /\ printed \subseteq Announcements

(* Competing processes, some of which die anywhere, never print one number *)
(* for two texts, nor one that the key had signed before there was a       *)
(* directory (sequence.rs:1-2 "numbers are never reclaimed automatically").*)
NumbersOnce ==
    /\ \A a, b \in printed : a.seq = b.seq => a = b
    /\ \A a \in printed : a.seq > before

(* A number that is reserved is above all that were reserved before it, so *)
(* announcements are newer than what was printed earlier.                  *)
NumbersGrow == [][\A n \in reserved' \ reserved, m \in reserved : n > m]_reserved
=============================================================================
