----------------------------- MODULE NodeProofs -----------------------------
(***************************************************************************)
(* Proofs about what the members of a channel get from each other.         *)
(*                                                                         *)
(* AuthorSequence and Announcements: a number is printed for one text only,*)
(* numbers grow, members agree on the text of a number, and a member shows *)
(* it once; for any number of processes, members, callers and numbers.     *)
(*                                                                         *)
(* FileTransfer: however the frame thread, the network tasks and the jobs  *)
(* interleave, a job whose offer was withdrawn, or whose sender was        *)
(* blocked, has been told to stop or is about to be; a transfer ends once, *)
(* and gives its place in the list back then; what the list says of the    *)
(* disk and of the node is so; and neither the permits of the jobs nor the *)
(* places of the list are ever exceeded.                                   *)
(*                                                                         *)
(* The two side by side, as they are checked, keep all of it.              *)
(***************************************************************************)
EXTENDS MCNode, FiniteSetTheorems, TLAPS

-----------------------------------------------------------------------------
(* The directory.  Whoever is behind the lock holds the lock file; whoever *)
(* fills the directory made it, and nothing is reserved before that is     *)
(* done; a number is reserved from before it is printed.                   *)

Behind(p) == signer[p].pc \in {"read", "scan", "reserve", "reserved", "unlock"}
Making(p) == signer[p].pc \in {"open", "write", "first"}
Claims(p) == signer[p].pc \in {"reserved", "print"} \/ \E a \in printed : a.text = p

Locked == \A p \in Signers : Behind(p) => lockFile = p

Made ==
    /\ \A p, q \in Signers : Making(p) /\ Making(q) => p = q
    /\ \A p \in Signers : Making(p) => reserved = {}
    /\ directory = "absent" => reserved = {} /\ \A p \in Signers : ~Making(p)

NumberRemembered ==
    /\ ~keyFile => before = 0
    /\ \A p \in Signers : At(p, "mkdir") \/ Making(p) => signer[p].previous >= before
    /\ \A p \in Signers : At(p, "look") => signer[p].previous \in {NoPrevious} \cup {n \in Nat : n >= before}
    /\ reserved # {} => \E m \in reserved : m >= before

Reserving ==
    \A p \in Signers : At(p, "reserve") =>
        /\ reserved # {}
        /\ \A m \in reserved : signer[p].seq > m

Claimed ==
    /\ \A a \in printed : a.seq = signer[a.text].seq /\ signer[a.text].pc = "done"
    /\ \A p \in Signers : Claims(p) => signer[p].seq \in reserved /\ signer[p].seq > before
    /\ \A p, q \in Signers : Claims(p) /\ Claims(q) /\ signer[p].seq = signer[q].seq => p = q

Types ==
    /\ before \in Nat /\ reserved \subseteq Nat
    /\ signer \in [Signers -> [pc : Steps, seq : 0 .. MaxSeq, previous : Int]]
    /\ printed \subseteq [seq : 0 .. MaxSeq, text : Signers]

SequenceInv == Types /\ Locked /\ Made /\ NumberRemembered /\ Reserving /\ Claimed

LEMMA SequenceInitInv == SequenceInit => SequenceInv
<1> SUFFICES ASSUME SequenceInit PROVE SequenceInv OBVIOUS
<1>1. \A p \in Signers : signer[p] = Fresh BY DEF SequenceInit
<1>2. Types /\ NumberRemembered
    BY <1>1, MaxSeqAssumption DEF SequenceInit, Types, NumberRemembered, Making, At, Fresh, NoPrevious, Steps, Over
<1>3. Locked /\ Made /\ Reserving /\ Claimed
    BY <1>1 DEF SequenceInit, Locked, Made, Reserving, Claimed, Behind, Making, Claims, At, Fresh
<1> QED BY <1>2, <1>3 DEF SequenceInv

(* Every step of a process, its death and the review of a lock keep the    *)
(* invariant.                                                              *)
LEMMA SequenceStep == SequenceInv /\ [SequenceNext]_sequenceVars => SequenceInv'
<1> SUFFICES ASSUME SequenceInv, [SequenceNext]_sequenceVars PROVE SequenceInv' OBVIOUS
<1> USE NoSignerAssumption, MaxSeqAssumption
<1> USE DEF SequenceInv, Types, Locked, Made, NumberRemembered, Reserving, Claimed, Behind, Making, Claims, At, Steps, Over
<1>0. CASE UNCHANGED sequenceVars
    BY <1>0 DEF sequenceVars
<1>1. ASSUME NEW p \in Signers, Keygen(p) PROVE SequenceInv'
    <2>1. /\ signer[p].pc = "fresh" /\ signer'[p].pc = "mkdir" /\ signer'[p].previous = 0
          /\ \A q \in Signers : q # p => signer'[q] = signer[q]
          /\ signer' \in [Signers -> [pc : Steps, seq : 0 .. MaxSeq, previous : Int]]
        BY <1>1 DEF Keygen
    <2>2. UNCHANGED <<directory, reserved, lockFile, before, printed>> BY <1>1 DEF Keygen
    <2>3. Types' /\ Locked' BY <2>1, <2>2
    <2>4. Made' BY <2>1, <2>2
    <2>5. before = 0 /\ keyFile' BY <1>1 DEF Keygen
    <2>8. NumberRemembered' BY <2>1, <2>2, <2>5
    <2>6. Reserving' BY <2>1, <2>2
    <2>7. Claimed'
        <3>1. \A a \in printed : a.text \in Signers /\ a.text # p BY <2>1
        <3>2. \A q \in Signers : Claims(q)' => q # p /\ Claims(q) /\ signer'[q] = signer[q]
            BY <2>1, <2>2, <3>1
        <3>3. \A a \in printed' : a.seq = signer'[a.text].seq /\ signer'[a.text].pc = "done"
            BY <2>1, <2>2, <3>1
        <3>4. \A q \in Signers : Claims(q) => signer[q].seq \in reserved /\ signer[q].seq > before
            OBVIOUS
        <3>5. \A q, r \in Signers : Claims(q) /\ Claims(r) /\ signer[q].seq = signer[r].seq => q = r
            OBVIOUS
        <3> HIDE DEF Claims
        <3>6. \A q \in Signers : Claims(q)' => signer'[q].seq \in reserved' /\ signer'[q].seq > before'
            BY <2>2, <3>2, <3>4
        <3>7. \A q, r \in Signers : Claims(q)' /\ Claims(r)' /\ signer'[q].seq = signer'[r].seq => q = r
            BY <3>2, <3>5
        <3> QED BY <3>3, <3>6, <3>7
    <2> QED BY <2>3, <2>4, <2>6, <2>7, <2>8
<1>2. ASSUME NEW p \in Signers, Sign(p) PROVE SequenceInv'
    BY <1>2 DEF Sign, Seqs, NoPrevious
<1>3. ASSUME NEW p \in Signers, LookAbsent(p) PROVE SequenceInv'
    BY <1>3 DEF LookAbsent, Goes, NoPrevious
<1>4. ASSUME NEW p \in Signers, LookPresent(p) PROVE SequenceInv'
    BY <1>4 DEF LookPresent, Goes, NoPrevious
<1>5. ASSUME NEW p \in Signers, MakeDirectory(p) PROVE SequenceInv'
    BY <1>5 DEF MakeDirectory, Goes
<1>6. ASSUME NEW p \in Signers, OpenAuthor(p) PROVE SequenceInv'
    BY <1>6 DEF OpenAuthor, Goes
<1>7. ASSUME NEW p \in Signers, WriteAuthor(p) PROVE SequenceInv'
    BY <1>7 DEF WriteAuthor, Goes
<1>8. ASSUME NEW p \in Signers, WriteFirst(p) PROVE SequenceInv'
    BY <1>8 DEF WriteFirst, Goes
<1>9. ASSUME NEW p \in Signers, TakeLock(p) PROVE SequenceInv'
    BY <1>9 DEF TakeLock, Goes
<1>10. ASSUME NEW p \in Signers, ReadAuthor(p) PROVE SequenceInv'
    BY <1>10 DEF ReadAuthor, Goes
<1>11. ASSUME NEW p \in Signers, Scan(p) PROVE SequenceInv'
    BY <1>11 DEF Scan, Goes
<1>12. ASSUME NEW p \in Signers, Reserve(p) PROVE SequenceInv'
    BY <1>12 DEF Reserve, Goes
<1>13. ASSUME NEW p \in Signers, ReserveFails(p) PROVE SequenceInv'
    BY <1>13 DEF ReserveFails, Goes
<1>14. ASSUME NEW p \in Signers, Unlock(p) PROVE SequenceInv'
    BY <1>14 DEF Unlock, Goes
<1>15. ASSUME NEW p \in Signers, PrintOut(p) PROVE SequenceInv'
    BY <1>15 DEF PrintOut, Goes
<1>16. ASSUME NEW p \in Signers, Die(p) PROVE SequenceInv'
    BY <1>16 DEF Die, Goes
<1>17. CASE Review
    BY <1>17 DEF Review
<1> QED
    BY <1>0, <1>1, <1>2, <1>3, <1>4, <1>5, <1>6, <1>7, <1>8, <1>9, <1>10, <1>11, <1>12, <1>13, <1>14,
       <1>15, <1>16, <1>17 DEF SequenceNext

LEMMA OnceImplied == SequenceInv => NumbersOnce
<1> SUFFICES ASSUME SequenceInv PROVE NumbersOnce OBVIOUS
<1>1. \A a \in printed : a.text \in Signers /\ Claims(a.text) /\ a.seq = signer[a.text].seq
    BY DEF SequenceInv, Types, Claimed, Claims
<1>2. \A a, b \in printed : a.seq = b.seq => a.text = b.text
    BY <1>1 DEF SequenceInv, Claimed
<1>3. \A a, b \in printed : a.seq = b.seq /\ a.text = b.text => a = b
    BY DEF SequenceInv, Types
<1>4. \A a \in printed : a.seq > before
    BY <1>1 DEF SequenceInv, Claimed
<1> QED BY <1>2, <1>3, <1>4 DEF NumbersOnce

(* A number is printed for one text only.                                  *)
THEOREM PrintedOnce == SequenceSpec => []NumbersOnce
BY SequenceInitInv, SequenceStep, OnceImplied, PTL DEF SequenceSpec

(* A step that reserves a number reserves one above all others.            *)
LEMMA ReservesAbove ==
    SequenceInv /\ [SequenceNext]_sequenceVars => \A n \in reserved' \ reserved, m \in reserved : n > m
<1> SUFFICES ASSUME SequenceInv, [SequenceNext]_sequenceVars, NEW n \in reserved' \ reserved, NEW m \in reserved
             PROVE  n > m
    OBVIOUS
<1>1. CASE \E p \in Signers : WriteFirst(p)
    BY <1>1 DEF WriteFirst, At, SequenceInv, Made, Making
<1>2. CASE \E p \in Signers : Reserve(p) \/ ReserveFails(p)
    BY <1>2 DEF Reserve, ReserveFails, At, SequenceInv, Reserving
<1>3. CASE ~(\E p \in Signers : WriteFirst(p) \/ Reserve(p) \/ ReserveFails(p))
    <2>1. reserved' = reserved
        BY <1>3 DEF SequenceNext, sequenceVars, Keygen, Sign, LookAbsent, LookPresent, MakeDirectory,
            OpenAuthor, WriteAuthor, TakeLock, ReadAuthor, Scan, Unlock, PrintOut, Die, Review
    <2> QED BY <2>1
<1> QED BY <1>1, <1>2, <1>3

(* Numbers grow.                                                           *)
THEOREM ReservedGrow == SequenceSpec => NumbersGrow
<1>1. SequenceInv /\ [SequenceNext]_sequenceVars
        => [\A n \in reserved' \ reserved, m \in reserved : n > m]_reserved
    BY ReservesAbove
<1> QED BY <1>1, SequenceInitInv, SequenceStep, PTL DEF SequenceSpec, NumbersGrow

-----------------------------------------------------------------------------
(* The members.  What a member keeps, is about to show, sends or has shown *)
(* was printed; of its workers one at most is about to show an announcement*)
(* that is kept, and nobody is, once it is shown.                          *)

MemberTypes ==
    /\ kept \in [Members -> SUBSET printed]
    /\ fresh \in [Members -> [Workers -> printed \cup {NoAnnouncement}]]
    /\ publishing \in [Members -> printed \cup {NoAnnouncement}]
    /\ wire \subseteq printed \cup Foreign
    /\ shown \in [Members -> [Announcements -> Nat]]
    /\ printed \subseteq Announcements

ShownPrinted == \A n \in Members, a \in Announcements : shown[n][a] > 0 => a \in printed

KeptShown ==
    \A n \in Members :
        /\ \A a \in Announcements : shown[n][a] <= 1
        /\ \A a \in Announcements : shown[n][a] = 1 => a \in kept[n]
        /\ \A w \in Workers : fresh[n][w] # NoAnnouncement => fresh[n][w] \in kept[n] /\ shown[n][fresh[n][w]] = 0
        /\ \A v, w \in Workers : fresh[n][v] = fresh[n][w] /\ fresh[n][v] # NoAnnouncement => v = w

MemberInv == SequenceInv /\ MemberTypes /\ ShownPrinted /\ KeptShown

(* No announcement has the number zero.                                    *)
LEMMA NotNone == ASSUME NEW a \in Announcements PROVE a # NoAnnouncement /\ a.seq \in Nat /\ a.text \in Signers
BY MaxSeqAssumption DEF Announcements, NoAnnouncement, Seqs

LEMMA MemberInitInv == AnnouncementInit => MemberInv
BY SequenceInitInv, NotNone DEF AnnouncementInit, MemberInv, MemberTypes, ShownPrinted, KeptShown,
    SequenceInit

(* The tool's own steps print, and leave the members alone.                *)
LEMMA ToolStep ==
    ASSUME MemberInv, SequenceNext, UNCHANGED memberVars, SequenceInv'
    PROVE  MemberInv'
<1>1. \/ printed' = printed
      \/ \E p \in Signers : signer[p].pc = "print" /\ printed' = printed \cup {[seq |-> signer[p].seq, text |-> p]}
    BY DEF SequenceNext, Keygen, Sign, LookAbsent, LookPresent, MakeDirectory, OpenAuthor, WriteAuthor,
        WriteFirst, TakeLock, ReadAuthor, Scan, Reserve, ReserveFails, Unlock, PrintOut, Die, Review, At
<1>2. printed \subseteq printed' /\ printed' \subseteq Announcements
    <2>1. ASSUME NEW p \in Signers, signer[p].pc = "print"
          PROVE  [seq |-> signer[p].seq, text |-> p] \in Announcements
        <3>1. signer[p].seq \in 0 .. MaxSeq /\ signer[p].seq > before /\ before \in Nat
            BY <2>1 DEF MemberInv, SequenceInv, Types, Claimed, Claims
        <3> QED BY <3>1, MaxSeqAssumption DEF Announcements, Seqs
    <2> QED BY <1>1, <2>1 DEF MemberInv, MemberTypes
<1> QED BY <1>2 DEF MemberInv, MemberTypes, ShownPrinted, KeptShown, memberVars

(* A worker that keeps an announcement keeps one that was printed, and not *)
(* yet shown.                                                              *)
LEMMA KeepStep ==
    ASSUME MemberInv, NEW n \in Members, NEW w \in Workers, NEW a \in printed \cup Foreign, Keep(n, w, a),
           UNCHANGED <<sequenceVars, wire, shown>>,
           publishing' \in [Members -> printed \cup {NoAnnouncement}]
    PROVE  MemberTypes' /\ ShownPrinted' /\ KeptShown'
<1> USE DEF MemberInv
<1>1. a \in printed /\ a \in Announcements /\ a # NoAnnouncement
    BY StrangersAssumption, NotNone DEF Keep, Verified, Foreign, MemberTypes
<1>2. printed' = printed BY DEF sequenceVars
<1>3. CASE IsNews(n, a)
    <2>1. /\ kept' = [kept EXCEPT ![n] = @ \cup {a}] /\ fresh' = [fresh EXCEPT ![n][w] = a]
          /\ fresh[n][w] = NoAnnouncement /\ shown' = shown
        BY <1>3 DEF Keep
    <2>2. a \notin kept[n] /\ shown[n][a] = 0 /\ \A v \in Workers : fresh[n][v] # a
        <3>1. a \notin kept[n] BY <1>3 DEF IsNews
        <3>2. shown[n][a] \in Nat /\ shown[n][a] <= 1 BY <1>1 DEF MemberTypes, KeptShown
        <3> QED BY <1>1, <3>1, <3>2 DEF KeptShown
    <2>3. MemberTypes' BY <1>1, <1>2, <2>1 DEF MemberTypes
    <2>4. KeptShown' BY <1>1, <2>1, <2>2 DEF KeptShown, MemberTypes
    <2> QED BY <1>2, <2>1, <2>3, <2>4 DEF ShownPrinted
<1>4. CASE ~IsNews(n, a)
    BY <1>2, <1>4 DEF Keep, MemberTypes, ShownPrinted, KeptShown
<1> QED BY <1>3, <1>4

(* A worker that shows an announcement had it to show, alone.              *)
LEMMA ShowStep ==
    ASSUME MemberInv, NEW n \in Members, NEW w \in Workers, Show(n, w)
    PROVE  MemberTypes' /\ ShownPrinted' /\ KeptShown'
<1> USE DEF MemberInv
<1> DEFINE a == fresh[n][w]
<1>1. /\ a \in printed /\ a \in Announcements /\ a # NoAnnouncement
      /\ a \in kept[n] /\ shown[n][a] = 0
    BY DEF Show, MemberTypes, KeptShown
<1>2. /\ shown' = [shown EXCEPT ![n][a] = @ + 1] /\ fresh' = [fresh EXCEPT ![n][w] = NoAnnouncement]
      /\ printed' = printed /\ kept' = kept /\ publishing' = publishing /\ wire' = wire
    BY DEF Show, sequenceVars
<1>3. \A v \in Workers : v # w => fresh[n][v] # a BY <1>1 DEF KeptShown
<1> HIDE DEF a
<1>4. MemberTypes' BY <1>1, <1>2 DEF MemberTypes
<1>5. \A m \in Members, b \in Announcements :
        shown'[m][b] = IF m = n /\ b = a THEN 1 ELSE shown[m][b]
    BY <1>1, <1>2 DEF MemberTypes
<1>6. \A m \in Members, v \in Workers :
        fresh'[m][v] = IF m = n /\ v = w THEN NoAnnouncement ELSE fresh[m][v]
    BY <1>2 DEF MemberTypes
<1>7. ShownPrinted' BY <1>1, <1>2, <1>5 DEF ShownPrinted
<1>8. KeptShown'
    <2> SUFFICES ASSUME NEW m \in Members
                 PROVE  /\ \A b \in Announcements : shown'[m][b] <= 1
                        /\ \A b \in Announcements : shown'[m][b] = 1 => b \in kept'[m]
                        /\ \A v \in Workers : fresh'[m][v] # NoAnnouncement
                                => fresh'[m][v] \in kept'[m] /\ shown'[m][fresh'[m][v]] = 0
                        /\ \A v, u \in Workers : fresh'[m][v] = fresh'[m][u] /\ fresh'[m][v] # NoAnnouncement => v = u
        BY DEF KeptShown
    <2>1. \A b \in Announcements : shown'[m][b] <= 1 /\ (shown'[m][b] = 1 => b \in kept'[m])
        BY <1>1, <1>2, <1>5 DEF KeptShown
    <2>2. \A v \in Workers : fresh'[m][v] # NoAnnouncement
             => fresh'[m][v] \in kept'[m] /\ shown'[m][fresh'[m][v]] = 0
        <3> SUFFICES ASSUME NEW v \in Workers, fresh'[m][v] # NoAnnouncement
                     PROVE  fresh'[m][v] \in kept'[m] /\ shown'[m][fresh'[m][v]] = 0
            OBVIOUS
        <3>1. fresh'[m][v] = fresh[m][v] /\ ~(m = n /\ v = w) BY <1>6
        <3>2. fresh[m][v] \in kept[m] /\ shown[m][fresh[m][v]] = 0 BY <3>1 DEF KeptShown
        <3>3. fresh[m][v] \in Announcements BY <3>1 DEF MemberTypes
        <3>4. ~(m = n /\ fresh[m][v] = a) BY <1>3, <3>1
        <3> QED BY <1>2, <1>5, <3>1, <3>2, <3>3, <3>4
    <2>3. \A v, u \in Workers : fresh'[m][v] = fresh'[m][u] /\ fresh'[m][v] # NoAnnouncement => v = u
        BY <1>6 DEF KeptShown
    <2> QED BY <2>1, <2>2, <2>3
<1> QED BY <1>4, <1>7, <1>8

LEMMA MemberStep == MemberInv /\ [AnnouncementNext]_announcementVars => MemberInv'
<1> SUFFICES ASSUME MemberInv, [AnnouncementNext]_announcementVars PROVE MemberInv' OBVIOUS
<1>1. SequenceInv'
    <2>1. [SequenceNext]_sequenceVars
        BY DEF AnnouncementNext, announcementVars, MemberNext, JoinFind, JoinInsert, LeaveAuthor, Show, Receive,
            PostAnnouncement, Broadcast, BroadcastFails, NeighborOffer, MemberRestart
    <2> QED BY <2>1, SequenceStep DEF MemberInv
<1>2. CASE UNCHANGED announcementVars
    BY <1>1, <1>2 DEF announcementVars, sequenceVars, memberVars, MemberInv, MemberTypes, ShownPrinted, KeptShown
<1>3. CASE SequenceNext /\ UNCHANGED memberVars BY <1>1, <1>3, ToolStep
<1>4. ASSUME NEW n \in Members,
             UNCHANGED <<sequenceVars, kept, fresh, publishing, wire, shown>>
      PROVE  MemberInv'
    BY <1>1, <1>4 DEF sequenceVars, MemberInv, MemberTypes, ShownPrinted, KeptShown
<1>5. ASSUME NEW n \in Members, NEW w \in Workers, Show(n, w) PROVE MemberInv'
    BY <1>1, <1>5, ShowStep DEF MemberInv
<1>6. ASSUME NEW n \in Members, NEW h \in Joiners, NEW a \in wire, Receive(n, h, a) PROVE MemberInv'
    <2>1. publishing' = publishing /\ Keep(n, h, a) /\ UNCHANGED <<sequenceVars, wire, shown>> /\ h \in Workers
        BY <1>6 DEF Receive, Workers
    <2>2. a \in printed \cup Foreign /\ publishing' \in [Members -> printed \cup {NoAnnouncement}]
        BY <2>1 DEF MemberInv, MemberTypes
    <2> QED BY <1>1, <2>1, <2>2, KeepStep DEF MemberInv
<1>7. ASSUME NEW n \in Members, NEW a \in printed, PostAnnouncement(n, a) PROVE MemberInv'
    <2>1. /\ publishing' = [publishing EXCEPT ![n] = a] /\ Keep(n, Program, a)
          /\ UNCHANGED <<sequenceVars, wire, shown>> /\ Program \in Workers
        BY <1>7 DEF PostAnnouncement, Workers
    <2>2. publishing' \in [Members -> printed \cup {NoAnnouncement}]
        BY <2>1 DEF MemberInv, MemberTypes
    <2> QED BY <1>1, <2>1, <2>2, KeepStep DEF MemberInv
<1>8. ASSUME NEW n \in Members, Broadcast(n) \/ BroadcastFails(n) PROVE MemberInv'
    <2>1. /\ publishing' = [publishing EXCEPT ![n] = NoAnnouncement] /\ publishing[n] # NoAnnouncement
          /\ printed' = printed /\ kept' = kept /\ fresh' = fresh /\ shown' = shown
          /\ wire' \subseteq wire \cup {publishing[n]}
        BY <1>8 DEF Broadcast, BroadcastFails, sequenceVars
    <2>2. publishing[n] \in printed BY <2>1 DEF MemberInv, MemberTypes
    <2> QED BY <1>1, <2>1, <2>2 DEF MemberInv, MemberTypes, ShownPrinted, KeptShown
<1>9. ASSUME NEW n \in Members, NeighborOffer(n) PROVE MemberInv'
    <2>1. Newest(n) \subseteq printed BY DEF Newest, MemberInv, MemberTypes
    <2> QED BY <1>1, <1>9, <2>1 DEF NeighborOffer, sequenceVars, MemberInv, MemberTypes, ShownPrinted, KeptShown
<1>10. ASSUME NEW n \in Members, MemberRestart(n) PROVE MemberInv'
    <2>1. /\ fresh' = [fresh EXCEPT ![n] = [w \in Workers |-> NoAnnouncement]]
          /\ publishing' = [publishing EXCEPT ![n] = NoAnnouncement]
          /\ printed' = printed /\ kept' = kept /\ wire' = wire /\ shown' = shown
        BY <1>10 DEF MemberRestart, sequenceVars
    <2>2. MemberTypes' BY <2>1 DEF MemberInv, MemberTypes
    <2>3. \A m \in Members, v \in Workers : fresh'[m][v] = NoAnnouncement \/ (m # n /\ fresh'[m] = fresh[m])
        BY <2>1 DEF MemberInv, MemberTypes
    <2>4. KeptShown' BY <2>1, <2>3 DEF MemberInv, KeptShown
    <2> QED BY <1>1, <2>1, <2>2, <2>4 DEF MemberInv, ShownPrinted
<1> QED
    BY <1>2, <1>3, <1>4, <1>5, <1>6, <1>7, <1>8, <1>9, <1>10
    DEF AnnouncementNext, MemberNext, JoinFind, JoinInsert, LeaveAuthor

(* Members agree on the text of a number, and show nothing else.           *)
THEOREM MembersAgree == AnnouncementSpec => []OneTextPerNumber
<1>1. MemberInv => OneTextPerNumber
    <2> SUFFICES ASSUME MemberInv PROVE OneTextPerNumber OBVIOUS
    <2>1. NumbersOnce BY OnceImplied DEF MemberInv
    <2> QED BY <2>1 DEF OneTextPerNumber, NumbersOnce, MemberInv, ShownPrinted
<1> QED BY <1>1, MemberInitInv, MemberStep, PTL DEF AnnouncementSpec

(* A member shows an announcement once.                                    *)
THEOREM NeverShownTwice == AnnouncementSpec => []ShownOnce
<1>1. MemberInv => ShownOnce BY DEF MemberInv, KeptShown, ShownOnce
<1> QED BY <1>1, MemberInitInv, MemberStep, PTL DEF AnnouncementSpec

(* Both: the whole promise of announcements.                               *)
COROLLARY AnnouncementsHold == AnnouncementSpec => []AnnouncementsTrue
<1>1. OneTextPerNumber /\ ShownOnce => AnnouncementsTrue BY DEF AnnouncementsTrue
<1> QED BY <1>1, MembersAgree, NeverShownTwice, PTL

(* In the whole system too, a number is printed for one text only.         *)
COROLLARY PrintedOnceInAll == AnnouncementSpec => []NumbersOnce
<1>1. MemberInv => NumbersOnce BY OnceImplied DEF MemberInv
<1> QED BY <1>1, MemberInitInv, MemberStep, PTL DEF AnnouncementSpec

-----------------------------------------------------------------------------
(* Types: the tool.  A number that is written as the first is none below   *)
(* zero, and no announcement is printed with the number zero.              *)
ToolTyped ==
    /\ keyFile \in BOOLEAN /\ before \in {0, 1}
    /\ directory \in {"absent", "empty", "opened", "owned"}
    /\ reserved \subseteq 0 .. MaxSeq
    /\ lockFile \in Signers \cup {NoSigner}
    /\ signer \in [Signers -> [pc : Steps, seq : 0 .. MaxSeq, previous : NoPrevious .. MaxSeq]]

LEMMA ToolTypedInit == SequenceInit => ToolTyped
BY MaxSeqAssumption DEF SequenceInit, ToolTyped, Fresh, NoPrevious, Steps, Over

LEMMA ToolTypedStep ==
    ASSUME SequenceInv, ToolTyped, [SequenceNext]_sequenceVars
    PROVE  ToolTyped'
<1>. USE MaxSeqAssumption DEF ToolTyped, Goes
<1>1. CASE UNCHANGED sequenceVars
  BY <1>1 DEF sequenceVars
<1>2. ASSUME NEW p \in Signers, Keygen(p) PROVE ToolTyped'
  BY <1>2 DEF Keygen, NoPrevious, Steps
<1>3. ASSUME NEW p \in Signers, Sign(p) PROVE ToolTyped'
  BY <1>3 DEF Sign, NoPrevious, Steps, Seqs
<1>4. ASSUME NEW p \in Signers, LookAbsent(p) \/ LookPresent(p) PROVE ToolTyped'
  BY <1>4 DEF LookAbsent, LookPresent, Steps, Over
<1>5. ASSUME NEW p \in Signers, MakeDirectory(p) \/ OpenAuthor(p) \/ WriteAuthor(p) PROVE ToolTyped'
  BY <1>5 DEF MakeDirectory, OpenAuthor, WriteAuthor, Steps, Over
<1>6. ASSUME NEW p \in Signers, WriteFirst(p) PROVE ToolTyped'
  <2>1. signer[p].previous >= before
    BY <1>6 DEF WriteFirst, At, SequenceInv, NumberRemembered, Making
  <2>2. signer[p].previous \in 0 .. MaxSeq
    BY <2>1 DEF NoPrevious
  <2>. QED
    BY <1>6, <2>2 DEF WriteFirst, Steps, Over
<1>7. ASSUME NEW p \in Signers, TakeLock(p) \/ ReadAuthor(p) \/ Scan(p) PROVE ToolTyped'
  BY <1>7 DEF TakeLock, ReadAuthor, Scan, Steps, Over
<1>8. ASSUME NEW p \in Signers, Reserve(p) \/ ReserveFails(p) PROVE ToolTyped'
  BY <1>8 DEF Reserve, ReserveFails, Steps, Over
<1>9. ASSUME NEW p \in Signers, Unlock(p) \/ PrintOut(p) \/ Die(p) PROVE ToolTyped'
  BY <1>9 DEF Unlock, PrintOut, Die, Steps, Over
<1>10. CASE Review
  BY <1>10 DEF Review
<1>. QED
  BY <1>1, <1>2, <1>3, <1>4, <1>5, <1>6, <1>7, <1>8, <1>9, <1>10 DEF SequenceNext

LEMMA ToolTypes == SequenceInv /\ ToolTyped => SequenceTypeOK
<1>. SUFFICES ASSUME SequenceInv, ToolTyped PROVE printed \subseteq Announcements
  BY DEF ToolTyped, SequenceTypeOK
<1>1. ASSUME NEW a \in printed PROVE a \in Announcements
  <2>1. a \in [seq : 0 .. MaxSeq, text : Signers]
    BY DEF SequenceInv, Types
  <2>2. a.seq > before /\ before \in Nat
    BY <2>1 DEF SequenceInv, Types, Claimed, Claims
  <2>3. a.seq \in Seqs
    BY <2>1, <2>2, MaxSeqAssumption DEF Seqs
  <2>. QED
    BY <2>1, <2>3 DEF Announcements
<1>. QED
  BY <1>1

(* The tool's directory, lock and processes keep their types.              *)
THEOREM SequenceTypes == SequenceSpec => []SequenceTypeOK
BY SequenceInitInv, SequenceStep, ToolTypedInit, ToolTypedStep, ToolTypes, PTL DEF SequenceSpec

(* The rooms of a member, and the callers that look for one.               *)
RoomsTyped == authorRooms \in [Members -> SUBSET Joiners] /\ joining \in [Members -> SUBSET Joiners]

LEMMA RoomsTypedStep ==
    ASSUME RoomsTyped, [AnnouncementNext]_announcementVars
    PROVE  RoomsTyped'
<1>. USE DEF RoomsTyped
<1>1. CASE UNCHANGED memberVars
  BY <1>1 DEF memberVars
<1>2. ASSUME NEW n \in Members, NEW c \in Joiners, JoinFind(n, c) \/ JoinInsert(n, c) \/ LeaveAuthor(n, c)
      PROVE  RoomsTyped'
  BY <1>2 DEF JoinFind, JoinInsert, LeaveAuthor
<1>3. ASSUME NEW n \in Members, MemberRestart(n)
      PROVE  RoomsTyped'
  BY <1>3 DEF MemberRestart
<1>4. CASE UNCHANGED <<authorRooms, joining>>
  BY <1>4
<1>. QED
  BY <1>1, <1>2, <1>3, <1>4
     DEF AnnouncementNext, announcementVars, MemberNext, Show, Receive, PostAnnouncement, Broadcast,
         BroadcastFails, NeighborOffer

LEMMA AnnouncementTyped ==
    ASSUME MemberInv, ToolTyped, RoomsTyped
    PROVE  AnnouncementTypeOK
<1>1. SequenceTypeOK
  BY ToolTypes DEF MemberInv
<1>. QED
  BY <1>1 DEF MemberInv, MemberTypes, RoomsTyped, AnnouncementTypeOK

(* What members keep, show and send are announcements that the tool could  *)
(* have printed; anything else on the wire is signed with another key.     *)
THEOREM AnnouncementTypes == AnnouncementSpec => []AnnouncementTypeOK
<1>1. AnnouncementInit => ToolTyped /\ RoomsTyped
  BY ToolTypedInit DEF AnnouncementInit, RoomsTyped
<1>2. [AnnouncementNext]_announcementVars => [SequenceNext]_sequenceVars
  BY DEF AnnouncementNext, announcementVars, MemberNext, JoinFind, JoinInsert, LeaveAuthor, Show, Receive,
         PostAnnouncement, Broadcast, BroadcastFails, NeighborOffer, MemberRestart
<1>3. MemberInv => SequenceInv
  BY DEF MemberInv
<1>4. MemberInv /\ ToolTyped /\ RoomsTyped /\ [AnnouncementNext]_announcementVars => ToolTyped' /\ RoomsTyped'
  BY <1>2, <1>3, ToolTypedStep, RoomsTypedStep
<1>5. MemberInv /\ ToolTyped /\ RoomsTyped => AnnouncementTypeOK
  BY AnnouncementTyped
<1>. QED
  BY <1>1, <1>4, <1>5, MemberInitInv, MemberStep, PTL DEF AnnouncementSpec

-----------------------------------------------------------------------------
(* Files: jobs, and those who are told to stop.                            *)
Stages == {"none", "queued", "begin", "fetch", "fetched", "unblocked", "open", "opened", "write",
           "written", "last", "done", "failed", "release", "unregister"}
Job == [pc : Stages, cancel : BOOLEAN, path : {NoPath} \cup Paths]

(* A job that has neither been told nor come to its end.                   *)
Untold(b) == job[b].pc \in DOMAIN After /\ ~job[b].cancel

JobsTyped == job \in [Blobs -> Job]

(* Once Node::block has signalled the jobs of the peer, all of them are    *)
(* told: the frame thread, which alone registers jobs, is still inside.    *)
BlockTold == blocking.pc = "offers" => \A b \in OfBlocked : ~Untold(b)

BlockingTyped ==
    /\ blocking \in [pc : {"none", "blobs", "jobs", "offers"}, peers : SUBSET Senders, removed : SUBSET Blobs]
    /\ ~AtWork => blocking.peers = {}

SignalInv == JobsTyped /\ BlockingTyped /\ BlockTold /\ ForgottenSignalled

-----------------------------------------------------------------------------
(* What the steps do to the jobs.                                          *)

LEMMA StagesKnown == DOMAIN After \subseteq Stages /\ \A s \in DOMAIN After : After[s] \in Stages
BY SMT DEF After, Stages

(* Telling jobs leaves them jobs and makes no untold one.                  *)
LEMMA SignalTells ==
    ASSUME JobsTyped, NEW S
    PROVE  /\ Signal(job, S) \in [Blobs -> Job]
           /\ \A b \in Blobs : /\ Signal(job, S)[b].pc = job[b].pc
                               /\ Signal(job, S)[b].path = job[b].path
                               /\ job[b].cancel => Signal(job, S)[b].cancel
                               /\ b \in S /\ job[b].pc # "none" => Signal(job, S)[b].cancel
<1>1. ASSUME NEW b \in Blobs
      PROVE  /\ Signal(job, S)[b] \in Job
             /\ Signal(job, S)[b].pc = job[b].pc
             /\ Signal(job, S)[b].path = job[b].path
             /\ job[b].cancel => Signal(job, S)[b].cancel
             /\ b \in S /\ job[b].pc # "none" => Signal(job, S)[b].cancel
  <2>1. job[b] \in Job
    BY DEF JobsTyped
  <2>2. CASE b \in S /\ job[b].pc # "none"
    <3>1. Signal(job, S)[b] = [job[b] EXCEPT !.cancel = TRUE]
      BY <2>2 DEF Signal
    <3>. QED
      BY <2>1, <3>1 DEF Job
  <2>3. CASE ~(b \in S /\ job[b].pc # "none")
    <3>1. Signal(job, S)[b] = job[b]
      BY <2>3 DEF Signal
    <3>. QED
      BY <2>1, <2>3, <3>1
  <2>. QED
    BY <2>2, <2>3
<1>. QED
  BY <1>1 DEF Signal

(* Where nothing but the untold jobs, the blobs, the block list or the     *)
(* call of Node::block is read, the invariant stays if there are no more   *)
(* of the first and no fewer of the others.                                *)
LEMMA NothingForgotten ==
    ASSUME SignalInv, JobsTyped', blocking' = blocking, blocked' = blocked,
           blobs \cup withdrawing \subseteq (blobs \cup withdrawing)',
           \A b \in Blobs : Untold(b)' => Untold(b)
    PROVE  SignalInv'
BY DEF SignalInv, BlockingTyped, AtWork, BlockTold, ForgottenSignalled, OfBlocked, Untold

LEMMA InitSignal == Init => SignalInv
<1>. SUFFICES ASSUME Init PROVE SignalInv
  OBVIOUS
<1>1. NoJob \in Job
  BY DEF NoJob, Job, Stages
<1>2. JobsTyped
  BY <1>1 DEF Init, JobsTyped
<1>3. \A b \in Blobs : ~Untold(b)
  BY DEF Init, Untold, NoJob, After
<1>4. BlockingTyped
  BY DEF Init, BlockingTyped, NotBlocking, AtWork
<1>. QED
  BY <1>2, <1>3, <1>4 DEF SignalInv, BlockTold, ForgottenSignalled, Untold, OfBlocked

(* A step of a job: it was untold before, if it is after.                  *)
LEMMA JobKeeps ==
    ASSUME SignalInv, NEW b \in Blobs, JobStep(b)
    PROVE  SignalInv'
<1>. USE DEF SignalInv
<1>0. job[b] \in Job
  BY DEF JobsTyped
<1>1. UNCHANGED native
  BY DEF JobStep, Advance, Abort, Report, Release, Unregister
<1>2. /\ JobsTyped'
      /\ \A c \in Blobs : Untold(c)' => Untold(c)
  <2>1. CASE Advance(b)
    <3>1. job[b].pc \in DOMAIN After /\ job' = [job EXCEPT ![b].pc = After[@]]
      BY <2>1 DEF Advance, Passes
    <3>2. After[job[b].pc] \in Stages
      BY <3>1, StagesKnown
    <3>. QED
      BY <1>0, <3>1, <3>2 DEF JobsTyped, Job, Untold
  <2>2. CASE Abort(b)
    <3>1. job[b].pc \in DOMAIN After /\ job' = [job EXCEPT ![b].pc = "failed"]
      BY <2>2 DEF Abort
    <3>. QED
      BY <1>0, <3>1 DEF JobsTyped, Job, Untold, Stages
  <2>3. CASE Report(b)
    <3>1. job' = [job EXCEPT ![b].pc = "release"]
      BY <2>3 DEF Report
    <3>. QED
      BY <1>0, <3>1 DEF JobsTyped, Job, Untold, Stages, After
  <2>4. CASE Release(b)
    <3>1. job' = [job EXCEPT ![b].pc = "unregister"]
      BY <2>4 DEF Release
    <3>. QED
      BY <1>0, <3>1 DEF JobsTyped, Job, Untold, Stages, After
  <2>5. CASE Unregister(b)
    <3>1. job' = [job EXCEPT ![b] = NoJob]
      BY <2>5 DEF Unregister
    <3>. QED
      BY <1>0, <3>1 DEF JobsTyped, Job, Untold, Stages, After, NoJob
  <2>. QED
    BY <2>1, <2>2, <2>3, <2>4, <2>5 DEF JobStep
<1>. QED
  BY <1>1, <1>2, NothingForgotten DEF native

(* Steps that leave the jobs alone, or only tell some.                     *)
LEMMA OthersKeep ==
    ASSUME SignalInv,
           job' = job \/ \E S \in SUBSET Blobs : job' = Signal(job, S),
           blocking' = blocking, blocked' = blocked,
           blobs \cup withdrawing \subseteq (blobs \cup withdrawing)'
    PROVE  SignalInv'
<1>. USE DEF SignalInv
<1>1. /\ JobsTyped'
      /\ \A c \in Blobs : Untold(c)' => Untold(c)
  <2>1. CASE job' = job
    BY <2>1 DEF JobsTyped, Untold
  <2>2. CASE \E S \in SUBSET Blobs : job' = Signal(job, S)
    BY <2>2, SignalTells DEF JobsTyped, Untold
  <2>. QED
    BY <2>1, <2>2
<1>. QED
  BY <1>1, NothingForgotten

(* The second half of forget_remote_blobs tells the job whose blob is then *)
(* forgotten altogether.                                                   *)
LEMMA WithdrawnKeeps ==
    ASSUME SignalInv, NEW b \in Blobs, Withdrawn(b)
    PROVE  SignalInv'
<1>. USE DEF SignalInv
<1>1. /\ job' = Signal(job, {b}) /\ withdrawing' = withdrawing \ {b}
      /\ UNCHANGED <<blobs, blocked, blocking>>
  BY DEF Withdrawn
<1>2. JobsTyped'
  BY <1>1, SignalTells DEF JobsTyped
<1>3. \A c \in Blobs : Untold(c)' => Untold(c) /\ c # b
  BY <1>1, SignalTells, StagesKnown DEF Untold, After
<1>. QED
  BY <1>1, <1>2, <1>3 DEF BlockTold, BlockingTyped, AtWork, ForgottenSignalled, Untold, OfBlocked

(* A job is registered while its offer is known and its sender not blocked.*)
LEMMA PreparedKeeps ==
    ASSUME SignalInv, NEW d \in Paths, NEW full \in BOOLEAN, Prepared(d, full)
    PROVE  SignalInv'
<1>. USE DEF SignalInv
<1>. DEFINE b == prep[d].blob
            registered == [NoJob EXCEPT !.pc = "queued", !.path = d]
<1>1. ~AtWork /\ UNCHANGED native
  BY DEF Prepared
<1>2. job' = job \/ (CanFetch(b) /\ job' = [job EXCEPT ![b] = registered])
  BY Zenon DEF Prepared
<1>3. registered \in Job
  BY DEF NoJob, Job, Stages, Paths
<1>4. /\ JobsTyped'
      /\ \A c \in Blobs : Untold(c)' => Untold(c) \/ (c = b /\ CanFetch(b))
  BY <1>2, <1>3 DEF JobsTyped, Untold
<1>. QED
  BY <1>1, <1>4 DEF native, CanFetch, BlockTold, BlockingTyped, AtWork, ForgottenSignalled, Untold, OfBlocked

(* Block: the peer is listed first and its jobs are told last, all while   *)
(* the frame thread registers none.                                        *)
LEMMA BlockListKeeps ==
    ASSUME SignalInv, NEW p \in Senders, BlockList(p)
    PROVE  SignalInv'
<1>. USE DEF SignalInv
<1>1. /\ ~AtWork /\ blocked' = blocked \cup {p}
      /\ blocking' = [pc |-> "blobs", peers |-> {p}, removed |-> {}]
      /\ UNCHANGED <<blobs, job, withdrawing>>
  BY DEF BlockList
<1>2. BlockingTyped' /\ BlockTold'
  BY <1>1 DEF BlockingTyped, BlockTold, AtWork
<1>. QED
  BY <1>1, <1>2 DEF JobsTyped, BlockingTyped, ForgottenSignalled

LEMMA BlockStepKeeps ==
    ASSUME SignalInv, BlockStep
    PROVE  SignalInv'
<1>. USE DEF SignalInv
<1>1. CASE BlockBlobs
  <2>1. /\ blobs' = blobs \ OfBlocked
        /\ withdrawing' = withdrawing \cup (blobs \cap OfBlocked)
        /\ blocking' = [blocking EXCEPT !.pc = "jobs", !.removed = blobs \cap OfBlocked]
        /\ UNCHANGED <<job, blocked>>
    BY <1>1 DEF BlockBlobs
  <2>2. BlockingTyped' /\ blocking'.peers = blocking.peers /\ blocking'.pc = "jobs"
    BY <2>1 DEF BlockingTyped, AtWork, OfBlocked
  <2>. QED
    BY <2>1, <2>2 DEF JobsTyped, BlockTold, ForgottenSignalled
<1>2. CASE BlockJobs
  <2>1. /\ job' = Signal(job, OfBlocked)
        /\ blocking' = [blocking EXCEPT !.pc = "offers"]
        /\ UNCHANGED <<blobs, withdrawing, blocked>>
    BY <1>2 DEF BlockJobs
  <2>2. BlockingTyped' /\ blocking'.peers = blocking.peers
    BY <2>1 DEF BlockingTyped, AtWork
  <2>3. JobsTyped'
    BY <2>1, SignalTells DEF JobsTyped
  <2>4. \A c \in Blobs : Untold(c)' => Untold(c) /\ c \notin OfBlocked
    BY <2>1, SignalTells DEF Untold, After
  <2>. QED
    BY <2>1, <2>2, <2>3, <2>4 DEF BlockTold, ForgottenSignalled, Untold, OfBlocked
<1>3. CASE BlockOffers
  <2>1. PICK S \in SUBSET Blobs : job' = Signal(job, S)
    BY <1>3 DEF BlockOffers, ForgetFileOffers, Busy
  <2>2. /\ blocking.pc = "offers" /\ blocking' = NotBlocking
        /\ UNCHANGED <<blobs, withdrawing, blocked>>
    BY <1>3 DEF BlockOffers
  <2>3. BlockingTyped' /\ BlockTold'
    BY <2>2 DEF BlockingTyped, BlockTold, NotBlocking, AtWork
  <2>4. JobsTyped'
    BY <2>1, SignalTells DEF JobsTyped
  <2>5. \A c \in Blobs : Untold(c)' => Untold(c) /\ c \notin OfBlocked
    BY <2>1, <2>2, SignalTells DEF Untold, BlockTold
  <2>. QED
    BY <2>2, <2>3, <2>4, <2>5 DEF ForgottenSignalled, Untold, OfBlocked
<1>. QED
  BY <1>1, <1>2, <1>3 DEF BlockStep

LEMMA UnblockKeeps ==
    ASSUME SignalInv, NEW p \in Senders, Unblock(p)
    PROVE  SignalInv'
BY DEF SignalInv, Unblock, JobsTyped, BlockingTyped, AtWork, BlockTold, OfBlocked, ForgottenSignalled, Untold

LEMMA NextSignal == SignalInv /\ [Next]_vars => SignalInv'
<1>. SUFFICES ASSUME SignalInv, [Next]_vars PROVE SignalInv'
  OBVIOUS
<1>1. ASSUME NEW b \in Blobs, OfferArrives(b) \/ Announce(b) \/ Unoffer(b) PROVE SignalInv'
  BY <1>1, OthersKeep DEF OfferArrives, Announce, Unoffer
<1>2. ASSUME NEW b \in Blobs, NEW d \in Paths, Download(b, d) PROVE SignalInv'
  BY <1>2, OthersKeep DEF Download, native
<1>3. ASSUME NEW d \in Paths, NEW gone \in SUBSET Paths, NEW bad \in BOOLEAN, Prepare(d, gone, bad)
      PROVE SignalInv'
  BY <1>3, OthersKeep DEF Prepare, native
<1>4. ASSUME NEW b \in Blobs, CancelDownload(b) PROVE SignalInv'
  <2>1. UNCHANGED native /\ (job' = job \/ job' = Signal(job, {b}))
    BY <1>4 DEF CancelDownload
  <2>. QED
    BY <2>1, OthersKeep DEF native
<1>5. ASSUME NEW p \in Senders, ToggleMute(p) PROVE SignalInv'
  <2>1. UNCHANGED native /\ (job' = job \/ \E S \in SUBSET Blobs : job' = Signal(job, S))
    BY <1>5 DEF ToggleMute, ForgetFileOffers, Busy
  <2>. QED
    BY <2>1, OthersKeep DEF native
<1>6. ASSUME Poll PROVE SignalInv'
  BY <1>6, OthersKeep DEF Poll, native
<1>7. CASE UNCHANGED vars
  BY <1>7, OthersKeep DEF vars
<1>. QED
  BY <1>1, <1>2, <1>3, <1>4, <1>5, <1>6, <1>7, JobKeeps, WithdrawnKeeps, PreparedKeeps,
     BlockListKeeps, BlockStepKeeps, UnblockKeeps, Zenon DEF Next

(* ForgottenSignalled: blob_fetch_bounded and forget_remote_blobs cannot   *)
(* miss each other, nor can it and Node::block; for any number of files,   *)
(* senders, permits and retries.                                           *)
THEOREM NoDownloadForgotten == Spec => []ForgottenSignalled
<1>1. SignalInv => ForgottenSignalled
  BY DEF SignalInv
<1>. QED
  BY <1>1, InitSignal, NextSignal, PTL DEF Spec

-----------------------------------------------------------------------------
(* Types of what the plugin keeps                                          *)

Kinds == {"Offer", "Withdrawn", "Done", "Failed"}
Events == [kind : Kinds, blob : Blobs]
States == {"Absent", "Offered", "Fetching", "Canceling", "Saved", "Failed", "Canceled"}
Offers == [state : States, path : {NoPath} \cup Paths, withdrawn : BOOLEAN]
Preparing == {"prepare", "ready"}
Preparations == [pc : {"none", "over"} \cup Preparing, blob : Blobs \cup {NoPath},
                 kept : SUBSET ({NoPath} \cup Paths), gone : SUBSET Paths, bad : BOOLEAN]
Contents == {"absent", "partial", "whole"}

OffersTyped == offers \in [Blobs -> Offers]
EventsTyped == events \in Seq(Events) /\ lost \subseteq Events /\ IsFiniteSet(lost)
PrepTyped ==
    /\ prep \in [Paths -> Preparations]
    /\ \A d \in Paths : prep[d].pc \in Preparing => prep[d].blob \in Blobs

TransferTyped ==
    /\ OffersTyped /\ EventsTyped /\ PrepTyped
    /\ disk \in [Paths -> Contents]
    /\ queued \subseteq Blobs /\ announcing \subseteq Blobs

(* What the operators of the list do, blob by blob.                        *)
LEMMA ForgetIs ==
    ASSUME NEW o \in [Blobs -> Offers], NEW S
    PROVE  /\ Forget(o, S) \in [Blobs -> Offers]
           /\ \A b \in Blobs : Forget(o, S)[b] = IF b \in S THEN Absent ELSE o[b]
<1>1. Absent \in Offers
  BY DEF Absent, Offers, States
<1>. QED
  BY <1>1 DEF Forget

LEMMA AddIs ==
    ASSUME NEW o \in [Blobs -> Offers], NEW b \in Blobs
    PROVE  /\ Add(o, b) \in [Blobs -> Offers]
           /\ \A c \in Blobs : c # b => Add(o, b)[c] = o[c]
           /\ Add(o, b)[b] = o[b] \/ (o[b].state = "Absent" /\ Add(o, b)[b] = Offered)
<1>1. Offered \in Offers
  BY DEF Offered, Absent, Offers, States
<1>2. Add(o, b) = o \/ (o[b].state = "Absent" /\ Add(o, b) = [o EXCEPT ![b] = Offered])
  BY Zenon DEF Add, Listed
<1>. QED
  BY <1>1, <1>2

LEMMA BeginFetchIs ==
    ASSUME NEW o \in [Blobs -> Offers], NEW b \in Blobs, NEW d \in Paths
    PROVE  /\ BeginFetch(o, b, d) \in [Blobs -> Offers]
           /\ \A c \in Blobs : c # b => BeginFetch(o, b, d)[c] = o[c]
           /\ BeginFetch(o, b, d)[b].state = "Fetching" /\ BeginFetch(o, b, d)[b].path = d
           /\ BeginFetch(o, b, d)[b].withdrawn = o[b].withdrawn
<1>1. o[b] \in Offers
  OBVIOUS
<1>2. BeginFetch(o, b, d) = [o EXCEPT ![b] = [o[b] EXCEPT !.state = "Fetching", !.path = d]]
  BY <1>1 DEF BeginFetch, Offers
<1>3. [o[b] EXCEPT !.state = "Fetching", !.path = d] \in Offers
  BY <1>1 DEF Offers, States
<1>. QED
  BY <1>1, <1>2, <1>3 DEF Offers

LEMMA CancelRequestedIs ==
    ASSUME NEW o \in [Blobs -> Offers], NEW b \in Blobs
    PROVE  /\ CancelRequested(o, b) \in [Blobs -> Offers]
           /\ \A c \in Blobs : c # b => CancelRequested(o, b)[c] = o[c]
           /\ CancelRequested(o, b)[b].state = IF o[b].state = "Fetching" THEN "Canceling" ELSE o[b].state
           /\ CancelRequested(o, b)[b].path = o[b].path
           /\ CancelRequested(o, b)[b].withdrawn = o[b].withdrawn
BY DEF CancelRequested, Offers, States

LEMMA WithdrawIs ==
    ASSUME NEW o \in [Blobs -> Offers], NEW b \in Blobs
    PROVE  /\ Withdraw(o, b) \in [Blobs -> Offers]
           /\ \A c \in Blobs : c # b => Withdraw(o, b)[c] = o[c]
           /\ \/ Withdraw(o, b)[b] = Absent /\ b \notin Busy(o)
              \/ /\ o[b].state \in {"Fetching", "Canceling", "Saved"}
                 /\ Withdraw(o, b)[b].withdrawn
                 /\ Withdraw(o, b)[b].path = o[b].path
                 /\ Withdraw(o, b)[b].state = IF o[b].state = "Fetching" THEN "Canceling" ELSE o[b].state
<1>1. CASE o[b].state \in {"Fetching", "Canceling", "Saved"}
  <2>. DEFINE r == CancelRequested(o, b)
  <2>1. Withdraw(o, b) = [r EXCEPT ![b].withdrawn = TRUE]
    BY <1>1 DEF Withdraw
  <2>2. r \in [Blobs -> Offers] /\ r[b] \in Offers
    BY CancelRequestedIs
  <2>3. [r[b] EXCEPT !.withdrawn = TRUE] \in Offers
    BY <2>2 DEF Offers
  <2>4. Withdraw(o, b)[b] = [r[b] EXCEPT !.withdrawn = TRUE]
    BY <2>1, <2>2
  <2>5. Withdraw(o, b) \in [Blobs -> Offers] /\ \A c \in Blobs : c # b => Withdraw(o, b)[c] = o[c]
    BY <2>1, <2>2, <2>3, CancelRequestedIs
  <2>6. /\ Withdraw(o, b)[b].withdrawn = TRUE
        /\ Withdraw(o, b)[b].path = r[b].path
        /\ Withdraw(o, b)[b].state = r[b].state
    BY <2>2, <2>4 DEF Offers
  <2>7. r[b].path = o[b].path /\ r[b].state = IF o[b].state = "Fetching" THEN "Canceling" ELSE o[b].state
    BY CancelRequestedIs
  <2>. HIDE DEF r
  <2>. QED
    BY <1>1, <2>5, <2>6, <2>7
<1>2. CASE o[b].state \notin {"Fetching", "Canceling", "Saved"}
  BY <1>2, ForgetIs DEF Withdraw, Busy
<1>. QED
  BY <1>1, <1>2

LEMMA CompleteIs ==
    ASSUME NEW o \in [Blobs -> Offers], NEW b \in Blobs, NEW verified \in BOOLEAN
    PROVE  /\ Complete(o, b, verified) \in [Blobs -> Offers]
           /\ \A c \in Blobs : c # b => Complete(o, b, verified)[c] = o[c]
           /\ b \notin Busy(o) => Complete(o, b, verified)[b] = o[b]
           /\ b \in Busy(o) =>
                 \/ Complete(o, b, verified)[b] = Absent /\ ~verified
                 \/ /\ Complete(o, b, verified)[b].state \in IF verified THEN {"Saved"} ELSE {"Failed", "Canceled"}
                    /\ Complete(o, b, verified)[b].path = o[b].path
                    /\ Complete(o, b, verified)[b].withdrawn = o[b].withdrawn
<1>1. CASE b \notin Busy(o)
  BY <1>1 DEF Complete
<1>2. CASE b \in Busy(o) /\ ~verified /\ o[b].withdrawn
  <2>1. Complete(o, b, verified) = Forget(o, {b})
    BY <1>2 DEF Complete
  <2>2. /\ Forget(o, {b}) \in [Blobs -> Offers]
        /\ Forget(o, {b})[b] = Absent
        /\ \A c \in Blobs : c # b => Forget(o, {b})[c] = o[c]
    BY ForgetIs
  <2>. QED
    BY <1>2, <2>1, <2>2
<1>3. CASE b \in Busy(o) /\ ~(~verified /\ o[b].withdrawn)
  <2>. DEFINE s == IF verified THEN "Saved" ELSE IF o[b].state = "Canceling" THEN "Canceled" ELSE "Failed"
  <2>1. o[b] \in Offers
    OBVIOUS
  <2>2. Complete(o, b, verified) = [o EXCEPT ![b].state = s]
    BY <1>3 DEF Complete
  <2>3. s \in States /\ s \in IF verified THEN {"Saved"} ELSE {"Failed", "Canceled"}
    BY DEF States
  <2>. HIDE DEF s
  <2>4. [o[b] EXCEPT !.state = s] \in Offers
    BY <2>1, <2>3 DEF Offers
  <2>5. Complete(o, b, verified)[b] = [o[b] EXCEPT !.state = s]
    BY <2>1, <2>2
  <2>6. Complete(o, b, verified) \in [Blobs -> Offers] /\ \A c \in Blobs : c # b => Complete(o, b, verified)[c] = o[c]
    BY <2>2, <2>4
  <2>. QED
    BY <1>3, <2>1, <2>3, <2>5, <2>6 DEF Offers
<1>. QED
  BY <1>1, <1>2, <1>3

-----------------------------------------------------------------------------
(* The event channel                                                       *)

LEMMA AppendedIs ==
    ASSUME NEW q \in Seq(Events), NEW e \in Events
    PROVE  /\ Append(q, e) \in Seq(Events)
           /\ DOMAIN Append(q, e) = DOMAIN q \cup {Len(q) + 1}
           /\ Append(q, e)[Len(q) + 1] = e
           /\ \A i \in DOMAIN q : Append(q, e)[i] = q[i] /\ i \in Int /\ i < Len(q) + 1
           /\ Len(q) + 1 \in Int
<1>1. Append(q, e) \in Seq(Events) /\ Len(Append(q, e)) = Len(q) + 1
  OBVIOUS
<1>2. DOMAIN q = 1..Len(q) /\ DOMAIN Append(q, e) = 1..(Len(q) + 1) /\ Len(q) \in Nat
  BY <1>1
<1>. QED
  BY <1>1, <1>2

LEMMA TailIs ==
    ASSUME NEW q \in Seq(Events), q # << >>
    PROVE  /\ Tail(q) \in Seq(Events) /\ Head(q) \in Events
           /\ 1 \in DOMAIN q /\ Head(q) = q[1]
           /\ \A i \in DOMAIN q : i \in Int /\ i >= 1
           /\ \A i \in DOMAIN Tail(q) : i + 1 \in DOMAIN q /\ Tail(q)[i] = q[i + 1] /\ i \in Int /\ i >= 1
           /\ \A i \in DOMAIN q : i = 1 \/ (i - 1 \in DOMAIN Tail(q) /\ Tail(q)[i - 1] = q[i])
<1>1. Tail(q) \in Seq(Events) /\ Len(Tail(q)) = Len(q) - 1 /\ Len(q) \in Nat /\ Len(q) > 0
  OBVIOUS
<1>2. DOMAIN q = 1..Len(q) /\ DOMAIN Tail(q) = 1..(Len(q) - 1)
  BY <1>1
<1>3. \A i \in 1..(Len(q) - 1) : Tail(q)[i] = q[i + 1]
  OBVIOUS
<1>. QED
  BY <1>1, <1>2, <1>3

(* Where the events of a kind about a blob are.                            *)
Hits(q, b, S) == {i \in DOMAIN q : q[i].blob = b /\ q[i].kind \in S}

LEMMA HitsFinite ==
    ASSUME NEW q \in Seq(Events), NEW b, NEW S
    PROVE  IsFiniteSet(Hits(q, b, S)) /\ Cardinality(Hits(q, b, S)) \in Nat
<1>1. DOMAIN q = 1..Len(q) /\ Len(q) \in Nat
  OBVIOUS
<1>2. IsFiniteSet(1..Len(q))
  BY <1>1, FS_Interval
<1>3. IsFiniteSet(Hits(q, b, S))
  BY <1>1, <1>2, FS_Subset DEF Hits
<1>. QED
  BY <1>3, FS_CardinalityType

LEMMA HitsAppended ==
    ASSUME NEW q \in Seq(Events), NEW e \in Events, NEW b, NEW S
    PROVE  Cardinality(Hits(Append(q, e), b, S))
              = Cardinality(Hits(q, b, S)) + (IF e.blob = b /\ e.kind \in S THEN 1 ELSE 0)
<1>. DEFINE n == Len(q) + 1
<1>1. /\ DOMAIN Append(q, e) = DOMAIN q \cup {n} /\ Append(q, e)[n] = e
      /\ n \notin DOMAIN q
      /\ \A i \in DOMAIN q : Append(q, e)[i] = q[i]
  BY AppendedIs
<1>. HIDE DEF n
<1>2. IsFiniteSet(Hits(q, b, S)) /\ Cardinality(Hits(q, b, S)) \in Nat
  BY HitsFinite
<1>3. CASE e.blob = b /\ e.kind \in S
  <2>1. Hits(Append(q, e), b, S) = Hits(q, b, S) \cup {n} /\ n \notin Hits(q, b, S)
    BY <1>1, <1>3 DEF Hits
  <2>. QED
    BY <1>2, <1>3, <2>1, FS_AddElement
<1>4. CASE ~(e.blob = b /\ e.kind \in S)
  <2>1. Hits(Append(q, e), b, S) = Hits(q, b, S)
    BY <1>1, <1>4 DEF Hits
  <2>. QED
    BY <1>2, <1>4, <2>1
<1>. QED
  BY <1>3, <1>4

LEMMA HitsTail ==
    ASSUME NEW q \in Seq(Events), q # << >>, NEW b, NEW S
    PROVE  Cardinality(Hits(q, b, S))
              = Cardinality(Hits(Tail(q), b, S)) + (IF Head(q).blob = b /\ Head(q).kind \in S THEN 1 ELSE 0)
<1>. DEFINE T == Hits(Tail(q), b, S)
            U == Hits(q, b, S) \ {1}
            f == [i \in T |-> i + 1]
<1>1. /\ 1 \in DOMAIN q /\ Head(q) = q[1]
      /\ \A i \in DOMAIN q : i \in Int
      /\ \A i \in DOMAIN Tail(q) : i + 1 \in DOMAIN q /\ Tail(q)[i] = q[i + 1] /\ i \in Int /\ i >= 1
      /\ \A i \in DOMAIN q : i = 1 \/ (i - 1 \in DOMAIN Tail(q) /\ Tail(q)[i - 1] = q[i])
  BY TailIs
<1>2. f \in Bijection(T, U)
  <2>1. \A i \in T : i \in Int /\ i >= 1 /\ i + 1 \in U
    BY <1>1 DEF Hits
  <2>2. f \in [T -> U]
    BY <2>1
  <2>3. \A i, j \in T : f[i] = f[j] => i = j
    BY <2>1
  <2>4. \A k \in U : k - 1 \in T /\ f[k - 1] = k
    <3>1. \A k \in U : k \in Int /\ k - 1 \in T
      BY <1>1 DEF Hits
    <3>. QED
      BY <3>1
  <2>. QED
    BY <2>2, <2>3, <2>4 DEF Bijection, Injection, Surjection, IsInjective
<1>. HIDE DEF f
<1>3. IsFiniteSet(T) /\ Cardinality(T) \in Nat /\ IsFiniteSet(Hits(q, b, S)) /\ Cardinality(Hits(q, b, S)) \in Nat
  BY TailIs, HitsFinite
<1>4. Cardinality(U) = Cardinality(T)
  BY <1>2, <1>3, FS_Bijection DEF ExistsBijection
<1>5. Cardinality(U) = IF 1 \in Hits(q, b, S) THEN Cardinality(Hits(q, b, S)) - 1 ELSE Cardinality(Hits(q, b, S))
  BY <1>3, FS_RemoveElement
<1>6. 1 \in Hits(q, b, S) <=> Head(q).blob = b /\ Head(q).kind \in S
  BY <1>1 DEF Hits
<1>. QED
  BY <1>3, <1>4, <1>5, <1>6

LEMMA EmitTyped ==
    ASSUME EventsTyped, NEW e \in Events, Emit(e)
    PROVE  EventsTyped'
<1>1. CASE events' = Append(events, e) /\ UNCHANGED lost
  BY <1>1, AppendedIs DEF EventsTyped
<1>2. CASE lost' = lost \cup {e} /\ UNCHANGED events
  BY <1>2, FS_AddElement DEF EventsTyped
<1>. QED
  BY <1>1, <1>2 DEF Emit

LEMMA InitTransfer == Init => TransferTyped
<1>. SUFFICES ASSUME Init PROVE TransferTyped
  OBVIOUS
<1>1. OffersTyped
  BY DEF Init, OffersTyped, Absent, Offers, States
<1>2. EventsTyped
  BY FS_EmptySet DEF Init, EventsTyped
<1>3. PrepTyped
  BY DEF Init, PrepTyped, NoPrep, Preparations, Preparing
<1>. QED
  BY <1>1, <1>2, <1>3 DEF Init, TransferTyped, Contents

(* The frame thread gets ready: the paths it notes are paths.              *)
LEMMA DownloadTyped ==
    ASSUME TransferTyped, NEW b \in Blobs, NEW d \in Paths, Download(b, d)
    PROVE  TransferTyped'
<1>. USE DEF TransferTyped
<1>1. offers' \in [Blobs -> Offers]
  BY BeginFetchIs DEF Download, OffersTyped
<1>2. {offers'[c].path : c \in Busy(offers')} \subseteq {NoPath} \cup Paths
  BY <1>1 DEF Offers, Busy
<1>. DEFINE stay == {offers'[c].path : c \in Busy(offers')}
            p == [NoPrep EXCEPT !.pc = "prepare", !.blob = b, !.kept = stay]
<1>3. prep' = [prep EXCEPT ![d] = p]
  BY DEF Download
<1>. HIDE DEF stay
<1>4. p \in Preparations /\ p.blob \in Blobs
  BY <1>2 DEF NoPrep, Preparations, Preparing, stay
<1>. HIDE DEF p
<1>5. PrepTyped'
  BY <1>3, <1>4 DEF PrepTyped
<1>. QED
  BY <1>1, <1>5 DEF Download, native, OffersTyped, EventsTyped

LEMMA PrepareTyped ==
    ASSUME TransferTyped, NEW d \in Paths, NEW gone \in SUBSET Paths, NEW bad \in BOOLEAN, Prepare(d, gone, bad)
    PROVE  TransferTyped'
<1>. USE DEF TransferTyped
<1>1. prep[d] \in Preparations /\ prep[d].blob \in Blobs
  BY DEF Prepare, PrepTyped, Preparing
<1>. DEFINE p == [prep[d] EXCEPT !.pc = "ready", !.gone = gone, !.bad = bad]
<1>2. prep' = [prep EXCEPT ![d] = p]
  BY <1>1 DEF Prepare, PrepTyped, Preparations
<1>3. p \in Preparations /\ p.blob \in Blobs
  BY <1>1 DEF Preparations, Preparing
<1>. HIDE DEF p
<1>4. PrepTyped'
  BY <1>2, <1>3 DEF PrepTyped
<1>5. disk' \in [Paths -> Contents]
  BY DEF Prepare, Contents
<1>. QED
  BY <1>4, <1>5 DEF Prepare, native, OffersTyped, EventsTyped

(* What the callback finds the list to be.                                 *)
Current(d) == Forget(offers, {c \in Blobs : offers[c].state = "Saved" /\ offers[c].path \in prep[d].gone})

(* What it does.                                                           *)
LEMMA PreparedDoes ==
    ASSUME TransferTyped, NEW d \in Paths, NEW full \in BOOLEAN, Prepared(d, full)
    PROVE  LET b == prep[d].blob
           IN  /\ b \in Blobs /\ prep[d].pc = "ready"
               /\ Current(d) \in [Blobs -> Offers]
               /\ prep' = [prep EXCEPT ![d] = [NoPrep EXCEPT !.pc = "over"]]
               /\ \/ /\ Current(d)[b].path = d /\ Current(d)[b].state = "Fetching" /\ CanFetch(b)
                     /\ offers' = Current(d)
                     /\ job' = [job EXCEPT ![b] = [NoJob EXCEPT !.pc = "queued", !.path = d]]
                     /\ queued' = queued \cup {b}
                  \/ /\ Current(d)[b].path # d /\ offers' = Current(d)
                     /\ UNCHANGED <<job, queued>>
                  \/ /\ Current(d)[b].path = d /\ offers' = Complete(Current(d), b, FALSE)
                     /\ UNCHANGED <<job, queued>>
<1>1. prep[d].pc = "ready" /\ prep[d].blob \in Blobs
  BY DEF Prepared, TransferTyped, PrepTyped, Preparing
<1>2. Current(d) \in [Blobs -> Offers]
  BY ForgetIs DEF Current, TransferTyped, OffersTyped
<1>. DEFINE b == prep[d].blob
            current == Current(d)
            wanted == current[b].path = d /\ current[b].state = "Fetching" /\ Allowed(b)
            starts == wanted /\ ~prep[d].bad /\ CanFetch(b) /\ ~full
<1>3. /\ prep' = [prep EXCEPT ![d] = [NoPrep EXCEPT !.pc = "over"]]
      /\ offers' = IF starts \/ current[b].path # d THEN current ELSE Complete(current, b, FALSE)
      /\ job' = IF starts THEN [job EXCEPT ![b] = [NoJob EXCEPT !.pc = "queued", !.path = d]] ELSE job
      /\ queued' = IF starts THEN queued \cup {b} ELSE queued
  BY DEF Prepared, Current
<1>. HIDE DEF b, current
<1>4. CASE starts
  BY <1>1, <1>2, <1>3, <1>4 DEF b, current
<1>5. CASE ~starts /\ current[b].path # d
  BY <1>1, <1>2, <1>3, <1>5 DEF b, current
<1>6. CASE ~starts /\ current[b].path = d
  BY <1>1, <1>2, <1>3, <1>6 DEF b, current
<1>. QED
  BY <1>4, <1>5, <1>6

LEMMA PreparedTyped ==
    ASSUME TransferTyped, NEW d \in Paths, NEW full \in BOOLEAN, Prepared(d, full)
    PROVE  TransferTyped'
<1>. DEFINE b == prep[d].blob
<1>1. b \in Blobs /\ Current(d) \in [Blobs -> Offers]
  BY PreparedDoes
<1>2. OffersTyped'
  <2>1. offers' = Current(d) \/ offers' = Complete(Current(d), b, FALSE)
    BY PreparedDoes
  <2>2. Complete(Current(d), b, FALSE) \in [Blobs -> Offers]
    BY <1>1, CompleteIs
  <2>. QED
    BY <1>1, <2>1, <2>2 DEF OffersTyped
<1>3. PrepTyped'
  <2>1. prep' = [prep EXCEPT ![d] = [NoPrep EXCEPT !.pc = "over"]]
    BY PreparedDoes
  <2>2. [NoPrep EXCEPT !.pc = "over"] \in Preparations /\ [NoPrep EXCEPT !.pc = "over"].pc = "over"
    BY DEF NoPrep, Preparations
  <2>. QED
    BY <2>1, <2>2 DEF PrepTyped, TransferTyped, Preparing
<1>4. queued' \subseteq Blobs
  <2>1. queued' = queued \/ queued' = queued \cup {b}
    BY PreparedDoes
  <2>. QED
    BY <1>1, <2>1 DEF TransferTyped
<1>. QED
  BY <1>2, <1>3, <1>4 DEF Prepared, native, EventsTyped, TransferTyped

(* What the frame thread does with an event.                               *)
LEMMA PollDoes ==
    ASSUME TransferTyped, Poll
    PROVE  LET e == Head(events)
               b == e.blob
           IN  /\ events # << >> /\ e \in Events /\ events' = Tail(events)
               /\ UNCHANGED <<native, job, disk, lost, prep, muted>>
               /\ \/ /\ e.kind = "Offer" /\ UNCHANGED queued
                     /\ offers' = offers \/ offers' = Add(offers, b)
                  \/ e.kind = "Withdrawn" /\ offers' = Withdraw(offers, b) /\ UNCHANGED queued
                  \/ e.kind \in Terminal /\ b \notin queued /\ UNCHANGED <<offers, queued>>
                  \/ /\ e.kind \in Terminal /\ b \in queued /\ queued' = queued \ {b}
                     /\ offers' = Complete(offers, b, e.kind = "Done")
<1>. DEFINE e == Head(events)
<1>1. events # << >> /\ e \in Events /\ events' = Tail(events)
  BY TailIs DEF Poll, TransferTyped, EventsTyped
<1>2. UNCHANGED <<native, job, disk, lost, prep, muted>>
  BY DEF Poll
<1>3. /\ offers' = CASE e.kind = "Offer" -> IF Allowed(e.blob) THEN Add(offers, e.blob) ELSE offers
                     [] e.kind = "Withdrawn" -> Withdraw(offers, e.blob)
                     [] e.kind \in {"Done", "Failed"} /\ e.blob \notin queued -> offers
                     [] OTHER -> Complete(offers, e.blob, e.kind = "Done")
      /\ queued' = IF e.kind \in {"Done", "Failed"} THEN queued \ {e.blob} ELSE queued
  BY DEF Poll
<1>4. e.kind \in Kinds
  BY <1>1 DEF Events
<1>. HIDE DEF e
<1>5. CASE e.kind = "Offer"
  BY <1>1, <1>2, <1>3, <1>5 DEF e
<1>6. CASE e.kind = "Withdrawn"
  <2>1. queued' = queued /\ offers' = Withdraw(offers, e.blob)
    BY <1>3, <1>6
  <2>. QED
    BY <1>1, <1>2, <1>6, <2>1 DEF e
<1>7. CASE e.kind \in Terminal /\ e.blob \notin queued
  <2>1. queued' = queued /\ offers' = offers
    BY <1>3, <1>7 DEF Terminal
  <2>. QED
    BY <1>1, <1>2, <1>7, <2>1 DEF e
<1>8. CASE e.kind \in Terminal /\ e.blob \in queued
  <2>1. queued' = queued \ {e.blob} /\ offers' = Complete(offers, e.blob, e.kind = "Done")
    BY <1>3, <1>8 DEF Terminal
  <2>. QED
    BY <1>1, <1>2, <1>8, <2>1 DEF e
<1>. QED
  BY <1>4, <1>5, <1>6, <1>7, <1>8 DEF Kinds, Terminal

LEMMA PollTyped ==
    ASSUME TransferTyped, Poll
    PROVE  TransferTyped'
<1>. DEFINE e == Head(events)
            b == e.blob
<1>1. e \in Events /\ b \in Blobs /\ events # << >>
  BY PollDoes DEF Events
<1>2. OffersTyped'
  <2>1. /\ Add(offers, b) \in [Blobs -> Offers]
        /\ Withdraw(offers, b) \in [Blobs -> Offers]
        /\ Complete(offers, b, e.kind = "Done") \in [Blobs -> Offers]
    BY <1>1, AddIs, WithdrawIs, CompleteIs DEF TransferTyped, OffersTyped
  <2>2. offers' \in {offers, Add(offers, b), Withdraw(offers, b), Complete(offers, b, e.kind = "Done")}
    BY PollDoes
  <2>. QED
    BY <2>1, <2>2 DEF TransferTyped, OffersTyped
<1>3. queued' \subseteq queued
  BY PollDoes
<1>4. EventsTyped'
  <2>1. events' = Tail(events) /\ lost' = lost
    BY PollDoes
  <2>. QED
    BY <1>1, <2>1, TailIs DEF EventsTyped, TransferTyped
<1>. QED
  BY <1>2, <1>3, <1>4 DEF Poll, native, PrepTyped, TransferTyped

(* A cancellation ends a preparation, or tells a job.                      *)
LEMMA CancelDoes ==
    ASSUME TransferTyped, NEW b \in Blobs, CancelDownload(b)
    PROVE  /\ UNCHANGED <<native, disk, events, lost, queued, prep, muted>>
           /\ offers[b].state = "Fetching"
           /\ offers' \in [Blobs -> Offers]
           /\ \A c \in Blobs : c # b => offers'[c] = offers[c]
           /\ \/ /\ b \notin queued /\ UNCHANGED job
                 /\ \/ offers'[b] = Absent
                    \/ /\ offers'[b].state \in {"Failed", "Canceled"} /\ offers'[b].path = offers[b].path
                       /\ offers'[b].withdrawn = offers[b].withdrawn
              \/ /\ b \in queued /\ job' = Signal(job, {b})
                 /\ offers'[b].state = "Canceling" /\ offers'[b].path = offers[b].path
                 /\ offers'[b].withdrawn = offers[b].withdrawn
<1>. DEFINE r == CancelRequested(offers, b)
<1>1. /\ r \in [Blobs -> Offers]
      /\ \A c \in Blobs : c # b => r[c] = offers[c]
      /\ r[b].path = offers[b].path /\ r[b].withdrawn = offers[b].withdrawn
      /\ r[b].state = IF offers[b].state = "Fetching" THEN "Canceling" ELSE offers[b].state
  BY CancelRequestedIs DEF TransferTyped, OffersTyped
<1>2. UNCHANGED <<native, disk, events, lost, queued, prep, muted>> /\ offers[b].state = "Fetching"
  BY DEF CancelDownload
<1>3. CASE b \notin queued
  <2>1. offers' = Complete(r, b, FALSE) /\ UNCHANGED job
    BY <1>3 DEF CancelDownload
  <2>. HIDE DEF r
  <2>2. b \in Busy(r)
    BY <1>1, <1>2 DEF Busy
  <2>3. /\ Complete(r, b, FALSE) \in [Blobs -> Offers]
        /\ \A c \in Blobs : c # b => Complete(r, b, FALSE)[c] = r[c]
        /\ \/ Complete(r, b, FALSE)[b] = Absent
           \/ /\ Complete(r, b, FALSE)[b].state \in {"Failed", "Canceled"}
              /\ Complete(r, b, FALSE)[b].path = r[b].path
              /\ Complete(r, b, FALSE)[b].withdrawn = r[b].withdrawn
    BY <1>1, <2>2, CompleteIs
  <2>. QED
    BY <1>1, <1>2, <1>3, <2>1, <2>3
<1>4. CASE b \in queued
  <2>1. offers' = r /\ job' = Signal(job, {b})
    BY <1>4 DEF CancelDownload
  <2>. HIDE DEF r
  <2>. QED
    BY <1>1, <1>2, <1>4, <2>1
<1>. QED
  BY <1>3, <1>4

(* Muting and the end of blocking forget offers, and tell their jobs.      *)
LEMMA ForgetDoes ==
    ASSUME TransferTyped, NEW p, ForgetFileOffers(p)
    PROVE  /\ offers' \in [Blobs -> Offers]
           /\ \A b \in Blobs : offers'[b] = offers[b] \/ offers'[b] = Absent
           /\ \E S \in SUBSET Blobs : job' = Signal(job, S)
<1>1. PICK S \in SUBSET Blobs : offers' = Forget(offers, S) /\ job' = Signal(job, S \cap Busy(offers))
  BY DEF ForgetFileOffers
<1>2. S \cap Busy(offers) \in SUBSET Blobs
  OBVIOUS
<1>3. /\ Forget(offers, S) \in [Blobs -> Offers]
      /\ \A b \in Blobs : Forget(offers, S)[b] = IF b \in S THEN Absent ELSE offers[b]
  BY ForgetIs DEF TransferTyped, OffersTyped
<1>. QED
  BY <1>1, <1>2, <1>3

(* All the other steps leave the list, or forget offers.                   *)
QuietStep ==
    \/ \E b \in Blobs : OfferArrives(b) \/ Announce(b) \/ Unoffer(b) \/ Withdrawn(b) \/ JobStep(b)
    \/ \E p \in Senders : ToggleMute(p) \/ BlockList(p) \/ Unblock(p)
    \/ BlockStep
    \/ UNCHANGED vars

LEMMA QuietDoes ==
    ASSUME TransferTyped, QuietStep
    PROVE  /\ UNCHANGED <<queued, prep>>
           /\ offers' \in [Blobs -> Offers]
           /\ \A b \in Blobs : offers'[b] = offers[b] \/ offers'[b] = Absent
<1>1. UNCHANGED <<queued, prep>>
  BY DEF QuietStep, OfferArrives, Announce, Unoffer, Withdrawn, JobStep, Advance, Abort, Report, Release, Unregister,
         ToggleMute, BlockList, Unblock, BlockStep, BlockBlobs, BlockJobs, BlockOffers, plugin, vars
<1>2. UNCHANGED offers \/ \E p : ForgetFileOffers(p)
  BY DEF QuietStep, OfferArrives, Announce, Unoffer, Withdrawn, JobStep, Advance, Abort, Report, Release, Unregister,
         ToggleMute, BlockList, Unblock, BlockStep, BlockBlobs, BlockJobs, BlockOffers, plugin, vars
<1>. QED
  BY <1>1, <1>2, ForgetDoes DEF TransferTyped, OffersTyped

LEMMA QuietTyped ==
    ASSUME TransferTyped, SignalInv, QuietStep
    PROVE  TransferTyped'
<1>1. OffersTyped' /\ PrepTyped' /\ queued' \subseteq Blobs
  BY QuietDoes DEF TransferTyped, OffersTyped, PrepTyped
<1>2. announcing' \subseteq Blobs
  BY DEF QuietStep, OfferArrives, Announce, Unoffer, Withdrawn, JobStep, Advance, Abort, Report, Release, Unregister,
         ToggleMute, BlockList, Unblock, BlockStep, BlockBlobs, BlockJobs, BlockOffers, native, vars, TransferTyped
<1>3. EventsTyped'
  <2>1. CASE UNCHANGED <<events, lost>>
    BY <2>1 DEF TransferTyped, EventsTyped
  <2>2. CASE \E b \in Blobs : Announce(b) \/ Withdrawn(b) \/ Report(b)
    <3>1. PICK b \in Blobs, kind \in Kinds : Emit(Event(kind, b))
      BY <2>2 DEF Announce, Withdrawn, Report, Kinds
    <3>2. Event(kind, b) \in Events
      BY DEF Event, Events
    <3>. QED
      BY <3>1, <3>2, EmitTyped DEF TransferTyped
  <2>. QED
    BY <2>1, <2>2
    DEF QuietStep, OfferArrives, Unoffer, JobStep, Advance, Abort, Release, Unregister,
        ToggleMute, BlockList, Unblock, BlockStep, BlockBlobs, BlockJobs, BlockOffers, vars
<1>4. disk' \in [Paths -> Contents]
  <2>1. CASE UNCHANGED disk
    BY <2>1 DEF TransferTyped
  <2>2. ASSUME NEW d, NEW v \in Contents \cup {disk[d]}, disk' = [disk EXCEPT ![d] = v]
        PROVE  disk' \in [Paths -> Contents]
    BY <2>2 DEF TransferTyped
  <2>3. ASSUME NEW b \in Blobs, Advance(b)
        PROVE  disk' \in [Paths -> Contents]
    <3>. DEFINE v == CASE job[b].pc = "open" -> "partial" [] job[b].pc = "write" -> "whole" [] OTHER -> disk[job[b].path]
    <3>1. v \in Contents \cup {disk[job[b].path]}
      BY DEF Contents
    <3>2. disk' = [disk EXCEPT ![job[b].path] = v]
      BY <2>3 DEF Advance
    <3>. HIDE DEF v
    <3>. QED
      BY <2>2, <3>1, <3>2
  <2>4. ASSUME NEW b \in Blobs, Abort(b)
        PROVE  disk' \in [Paths -> Contents]
    BY <2>1, <2>2, <2>4 DEF Abort, Contents
  <2>. QED
    BY <2>1, <2>3, <2>4
    DEF QuietStep, OfferArrives, Announce, Unoffer, Withdrawn, JobStep, Report, Release, Unregister,
        ToggleMute, BlockList, Unblock, BlockStep, BlockBlobs, BlockJobs, BlockOffers, vars
<1>. QED
  BY <1>1, <1>2, <1>3, <1>4 DEF TransferTyped

(* Every step is quiet, or one of the frame thread's.                      *)
LEMMA NextSplits ==
    ASSUME [Next]_vars
    PROVE  \/ QuietStep
           \/ \E b \in Blobs, d \in Paths : Download(b, d)
           \/ \E d \in Paths, gone \in SUBSET Paths, bad \in BOOLEAN : Prepare(d, gone, bad)
           \/ \E d \in Paths, full \in BOOLEAN : Prepared(d, full)
           \/ \E b \in Blobs : CancelDownload(b)
           \/ Poll
BY Zenon DEF Next, QuietStep

LEMMA NextTransfer ==
    ASSUME TransferTyped, SignalInv, [Next]_vars
    PROVE  TransferTyped'
<1>1. ASSUME NEW b \in Blobs, CancelDownload(b)
      PROVE  TransferTyped'
  BY <1>1, CancelDoes DEF TransferTyped, OffersTyped, EventsTyped, PrepTyped, native
<1>. QED
  BY <1>1, NextSplits, QuietTyped, DownloadTyped, PrepareTyped, PreparedTyped, PollTyped

-----------------------------------------------------------------------------
(* Destinations                                                            *)

(* Whose a destination is: a transfer has it, or had it, or is prepared.   *)
Uses(b, d) ==
    \/ offers[b].path = d
    \/ job[b].path = d
    \/ prep[d].pc \in Preparing /\ prep[d].blob = b

(* The job has yet to report.                                              *)
Working == DOMAIN After \cup {"done", "failed"}

(* Destinations are given out in their order, each for one blob; nothing   *)
(* is written to one before its preparation is over.                       *)
Places ==
    /\ \A d \in Paths :
          /\ prep[d].pc # "none" => \A e \in Paths : e < d => prep[e].pc # "none"
          /\ \A b, c \in Blobs : Uses(b, d) /\ Uses(c, d) => b = c
          /\ prep[d].pc = "none" => \A b \in Blobs : ~Uses(b, d)
          /\ prep[d].pc # "over" => disk[d] = "absent" /\ \A b \in Blobs : job[b].path # d
    /\ \A b \in Blobs :
          /\ job[b].pc = "none" <=> job[b].path = NoPath
          /\ offers[b].state \in {"Absent", "Offered"} <=> offers[b].path = NoPath
          /\ b \in queued \cap Listed(offers) /\ job[b].pc \in Working => offers[b].path = job[b].path

LEMMA WorkingStages == Working \subseteq Stages /\ "none" \notin Working /\ "release" \notin Working /\ "unregister" \notin Working
BY SMT DEF Working, Stages, After

(* What a step of its own does to a job and the disk.                      *)
LEMMA JobDoes ==
    ASSUME SignalInv, NEW b \in Blobs, JobStep(b)
    PROVE  /\ \A c \in Blobs : c # b => job'[c] = job[c]
           /\ job[b].pc # "none"
           /\ \/ job'[b] = NoJob /\ job[b].pc = "unregister" /\ UNCHANGED disk
              \/ job'[b].pc # "none" /\ job'[b].path = job[b].path
           /\ job'[b].pc \in Working => job[b].pc \in Working
           /\ \A d \in Paths : d # job[b].path => disk'[d] = disk[d]
<1>0. job \in [Blobs -> Job] /\ job[b] \in Job
  BY DEF SignalInv, JobsTyped
<1>1. ASSUME NEW pc \in Stages, job' = [job EXCEPT ![b].pc = pc]
      PROVE  /\ \A c \in Blobs : c # b => job'[c] = job[c]
             /\ job'[b].pc = pc /\ job'[b].path = job[b].path
  BY <1>0, <1>1 DEF Job
<1>2. CASE Advance(b)
  <2>1. job[b].pc \in DOMAIN After /\ job' = [job EXCEPT ![b].pc = After[job[b].pc]]
    BY <2>1, <1>2 DEF Advance, Passes
  <2>2. After[job[b].pc] \in Stages \ {"none"} /\ job[b].pc \in Working
    BY <2>1 DEF After, Stages, Working
  <2>3. \A d \in Paths : d # job[b].path => disk'[d] = disk[d]
    <3>1. \E v : disk' = [disk EXCEPT ![job[b].path] = v]
      BY <1>2 DEF Advance
    <3>. QED
      BY <3>1
  <2>. QED
    BY <1>1, <2>1, <2>2, <2>3, WorkingStages
<1>3. CASE Abort(b)
  <2>1. job[b].pc \in Working /\ job' = [job EXCEPT ![b].pc = "failed"]
    BY <1>3 DEF Abort, Working
  <2>2. \A d \in Paths : d # job[b].path => disk'[d] = disk[d]
    BY <1>3 DEF Abort
  <2>. QED
    BY <1>1, <2>1, <2>2, WorkingStages DEF Stages
<1>4. CASE Report(b) \/ Release(b)
  <2>1. PICK pc \in {"release", "unregister"} : job' = [job EXCEPT ![b].pc = pc]
    BY <1>4 DEF Report, Release
  <2>2. job[b].pc # "none" /\ UNCHANGED disk
    BY <1>4 DEF Report, Release
  <2>. QED
    BY <1>1, <2>1, <2>2, WorkingStages DEF Stages
<1>5. CASE Unregister(b)
  <2>1. job' = [job EXCEPT ![b] = NoJob] /\ job[b].pc = "unregister" /\ UNCHANGED disk
    BY <1>5 DEF Unregister
  <2>2. job'[b] = NoJob /\ \A c \in Blobs : c # b => job'[c] = job[c]
    BY <1>0, <2>1
  <2>. QED
    BY <2>1, <2>2, WorkingStages DEF NoJob
<1>. QED
  BY <1>2, <1>3, <1>4, <1>5 DEF JobStep

(* Quiet steps that are no job's leave the jobs, or tell some.             *)
LEMMA QuietTells ==
    ASSUME TransferTyped, QuietStep, ~(\E b \in Blobs : JobStep(b))
    PROVE  disk' = disk /\ (job' = job \/ \E S \in SUBSET Blobs : job' = Signal(job, S))
<1>1. disk' = disk
  BY DEF QuietStep, OfferArrives, Announce, Unoffer, Withdrawn, ToggleMute, BlockList, Unblock,
         BlockStep, BlockBlobs, BlockJobs, BlockOffers, vars
<1>2. job' = job \/ \E S \in SUBSET Blobs : job' = Signal(job, S)
  <2>1. CASE \E p : ForgetFileOffers(p)
    BY <2>1, ForgetDoes
  <2>2. CASE UNCHANGED job
    BY <2>2
  <2>3. CASE BlockJobs \/ \E b \in Blobs : Withdrawn(b)
    BY <2>3 DEF BlockJobs, Withdrawn, OfBlocked
  <2>. QED
    BY <2>1, <2>2, <2>3
    DEF QuietStep, OfferArrives, Announce, Unoffer, ToggleMute, BlockList, Unblock, BlockStep, BlockBlobs, BlockOffers, vars
<1>. QED
  BY <1>1, <1>2

(* What quiet steps do to the jobs.                                        *)
LEMMA QuietJobs ==
    ASSUME TransferTyped, SignalInv, QuietStep
    PROVE  /\ \A b \in Blobs :
                 \/ job'[b] = NoJob /\ job[b].pc = "unregister"
                 \/ /\ job'[b].path = job[b].path
                    /\ job'[b].pc = "none" <=> job[b].pc = "none"
                    /\ job'[b].pc \in Working => job[b].pc \in Working
           /\ \A d \in Paths : disk'[d] # disk[d] => \E b \in Blobs : job[b].path = d
<1>1. CASE \E b \in Blobs : JobStep(b)
  BY <1>1, JobDoes
<1>2. CASE ~(\E b \in Blobs : JobStep(b))
  <2>1. disk' = disk /\ (job' = job \/ \E S \in SUBSET Blobs : job' = Signal(job, S))
    BY <1>2, QuietTells
  <2>. QED
    BY <2>1, SignalTells DEF SignalInv
<1>. QED
  BY <1>1, <1>2

LEMMA QuietPlaces ==
    ASSUME TransferTyped, SignalInv, Places, QuietStep
    PROVE  Places'
<1>1. /\ prep' = prep /\ queued' = queued
      /\ \A b \in Blobs : offers'[b] = offers[b] \/ offers'[b] = Absent
  BY QuietDoes
<1>2. NoPath \notin Paths /\ Absent.path = NoPath /\ NoJob.path = NoPath /\ NoJob.pc = "none" /\ Absent.state = "Absent"
  BY DEF NoPath, Paths, Absent, NoJob
<1>3. \A b \in Blobs : \/ job'[b] = NoJob
                       \/ /\ job'[b].path = job[b].path
                          /\ job'[b].pc = "none" <=> job[b].pc = "none"
                          /\ job'[b].pc \in Working => job[b].pc \in Working
  BY QuietJobs
<1>4. \A b \in Blobs, d \in Paths : Uses(b, d)' => Uses(b, d)
  BY <1>1, <1>2, <1>3 DEF Uses
<1>5. \A d \in Paths : disk'[d] # disk[d] => \E b \in Blobs : job[b].path = d
  BY QuietJobs
<1>6. \A d \in Paths :
          /\ prep'[d].pc # "none" => \A e \in Paths : e < d => prep'[e].pc # "none"
          /\ \A b, c \in Blobs : Uses(b, d)' /\ Uses(c, d)' => b = c
          /\ prep'[d].pc = "none" => \A b \in Blobs : ~Uses(b, d)'
          /\ prep'[d].pc # "over" => disk'[d] = "absent" /\ \A b \in Blobs : job'[b].path # d
  <2>. TAKE d \in Paths
  <2>1. \A b \in Blobs : job'[b].path = d => job[b].path = d
    BY <1>2, <1>3
  <2>. QED
    BY <1>1, <1>4, <1>5, <2>1 DEF Places
<1>7. \A b \in Blobs :
          /\ job'[b].pc = "none" <=> job'[b].path = NoPath
          /\ offers'[b].state \in {"Absent", "Offered"} <=> offers'[b].path = NoPath
          /\ b \in queued' \cap Listed(offers') /\ job'[b].pc \in Working => offers'[b].path = job'[b].path
  BY <1>1, <1>2, <1>3, WorkingStages DEF Places, Listed
<1>. QED
  BY <1>6, <1>7 DEF Places

(* The destination DownloadFile names is the next one.                     *)
LEMMA NextPlace ==
    ASSUME TransferTyped, Places, NEW d \in Paths,
           d = 1 + Cardinality({e \in Paths : prep[e].pc # "none"})
    PROVE  prep[d].pc = "none" /\ \A e \in Paths : e < d => prep[e].pc # "none"
<1>. DEFINE S == {e \in Paths : prep[e].pc # "none"}
<1>1. MaxPaths \in Nat /\ Paths = 1..MaxPaths /\ d \in Int /\ d >= 1
  BY BoundAssumption DEF Paths
<1>2. S \subseteq 1..MaxPaths /\ IsFiniteSet(1..MaxPaths)
  <2>1. S \subseteq 1..MaxPaths
    BY <1>1
  <2>2. IsFiniteSet(1..MaxPaths)
    BY <1>1, FS_Interval
  <2>. QED
    BY <2>1, <2>2
<1>3. IsFiniteSet(S) /\ Cardinality(S) \in Nat
  BY <1>2, FS_Subset, FS_CardinalityType
<1>4. ASSUME prep[d].pc # "none" PROVE FALSE
  <2>1. \A e \in 1..d : e \in S
    BY <1>1, <1>4 DEF Places
  <2>2. 1..d \subseteq S
    BY <2>1
  <2>3. Cardinality(1..d) = d
    BY <1>1, FS_Interval
  <2>4. Cardinality(1..d) <= Cardinality(S)
    BY <1>3, <2>2, FS_Subset
  <2>. QED
    BY <1>1, <1>3, <2>3, <2>4
<1>5. ASSUME NEW e \in Paths, e < d, prep[e].pc = "none" PROVE FALSE
  <2>1. \A g \in S : g < e
    BY <1>1, <1>5 DEF Places
  <2>2. S \subseteq 1..(e - 1)
    BY <1>1, <2>1
  <2>3. e \in Int /\ e >= 1
    BY <1>1
  <2>4. IsFiniteSet(1..(e - 1)) /\ Cardinality(1..(e - 1)) = e - 1
    BY <2>3, FS_Interval
  <2>5. Cardinality(S) <= Cardinality(1..(e - 1))
    BY <2>2, <2>4, FS_Subset
  <2>. QED
    BY <1>1, <1>3, <1>5, <2>3, <2>4, <2>5
<1>. QED
  BY <1>4, <1>5

-----------------------------------------------------------------------------
(* Offers                                                                  *)

OfferAt(i, b) == events[i] = Event("Offer", b)

(* A blob is offered once: what is in the list, or being fetched, was      *)
(* announced, and its announcement taken.                                  *)
OfferOnce ==
    /\ \A b \in Blobs : b \notin seen \ announcing \/ b \in queued \cup Listed(offers) =>
          \A i \in DOMAIN events : ~OfferAt(i, b)
    /\ announcing \subseteq seen /\ queued \cup Listed(offers) \subseteq seen \ announcing
    /\ \A b \in Blobs : \A i, j \in DOMAIN events : OfferAt(i, b) /\ OfferAt(j, b) => i = j

(* Its preparation will start it.                                          *)
Prepares(b) == \E d \in Paths : prep[d].blob = b /\ prep[d].pc # "over" /\ offers[b].path = d

(* SlotKept, in other words.                                               *)
HasSlot ==
    \A b \in Listed(offers) : /\ b \in queued => b \in Busy(offers) /\ ~Prepares(b)
                              /\ b \in Busy(offers) => b \in queued \/ Prepares(b)

LEMMA SlotIs == HasSlot <=> SlotKept
<1>1. \A x, y \in BOOLEAN : x # y <=> (x <=> ~y)
  OBVIOUS
<1>2. ASSUME NEW b \in Listed(offers)
      PROVE  ((b \in queued) # Prepares(b)) <=> (b \in queued <=> ~Prepares(b))
  <2>1. (b \in queued) \in BOOLEAN /\ Prepares(b) \in BOOLEAN
    BY DEF Prepares
  <2>. QED
    BY <1>1, <2>1
<1>3. SlotKept <=> \A b \in Listed(offers) : /\ b \in queued => b \in Busy(offers)
                                             /\ b \in Busy(offers) => (b \in queued) # Prepares(b)
  BY DEF SlotKept, Prepares
<1>. QED
  BY <1>2, <1>3 DEF HasSlot

(* Outcomes the full channel dropped.                                      *)
Lost(b) == {e \in lost : e.blob = b /\ e.kind \in Terminal}

(* How many outcomes of a transfer are on their way.                       *)
Outcomes(b) ==
    Cardinality(Hits(events, b, Terminal)) + (IF job[b].pc \in Working THEN 1 ELSE 0) + Cardinality(Lost(b))

(* OneOutcome, in other words.                                             *)
Awaited == \A b \in Blobs : Outcomes(b) = IF b \in queued THEN 1 ELSE 0

LEMMA AwaitedIs == Awaited <=> OneOutcome
BY DEF Awaited, OneOutcome, Outcomes, Count, Hits, Lost, Working

TransferInv == TransferTyped /\ SignalInv /\ Places /\ OfferOnce /\ HasSlot /\ Awaited

(* Who is prepared has an untouched destination.                           *)
LEMMA PreparesIs ==
    ASSUME TransferTyped, Places, NEW b \in Blobs, Prepares(b)
    PROVE  /\ offers[b].path \in Paths /\ prep[offers[b].path].pc \in Preparing
           /\ prep[offers[b].path].blob = b
           /\ disk[offers[b].path] = "absent"
<1>1. PICK d \in Paths : prep[d].blob = b /\ prep[d].pc # "over" /\ offers[b].path = d
  BY DEF Prepares
<1>2. prep[d].pc # "none"
  BY <1>1 DEF Places, Uses
<1>3. prep[d].pc \in {"none", "over"} \cup Preparing
  BY DEF TransferTyped, PrepTyped, Preparations
<1>. QED
  BY <1>1, <1>2, <1>3 DEF Places

(* Steps that leave the list, or forget offers, and emit none.             *)
LEMMA QuietSlot ==
    ASSUME TransferTyped, HasSlot, QuietStep
    PROVE  HasSlot'
<1>1. /\ prep' = prep /\ queued' = queued
      /\ \A b \in Blobs : offers'[b] = offers[b] \/ offers'[b] = Absent
  BY QuietDoes
<1>2. Absent.state = "Absent"
  BY DEF Absent
<1>. QED
  BY <1>1, <1>2 DEF HasSlot, Listed, Busy, Prepares

LEMMA QuietOffers ==
    ASSUME TransferTyped, OfferOnce, QuietStep
    PROVE  OfferOnce'
<1>1. queued' = queued /\ Listed(offers') \subseteq Listed(offers)
  BY QuietDoes DEF Listed, Absent
<1>2. events \in Seq(Events)
  BY DEF TransferTyped, EventsTyped
<1>3. CASE \E b \in Blobs : OfferArrives(b)
  <2>. PICK b \in Blobs : OfferArrives(b)
    BY <1>3
  <2>1. events' = events /\ seen' = seen \cup {b} /\ announcing' = announcing \cup {b} /\ b \notin seen
    BY DEF OfferArrives
  <2>. QED
    BY <1>1, <2>1 DEF OfferOnce, OfferAt
<1>4. CASE \E b \in Blobs : Announce(b)
  <2>. PICK b \in Blobs : Announce(b)
    BY <1>4
  <2>. DEFINE e == Event("Offer", b)
              n == Len(events) + 1
  <2>1. seen' = seen /\ announcing' = announcing \ {b} /\ b \in announcing /\ Emit(e)
    BY DEF Announce
  <2>2. e \in Events /\ \A c \in Blobs : c # b => e # Event("Offer", c)
    BY DEF Event, Events, Kinds
  <2>3. CASE events' = events
    BY <1>1, <2>1, <2>3 DEF OfferOnce, OfferAt
  <2>4. CASE events' = Append(events, e)
    <3>1. /\ DOMAIN events' = DOMAIN events \cup {n} /\ events'[n] = e
          /\ \A i \in DOMAIN events : events'[i] = events[i]
      BY <1>2, <2>2, <2>4, AppendedIs
    <3>. HIDE DEF e, n
    <3>2. \A i \in DOMAIN events : ~OfferAt(i, b)
      BY <2>1 DEF OfferOnce
    <3>3. b \notin queued \cup Listed(offers)
      BY <2>1 DEF OfferOnce
    <3>4. \A i \in DOMAIN events', c \in Blobs :
             events'[i] = Event("Offer", c) => IF c = b THEN i = n ELSE i \in DOMAIN events /\ OfferAt(i, c)
      BY <2>2, <3>1, <3>2 DEF OfferAt
    <3>5. \A c \in Blobs : c \notin seen' \ announcing' \/ c \in queued' \cup Listed(offers') =>
             c # b /\ (c \notin seen \ announcing \/ c \in queued \cup Listed(offers))
      BY <1>1, <2>1, <3>3 DEF OfferOnce
    <3>6. \A c \in Blobs : c \notin seen' \ announcing' \/ c \in queued' \cup Listed(offers') =>
             \A i \in DOMAIN events' : events'[i] # Event("Offer", c)
      BY <3>4, <3>5 DEF OfferOnce
    <3>7. \A c \in Blobs : \A i, j \in DOMAIN events' :
             events'[i] = Event("Offer", c) /\ events'[j] = Event("Offer", c) => i = j
      BY <3>4 DEF OfferOnce
    <3>8. announcing' \subseteq seen' /\ queued' \cup Listed(offers') \subseteq seen' \ announcing'
      BY <1>1, <2>1 DEF OfferOnce
    <3>. QED
      BY <3>6, <3>7, <3>8 DEF OfferOnce, OfferAt
  <2>. QED
    BY <2>1, <2>3, <2>4 DEF Emit
<1>5. ASSUME UNCHANGED <<seen, announcing>>,
             events' = events \/ \E e \in Events : e.kind # "Offer" /\ events' = Append(events, e)
      PROVE  OfferOnce'
  <2>1. CASE events' = events
    BY <1>1, <1>5, <2>1 DEF OfferOnce, OfferAt
  <2>2. CASE \E e \in Events : e.kind # "Offer" /\ events' = Append(events, e)
    <3>1. PICK e \in Events : e.kind # "Offer" /\ events' = Append(events, e)
      BY <2>2
    <3>2. \A i \in DOMAIN events', b \in Blobs : OfferAt(i, b)' => i \in DOMAIN events /\ OfferAt(i, b)
      BY <1>2, <3>1, AppendedIs DEF OfferAt, Event
    <3>. QED
      BY <1>1, <1>5, <3>2 DEF OfferOnce
  <2>. QED
    BY <1>5, <2>1, <2>2
<1>6. CASE \E b \in Blobs : Withdrawn(b) \/ Report(b)
  <2>1. PICK b \in Blobs, kind \in {"Withdrawn", "Done", "Failed"} : Emit(Event(kind, b)) /\ UNCHANGED <<seen, announcing>>
    BY <1>6 DEF Withdrawn, Report, native
  <2>2. Event(kind, b) \in Events /\ Event(kind, b).kind # "Offer"
    BY DEF Event, Events, Kinds
  <2>. QED
    BY <1>5, <2>1, <2>2 DEF Emit
<1>7. CASE /\ ~(\E b \in Blobs : OfferArrives(b) \/ Announce(b) \/ Withdrawn(b) \/ Report(b))
  <2>1. UNCHANGED <<seen, announcing, events>>
    BY <1>7 DEF QuietStep, Unoffer, JobStep, Advance, Abort, Release, Unregister, ToggleMute, BlockList, Unblock,
                BlockStep, BlockBlobs, BlockJobs, BlockOffers, native, vars
  <2>. QED
    BY <1>5, <2>1
<1>. QED
  BY <1>3, <1>4, <1>6, <1>7

-----------------------------------------------------------------------------
(* The frame thread                                                        *)

LEMMA DownloadKeepsPlaces ==
    ASSUME TransferInv, NEW b \in Blobs, NEW d \in Paths, Download(b, d)
    PROVE  Places' /\ OfferOnce' /\ HasSlot'
<1>. USE DEF TransferInv
<1>0. NoPath \notin Paths
  BY DEF NoPath, Paths
<1>1. /\ offers[b].state \in {"Offered", "Failed", "Canceled"}
      /\ offers' = BeginFetch(offers, b, d)
      /\ \E stay : prep' = [prep EXCEPT ![d] = [NoPrep EXCEPT !.pc = "prepare", !.blob = b, !.kept = stay]]
      /\ UNCHANGED <<job, disk, events, queued, seen, announcing>>
  BY DEF Download, CanBegin, native
<1>2. prep[d].pc = "none" /\ \A e \in Paths : e < d => prep[e].pc # "none"
  BY NextPlace DEF Download
<1>3. /\ \A c \in Blobs : c # b => offers'[c] = offers[c]
      /\ offers'[b].state = "Fetching" /\ offers'[b].path = d
  BY <1>1, BeginFetchIs DEF TransferTyped, OffersTyped
<1>4. /\ prep'[d].pc = "prepare" /\ prep'[d].blob = b
      /\ \A e \in Paths : e # d => prep'[e] = prep[e]
  BY <1>1 DEF NoPrep, TransferTyped, PrepTyped
<1>5. b \in Listed(offers) /\ b \notin queued
  BY <1>1 DEF Listed, Busy, HasSlot
<1>6. d \in Int /\ \A e \in Paths : e \in Int
  BY BoundAssumption DEF Paths
<1>7. Places'
  <2>1. \A c \in Blobs, e \in Paths : Uses(c, e)' => IF e = d THEN c = b ELSE Uses(c, e)
    BY <1>1, <1>2, <1>3, <1>4 DEF Uses, Places, Preparing
  <2>2. \A e \in Paths :
          /\ prep'[e].pc # "none" => \A g \in Paths : g < e => prep'[g].pc # "none"
          /\ \A c1, c2 \in Blobs : Uses(c1, e)' /\ Uses(c2, e)' => c1 = c2
          /\ prep'[e].pc = "none" => \A c \in Blobs : ~Uses(c, e)'
          /\ prep'[e].pc # "over" => disk'[e] = "absent" /\ \A c \in Blobs : job'[c].path # e
    <3>. TAKE e \in Paths
    <3>1. CASE e = d
      BY <1>1, <1>2, <1>4, <1>6, <2>1, <3>1 DEF Places
    <3>2. CASE e # d
      BY <1>1, <1>2, <1>4, <2>1, <3>2 DEF Places
    <3>. QED
      BY <3>1, <3>2
  <2>3. \A c \in Blobs :
          /\ job'[c].pc = "none" <=> job'[c].path = NoPath
          /\ offers'[c].state \in {"Absent", "Offered"} <=> offers'[c].path = NoPath
          /\ c \in queued' \cap Listed(offers') /\ job'[c].pc \in Working => offers'[c].path = job'[c].path
    BY <1>0, <1>1, <1>3, <1>5 DEF Places, Listed
  <2>. QED
    BY <2>2, <2>3 DEF Places
<1>8. Listed(offers') = Listed(offers) /\ Busy(offers') = Busy(offers) \cup {b}
  BY <1>3, <1>5 DEF Listed, Busy
<1>9. OfferOnce'
  BY <1>1, <1>8 DEF OfferOnce, OfferAt
<1>10. HasSlot'
  <2>1. Prepares(b)'
    BY <1>3, <1>4 DEF Prepares
  <2>2. \A c \in Blobs : c # b => (Prepares(c)' <=> Prepares(c))
    <3>1. \A c \in Blobs : c # b => offers'[c].path # d
      BY <1>2, <1>3 DEF Places, Uses
    <3>. QED
      BY <1>3, <1>4, <3>1 DEF Prepares
  <2>3. \A c \in Listed(offers') : /\ c \in queued' => c \in Busy(offers') /\ ~Prepares(c)'
                                   /\ c \in Busy(offers') => c \in queued' \/ Prepares(c)'
    BY <1>1, <1>5, <1>8, <2>1, <2>2 DEF HasSlot, Listed
  <2>. QED
    BY <2>3 DEF HasSlot
<1>. QED
  BY <1>7, <1>9, <1>10

LEMMA PrepareKeepsPlaces ==
    ASSUME TransferInv, NEW d \in Paths, NEW gone \in SUBSET Paths, NEW bad \in BOOLEAN, Prepare(d, gone, bad)
    PROVE  Places' /\ OfferOnce' /\ HasSlot'
<1>. USE DEF TransferInv
<1>1. /\ prep[d].pc = "prepare"
      /\ UNCHANGED <<job, events, offers, queued, seen, announcing>>
      /\ \A e \in Paths : disk'[e] = disk[e] \/ disk'[e] = "absent"
  BY DEF Prepare, native
<1>2. /\ prep'[d].pc = "ready" /\ prep'[d].blob = prep[d].blob
      /\ \A e \in Paths : e # d => prep'[e] = prep[e]
  <2>1. prep[d] \in Preparations
    BY DEF TransferTyped, PrepTyped
  <2>2. prep' = [prep EXCEPT ![d] = [prep[d] EXCEPT !.pc = "ready", !.gone = gone, !.bad = bad]]
    BY <2>1 DEF Prepare, TransferTyped, PrepTyped, Preparations
  <2>. QED
    BY <2>1, <2>2 DEF TransferTyped, PrepTyped, Preparations
<1>3. \A c \in Blobs, e \in Paths : Uses(c, e)' <=> Uses(c, e)
  BY <1>1, <1>2 DEF Uses, Preparing
<1>4. \A e \in Paths : /\ prep'[e].pc = "none" <=> prep[e].pc = "none"
                       /\ prep'[e].pc = "over" <=> prep[e].pc = "over"
  BY <1>1, <1>2
<1>5. Places'
  BY <1>1, <1>3, <1>4 DEF Places
<1>6. OfferOnce'
  BY <1>1 DEF OfferOnce, OfferAt
<1>7. HasSlot'
  <2>1. \A b \in Blobs : Prepares(b)' <=> Prepares(b)
    BY <1>1, <1>2, <1>4 DEF Prepares
  <2>2. \A b \in Listed(offers') : /\ b \in queued' => b \in Busy(offers') /\ ~Prepares(b)'
                                   /\ b \in Busy(offers') => b \in queued' \/ Prepares(b)'
    BY <1>1, <2>1 DEF HasSlot, Listed
  <2>. QED
    BY <2>2 DEF HasSlot
<1>. QED
  BY <1>5, <1>6, <1>7

(* The callback starts the job of a transfer that waits for it, or ends    *)
(* the transfer, or finds it gone.                                         *)
LEMMA PreparedFinds ==
    ASSUME TransferInv, NEW d \in Paths, NEW full \in BOOLEAN, Prepared(d, full)
    PROVE  LET b == prep[d].blob
           IN  /\ b \in Blobs /\ prep[d].pc = "ready" /\ prep'[d].pc = "over"
               /\ \A e \in Paths : e # d => prep'[e] = prep[e]
               /\ \A c \in Blobs : c # b => offers'[c] = offers[c] \/ offers'[c] = Absent
               /\ \A c \in Blobs : c # b => job'[c] = job[c]
               /\ \/ /\ Prepares(b) /\ b \in Listed(offers) /\ b \notin queued /\ CanFetch(b)
                     /\ offers'[b] = offers[b] /\ offers[b].path = d /\ offers[b].state = "Fetching"
                     /\ job'[b].pc = "queued" /\ job'[b].path = d /\ ~job'[b].cancel
                     /\ queued' = queued \cup {b}
                  \/ /\ UNCHANGED <<job, queued>>
                     /\ \/ offers'[b] = Absent
                        \/ offers'[b] = offers[b] /\ (offers[b].path # d \/ b \notin Busy(offers))
                        \/ /\ offers'[b].state \in {"Failed", "Canceled"} /\ offers'[b].path = d /\ offers[b].path = d
                           /\ offers'[b].withdrawn = offers[b].withdrawn
                           /\ Prepares(b) /\ b \in Busy(offers) /\ b \in Listed(offers) /\ b \notin queued
<1>. USE DEF TransferInv
<1>. DEFINE b == prep[d].blob
            o == Current(d)
<1>0. NoPath \notin Paths /\ Absent.path = NoPath /\ Absent.state = "Absent"
  BY DEF NoPath, Paths, Absent
<1>1. b \in Blobs /\ prep[d].pc = "ready" /\ o \in [Blobs -> Offers]
  BY PreparedDoes
<1>2. prep' = [prep EXCEPT ![d] = [NoPrep EXCEPT !.pc = "over"]]
  BY PreparedDoes
<1>3. /\ prep'[d].pc = "over"
      /\ \A e \in Paths : e # d => prep'[e] = prep[e]
  BY <1>2 DEF NoPrep, TransferTyped, PrepTyped
<1>4. \A c \in Blobs : o[c] = offers[c] \/ o[c] = Absent
  BY ForgetIs DEF Current, TransferTyped, OffersTyped
<1>5. \/ /\ o[b].path = d /\ o[b].state = "Fetching" /\ CanFetch(b)
         /\ offers' = o /\ queued' = queued \cup {b}
         /\ job' = [job EXCEPT ![b] = [NoJob EXCEPT !.pc = "queued", !.path = d]]
      \/ o[b].path # d /\ offers' = o /\ UNCHANGED <<job, queued>>
      \/ o[b].path = d /\ offers' = Complete(o, b, FALSE) /\ UNCHANGED <<job, queued>>
  BY PreparedDoes
<1>6. job \in [Blobs -> Job]
  BY DEF SignalInv, JobsTyped
<1>7. o[b].path = d => /\ o[b] = offers[b] /\ Prepares(b)
                       /\ b \in Listed(offers) /\ b \notin queued
  <2>. SUFFICES ASSUME o[b].path = d
                PROVE  /\ o[b] = offers[b] /\ Prepares(b)
                       /\ b \in Listed(offers) /\ b \notin queued
    OBVIOUS
  <2>1. o[b] = offers[b]
    BY <1>0, <1>1, <1>4
  <2>2. Prepares(b)
    BY <1>1, <2>1 DEF Prepares
  <2>3. b \in Listed(offers)
    BY <1>0, <1>1, <2>1 DEF Places, Listed
  <2>. QED
    BY <2>1, <2>2, <2>3 DEF HasSlot
<1>. HIDE DEF b, o
<1>8. CASE offers' = o /\ o[b].path = d /\ o[b].state = "Fetching" /\ CanFetch(b) /\ queued' = queued \cup {b}
           /\ job' = [job EXCEPT ![b] = [NoJob EXCEPT !.pc = "queued", !.path = d]]
  <2>1. /\ job'[b].pc = "queued" /\ job'[b].path = d /\ ~job'[b].cancel
        /\ \A c \in Blobs : c # b => job'[c] = job[c]
    BY <1>1, <1>6, <1>8 DEF NoJob
  <2>2. offers'[b] = offers[b] /\ offers[b].path = d /\ offers[b].state = "Fetching"
    BY <1>7, <1>8
  <2>. QED
    BY <1>1, <1>3, <1>4, <1>7, <1>8, <2>1, <2>2 DEF b
<1>9. CASE offers' = o /\ o[b].path # d /\ UNCHANGED <<job, queued>>
  <2>1. offers'[b] = Absent \/ (offers'[b] = offers[b] /\ offers[b].path # d)
    BY <1>1, <1>4, <1>9
  <2>. QED
    BY <1>1, <1>3, <1>4, <1>9, <2>1 DEF b
<1>10. CASE o[b].path = d /\ offers' = Complete(o, b, FALSE) /\ UNCHANGED <<job, queued>>
  <2>1. /\ \A c \in Blobs : c # b => offers'[c] = o[c]
        /\ b \notin Busy(o) => offers'[b] = o[b]
        /\ b \in Busy(o) =>
              \/ offers'[b] = Absent
              \/ /\ offers'[b].state \in {"Failed", "Canceled"}
                 /\ offers'[b].path = o[b].path /\ offers'[b].withdrawn = o[b].withdrawn
    <3>. DEFINE r == Complete(o, b, FALSE)
    <3>1. /\ \A c \in Blobs : c # b => r[c] = o[c]
          /\ b \notin Busy(o) => r[b] = o[b]
          /\ b \in Busy(o) =>
                \/ r[b] = Absent
                \/ /\ r[b].state \in {"Failed", "Canceled"}
                   /\ r[b].path = o[b].path /\ r[b].withdrawn = o[b].withdrawn
      <4>1. FALSE \in BOOLEAN
        OBVIOUS
      <4>2. /\ \A c \in Blobs : c # b => r[c] = o[c]
            /\ b \notin Busy(o) => r[b] = o[b]
        <5>1. ASSUME NEW c \in Blobs, c # b PROVE r[c] = o[c]
          BY <1>1, <5>1, ForgetIs DEF Complete
        <5>2. b \notin Busy(o) => r[b] = o[b]
          BY DEF Complete
        <5>. QED
          BY <5>1, <5>2
      <4>3. ASSUME b \in Busy(o)
            PROVE  \/ r[b] = Absent
                   \/ /\ r[b].state \in {"Failed", "Canceled"}
                      /\ r[b].path = o[b].path /\ r[b].withdrawn = o[b].withdrawn
        BY <1>1, <4>1, <4>3, CompleteIs
      <4>. QED
        BY <4>2, <4>3
    <3>. HIDE DEF r
    <3>2. offers' = r
      BY <1>10 DEF r
    <3>. QED
      BY <3>1, <3>2
  <2>2. o[b] = offers[b] /\ (b \in Busy(o) <=> b \in Busy(offers))
    BY <1>1, <1>7, <1>10 DEF Busy
  <2>3. \A c \in Blobs : c # b => offers'[c] = offers[c] \/ offers'[c] = Absent
    BY <1>4, <2>1
  <2>4. CASE b \notin Busy(offers)
    BY <1>1, <1>3, <1>10, <2>1, <2>2, <2>3, <2>4 DEF b
  <2>5. CASE b \in Busy(offers)
    <3>1. \/ offers'[b] = Absent
          \/ /\ offers'[b].state \in {"Failed", "Canceled"}
             /\ offers'[b].path = d /\ offers[b].path = d /\ offers'[b].withdrawn = offers[b].withdrawn
      BY <1>10, <2>1, <2>2, <2>5
    <3>. QED
      BY <1>1, <1>3, <1>7, <1>10, <2>3, <2>5, <3>1 DEF b
  <2>. QED
    BY <2>4, <2>5
<1>. QED
  BY <1>5, <1>8, <1>9, <1>10

LEMMA PreparedKeepsPlaces ==
    ASSUME TransferInv, NEW d \in Paths, NEW full \in BOOLEAN, Prepared(d, full)
    PROVE  Places' /\ OfferOnce' /\ HasSlot'
<1>. USE DEF TransferInv
<1>. DEFINE b == prep[d].blob
            Starts == /\ Prepares(b) /\ b \in Listed(offers) /\ b \notin queued /\ CanFetch(b)
                      /\ offers'[b] = offers[b] /\ offers[b].path = d /\ offers[b].state = "Fetching"
                      /\ job'[b].pc = "queued" /\ job'[b].path = d
                      /\ queued' = queued \cup {b}
            Ends == /\ UNCHANGED <<job, queued>>
                    /\ \/ offers'[b] = Absent
                       \/ offers'[b] = offers[b] /\ (offers[b].path # d \/ b \notin Busy(offers))
                       \/ /\ offers'[b].state \in {"Failed", "Canceled"} /\ offers'[b].path = d /\ offers[b].path = d
                          /\ Prepares(b) /\ b \in Busy(offers) /\ b \in Listed(offers) /\ b \notin queued
<1>0. NoPath \notin Paths /\ Absent.path = NoPath /\ Absent.state = "Absent"
  BY DEF NoPath, Paths, Absent
<1>1. b \in Blobs /\ prep[d].pc = "ready" /\ prep'[d].pc = "over"
  BY PreparedFinds
<1>2. /\ \A e \in Paths : e # d => prep'[e] = prep[e]
      /\ \A c \in Blobs : c # b => (offers'[c] = offers[c] \/ offers'[c] = Absent) /\ job'[c] = job[c]
  BY PreparedFinds
<1>3. Starts \/ Ends
  BY PreparedFinds
<1>4. UNCHANGED <<disk, events, seen, announcing>>
  BY DEF Prepared, native
<1>. HIDE DEF b
<1>5. \A c \in Blobs : \/ offers'[c] = Absent
                       \/ /\ offers'[c].path = offers[c].path
                          /\ c \in Listed(offers') => c \in Listed(offers)
                          /\ offers'[c].state \in {"Absent", "Offered"} <=> offers[c].state \in {"Absent", "Offered"}
  <2>1. CASE Starts
    BY <1>2, <2>1 DEF Listed
  <2>2. CASE Ends
    BY <1>0, <1>2, <2>2 DEF Listed, Busy
  <2>. QED
    BY <1>3, <2>1, <2>2
<1>6. \A c \in Blobs : job'[c] = job[c] \/ (c = b /\ job'[c].path = d /\ job'[c].pc # "none" /\ Starts)
  BY <1>2, <1>3
<1>7. b \in Blobs /\ Uses(b, d) /\ prep[d].blob = b
  BY <1>1 DEF b, Uses, Preparing
<1>8. \A c \in Blobs, e \in Paths : Uses(c, e)' => Uses(c, e)
  <2>. SUFFICES ASSUME NEW c \in Blobs, NEW e \in Paths, Uses(c, e)'
                PROVE  Uses(c, e)
    OBVIOUS
  <2>1. CASE offers'[c].path = e
    BY <1>0, <1>5, <2>1 DEF Uses
  <2>2. CASE job'[c].path = e
    BY <1>6, <1>7, <2>2 DEF Uses
  <2>3. CASE prep'[e].pc \in Preparing /\ prep'[e].blob = c
    BY <1>1, <1>2, <2>3 DEF Uses, Preparing
  <2>. QED
    BY <2>1, <2>2, <2>3 DEF Uses
<1>9. \A e \in Paths : prep'[e].pc # "none" <=> prep[e].pc # "none"
  BY <1>1, <1>2
<1>10. Places'
  <2>1. \A e \in Paths :
          /\ prep'[e].pc # "none" => \A g \in Paths : g < e => prep'[g].pc # "none"
          /\ \A c1, c2 \in Blobs : Uses(c1, e)' /\ Uses(c2, e)' => c1 = c2
          /\ prep'[e].pc = "none" => \A c \in Blobs : ~Uses(c, e)'
          /\ prep'[e].pc # "over" => disk'[e] = "absent" /\ \A c \in Blobs : job'[c].path # e
    <3>. TAKE e \in Paths
    <3>1. prep'[e].pc # "over" => e # d /\ prep'[e] = prep[e]
      BY <1>1, <1>2
    <3>2. prep'[e].pc # "over" => disk'[e] = "absent" /\ \A c \in Blobs : job'[c].path # e
      BY <1>4, <1>6, <3>1 DEF Places
    <3>. QED
      BY <1>8, <1>9, <3>2 DEF Places
  <2>2. \A c \in Blobs :
          /\ job'[c].pc = "none" <=> job'[c].path = NoPath
          /\ offers'[c].state \in {"Absent", "Offered"} <=> offers'[c].path = NoPath
    BY <1>0, <1>5, <1>6 DEF Places
  <2>3. ASSUME NEW c \in queued' \cap Listed(offers'), c \in Blobs, job'[c].pc \in Working
        PROVE  offers'[c].path = job'[c].path
    <3>1. CASE Starts /\ c = b
      BY <3>1
    <3>2. CASE ~(Starts /\ c = b)
      <4>1. job'[c] = job[c] /\ c \in queued
        BY <1>3, <1>6, <2>3, <3>2
      <4>2. offers'[c].path = offers[c].path /\ c \in Listed(offers)
        BY <1>0, <1>5, <2>3 DEF Listed
      <4>. QED
        BY <2>3, <4>1, <4>2 DEF Places
    <3>. QED
      BY <3>1, <3>2
  <2>. QED
    BY <2>1, <2>2, <2>3 DEF Places
<1>11. OfferOnce'
  <2>1. queued' \cup Listed(offers') \subseteq queued \cup Listed(offers)
    BY <1>0, <1>3, <1>5 DEF Listed
  <2>. QED
    BY <1>4, <2>1 DEF OfferOnce, OfferAt
<1>12. HasSlot'
  <2>. SUFFICES ASSUME NEW c \in Blobs, offers'[c].state # "Absent"
                PROVE  /\ c \in queued' => c \in Busy(offers') /\ ~Prepares(c)'
                       /\ c \in Busy(offers') => c \in queued' \/ Prepares(c)'
    BY DEF HasSlot, Listed
  <2>1. CASE c # b
    <3>1. offers'[c] = offers[c] /\ (c \in queued' <=> c \in queued)
      BY <1>0, <1>2, <1>3, <2>1
    <3>2. Prepares(c)' <=> Prepares(c)
      BY <1>1, <1>2, <1>7, <2>1, <3>1 DEF Prepares
    <3>. QED
      BY <3>1, <3>2 DEF HasSlot, Listed, Busy
  <2>2. CASE c = b /\ Starts
    <3>1. ~Prepares(c)' /\ c \in queued' /\ c \in Busy(offers')
      BY <1>1, <2>2 DEF Prepares, Busy
    <3>. QED
      BY <3>1
  <2>3. CASE c = b /\ offers'[b] = offers[b] /\ offers[b].path # d /\ Ends
    <3>2. Prepares(c)' <=> Prepares(c)
      BY <1>1, <1>2, <2>3 DEF Prepares
    <3>. QED
      BY <2>3, <3>2 DEF HasSlot, Listed, Busy
  <2>4. CASE c = b /\ offers'[b] = offers[b] /\ b \notin Busy(offers) /\ Ends
    BY <2>4 DEF HasSlot, Listed, Busy
  <2>5. CASE c = b /\ offers'[b].state \in {"Failed", "Canceled"} /\ b \notin queued /\ Ends
    BY <2>5 DEF Busy
  <2>. QED
    BY <1>0, <1>3, <2>1, <2>2, <2>3, <2>4, <2>5
<1>. QED
  BY <1>10, <1>11, <1>12

(* Where only the list changes, and no offer gets another destination.     *)
Moved(c) ==
    \/ offers'[c] = Absent
    \/ /\ offers'[c].path = offers[c].path
       /\ c \in Listed(offers') => c \in Listed(offers)
       /\ offers'[c].state \in {"Absent", "Offered"} <=> offers[c].state \in {"Absent", "Offered"}
    \/ offers[c].state = "Absent" /\ offers'[c] = Offered /\ c \notin queued

LEMMA ListKeepsPlaces ==
    ASSUME TransferTyped, Places, prep' = prep, disk' = disk, queued' \subseteq queued,
           \A c \in Blobs : job'[c].pc = job[c].pc /\ job'[c].path = job[c].path,
           \A c \in Blobs : Moved(c)
    PROVE  Places'
<1>0. /\ NoPath \notin Paths /\ Absent.path = NoPath /\ Absent.state = "Absent"
      /\ Offered.path = NoPath /\ Offered.state = "Offered"
  BY DEF NoPath, Paths, Absent, Offered
<1>1. \A c \in Blobs, e \in Paths : Uses(c, e)' => Uses(c, e)
  BY <1>0 DEF Uses, Moved
<1>2. \A e \in Paths :
          /\ prep'[e].pc # "none" => \A g \in Paths : g < e => prep'[g].pc # "none"
          /\ \A c1, c2 \in Blobs : Uses(c1, e)' /\ Uses(c2, e)' => c1 = c2
          /\ prep'[e].pc = "none" => \A c \in Blobs : ~Uses(c, e)'
          /\ prep'[e].pc # "over" => disk'[e] = "absent" /\ \A c \in Blobs : job'[c].path # e
  BY <1>1 DEF Places
<1>3. \A c \in Blobs :
          /\ job'[c].pc = "none" <=> job'[c].path = NoPath
          /\ offers'[c].state \in {"Absent", "Offered"} <=> offers'[c].path = NoPath
          /\ c \in queued' \cap Listed(offers') /\ job'[c].pc \in Working => offers'[c].path = job'[c].path
  <2>. TAKE c \in Blobs
  <2>1. /\ job'[c].pc = "none" <=> job'[c].path = NoPath
        /\ offers'[c].state \in {"Absent", "Offered"} <=> offers'[c].path = NoPath
    BY <1>0 DEF Places, Moved
  <2>2. ASSUME c \in queued', offers'[c].state # "Absent", job'[c].pc \in Working
        PROVE  offers'[c].path = job'[c].path
    BY <1>0, <2>2 DEF Places, Moved, Listed
  <2>. QED
    BY <2>1, <2>2 DEF Listed
<1>. QED
  BY <1>2, <1>3 DEF Places

LEMMA CancelKeepsPlaces ==
    ASSUME TransferInv, NEW b \in Blobs, CancelDownload(b)
    PROVE  Places' /\ OfferOnce' /\ HasSlot'
<1>. USE DEF TransferInv
<1>0. Absent.state = "Absent"
  BY DEF Absent
<1>1. /\ UNCHANGED <<prep, disk, queued, events, seen, announcing>>
      /\ offers[b].state = "Fetching"
      /\ \A c \in Blobs : c # b => offers'[c] = offers[c]
      /\ offers'[b] = Absent \/ (offers'[b].path = offers[b].path /\ offers'[b].state \in {"Failed", "Canceled", "Canceling"})
      /\ b \in queued <=> offers'[b].state = "Canceling"
      /\ job' = job \/ job' = Signal(job, {b})
  <2>1. UNCHANGED <<prep, disk, queued, native, events>> /\ offers[b].state = "Fetching"
    BY CancelDoes
  <2>2. /\ \A c \in Blobs : c # b => offers'[c] = offers[c]
        /\ offers'[b] = Absent \/ (offers'[b].path = offers[b].path /\ offers'[b].state \in {"Failed", "Canceled", "Canceling"})
        /\ job' = job \/ job' = Signal(job, {b})
    BY CancelDoes
  <2>3. b \in queued <=> offers'[b].state = "Canceling"
    BY <1>0, CancelDoes
  <2>. QED
    BY <2>1, <2>2, <2>3 DEF native
<1>2. \A c \in Blobs : job'[c].pc = job[c].pc /\ job'[c].path = job[c].path
  BY <1>1, SignalTells DEF SignalInv
<1>3. \A c \in Blobs : Moved(c)
  BY <1>1 DEF Moved, Listed
<1>4. Places'
  BY <1>1, <1>2, <1>3, ListKeepsPlaces
<1>5. OfferOnce'
  <2>1. Listed(offers') \subseteq Listed(offers)
    BY <1>0, <1>1 DEF Listed
  <2>. QED
    BY <1>1, <2>1 DEF OfferOnce, OfferAt
<1>6. HasSlot'
  <2>. SUFFICES ASSUME NEW c \in Blobs, offers'[c].state # "Absent"
                PROVE  /\ c \in queued' => c \in Busy(offers') /\ ~Prepares(c)'
                       /\ c \in Busy(offers') => c \in queued' \/ Prepares(c)'
    BY DEF HasSlot, Listed
  <2>1. offers'[c].path = offers[c].path /\ offers[c].state # "Absent"
    BY <1>0, <1>1
  <2>2. Prepares(c)' <=> Prepares(c)
    BY <1>1, <2>1 DEF Prepares
  <2>. QED
    BY <1>1, <2>1, <2>2 DEF HasSlot, Listed, Busy
<1>. QED
  BY <1>4, <1>5, <1>6

(* An event taken: at most the offer it is about changes.                  *)
LEMMA PollFinds ==
    ASSUME TransferInv, Poll
    PROVE  LET b == Head(events).blob
           IN  /\ b \in Blobs /\ \A c \in Blobs : c # b => offers'[c] = offers[c]
               /\ \/ /\ UNCHANGED <<offers, queued>>
                     /\ Head(events).kind \in Terminal => b \notin queued
                  \/ /\ Head(events) = Event("Offer", b) /\ UNCHANGED queued
                     /\ offers[b].state = "Absent" /\ offers'[b] = Offered /\ b \notin queued
                  \/ /\ Head(events).kind = "Withdrawn" /\ UNCHANGED queued
                     /\ \/ offers'[b] = Absent /\ b \notin Busy(offers)
                        \/ /\ offers[b].state \in {"Fetching", "Canceling", "Saved"} /\ offers'[b].withdrawn
                           /\ offers'[b].path = offers[b].path
                           /\ offers'[b].state = IF offers[b].state = "Fetching" THEN "Canceling" ELSE offers[b].state
                  \/ /\ Head(events).kind \in Terminal /\ b \in queued /\ queued' = queued \ {b}
                     /\ \/ offers'[b] = Absent
                        \/ offers'[b] = offers[b] /\ b \notin Listed(offers)
                        \/ /\ b \in Busy(offers)
                           /\ offers'[b].path = offers[b].path /\ offers'[b].withdrawn = offers[b].withdrawn
                           /\ offers'[b].state \in IF Head(events).kind = "Done" THEN {"Saved"} ELSE {"Failed", "Canceled"}
<1>. USE DEF TransferInv
<1>. DEFINE e == Head(events)
            b == e.blob
<1>1. e \in Events /\ b \in Blobs /\ events # << >> /\ offers \in [Blobs -> Offers]
  BY PollDoes DEF Events, TransferTyped, OffersTyped
<1>2. \/ e.kind = "Offer" /\ UNCHANGED queued /\ (offers' = offers \/ offers' = Add(offers, b))
      \/ e.kind = "Withdrawn" /\ offers' = Withdraw(offers, b) /\ UNCHANGED queued
      \/ e.kind \in Terminal /\ b \notin queued /\ UNCHANGED <<offers, queued>>
      \/ /\ e.kind \in Terminal /\ b \in queued /\ queued' = queued \ {b}
         /\ offers' = Complete(offers, b, e.kind = "Done")
  BY PollDoes
<1>. HIDE DEF b
<1>3. CASE e.kind = "Offer" /\ UNCHANGED queued /\ (offers' = offers \/ offers' = Add(offers, b))
  <2>1. e = Event("Offer", b)
    BY <1>1, <1>3 DEF Events, Event, b
  <2>2. b \notin queued
    BY <1>1, <2>1, TailIs DEF OfferOnce, OfferAt, TransferTyped, EventsTyped
  <2>3. /\ \A c \in Blobs : c # b => Add(offers, b)[c] = offers[c]
        /\ Add(offers, b) \in [Blobs -> Offers]
        /\ Add(offers, b)[b] = offers[b] \/ (offers[b].state = "Absent" /\ Add(offers, b)[b] = Offered)
    BY <1>1, AddIs
  <2>4. offers' = offers \/ (offers[b].state = "Absent" /\ offers' = Add(offers, b) /\ offers'[b] = Offered)
    BY <1>1, <1>3, <2>3
  <2>. QED
    BY <1>1, <1>3, <2>1, <2>2, <2>3, <2>4 DEF Terminal, b
<1>4. CASE e.kind = "Withdrawn" /\ offers' = Withdraw(offers, b) /\ UNCHANGED queued
  BY <1>1, <1>4, WithdrawIs DEF b
<1>5. CASE e.kind \in Terminal /\ b \notin queued /\ UNCHANGED <<offers, queued>>
  BY <1>1, <1>5 DEF b
<1>6. CASE /\ e.kind \in Terminal /\ b \in queued /\ queued' = queued \ {b}
           /\ offers' = Complete(offers, b, e.kind = "Done")
  <2>1. b \in Listed(offers) => b \in Busy(offers)
    BY <1>6 DEF HasSlot
  <2>. DEFINE verified == e.kind = "Done"
              r == Complete(offers, b, verified)
  <2>2. verified \in BOOLEAN
    OBVIOUS
  <2>. HIDE DEF verified
  <2>3. (\A c \in Blobs : c # b => r[c] = offers[c]) /\ (b \notin Busy(offers) => r[b] = offers[b])
    BY <1>1, <2>2, CompleteIs
  <2>4. ASSUME b \in Busy(offers)
        PROVE  \/ r[b] = Absent
               \/ /\ r[b].state \in IF verified THEN {"Saved"} ELSE {"Failed", "Canceled"}
                  /\ r[b].path = offers[b].path /\ r[b].withdrawn = offers[b].withdrawn
    BY <1>1, <2>2, <2>4, CompleteIs
  <2>5. offers' = r
    BY <1>6 DEF verified
  <2>. HIDE DEF r
  <2>6. b \notin Busy(offers) => offers'[b] = offers[b] /\ b \notin Listed(offers)
    BY <2>1, <2>3, <2>5
  <2>7. \/ offers'[b] = Absent
        \/ offers'[b] = offers[b] /\ b \notin Listed(offers)
        \/ /\ b \in Busy(offers)
           /\ offers'[b].path = offers[b].path /\ offers'[b].withdrawn = offers[b].withdrawn
           /\ offers'[b].state \in IF e.kind = "Done" THEN {"Saved"} ELSE {"Failed", "Canceled"}
    BY <2>4, <2>5, <2>6 DEF verified
  <2>. QED
    BY <1>1, <1>6, <2>3, <2>5, <2>7 DEF b
<1>. QED
  BY <1>2, <1>3, <1>4, <1>5, <1>6

LEMMA PollKeepsPlaces ==
    ASSUME TransferInv, Poll
    PROVE  Places' /\ OfferOnce' /\ HasSlot'
<1>. USE DEF TransferInv
<1>. DEFINE e == Head(events)
            b == e.blob
<1>0. /\ Absent.state = "Absent" /\ Offered.state = "Offered"
  BY DEF Absent, Offered
<1>1. /\ events # << >> /\ events' = Tail(events) /\ events \in Seq(Events)
      /\ UNCHANGED <<prep, disk, job, seen, announcing>>
  BY PollDoes DEF native, TransferTyped, EventsTyped
<1>2. b \in Blobs /\ \A c \in Blobs : c # b => offers'[c] = offers[c]
  BY PollFinds
<1>. DEFINE Ignored == UNCHANGED <<offers, queued>>
            Added == /\ e = Event("Offer", b) /\ UNCHANGED queued
                     /\ offers[b].state = "Absent" /\ offers'[b] = Offered /\ b \notin queued
            Taken == /\ UNCHANGED queued
                     /\ \/ offers'[b] = Absent /\ b \notin Busy(offers)
                        \/ /\ offers[b].state \in {"Fetching", "Canceling", "Saved"}
                           /\ offers'[b].path = offers[b].path
                           /\ offers'[b].state = IF offers[b].state = "Fetching" THEN "Canceling" ELSE offers[b].state
            IsOver == /\ b \in queued /\ queued' = queued \ {b}
                      /\ \/ offers'[b] = Absent
                         \/ offers'[b] = offers[b] /\ b \notin Listed(offers)
                         \/ /\ b \in Busy(offers) /\ offers'[b].path = offers[b].path
                            /\ offers'[b].state \in {"Saved", "Failed", "Canceled"}
<1>3. Ignored \/ Added \/ Taken \/ IsOver
  BY PollFinds
<1>. HIDE DEF b, e
<1>4. queued' \subseteq queued
  BY <1>3
<1>5. \A c \in Blobs : Moved(c)
  <2>. SUFFICES Moved(b)
    BY <1>2 DEF Moved, Listed
  <2>1. CASE Ignored
    BY <2>1 DEF Moved, Listed
  <2>2. CASE Added
    BY <2>2 DEF Moved
  <2>3. CASE Taken
    BY <1>2, <2>3 DEF Moved, Listed
  <2>4. CASE IsOver
    BY <1>2, <2>4 DEF Moved, Listed, Busy
  <2>. QED
    BY <1>3, <2>1, <2>2, <2>3, <2>4
<1>6. Places'
  <2>1. \A c \in Blobs : job'[c].pc = job[c].pc /\ job'[c].path = job[c].path
    BY <1>1
  <2>. QED
    BY <1>1, <1>4, <1>5, <2>1, ListKeepsPlaces
<1>7. OfferOnce'
  <2>1. \A i \in DOMAIN events' : i + 1 \in DOMAIN events /\ events'[i] = events[i + 1] /\ i \in Int /\ i >= 1
    BY <1>1, TailIs
  <2>2. \A c \in Blobs, i \in DOMAIN events' : OfferAt(i, c)' => OfferAt(i + 1, c) /\ i + 1 \in DOMAIN events
    BY <2>1 DEF OfferAt
  <2>3. \A c \in Blobs : c \in queued' \cup Listed(offers') => c \in queued \cup Listed(offers) \/ (c = b /\ Added)
    <3>. SUFFICES ASSUME NEW c \in Blobs, offers'[c].state # "Absent"
                  PROVE  c \in queued \cup Listed(offers) \/ (c = b /\ Added)
      BY <1>4 DEF Listed
    <3>1. CASE c # b
      BY <1>2, <3>1 DEF Listed
    <3>2. CASE c = b
      BY <1>0, <1>3, <3>2 DEF Listed, Busy
    <3>. QED
      BY <3>1, <3>2
  <2>4. ASSUME Added
        PROVE  b \in seen \ announcing /\ \A i \in DOMAIN events' : events'[i] # Event("Offer", b)
    <3>1. 1 \in DOMAIN events /\ OfferAt(1, b)
      BY <1>1, <2>4, TailIs DEF OfferAt, e
    <3>2. b \in seen \ announcing
      BY <1>2, <3>1 DEF OfferOnce
    <3>3. \A i \in DOMAIN events' : i + 1 # 1
      BY <2>1
    <3>4. \A i \in DOMAIN events : OfferAt(i, b) => i = 1
      BY <1>2, <3>1 DEF OfferOnce
    <3>. QED
      BY <1>2, <2>2, <3>2, <3>3, <3>4 DEF OfferAt
  <2>5. \A c \in Blobs : c \notin seen' \ announcing' \/ c \in queued' \cup Listed(offers') =>
           \A i \in DOMAIN events' : events'[i] # Event("Offer", c)
    BY <1>1, <2>2, <2>3, <2>4 DEF OfferOnce, OfferAt
  <2>6. announcing' \subseteq seen' /\ queued' \cup Listed(offers') \subseteq seen' \ announcing'
    <3>1. queued' \subseteq Blobs /\ Listed(offers') \subseteq Blobs
      BY <1>4 DEF TransferTyped, Listed
    <3>. QED
      BY <1>1, <2>3, <2>4, <3>1 DEF OfferOnce
  <2>7. ASSUME NEW c \in Blobs, NEW i \in DOMAIN events', NEW j \in DOMAIN events', OfferAt(i, c)', OfferAt(j, c)'
        PROVE  i = j
    <3>1. i + 1 = j + 1
      BY <2>2, <2>7 DEF OfferOnce
    <3>. QED
      BY <2>1, <3>1
  <2>. QED
    BY <2>5, <2>6, <2>7 DEF OfferOnce, OfferAt
<1>8. HasSlot'
  <2>. SUFFICES ASSUME NEW c \in Blobs, offers'[c].state # "Absent"
                PROVE  /\ c \in queued' => c \in Busy(offers') /\ ~Prepares(c)'
                       /\ c \in Busy(offers') => c \in queued' \/ Prepares(c)'
    BY DEF HasSlot, Listed
  <2>0. ASSUME offers'[c].path = offers[c].path PROVE Prepares(c)' <=> Prepares(c)
    BY <1>1, <2>0 DEF Prepares
  <2>1. CASE c # b \/ Ignored
    <3>1. offers'[c] = offers[c] /\ (c \in queued' <=> c \in queued)
      BY <1>2, <1>3, <2>1
    <3>. QED
      BY <2>0, <3>1 DEF HasSlot, Listed, Busy
  <2>2. CASE c = b /\ Added
    BY <1>0, <2>2 DEF Busy
  <2>3. CASE c = b /\ Taken
    BY <1>0, <2>0, <2>3 DEF HasSlot, Listed, Busy
  <2>4. CASE c = b /\ IsOver
    BY <1>0, <2>4 DEF Listed, Busy
  <2>. QED
    BY <1>3, <2>1, <2>2, <2>3, <2>4
<1>. QED
  BY <1>6, <1>7, <1>8

-----------------------------------------------------------------------------
(* Outcomes                                                                *)

LEMMA LostFinite ==
    ASSUME EventsTyped, NEW b
    PROVE  IsFiniteSet(Lost(b)) /\ Cardinality(Lost(b)) \in Nat
BY FS_Subset, FS_CardinalityType DEF EventsTyped, Lost

(* An event emitted is one outcome more if it is one, on its way or lost.  *)
LEMMA EmitCounts ==
    ASSUME EventsTyped, NEW e \in Events, Emit(e), NEW b \in Blobs,
           Cardinality(Lost(b)) = 0 \/ ~(e.blob = b /\ e.kind \in Terminal)
    PROVE  Cardinality(Hits(events, b, Terminal))' + Cardinality(Lost(b))'
              = Cardinality(Hits(events, b, Terminal)) + Cardinality(Lost(b))
                + (IF e.blob = b /\ e.kind \in Terminal THEN 1 ELSE 0)
<1>1. /\ Cardinality(Hits(events, b, Terminal)) \in Nat
      /\ IsFiniteSet(Lost(b)) /\ Cardinality(Lost(b)) \in Nat
  BY HitsFinite, LostFinite DEF EventsTyped
<1>2. CASE events' = Append(events, e) /\ UNCHANGED lost
  <2>1. Cardinality(Hits(events, b, Terminal))'
           = Cardinality(Hits(events, b, Terminal)) + (IF e.blob = b /\ e.kind \in Terminal THEN 1 ELSE 0)
    BY <1>2, HitsAppended DEF EventsTyped
  <2>2. Lost(b)' = Lost(b)
    BY <1>2 DEF Lost
  <2>. QED
    BY <1>1, <2>1, <2>2
<1>3. CASE lost' = lost \cup {e} /\ UNCHANGED events
  <2>1. Hits(events, b, Terminal)' = Hits(events, b, Terminal)
    BY <1>3
  <2>2. CASE e.blob = b /\ e.kind \in Terminal
    <3>1. Lost(b) = {}
      BY <1>1, <2>2, FS_EmptySet
    <3>2. Lost(b)' = {e}
      BY <1>3, <2>2, <3>1 DEF Lost
    <3>3. Cardinality({e}) = 1
      BY FS_Singleton
    <3>. QED
      BY <1>1, <2>1, <2>2, <3>1, <3>2, <3>3, FS_EmptySet
  <2>3. CASE ~(e.blob = b /\ e.kind \in Terminal)
    <3>1. Lost(b)' = Lost(b)
      BY <1>3, <2>3 DEF Lost
    <3>. QED
      BY <1>1, <2>1, <2>3, <3>1
  <2>. QED
    BY <2>2, <2>3
<1>. QED
  BY <1>2, <1>3 DEF Emit

(* Quiet steps leave the jobs at work, but for the one that reports.       *)
LEMMA WorkGoesOn ==
    ASSUME TransferTyped, SignalInv, QuietStep, NEW b \in Blobs, ~Report(b)
    PROVE  job'[b].pc \in Working <=> job[b].pc \in Working
<1>0. job \in [Blobs -> Job] /\ job[b] \in Job
  BY DEF SignalInv, JobsTyped
<1>1. CASE \E c \in Blobs : JobStep(c)
  <2>1. PICK c \in Blobs : JobStep(c)
    BY <1>1
  <2>2. CASE c # b
    BY <2>1, <2>2, JobDoes
  <2>3. CASE Advance(b)
    <3>1. job[b].pc \in DOMAIN After /\ job' = [job EXCEPT ![b].pc = After[job[b].pc]]
      BY <2>3 DEF Advance, Passes
    <3>2. After[job[b].pc] \in Working /\ job[b].pc \in Working
      BY <3>1 DEF After, Working
    <3>3. job'[b].pc = After[job[b].pc]
      BY <1>0, <3>1 DEF Job
    <3>. QED
      BY <3>2, <3>3
  <2>4. CASE Abort(b)
    <3>1. job[b].pc \in Working /\ job' = [job EXCEPT ![b].pc = "failed"]
      BY <2>4 DEF Abort, Working
    <3>2. job'[b].pc = "failed"
      BY <1>0, <3>1 DEF Job
    <3>. QED
      BY <3>1, <3>2 DEF Working
  <2>5. CASE Release(b)
    <3>1. job[b].pc = "release" /\ job'[b].pc = "unregister"
      BY <1>0, <2>5 DEF Release, Job
    <3>. QED
      BY <3>1, WorkingStages
  <2>6. CASE Unregister(b)
    <3>1. job[b].pc = "unregister" /\ job'[b].pc = "none"
      BY <1>0, <2>6 DEF Unregister, NoJob
    <3>. QED
      BY <3>1, WorkingStages
  <2>. QED
    BY <2>1, <2>2, <2>3, <2>4, <2>5, <2>6 DEF JobStep
<1>2. CASE ~(\E c \in Blobs : JobStep(c))
  <2>1. job' = job \/ \E S \in SUBSET Blobs : job' = Signal(job, S)
    BY <1>2, QuietTells
  <2>. QED
    BY <2>1, SignalTells DEF SignalInv
<1>. QED
  BY <1>1, <1>2

LEMMA QuietOutcome ==
    ASSUME TransferTyped, SignalInv, Awaited, QuietStep
    PROVE  Awaited'
<1>0. EventsTyped /\ queued' = queued
  BY QuietDoes DEF TransferTyped
<1>1. ASSUME NEW b \in Blobs
      PROVE  Outcomes(b)' = Outcomes(b)
  <2>0. /\ Cardinality(Hits(events, b, Terminal)) \in Nat
        /\ Cardinality(Lost(b)) \in Nat
    BY <1>0, HitsFinite, LostFinite DEF EventsTyped
  <2>9. Cardinality(Hits(events, b, Terminal))' \in Nat /\ Cardinality(Lost(b))' \in Nat
    <3>1. EventsTyped'
      BY QuietTyped DEF TransferTyped
    <3>2. IsFiniteSet(Lost(b)') /\ Cardinality(Lost(b)') \in Nat
      BY <3>1, FS_Subset, FS_CardinalityType DEF EventsTyped, Lost
    <3>. QED
      BY <3>1, <3>2, HitsFinite DEF EventsTyped
  <2>1. CASE Report(b)
    <3>1. job[b].pc \in {"done", "failed"} /\ job' = [job EXCEPT ![b].pc = "release"]
      BY <2>1 DEF Report
    <3>2. job[b].pc \in Working /\ job'[b].pc \notin Working
      BY <3>1, WorkingStages DEF Working, SignalInv, JobsTyped, Job
    <3>3. PICK e \in Events : Emit(e) /\ e.blob = b /\ e.kind \in Terminal
      BY <2>1 DEF Report, Event, Events, Kinds, Terminal
    <3>4. Cardinality(Lost(b)) = 0
      BY <2>0, <3>2 DEF Awaited, Outcomes
    <3>5. Cardinality(Hits(events, b, Terminal))' + Cardinality(Lost(b))'
             = Cardinality(Hits(events, b, Terminal)) + Cardinality(Lost(b)) + 1
      BY <1>0, <3>3, <3>4, EmitCounts
    <3>. QED
      BY <2>0, <2>9, <3>2, <3>5 DEF Outcomes
  <2>2. CASE ~Report(b)
    <3>1. job'[b].pc \in Working <=> job[b].pc \in Working
      BY <2>2, WorkGoesOn
    <3>2. UNCHANGED <<events, lost>> \/ \E e \in Events : Emit(e) /\ ~(e.blob = b /\ e.kind \in Terminal)
      <4>1. CASE \E c \in Blobs : Announce(c) \/ Withdrawn(c)
        <5>1. PICK c \in Blobs, kind \in {"Offer", "Withdrawn"} : Emit(Event(kind, c))
          BY <4>1 DEF Announce, Withdrawn
        <5>. QED
          BY <5>1 DEF Event, Events, Kinds, Terminal
      <4>2. CASE \E c \in Blobs : Report(c)
        <5>1. PICK c \in Blobs : Report(c)
          BY <4>2
        <5>2. PICK kind \in Terminal : Emit(Event(kind, c))
          BY <5>1 DEF Report, Terminal
        <5>. QED
          BY <2>2, <5>1, <5>2 DEF Event, Events, Kinds, Terminal
      <4>3. CASE ~(\E c \in Blobs : Announce(c) \/ Withdrawn(c) \/ Report(c))
        BY <4>3
        DEF QuietStep, OfferArrives, Unoffer, JobStep, Advance, Abort, Release, Unregister,
            ToggleMute, BlockList, Unblock, BlockStep, BlockBlobs, BlockJobs, BlockOffers, vars
      <4>. QED
        BY <4>1, <4>2, <4>3
    <3>3. Cardinality(Hits(events, b, Terminal))' + Cardinality(Lost(b))'
             = Cardinality(Hits(events, b, Terminal)) + Cardinality(Lost(b))
      <4>1. CASE UNCHANGED <<events, lost>>
        BY <4>1 DEF Lost
      <4>2. CASE \E e \in Events : Emit(e) /\ ~(e.blob = b /\ e.kind \in Terminal)
        BY <1>0, <2>0, <4>2, EmitCounts
      <4>. QED
        BY <3>2, <4>1, <4>2
    <3>. QED
      BY <2>0, <2>9, <3>1, <3>3 DEF Outcomes
  <2>. QED
    BY <2>1, <2>2
<1>. QED
  BY <1>0, <1>1 DEF Awaited

(* Where nothing is reported or taken, and no transfer started.            *)
LEMMA SameOutcomes ==
    ASSUME Awaited, UNCHANGED <<events, lost, queued>>,
           \A b \in Blobs : job'[b].pc \in Working <=> job[b].pc \in Working
    PROVE  Awaited'
BY DEF Awaited, Outcomes, Lost

(* The frame thread starts a transfer whose last outcome was taken.        *)
LEMMA PreparedOutcome ==
    ASSUME TransferInv, NEW d \in Paths, NEW full \in BOOLEAN, Prepared(d, full)
    PROVE  Awaited'
<1>. USE DEF TransferInv
<1>. DEFINE b == prep[d].blob
<1>1. UNCHANGED <<events, lost>>
  BY DEF Prepared
<1>2. b \in Blobs /\ \A c \in Blobs : c # b => job'[c] = job[c]
  BY PreparedFinds
<1>3. \/ /\ b \notin queued /\ CanFetch(b)
         /\ job'[b].pc = "queued" /\ queued' = queued \cup {b}
      \/ UNCHANGED <<job, queued>>
  BY PreparedFinds
<1>. HIDE DEF b
<1>4. CASE UNCHANGED <<job, queued>>
  BY <1>1, <1>4, SameOutcomes
<1>5. CASE b \notin queued /\ CanFetch(b) /\ job'[b].pc = "queued" /\ queued' = queued \cup {b}
  <2>1. job[b].pc \notin Working /\ job'[b].pc \in Working
    BY <1>5, WorkingStages DEF CanFetch, Working, After
  <2>. SUFFICES ASSUME NEW c \in Blobs
                PROVE  Outcomes(c)' = IF c \in queued' THEN 1 ELSE 0
    BY DEF Awaited
  <2>2. /\ Cardinality(Hits(events, c, Terminal)) \in Nat
        /\ Cardinality(Lost(c)) \in Nat
    BY HitsFinite, LostFinite DEF EventsTyped, TransferTyped
  <2>3. /\ Hits(events, c, Terminal)' = Hits(events, c, Terminal)
        /\ Lost(c)' = Lost(c)
    BY <1>1 DEF Lost
  <2>4. Outcomes(c) = IF c \in queued THEN 1 ELSE 0
    BY DEF Awaited
  <2>5. CASE c = b
    <3>1. /\ job[c].pc \notin Working /\ job'[c].pc \in Working
          /\ Outcomes(c) = 0
      BY <1>5, <2>1, <2>4, <2>5
    <3>2. Cardinality(Hits(events, c, Terminal)) = 0 /\ Cardinality(Lost(c)) = 0
      BY <2>2, <3>1 DEF Outcomes
    <3>3. Cardinality(Hits(events, c, Terminal)') = 0 /\ Cardinality(Lost(c)') = 0
      BY <2>3, <3>2
    <3>4. Outcomes(c)' = 1
      BY <3>1, <3>3 DEF Outcomes
    <3>. QED
      BY <1>5, <2>5, <3>4
  <2>6. CASE c # b
    <3>1. Outcomes(c)' = Outcomes(c)
      BY <1>2, <2>3, <2>6 DEF Outcomes
    <3>. QED
      BY <1>5, <2>4, <2>6, <3>1
  <2>. QED
    BY <2>5, <2>6
<1>. QED
  BY <1>3, <1>4, <1>5

(* An outcome taken is the one that was awaited.                           *)
LEMMA PollOutcome ==
    ASSUME TransferInv, Poll
    PROVE  Awaited'
<1>. USE DEF TransferInv
<1>. DEFINE e == Head(events)
            b == e.blob
<1>1. /\ events # << >> /\ events' = Tail(events) /\ events \in Seq(Events) /\ events' \in Seq(Events)
      /\ UNCHANGED <<job, lost>>
  BY PollDoes, PollTyped DEF TransferTyped, EventsTyped
<1>2. b \in Blobs /\ IF e.kind \in Terminal THEN queued' = queued \ {b} ELSE queued' = queued
  BY PollFinds DEF Terminal, Event
<1>. HIDE DEF b
<1>3. ASSUME NEW c \in Blobs
      PROVE  Outcomes(c)' = IF c \in queued' THEN 1 ELSE 0
  <2>1. Cardinality(Hits(events, c, Terminal))
           = Cardinality(Hits(Tail(events), c, Terminal)) + (IF b = c /\ e.kind \in Terminal THEN 1 ELSE 0)
    BY <1>1, HitsTail DEF b
  <2>2. /\ Cardinality(Hits(events', c, Terminal)) \in Nat
        /\ Cardinality(Hits(events, c, Terminal)) \in Nat
        /\ Cardinality(Lost(c)) \in Nat
    BY <1>1, HitsFinite, LostFinite DEF TransferTyped
  <2>. HIDE DEF e
  <2>3. Lost(c)' = Lost(c)
    BY <1>1 DEF Lost
  <2>4. Outcomes(c) = IF c \in queued THEN 1 ELSE 0
    BY DEF Awaited
  <2>5. CASE b = c /\ e.kind \in Terminal
    <3>1. c \in queued /\ Outcomes(c) = Outcomes(c)' + 1
      BY <1>1, <2>1, <2>2, <2>3, <2>4, <2>5 DEF Outcomes
    <3>2. Outcomes(c)' \in Int
      BY <1>1, <2>2, <2>3 DEF Outcomes
    <3>. QED
      BY <1>2, <2>4, <2>5, <3>1, <3>2
  <2>6. CASE ~(b = c /\ e.kind \in Terminal)
    <3>1. Outcomes(c) = Outcomes(c)'
      BY <1>1, <2>1, <2>2, <2>3, <2>6 DEF Outcomes
    <3>2. c \in queued' <=> c \in queued
      BY <1>2, <2>6
    <3>. QED
      BY <2>4, <3>1, <3>2
  <2>. QED
    BY <2>5, <2>6
<1>. QED
  BY <1>3 DEF Awaited

LEMMA InitTransferInv == Init => TransferInv
<1>. SUFFICES ASSUME Init PROVE TransferInv
  OBVIOUS
<1>0. NoPath \notin Paths /\ Absent.path = NoPath /\ Absent.state = "Absent"
  BY DEF NoPath, Paths, Absent
<1>1. /\ TransferTyped /\ SignalInv
  BY InitTransfer, InitSignal
<1>2. /\ \A b \in Blobs : offers[b] = Absent /\ job[b].pc = "none" /\ job[b].path = NoPath
      /\ \A d \in Paths : prep[d].pc = "none" /\ disk[d] = "absent"
      /\ events = << >> /\ lost = {} /\ queued = {} /\ seen = {} /\ announcing = {}
  BY DEF Init, NoJob, NoPrep
<1>3. Places
  BY <1>0, <1>2, WorkingStages DEF Places, Uses, Preparing
<1>4. OfferOnce
  BY <1>0, <1>2 DEF OfferOnce, Listed
<1>5. HasSlot
  BY <1>0, <1>2 DEF HasSlot, Listed
<1>6. Awaited
  <2>. SUFFICES ASSUME NEW b \in Blobs PROVE Outcomes(b) = 0
    BY <1>2 DEF Awaited
  <2>1. Hits(events, b, Terminal) = {} /\ Lost(b) = {} /\ job[b].pc \notin Working
    BY <1>2, WorkingStages DEF Hits, Lost
  <2>. QED
    BY <2>1, FS_EmptySet DEF Outcomes
<1>. QED
  BY <1>1, <1>3, <1>4, <1>5, <1>6 DEF TransferInv

LEMMA NextTransferInv == TransferInv /\ [Next]_vars => TransferInv'
<1>. SUFFICES ASSUME TransferInv, [Next]_vars PROVE TransferInv'
  OBVIOUS
<1>1. TransferTyped' /\ SignalInv'
  BY NextTransfer, NextSignal DEF TransferInv
<1>2. CASE QuietStep
  BY <1>1, <1>2, QuietPlaces, QuietOffers, QuietSlot, QuietOutcome DEF TransferInv
<1>3. ASSUME NEW b \in Blobs, NEW d \in Paths, Download(b, d)
      PROVE  TransferInv'
  <2>1. UNCHANGED <<events, lost, queued, job>>
    BY <1>3 DEF Download
  <2>. QED
    BY <1>1, <1>3, <2>1, DownloadKeepsPlaces, SameOutcomes DEF TransferInv
<1>4. ASSUME NEW d \in Paths, NEW gone \in SUBSET Paths, NEW bad \in BOOLEAN, Prepare(d, gone, bad)
      PROVE  TransferInv'
  <2>1. UNCHANGED <<events, lost, queued, job>>
    BY <1>4 DEF Prepare
  <2>. QED
    BY <1>1, <1>4, <2>1, PrepareKeepsPlaces, SameOutcomes DEF TransferInv
<1>5. ASSUME NEW d \in Paths, NEW full \in BOOLEAN, Prepared(d, full)
      PROVE  TransferInv'
  BY <1>1, <1>5, PreparedKeepsPlaces, PreparedOutcome DEF TransferInv
<1>6. ASSUME NEW b \in Blobs, CancelDownload(b)
      PROVE  TransferInv'
  <2>1. UNCHANGED <<events, lost, queued>> /\ (job' = job \/ job' = Signal(job, {b}))
    BY <1>6, CancelDoes DEF TransferInv
  <2>2. \A c \in Blobs : job'[c].pc = job[c].pc
    BY <2>1, SignalTells DEF TransferInv, SignalInv
  <2>. QED
    BY <1>1, <1>6, <2>1, <2>2, CancelKeepsPlaces, SameOutcomes DEF TransferInv
<1>7. CASE Poll
  BY <1>1, <1>7, PollKeepsPlaces, PollOutcome DEF TransferInv
<1>. QED
  BY <1>2, <1>3, <1>4, <1>5, <1>6, <1>7, NextSplits

(* TransfersEnd: a transfer the plugin has started has one outcome on its  *)
(* way, from its job, through the channel, or dropped by it; and it holds  *)
(* its place in the list just as long.                                     *)
THEOREM TransfersEndOnce == Spec => []TransfersEnd
<1>1. TransferInv => TransfersEnd
  BY SlotIs, AwaitedIs DEF TransferInv, TransfersEnd
<1>. QED
  BY <1>1, InitTransferInv, NextTransferInv, PTL DEF Spec

-----------------------------------------------------------------------------
(* Types: what the node knows of the blobs.  An offer whose sender is being*)
(* blocked is not being announced: the list was locked until it was, and   *)
(* is read before another comes.                                           *)
NodeTyped ==
    /\ announcing \subseteq blobs /\ blobs \subseteq seen /\ seen \subseteq Blobs
    /\ withdrawing \subseteq seen \ blobs
    /\ blocked \subseteq Senders /\ muted \subseteq Senders
    /\ blocking.peers \subseteq blocked
    /\ \A b \in announcing : SenderOf[b] \notin blocking.peers

LEMMA NodeTypedInit == Init => NodeTyped
BY DEF Init, NodeTyped, NotBlocking

LEMMA NodeTypedStep ==
    ASSUME SignalInv, NodeTyped, [Next]_vars
    PROVE  NodeTyped'
<1>. USE DEF NodeTyped
<1>a. /\ blocking \in [pc : {"none", "blobs", "jobs", "offers"}, peers : SUBSET Senders, removed : SUBSET Blobs]
      /\ blocking.pc = "none" => blocking.peers = {}
  BY DEF SignalInv, BlockingTyped, AtWork
<1>1. ASSUME NEW b \in Blobs, OfferArrives(b) PROVE NodeTyped'
  BY <1>1 DEF OfferArrives, plugin
<1>2. ASSUME NEW b \in Blobs, Announce(b) PROVE NodeTyped'
  BY <1>2 DEF Announce, plugin
<1>3. ASSUME NEW b \in Blobs, Unoffer(b) \/ Withdrawn(b) PROVE NodeTyped'
  BY <1>3 DEF Unoffer, Withdrawn, plugin
<1>4. ASSUME NEW p \in Senders, BlockList(p) PROVE NodeTyped'
  BY <1>4 DEF BlockList, plugin
<1>5. CASE BlockBlobs
  <2>1. blocking'.peers = blocking.peers
    BY <1>5, <1>a DEF BlockBlobs
  <2>2. /\ blobs' = blobs \ OfBlocked /\ withdrawing' = withdrawing \cup (blobs \cap OfBlocked)
        /\ UNCHANGED <<seen, announcing, blocked, muted>>
    BY <1>5 DEF BlockBlobs, plugin
  <2>3. announcing \cap OfBlocked = {}
    BY DEF OfBlocked
  <2>. QED
    BY <2>1, <2>2, <2>3
<1>6. CASE BlockJobs
  <2>1. blocking'.peers = blocking.peers
    BY <1>6, <1>a DEF BlockJobs
  <2>. QED
    BY <1>6, <2>1 DEF BlockJobs, plugin
<1>7. CASE BlockOffers
  BY <1>7 DEF BlockOffers, NotBlocking
<1>8. ASSUME NEW p \in Senders, Unblock(p) PROVE NodeTyped'
  BY <1>8, <1>a DEF Unblock, AtWork, plugin
<1>9. ASSUME NEW p \in Senders, ToggleMute(p) PROVE NodeTyped'
  BY <1>9 DEF ToggleMute, native
<1>10. CASE UNCHANGED <<native, muted>>
  BY <1>10 DEF native
<1>11. \/ \E b \in Blobs : OfferArrives(b) \/ Announce(b) \/ Unoffer(b) \/ Withdrawn(b)
       \/ \E p \in Senders : ToggleMute(p) \/ BlockList(p) \/ Unblock(p)
       \/ BlockStep
       \/ UNCHANGED <<native, muted>>
  BY DEF Next, JobStep, Advance, Abort, Report, Release, Unregister, Download, Prepare, Prepared, CancelDownload,
         Poll, plugin, native, vars
<1>. QED
  BY <1>1, <1>2, <1>3, <1>4, <1>5, <1>6, <1>7, <1>8, <1>9, <1>10, <1>11 DEF BlockStep

(* A set that takes one more.                                              *)
LEMMA OneMore ==
    ASSUME NEW S, IsFiniteSet(S), NEW x
    PROVE  IsFiniteSet(S \cup {x}) /\ Cardinality(S \cup {x}) <= Cardinality(S) + 1
<1>1. Cardinality(S) \in Nat
  BY FS_CardinalityType
<1>2. CASE x \in S
  <2>. DEFINE T == S \cup {x}
  <2>1. T = S
    BY <1>2
  <2>. HIDE DEF T
  <2>2. IsFiniteSet(T) /\ Cardinality(T) <= Cardinality(S) + 1
    BY <1>1, <2>1
  <2>. QED
    BY <2>2 DEF T
<1>3. CASE x \notin S
  <2>1. IsFiniteSet(S \cup {x}) /\ Cardinality(S \cup {x}) = Cardinality(S) + 1
    BY <1>3, FS_AddElement
  <2>. QED
    BY <1>1, <2>1
<1>. QED
  BY <1>2, <1>3

(* The two limits.  A job takes a permit where it is registered, and one   *)
(* must be left...                                                         *)
PermitsHeld == IsFiniteSet(Permits) /\ Cardinality(Permits) <= Slots

LEMMA PermitsHeldStep ==
    ASSUME TransferTyped, SignalInv, PermitsHeld, [Next]_vars
    PROVE  PermitsHeld'
<1>1. Cardinality(Permits) \in Nat
  BY FS_CardinalityType DEF PermitsHeld
<1>2. ASSUME Permits' \subseteq Permits PROVE PermitsHeld'
  <2>. HIDE DEF Permits
  <2>. QED
    BY <1>1, <1>2, FS_Subset, FS_CardinalityType, LimitAssumption DEF PermitsHeld
<1>3. ASSUME NEW b \in Blobs, Permits' \subseteq Permits \cup {b}, Cardinality(Permits) < Slots
      PROVE  PermitsHeld'
  <2>. HIDE DEF Permits
  <2>1. IsFiniteSet(Permits \cup {b}) /\ Cardinality(Permits \cup {b}) <= Cardinality(Permits) + 1
    BY OneMore DEF PermitsHeld
  <2>2. IsFiniteSet(Permits') /\ Cardinality(Permits') <= Cardinality(Permits \cup {b})
    BY <1>3, <2>1, FS_Subset
  <2>. QED
    BY <1>1, <1>3, <2>1, <2>2, FS_CardinalityType, LimitAssumption DEF PermitsHeld
<1>4. CASE job' = job
  BY <1>2, <1>4 DEF Permits
<1>5. ASSUME NEW S, job' = Signal(job, S) PROVE PermitsHeld'
  <2>1. \A b \in Blobs : job'[b].pc = job[b].pc
    BY <1>5, SignalTells DEF SignalInv
  <2>. QED
    BY <1>2, <2>1 DEF Permits
<1>6. ASSUME NEW b \in Blobs, JobStep(b) PROVE PermitsHeld'
  <2>1. /\ \A c \in Blobs : c # b => job'[c] = job[c]
        /\ job[b].pc # "none"
    BY <1>6, JobDoes
  <2>2. job[b].pc = "unregister" => job'[b].pc \in {"none", "unregister"}
    <3>1. b \in Blobs /\ job \in [Blobs -> Job]
      BY DEF SignalInv, JobsTyped
    <3>2. "unregister" \notin DOMAIN After
      BY DEF After
    <3>. QED
      BY <1>6, <3>1, <3>2 DEF JobStep, Advance, Passes, Abort, Report, Release, Unregister, NoJob
  <2>. QED
    BY <1>2, <2>1, <2>2 DEF Permits
<1>7. ASSUME NEW d \in Paths, NEW full \in BOOLEAN, Prepared(d, full) PROVE PermitsHeld'
  <2>. DEFINE b == prep[d].blob
  <2>1. b \in Blobs
    BY <1>7, PreparedDoes
  <2>2. \/ CanFetch(b) /\ job' = [job EXCEPT ![b] = [NoJob EXCEPT !.pc = "queued", !.path = d]]
        \/ UNCHANGED job
    BY <1>7, PreparedDoes
  <2>. HIDE DEF b
  <2>3. CASE CanFetch(b) /\ job' = [job EXCEPT ![b] = [NoJob EXCEPT !.pc = "queued", !.path = d]]
    <3>1. \A c \in Blobs : c # b => job'[c] = job[c]
      BY <2>3
    <3>2. Permits' \subseteq Permits \cup {b}
      BY <3>1 DEF Permits
    <3>. QED
      BY <1>3, <2>1, <2>3, <3>2 DEF CanFetch
  <2>. QED
    BY <1>4, <2>2, <2>3
<1>8. \/ job' = job \/ \E S \in SUBSET Blobs : job' = Signal(job, S)
      \/ \E b \in Blobs : JobStep(b)
      \/ \E d \in Paths, full \in BOOLEAN : Prepared(d, full)
  <2>1. ASSUME NEW p, ForgetFileOffers(p) PROVE \E S \in SUBSET Blobs : job' = Signal(job, S)
    BY <2>1, ForgetDoes
  <2>2. ASSUME NEW b \in Blobs, Withdrawn(b) \/ CancelDownload(b)
        PROVE  job' = job \/ \E S \in SUBSET Blobs : job' = Signal(job, S)
    BY <2>2 DEF Withdrawn, CancelDownload
  <2>3. CASE BlockJobs
    <3>1. OfBlocked \in SUBSET Blobs
      BY DEF OfBlocked
    <3>. QED
      BY <2>3, <3>1 DEF BlockJobs
  <2>. QED
    BY <2>1, <2>2, <2>3
    DEF Next, OfferArrives, Announce, Unoffer, Download, Prepare, ToggleMute, BlockList, Unblock, BlockStep,
        BlockBlobs, BlockOffers, Poll, native, vars
<1>. QED
  BY <1>4, <1>5, <1>6, <1>7, <1>8

(* ...and a transfer takes a place in the list where it begins.            *)
PlacesHeld == IsFiniteSet(Busy(offers)) /\ Cardinality(Busy(offers)) <= Slots

LEMMA CompleteKeeps ==
    ASSUME NEW o \in [Blobs -> Offers], NEW b \in Blobs, NEW verified \in BOOLEAN
    PROVE  Busy(Complete(o, b, verified)) \subseteq Busy(o)
<1>1. \A c \in Blobs : c # b => Complete(o, b, verified)[c] = o[c]
  BY CompleteIs
<1>2. b \notin Busy(o) => Complete(o, b, verified)[b] = o[b]
  BY CompleteIs
<1>. QED
  BY <1>1, <1>2 DEF Busy

LEMMA PlacesHeldStep ==
    ASSUME TransferTyped, PlacesHeld, [Next]_vars
    PROVE  PlacesHeld'
<1>1. Cardinality(Busy(offers)) \in Nat
  BY FS_CardinalityType DEF PlacesHeld
<1>2. ASSUME Busy(offers') \subseteq Busy(offers) PROVE PlacesHeld'
  <2>1. IsFiniteSet(Busy(offers')) /\ Cardinality(Busy(offers')) <= Cardinality(Busy(offers))
    BY <1>2, FS_Subset DEF PlacesHeld
  <2>. QED
    BY <1>1, <2>1, FS_CardinalityType, LimitAssumption DEF PlacesHeld
<1>a. offers \in [Blobs -> Offers]
  BY DEF TransferTyped, OffersTyped
<1>3. CASE QuietStep
  <2>1. \A b \in Blobs : offers'[b] = offers[b] \/ offers'[b] = Absent
    BY <1>3, QuietDoes
  <2>. QED
    BY <1>2, <2>1 DEF Busy, Absent
<1>4. ASSUME NEW b \in Blobs, NEW d \in Paths, Download(b, d) PROVE PlacesHeld'
  <2>1. offers' = BeginFetch(offers, b, d) /\ Cardinality(Busy(offers)) < Slots
    BY <1>4 DEF Download, CanBegin
  <2>2. Busy(offers') \subseteq Busy(offers) \cup {b}
    BY <1>a, <2>1 DEF Busy, BeginFetch
  <2>3. IsFiniteSet(Busy(offers) \cup {b}) /\ Cardinality(Busy(offers) \cup {b}) <= Cardinality(Busy(offers)) + 1
    BY OneMore DEF PlacesHeld
  <2>4. IsFiniteSet(Busy(offers')) /\ Cardinality(Busy(offers')) <= Cardinality(Busy(offers) \cup {b})
    BY <2>2, <2>3, FS_Subset
  <2>. QED
    BY <1>1, <2>1, <2>3, <2>4, FS_CardinalityType, LimitAssumption DEF PlacesHeld
<1>5. ASSUME NEW d \in Paths, NEW gone \in SUBSET Paths, NEW bad \in BOOLEAN, Prepare(d, gone, bad)
      PROVE  PlacesHeld'
  BY <1>2, <1>5 DEF Prepare
<1>6. ASSUME NEW d \in Paths, NEW full \in BOOLEAN, Prepared(d, full) PROVE PlacesHeld'
  <2>1. prep[d].blob \in Blobs /\ Current(d) \in [Blobs -> Offers]
    BY <1>6, PreparedDoes
  <2>2. offers' = Current(d) \/ offers' = Complete(Current(d), prep[d].blob, FALSE)
    BY <1>6, PreparedDoes
  <2>3. Busy(Current(d)) \subseteq Busy(offers)
    BY <1>a, ForgetIs DEF Current, Busy, Absent
  <2>4. Busy(Complete(Current(d), prep[d].blob, FALSE)) \subseteq Busy(Current(d))
    BY <2>1, CompleteKeeps
  <2>. QED
    BY <1>2, <2>2, <2>3, <2>4
<1>7. ASSUME NEW b \in Blobs, CancelDownload(b) PROVE PlacesHeld'
  <2>1. offers[b].state = "Fetching" /\ \A c \in Blobs : c # b => offers'[c] = offers[c]
    BY <1>7, CancelDoes
  <2>. QED
    BY <1>2, <2>1 DEF Busy
<1>8. CASE Poll
  <2>. DEFINE e == Head(events)
              b == e.blob
  <2>1. b \in Blobs
    BY <1>8, PollDoes DEF Events
  <2>2. offers' \in {offers, Add(offers, b), Withdraw(offers, b), Complete(offers, b, e.kind = "Done")}
    BY <1>8, PollDoes
  <2>. HIDE DEF e, b
  <2>3. Busy(Add(offers, b)) \subseteq Busy(offers)
    BY <1>a, <2>1, AddIs DEF Busy, Offered, Absent
  <2>4. Busy(Withdraw(offers, b)) \subseteq Busy(offers)
    BY <1>a, <2>1, WithdrawIs DEF Busy, Absent
  <2>5. \A v \in BOOLEAN : Busy(Complete(offers, b, v)) \subseteq Busy(offers)
    BY <1>a, <2>1, CompleteKeeps
  <2>6. (e.kind = "Done") \in BOOLEAN
    OBVIOUS
  <2>. QED
    BY <1>2, <2>2, <2>3, <2>4, <2>5, <2>6
<1>. QED
  BY <1>3, <1>4, <1>5, <1>6, <1>7, <1>8, NextSplits

(* The jobs hold no more permits than there are, the list no more places   *)
(* than it has (file_downloads, ConcurrentFetches), and an offer that is   *)
(* announced is still there; for any number of files, paths and senders.   *)
THEOREM TransferTypes == Spec => []TypeOK
<1>1. Init => NodeTyped /\ PermitsHeld /\ PlacesHeld
  <2>. SUFFICES ASSUME Init PROVE NodeTyped /\ PermitsHeld /\ PlacesHeld
    OBVIOUS
  <2>1. Permits = {}
    BY DEF Init, Permits, NoJob
  <2>2. Busy(offers) = {}
    BY DEF Init, Busy, Absent
  <2>. QED
    BY <2>1, <2>2, NodeTypedInit, FS_EmptySet, LimitAssumption DEF PermitsHeld, PlacesHeld
<1>2. /\ TransferInv /\ NodeTyped /\ PermitsHeld /\ PlacesHeld /\ [Next]_vars
      => NodeTyped' /\ PermitsHeld' /\ PlacesHeld'
  BY NodeTypedStep, PermitsHeldStep, PlacesHeldStep DEF TransferInv
<1>3. TransferInv /\ NodeTyped /\ PermitsHeld /\ PlacesHeld => TypeOK
  <2>. SUFFICES ASSUME TransferInv, NodeTyped, PermitsHeld, PlacesHeld PROVE TypeOK
    OBVIOUS
  <2>1. Stages = {"none", "failed", "done", "release", "unregister"} \cup DOMAIN After
    BY SMT DEF Stages, After
  <2>2. job \in [Blobs -> Job] /\ queued \subseteq Blobs /\ disk \in [Paths -> Contents]
    BY DEF TransferInv, SignalInv, JobsTyped, TransferTyped
  <2>. QED
    BY <2>1, <2>2 DEF TypeOK, NodeTyped, PermitsHeld, PlacesHeld, Job, Contents
<1>. QED
  BY <1>1, <1>2, <1>3, InitTransferInv, NextTransferInv, PTL DEF Spec

-----------------------------------------------------------------------------
(* Files                                                                   *)

(* What a job at work has made of its destination.                         *)
FileAt(stage) ==
    IF stage \in {"opened", "write"} THEN "partial"
    ELSE IF stage \in {"written", "last", "done"} THEN "whole"
    ELSE "absent"

(* The file is what the job, or the result on its way, says; a clean-up    *)
(* has deleted files until its callback.                                   *)
Files ==
    /\ \A b \in Blobs : job[b].pc \in Working => disk[job[b].path] = FileAt(job[b].pc)
    /\ \A b \in Listed(offers), i \in DOMAIN events :
          events[i].blob = b /\ events[i].kind \in Terminal =>
             disk[offers[b].path] = IF events[i].kind = "Done" THEN "whole" ELSE "absent"
    /\ \A d \in Paths : prep[d].pc # "ready" => prep[d].gone = {}

FilesInv == Files /\ FilesKnown

(* A result is awaited, or none is on its way.                             *)
LEMMA Outstanding ==
    ASSUME TransferInv, NEW b \in Blobs
    PROVE  /\ job[b].pc \in Working => b \in queued
           /\ b \notin queued \/ job[b].pc \in Working =>
                 \A i \in DOMAIN events : ~(events[i].blob = b /\ events[i].kind \in Terminal)
<1>1. /\ IsFiniteSet(Hits(events, b, Terminal)) /\ Cardinality(Hits(events, b, Terminal)) \in Nat
      /\ Cardinality(Lost(b)) \in Nat
  BY HitsFinite, LostFinite DEF TransferInv, TransferTyped, EventsTyped
<1>2. Outcomes(b) = IF b \in queued THEN 1 ELSE 0
  BY DEF TransferInv, Awaited
<1>3. job[b].pc \in Working => b \in queued
  BY <1>1, <1>2 DEF Outcomes
<1>4. ASSUME b \notin queued \/ job[b].pc \in Working
      PROVE  \A i \in DOMAIN events : ~(events[i].blob = b /\ events[i].kind \in Terminal)
  <2>1. Cardinality(Hits(events, b, Terminal)) = 0
    BY <1>1, <1>2, <1>4 DEF Outcomes
  <2>2. Hits(events, b, Terminal) = {}
    BY <1>1, <2>1, FS_EmptySet
  <2>. QED
    BY <2>2 DEF Hits
<1>. QED
  BY <1>3, <1>4

LEMMA StagesFile ==
    /\ \A s \in DOMAIN After : FileAt(After[s]) = IF s = "open" THEN "partial" ELSE IF s = "write" THEN "whole" ELSE FileAt(s)
    /\ \A s \in DOMAIN After : FileAt(s) = "partial" => After[s] \in FileOpen
    /\ \A s \in DOMAIN After : s \notin FileOpen => FileAt(s) = "absent"
    /\ \A s \in DOMAIN After : s \in FileOpen => After[s] \in FileOpen \cup {"done"}
    /\ FileAt("failed") = "absent" /\ FileAt("done") = "whole" /\ FileAt("queued") = "absent"
    /\ FileOpen \subseteq Working
BY SMT DEF FileAt, After, FileOpen, Working

(* A job writes to its own destination only.                               *)
LEMMA WritesItsOwn ==
    ASSUME TransferInv, NEW b \in Blobs, job[b].pc \in Working
    PROVE  /\ job[b].path \in Paths
           /\ \A c \in Blobs : c # b => job[c].path # job[b].path /\ offers[c].path # job[b].path
           /\ b \in Listed(offers) => b \in Busy(offers)
<1>1. job[b] \in Job /\ job[b].pc # "none"
  BY WorkingStages DEF TransferInv, SignalInv, JobsTyped
<1>2. job[b].path \in Paths
  BY <1>1 DEF TransferInv, Places, Job
<1>3. \A c \in Blobs : c # b => ~Uses(c, job[b].path)
  BY <1>2 DEF TransferInv, Places, Uses
<1>. QED
  BY <1>2, <1>3, Outstanding DEF Uses, TransferInv, HasSlot

LEMMA AdvanceFiles ==
    ASSUME TransferInv, FilesInv, NEW b \in Blobs, Advance(b) \/ Abort(b)
    PROVE  FilesInv'
<1>. DEFINE p == job[b].path
            s == job[b].pc
<1>1. s \in DOMAIN After /\ s \in Working
  BY DEF Advance, Abort, Passes, Working
<1>2. /\ p \in Paths
      /\ \A c \in Blobs : c # b => job[c].path # p /\ offers[c].path # p
      /\ b \in Listed(offers) => b \in Busy(offers)
      /\ \A i \in DOMAIN events : ~(events[i].blob = b /\ events[i].kind \in Terminal)
  BY <1>1, WritesItsOwn, Outstanding
<1>3. UNCHANGED <<events, offers, prep>>
  BY DEF Advance, Abort, plugin
<1>4. \E next \in Stages, file \in Contents :
         /\ job' = [job EXCEPT ![b].pc = next] /\ disk' = [disk EXCEPT ![p] = file]
         /\ file = FileAt(next) /\ (file = "partial" => next \in FileOpen)
  <2>0. disk[p] = FileAt(s) /\ disk \in [Paths -> Contents]
    BY <1>1 DEF FilesInv, Files, TransferInv, TransferTyped
  <2>1. CASE Advance(b)
    <3>1. /\ job' = [job EXCEPT ![b].pc = After[s]]
          /\ disk' = [disk EXCEPT ![p] = CASE s = "open" -> "partial" [] s = "write" -> "whole" [] OTHER -> disk[p]]
      BY <2>1 DEF Advance
    <3>2. (CASE s = "open" -> "partial" [] s = "write" -> "whole" [] OTHER -> disk[p]) = FileAt(After[s])
      BY <1>1, <2>0, StagesFile
    <3>3. FileAt(After[s]) = "partial" => After[s] \in FileOpen
      BY SMT DEF FileAt, FileOpen
    <3>4. After[s] \in Stages
      BY <1>1, StagesKnown
    <3>. QED
      BY <3>1, <3>2, <3>3, <3>4 DEF FileAt, Contents
  <2>2. CASE Abort(b)
    <3>1. job' = [job EXCEPT ![b].pc = "failed"] /\ disk' = IF s \in FileOpen THEN [disk EXCEPT ![p] = "absent"] ELSE disk
      BY <2>2 DEF Abort
    <3>2. disk' = [disk EXCEPT ![p] = "absent"]
      BY <1>1, <2>0, <3>1, StagesFile
    <3>. QED
      BY <3>1, <3>2, StagesFile DEF Stages, Contents
  <2>. QED
    BY <2>1, <2>2
<1>. HIDE DEF p, s
<1>5. PICK next \in Stages, file \in Contents :
         /\ job' = [job EXCEPT ![b].pc = next] /\ disk' = [disk EXCEPT ![p] = file]
         /\ file = FileAt(next) /\ (file = "partial" => next \in FileOpen)
  BY <1>4
<1>6. /\ job'[b].pc = next /\ job'[b].path = p
      /\ \A c \in Blobs : c # b => job'[c] = job[c]
      /\ disk'[p] = FileAt(next) /\ \A d \in Paths : d # p => disk'[d] = disk[d]
  BY <1>2, <1>5 DEF TransferInv, SignalInv, JobsTyped, Job, TransferTyped, p
<1>7. \A c \in Blobs : c # b /\ job[c].pc \in Working => job[c].path \in Paths
  BY WritesItsOwn
<1>8. \A c \in Listed(offers) : offers[c].path = p => c = b
  BY <1>2 DEF Listed
<1>9. \A c \in Blobs : offers[c].path = NoPath \/ offers[c].path \in Paths
  BY DEF TransferInv, TransferTyped, OffersTyped, Offers
<1>10. \A c \in Listed(offers) : offers[c].state \in {"Failed", "Canceled", "Saved"} => offers[c].path \in Paths /\ offers[c].path # p
  BY <1>2, <1>8, <1>9 DEF TransferInv, Places, Listed, Busy
<1>11. Files'
  <2>1. \A c \in Blobs : job'[c].pc \in Working => disk'[job'[c].path] = FileAt(job'[c].pc)
    BY <1>2, <1>6, <1>7 DEF FilesInv, Files
  <2>2. \A c \in Listed(offers'), i \in DOMAIN events' :
          events'[i].blob = c /\ events'[i].kind \in Terminal =>
             disk'[offers'[c].path] = IF events'[i].kind = "Done" THEN "whole" ELSE "absent"
    <3>. SUFFICES ASSUME NEW c \in Listed(offers), NEW i \in DOMAIN events, events[i].blob = c, events[i].kind \in Terminal
                  PROVE  disk'[offers[c].path] = IF events[i].kind = "Done" THEN "whole" ELSE "absent"
      BY <1>3
    <3>1. c # b /\ c \in Blobs
      BY <1>2 DEF Listed
    <3>2. c \in queued
      BY <3>1, Outstanding
    <3>3. offers[c].path \in Paths /\ offers[c].path # p
      BY <1>8, <1>9, <3>1, <3>2 DEF TransferInv, HasSlot, Places, Busy
    <3>. QED
      BY <1>6, <3>3 DEF FilesInv, Files
  <2>3. \A d \in Paths : prep'[d].pc # "ready" => prep'[d].gone = {}
    BY <1>3 DEF FilesInv, Files
  <2>. QED
    BY <2>1, <2>2, <2>3 DEF Files
<1>12. FilesKnown'
  <2>1. ASSUME NEW d \in Paths, disk'[d] = "partial"
        PROVE  \E c \in Blobs : job'[c].path = d /\ job'[c].pc \in FileOpen
    <3>1. CASE d = p
      BY <1>5, <1>6, <2>1, <3>1
    <3>2. CASE d # p
      <4>1. PICK c \in Blobs : job[c].path = d /\ job[c].pc \in FileOpen
        BY <1>6, <2>1, <3>2 DEF FilesInv, FilesKnown
      <4>. QED
        BY <1>6, <3>2, <4>1 DEF p
    <3>. QED
      BY <3>1, <3>2
  <2>2. \A c \in Listed(offers') :
          /\ offers'[c].state \in {"Failed", "Canceled"} => disk'[offers'[c].path] = "absent"
          /\ offers'[c].state = "Saved" => \/ disk'[offers'[c].path] = "whole"
                                           \/ \E d \in Paths : offers'[c].path \in prep'[d].gone
    BY <1>3, <1>6, <1>10 DEF FilesInv, FilesKnown
  <2>. QED
    BY <2>1, <2>2 DEF FilesKnown
<1>. QED
  BY <1>11, <1>12 DEF FilesInv

(* The other quiet steps write nothing.                                    *)
LEMMA QuietFiles ==
    ASSUME TransferInv, FilesInv, QuietStep
    PROVE  FilesInv'
<1>. USE DEF TransferInv
<1>1. CASE \E b \in Blobs : Advance(b) \/ Abort(b)
  BY <1>1, AdvanceFiles
<1>2. CASE ~(\E b \in Blobs : Advance(b) \/ Abort(b))
  <2>0. job \in [Blobs -> Job] /\ events \in Seq(Events)
    BY DEF SignalInv, JobsTyped, TransferTyped, EventsTyped
  <2>1. prep' = prep /\ \A c \in Blobs : offers'[c] = offers[c] \/ offers'[c] = Absent
    BY QuietDoes
  <2>2. disk' = disk
    <3>1. CASE ~(\E b \in Blobs : JobStep(b))
      BY <3>1, QuietTells
    <3>2. CASE \E b \in Blobs : JobStep(b)
      BY <1>2, <3>2 DEF JobStep, Report, Release, Unregister
    <3>. QED
      BY <3>1, <3>2
  <2>3. \A c \in Blobs : \/ job'[c].pc = job[c].pc /\ job'[c].path = job[c].path
                         \/ job'[c].pc \notin Working /\ job[c].pc \notin FileOpen
    <3>1. CASE ~(\E b \in Blobs : JobStep(b))
      BY <3>1, QuietTells, SignalTells DEF SignalInv
    <3>2. CASE \E b \in Blobs : JobStep(b)
      <4>1. PICK b \in Blobs : Report(b) \/ Release(b) \/ Unregister(b)
        BY <1>2, <3>2 DEF JobStep
      <4>2. job[b].pc \in {"done", "failed", "release", "unregister"}
        BY <4>1 DEF Report, Release, Unregister
      <4>3. job'[b].pc \in {"release", "unregister", "none"} /\ \A c \in Blobs : c # b => job'[c] = job[c]
        BY <2>0, <4>1 DEF Report, Release, Unregister, NoJob, Job
      <4>. QED
        BY <4>2, <4>3, WorkingStages DEF FileOpen
    <3>. QED
      BY <3>1, <3>2
  <2>4. \A i \in DOMAIN events' :
           \/ i \in DOMAIN events /\ events'[i] = events[i]
           \/ events'[i].kind \notin Terminal
           \/ \E c \in Blobs : /\ events'[i].blob = c /\ job[c].pc \in {"done", "failed"}
                               /\ events'[i].kind = IF job[c].pc = "done" THEN "Done" ELSE "Failed"
    <3>1. ASSUME NEW e \in Events, Emit(e)
          PROVE  \A i \in DOMAIN events' : events'[i] = e \/ (i \in DOMAIN events /\ events'[i] = events[i])
      BY <2>0, <3>1, AppendedIs DEF Emit
    <3>2. CASE \E c \in Blobs : Announce(c) \/ Withdrawn(c)
      <4>1. PICK c \in Blobs, kind \in {"Offer", "Withdrawn"} : Emit(Event(kind, c))
        BY <3>2 DEF Announce, Withdrawn
      <4>2. Event(kind, c) \in Events /\ Event(kind, c).kind \notin Terminal
        BY DEF Event, Events, Kinds, Terminal
      <4>. QED
        BY <3>1, <4>1, <4>2
    <3>3. CASE \E c \in Blobs : Report(c)
      <4>1. PICK c \in Blobs : Report(c)
        BY <3>3
      <4>. DEFINE e == Event(IF job[c].pc = "done" THEN "Done" ELSE "Failed", c)
      <4>2. Emit(e) /\ job[c].pc \in {"done", "failed"}
        BY <4>1 DEF Report
      <4>3. e \in Events /\ e.blob = c /\ e.kind = IF job[c].pc = "done" THEN "Done" ELSE "Failed"
        BY DEF Event, Events, Kinds
      <4>. HIDE DEF e
      <4>. QED
        BY <3>1, <4>2, <4>3
    <3>4. CASE ~(\E c \in Blobs : Announce(c) \/ Withdrawn(c) \/ Report(c))
      BY <1>2, <3>4
      DEF QuietStep, OfferArrives, Unoffer, JobStep, Release, Unregister,
          ToggleMute, BlockList, Unblock, BlockStep, BlockBlobs, BlockJobs, BlockOffers, vars
    <3>. QED
      BY <3>2, <3>3, <3>4
  <2>5. Absent.state = "Absent"
    BY DEF Absent
  <2>6. \A c \in Listed(offers') : c \in Listed(offers) /\ offers'[c] = offers[c]
    BY <2>1, <2>5 DEF Listed
  <2>7. Files'
    <3>1. \A c \in Blobs : job'[c].pc \in Working => disk'[job'[c].path] = FileAt(job'[c].pc)
      BY <2>2, <2>3 DEF FilesInv, Files
    <3>2. \A c \in Listed(offers'), i \in DOMAIN events' :
            events'[i].blob = c /\ events'[i].kind \in Terminal =>
               disk'[offers'[c].path] = IF events'[i].kind = "Done" THEN "whole" ELSE "absent"
      <4>. SUFFICES ASSUME NEW c \in Listed(offers'), NEW i \in DOMAIN events',
                           events'[i].blob = c, events'[i].kind \in Terminal
                    PROVE  disk[offers[c].path] = IF events'[i].kind = "Done" THEN "whole" ELSE "absent"
        BY <2>2, <2>6
      <4>0. c \in Listed(offers) /\ c \in Blobs
        BY <2>6 DEF Listed
      <4>1. CASE i \in DOMAIN events /\ events'[i] = events[i]
        BY <4>0, <4>1 DEF FilesInv, Files
      <4>2. CASE job[c].pc \in {"done", "failed"} /\ events'[i].kind = IF job[c].pc = "done" THEN "Done" ELSE "Failed"
        <5>1. job[c].pc \in Working
          BY <4>2 DEF Working
        <5>2. offers[c].path = job[c].path
          BY <4>0, <5>1, Outstanding DEF Places
        <5>. QED
          BY <4>0, <4>2, <5>1, <5>2, StagesFile DEF FilesInv, Files
      <4>. QED
        BY <2>4, <4>1, <4>2
    <3>3. \A d \in Paths : prep'[d].pc # "ready" => prep'[d].gone = {}
      BY <2>1 DEF FilesInv, Files
    <3>. QED
      BY <3>1, <3>2, <3>3 DEF Files
  <2>8. FilesKnown'
    <3>1. ASSUME NEW d \in Paths, disk'[d] = "partial"
          PROVE  \E c \in Blobs : job'[c].path = d /\ job'[c].pc \in FileOpen
      BY <2>2, <2>3, <3>1 DEF FilesInv, FilesKnown
    <3>2. \A c \in Listed(offers') :
            /\ offers'[c].state \in {"Failed", "Canceled"} => disk'[offers'[c].path] = "absent"
            /\ offers'[c].state = "Saved" => \/ disk'[offers'[c].path] = "whole"
                                             \/ \E d \in Paths : offers'[c].path \in prep'[d].gone
      BY <2>1, <2>2, <2>6 DEF FilesInv, FilesKnown
    <3>. QED
      BY <3>1, <3>2 DEF FilesKnown
  <2>. QED
    BY <2>7, <2>8 DEF FilesInv
<1>. QED
  BY <1>1, <1>2

(* A new destination has no file and no result about it.                   *)
LEMMA DownloadFiles ==
    ASSUME TransferInv, FilesInv, NEW b \in Blobs, NEW d \in Paths, Download(b, d)
    PROVE  FilesInv'
<1>. USE DEF TransferInv
<1>1. /\ offers[b].state \in {"Offered", "Failed", "Canceled"}
      /\ offers' = BeginFetch(offers, b, d)
      /\ \E stay : prep' = [prep EXCEPT ![d] = [NoPrep EXCEPT !.pc = "prepare", !.blob = b, !.kept = stay]]
      /\ UNCHANGED <<job, disk, events>>
  BY DEF Download, CanBegin
<1>2. /\ \A c \in Blobs : c # b => offers'[c] = offers[c]
      /\ offers'[b].state = "Fetching"
  BY <1>1, BeginFetchIs DEF TransferTyped, OffersTyped
<1>3. /\ prep'[d].gone = {} /\ \A e \in Paths : e # d => prep'[e] = prep[e]
  BY <1>1 DEF NoPrep, TransferTyped, PrepTyped
<1>4. prep[d].pc = "none"
  BY NextPlace DEF Download
<1>5. b \notin queued
  BY <1>1 DEF HasSlot, Listed, Busy
<1>6. \A i \in DOMAIN events : ~(events[i].blob = b /\ events[i].kind \in Terminal)
  BY <1>5, Outstanding
<1>7. Files'
  BY <1>1, <1>2, <1>3, <1>6 DEF FilesInv, Files, Listed
<1>8. FilesKnown'
  <2>1. \A c \in Listed(offers') :
          /\ offers'[c].state \in {"Failed", "Canceled"} => disk'[offers'[c].path] = "absent"
          /\ offers'[c].state = "Saved" => \/ disk'[offers'[c].path] = "whole"
                                           \/ \E e \in Paths : offers'[c].path \in prep'[e].gone
    <3>. SUFFICES ASSUME NEW c \in Listed(offers'), offers'[c].state \in {"Failed", "Canceled", "Saved"}
                  PROVE  /\ offers'[c].state \in {"Failed", "Canceled"} => disk'[offers'[c].path] = "absent"
                         /\ offers'[c].state = "Saved" => \/ disk'[offers'[c].path] = "whole"
                                                          \/ \E e \in Paths : offers'[c].path \in prep'[e].gone
      OBVIOUS
    <3>1. offers'[c] = offers[c] /\ c \in Listed(offers)
      BY <1>2 DEF Listed
    <3>2. \A e \in Paths : offers[c].path \in prep[e].gone => e # d
      BY <1>4 DEF FilesInv, Files
    <3>. QED
      BY <1>1, <1>3, <3>1, <3>2 DEF FilesInv, FilesKnown
  <2>. QED
    BY <1>1, <2>1 DEF FilesInv, FilesKnown
<1>. QED
  BY <1>7, <1>8 DEF FilesInv

(* The clean-up deletes files nobody writes, or has yet to hear of.        *)
LEMMA PrepareFiles ==
    ASSUME TransferInv, FilesInv, NEW d \in Paths, NEW gone \in SUBSET Paths, NEW bad \in BOOLEAN, Prepare(d, gone, bad)
    PROVE  FilesInv'
<1>. USE DEF TransferInv
<1>1. /\ prep[d].pc = "prepare" /\ UNCHANGED <<job, events, offers>>
      /\ \A e \in gone : Settled(e)
      /\ \A e \in Paths : disk'[e] = IF e \in gone THEN "absent" ELSE disk[e]
  BY DEF Prepare
<1>2. /\ prep'[d].pc = "ready" /\ prep'[d].gone = gone
      /\ \A e \in Paths : e # d => prep'[e] = prep[e]
  <2>1. prep[d] \in Preparations
    BY DEF TransferTyped, PrepTyped
  <2>2. prep' = [prep EXCEPT ![d] = [prep[d] EXCEPT !.pc = "ready", !.gone = gone, !.bad = bad]]
    BY <2>1 DEF Prepare, TransferTyped, PrepTyped, Preparations
  <2>. QED
    BY <2>1, <2>2 DEF TransferTyped, PrepTyped, Preparations
<1>3. prep[d].gone = {}
  BY <1>1 DEF FilesInv, Files
<1>4. \A e \in gone : /\ disk[e] = "whole" /\ \A c \in Blobs : job[c].path # e
                      /\ \A i \in DOMAIN events : events[i].kind = "Done" => offers[events[i].blob].path # e
  <2>. TAKE e \in gone
  <2>1. \A c \in Blobs : job[c].pc = "none" => job[c].path # e
    BY DEF Places, NoPath, Paths
  <2>. QED
    BY <1>1, <2>1 DEF Settled
<1>5. \A c \in Blobs : offers[c].path = NoPath \/ offers[c].path \in Paths
  BY DEF TransferTyped, OffersTyped, Offers
<1>6. Files'
  <2>1. \A c \in Blobs : job'[c].pc \in Working => disk'[job'[c].path] = FileAt(job'[c].pc)
    BY <1>1, <1>4, WritesItsOwn DEF FilesInv, Files
  <2>2. ASSUME NEW c \in Listed(offers), NEW i \in DOMAIN events, events[i].blob = c, events[i].kind \in Terminal
        PROVE  disk'[offers[c].path] = IF events[i].kind = "Done" THEN "whole" ELSE "absent"
    <3>1. c \in queued
      BY <2>2, Outstanding DEF Listed
    <3>2. offers[c].path \in Paths
      BY <1>5, <3>1 DEF HasSlot, Places, Busy, Listed
    <3>3. disk[offers[c].path] = IF events[i].kind = "Done" THEN "whole" ELSE "absent"
      BY <2>2 DEF FilesInv, Files
    <3>. QED
      BY <1>1, <1>4, <2>2, <3>2, <3>3
  <2>3. \A e \in Paths : prep'[e].pc # "ready" => prep'[e].gone = {}
    BY <1>2 DEF FilesInv, Files
  <2>. QED
    BY <1>1, <2>1, <2>2, <2>3 DEF Files
<1>7. FilesKnown'
  <2>1. \A e \in Paths : disk'[e] = "partial" => disk[e] = "partial"
    BY <1>1
  <2>2. \A c \in Listed(offers) :
          /\ offers[c].state \in {"Failed", "Canceled"} => disk'[offers[c].path] = "absent"
          /\ offers[c].state = "Saved" => \/ disk'[offers[c].path] = "whole"
                                          \/ \E e \in Paths : offers[c].path \in prep'[e].gone
    <3>. SUFFICES ASSUME NEW c \in Listed(offers), offers[c].state \in {"Failed", "Canceled", "Saved"}
                  PROVE  /\ offers[c].state \in {"Failed", "Canceled"} => disk'[offers[c].path] = "absent"
                         /\ offers[c].state = "Saved" => \/ disk'[offers[c].path] = "whole"
                                                         \/ \E e \in Paths : offers[c].path \in prep'[e].gone
      OBVIOUS
    <3>1. offers[c].path \in Paths
      BY <1>5 DEF Places, Listed
    <3>2. disk'[offers[c].path] = IF offers[c].path \in gone THEN "absent" ELSE disk[offers[c].path]
      BY <1>1, <3>1
    <3>3. \A e \in Paths : offers[c].path \in prep[e].gone => e # d
      BY <1>3
    <3>. QED
      BY <1>2, <3>1, <3>2, <3>3 DEF FilesInv, FilesKnown
  <2>. QED
    BY <1>1, <2>1, <2>2 DEF FilesInv, FilesKnown
<1>. QED
  BY <1>6, <1>7 DEF FilesInv

(* The callback takes the deleted files out of the list.                   *)
LEMMA PreparedFiles ==
    ASSUME TransferInv, FilesInv, NEW d \in Paths, NEW full \in BOOLEAN, Prepared(d, full)
    PROVE  FilesInv'
<1>. USE DEF TransferInv
<1>. DEFINE b == prep[d].blob
<1>0. Absent.state = "Absent"
  BY DEF Absent
<1>1. UNCHANGED <<disk, events>>
  BY DEF Prepared
<1>2. /\ b \in Blobs /\ prep'[d].gone = {} /\ \A e \in Paths : e # d => prep'[e] = prep[e]
  <2>1. prep' = [prep EXCEPT ![d] = [NoPrep EXCEPT !.pc = "over"]]
    BY PreparedDoes
  <2>. QED
    BY <2>1, PreparedFinds DEF NoPrep, TransferTyped, PrepTyped
<1>3. /\ \A c \in Blobs : c # b => (offers'[c] = offers[c] \/ offers'[c] = Absent) /\ job'[c] = job[c]
      /\ \/ /\ Prepares(b) /\ offers'[b] = offers[b] /\ offers[b].path = d /\ offers[b].state = "Fetching"
            /\ job'[b].pc = "queued" /\ job'[b].path = d
         \/ /\ UNCHANGED job
            /\ \/ offers'[b] = Absent
               \/ offers'[b] = offers[b]
               \/ /\ offers'[b].state \in {"Failed", "Canceled"} /\ offers'[b].path = d /\ offers[b].path = d
                  /\ Prepares(b) /\ b \in Listed(offers)
  BY PreparedFinds
<1>4. \A c \in Blobs : offers'[c].state = "Saved" => offers'[c] = offers[c] /\ offers[c].path \notin prep[d].gone
  <2>1. offers' = Current(d) \/ offers' = Complete(Current(d), b, FALSE)
    BY PreparedDoes
  <2>2. Current(d) \in [Blobs -> Offers]
    BY PreparedDoes
  <2>3. \A c \in Blobs : offers'[c].state = "Saved" => offers'[c] = Current(d)[c]
    <3>1. CASE offers' = Current(d)
      BY <3>1
    <3>2. CASE offers' = Complete(Current(d), b, FALSE)
      <4>1. ASSUME NEW c \in Blobs, c # b PROVE offers'[c] = Current(d)[c]
        BY <1>2, <2>2, <3>2, <4>1, ForgetIs DEF Complete
      <4>2. offers'[b].state = "Saved" => offers'[b] = Current(d)[b]
        <5>1. CASE b \notin Busy(Current(d))
          BY <3>2, <5>1 DEF Complete
        <5>2. CASE b \in Busy(Current(d))
          <6>1. \/ Complete(Current(d), b, FALSE)[b] = Absent
                \/ Complete(Current(d), b, FALSE)[b].state \in {"Failed", "Canceled"}
            BY <1>2, <2>2, <5>2, CompleteIs
          <6>. QED
            BY <1>0, <3>2, <6>1
        <5>. QED
          BY <5>1, <5>2
      <4>. QED
        BY <4>1, <4>2
    <3>. QED
      BY <2>1, <3>1, <3>2
  <2>4. \A c \in Blobs : Current(d)[c].state = "Saved" => Current(d)[c] = offers[c] /\ offers[c].path \notin prep[d].gone
    <3>. DEFINE G == {c \in Blobs : offers[c].state = "Saved" /\ offers[c].path \in prep[d].gone}
    <3>1. \A c \in Blobs : Current(d)[c] = IF c \in G THEN Absent ELSE offers[c]
      BY ForgetIs DEF Current, TransferTyped, OffersTyped
    <3>. QED
      BY <1>0, <3>1
  <2>. QED
    BY <2>3, <2>4
<1>5. Prepares(b) /\ offers[b].path = d => disk[d] = "absent"
  BY <1>2, PreparesIs
<1>. HIDE DEF b
<1>6. \A c \in Listed(offers') : c \in Listed(offers) /\ offers'[c].path = offers[c].path
  BY <1>0, <1>2, <1>3 DEF Listed
<1>7. Files'
  <2>1. \A c \in Blobs : job'[c].pc \in Working => disk'[job'[c].path] = FileAt(job'[c].pc)
    BY <1>1, <1>2, <1>3, <1>5, StagesFile DEF FilesInv, Files
  <2>2. \A c \in Listed(offers'), i \in DOMAIN events' :
          events'[i].blob = c /\ events'[i].kind \in Terminal =>
             disk'[offers'[c].path] = IF events'[i].kind = "Done" THEN "whole" ELSE "absent"
    BY <1>1, <1>6 DEF FilesInv, Files
  <2>3. \A e \in Paths : prep'[e].pc # "ready" => prep'[e].gone = {}
    BY <1>2 DEF FilesInv, Files
  <2>. QED
    BY <2>1, <2>2, <2>3 DEF Files
<1>8. FilesKnown'
  <2>1. ASSUME NEW e \in Paths, disk'[e] = "partial"
        PROVE  \E c \in Blobs : job'[c].path = e /\ job'[c].pc \in FileOpen
    <3>1. PICK c \in Blobs : job[c].path = e /\ job[c].pc \in FileOpen
      BY <1>1, <2>1 DEF FilesInv, FilesKnown
    <3>2. job'[c] = job[c]
      <4>1. CASE c # b \/ UNCHANGED job
        BY <1>3, <4>1
      <4>2. CASE c = b /\ ~UNCHANGED job
        <5>1. CanFetch(c)
          BY <4>2, PreparedFinds DEF b
        <5>2. job[c].pc = "none"
          BY <5>1 DEF CanFetch
        <5>. QED
          BY <3>1, <5>2 DEF FileOpen
      <4>. QED
        BY <4>1, <4>2
    <3>. QED
      BY <3>1, <3>2
  <2>2. ASSUME NEW c \in Listed(offers')
        PROVE  /\ offers'[c].state \in {"Failed", "Canceled"} => disk'[offers'[c].path] = "absent"
               /\ offers'[c].state = "Saved" => \/ disk'[offers'[c].path] = "whole"
                                                \/ \E e \in Paths : offers'[c].path \in prep'[e].gone
    <3>0. c \in Listed(offers) /\ c \in Blobs
      BY <1>6 DEF Listed
    <3>1. CASE offers'[c].state \in {"Failed", "Canceled"}
      <4>1. CASE offers'[c] = offers[c]
        BY <1>1, <3>0, <3>1, <4>1 DEF FilesInv, FilesKnown
      <4>2. CASE offers'[c] # offers[c]
        BY <1>0, <1>1, <1>3, <1>5, <3>0, <3>1, <4>2
      <4>. QED
        BY <3>1, <4>1, <4>2
    <3>2. CASE offers'[c].state = "Saved"
      <4>1. offers'[c] = offers[c] /\ offers[c].path \notin prep[d].gone
        BY <1>4, <3>0, <3>2
      <4>2. disk[offers[c].path] = "whole" \/ \E e \in Paths : offers[c].path \in prep[e].gone
        BY <3>0, <3>2, <4>1 DEF FilesInv, FilesKnown
      <4>. QED
        BY <1>1, <1>2, <3>2, <4>1, <4>2
    <3>. QED
      BY <3>1, <3>2
  <2>. QED
    BY <2>1, <2>2 DEF FilesKnown
<1>. QED
  BY <1>7, <1>8 DEF FilesInv

(* A preparation that is canceled has made no file.                        *)
LEMMA CancelFiles ==
    ASSUME TransferInv, FilesInv, NEW b \in Blobs, CancelDownload(b)
    PROVE  FilesInv'
<1>. USE DEF TransferInv
<1>0. Absent.state = "Absent"
  BY DEF Absent
<1>1. /\ UNCHANGED <<disk, events, prep>>
      /\ offers[b].state = "Fetching"
      /\ \A c \in Blobs : c # b => offers'[c] = offers[c]
      /\ job' = job \/ job' = Signal(job, {b})
  BY CancelDoes
<1>2. \/ offers'[b] = Absent
      \/ /\ b \notin queued /\ offers'[b].state \in {"Failed", "Canceled"} /\ offers'[b].path = offers[b].path
      \/ offers'[b].state = "Canceling" /\ offers'[b].path = offers[b].path
  BY CancelDoes
<1>3. b \notin queued => disk[offers[b].path] = "absent"
  BY <1>1, PreparesIs DEF HasSlot, Listed, Busy
<1>4. \A c \in Blobs : job'[c].pc = job[c].pc /\ job'[c].path = job[c].path
  BY <1>1, SignalTells DEF SignalInv
<1>5. \A c \in Listed(offers') : c \in Listed(offers) /\ offers'[c].path = offers[c].path
  BY <1>0, <1>1, <1>2 DEF Listed
<1>6. Files'
  <2>1. \A c \in Blobs : job'[c].pc \in Working => disk'[job'[c].path] = FileAt(job'[c].pc)
    BY <1>1, <1>4 DEF FilesInv, Files
  <2>2. \A c \in Listed(offers'), i \in DOMAIN events' :
          events'[i].blob = c /\ events'[i].kind \in Terminal =>
             disk'[offers'[c].path] = IF events'[i].kind = "Done" THEN "whole" ELSE "absent"
    BY <1>1, <1>5 DEF FilesInv, Files
  <2>3. \A e \in Paths : prep'[e].pc # "ready" => prep'[e].gone = {}
    BY <1>1 DEF FilesInv, Files
  <2>. QED
    BY <2>1, <2>2, <2>3 DEF Files
<1>7. FilesKnown'
  <2>1. ASSUME NEW e \in Paths, disk'[e] = "partial"
        PROVE  \E c \in Blobs : job'[c].path = e /\ job'[c].pc \in FileOpen
    BY <1>1, <1>4, <2>1 DEF FilesInv, FilesKnown
  <2>2. \A c \in Listed(offers') :
          /\ offers'[c].state \in {"Failed", "Canceled"} => disk'[offers'[c].path] = "absent"
          /\ offers'[c].state = "Saved" => \/ disk'[offers'[c].path] = "whole"
                                           \/ \E e \in Paths : offers'[c].path \in prep'[e].gone
    BY <1>0, <1>1, <1>2, <1>3, <1>5 DEF FilesInv, FilesKnown, Listed
  <2>. QED
    BY <2>1, <2>2 DEF FilesKnown
<1>. QED
  BY <1>6, <1>7 DEF FilesInv

(* A result taken says what the file is.                                   *)
LEMMA PollFiles ==
    ASSUME TransferInv, FilesInv, Poll
    PROVE  FilesInv'
<1>. USE DEF TransferInv
<1>. DEFINE e == Head(events)
            b == e.blob
<1>0. Absent.state = "Absent" /\ Offered.state = "Offered"
  BY DEF Absent, Offered
<1>1. /\ events # << >> /\ events' = Tail(events) /\ events \in Seq(Events)
      /\ UNCHANGED <<prep, job, disk>>
  BY PollDoes DEF TransferTyped, EventsTyped
<1>2. 1 \in DOMAIN events /\ e = events[1] /\ \A i \in DOMAIN events' : i + 1 \in DOMAIN events /\ events'[i] = events[i + 1]
  BY <1>1, TailIs
<1>3. b \in Blobs /\ \A c \in Blobs : c # b => offers'[c] = offers[c]
  BY PollFinds
<1>4. \/ offers'[b] = offers[b]
      \/ offers'[b] = Absent
      \/ offers'[b] = Offered /\ b \notin queued
      \/ /\ offers[b].state \in {"Fetching", "Canceling", "Saved"} /\ offers'[b].path = offers[b].path
         /\ offers'[b].state = IF offers[b].state = "Fetching" THEN "Canceling" ELSE offers[b].state
      \/ /\ b \in Busy(offers) /\ offers'[b].path = offers[b].path /\ e.kind \in Terminal
         /\ offers'[b].state \in IF e.kind = "Done" THEN {"Saved"} ELSE {"Failed", "Canceled"}
  BY PollFinds
<1>5. b \in Listed(offers) /\ e.kind \in Terminal => disk[offers[b].path] = IF e.kind = "Done" THEN "whole" ELSE "absent"
  BY <1>2 DEF FilesInv, Files
<1>6. b \notin queued => \A i \in DOMAIN events : ~(events[i].blob = b /\ events[i].kind \in Terminal)
  BY <1>3, Outstanding
<1>. HIDE DEF b, e
<1>7. \A c \in Listed(offers') : \/ c \in Listed(offers) /\ offers'[c].path = offers[c].path
                                 \/ c = b /\ offers'[c] = Offered /\ b \notin queued
  BY <1>0, <1>3, <1>4 DEF Listed, Busy
<1>8. Files'
  <2>1. \A c \in Blobs : job'[c].pc \in Working => disk'[job'[c].path] = FileAt(job'[c].pc)
    BY <1>1 DEF FilesInv, Files
  <2>2. \A c \in Listed(offers'), i \in DOMAIN events' :
          events'[i].blob = c /\ events'[i].kind \in Terminal =>
             disk'[offers'[c].path] = IF events'[i].kind = "Done" THEN "whole" ELSE "absent"
    BY <1>1, <1>2, <1>6, <1>7 DEF FilesInv, Files
  <2>3. \A d \in Paths : prep'[d].pc # "ready" => prep'[d].gone = {}
    BY <1>1 DEF FilesInv, Files
  <2>. QED
    BY <2>1, <2>2, <2>3 DEF Files
<1>9. FilesKnown'
  <2>1. ASSUME NEW c \in Listed(offers')
        PROVE  /\ offers'[c].state \in {"Failed", "Canceled"} => disk'[offers'[c].path] = "absent"
               /\ offers'[c].state = "Saved" => \/ disk'[offers'[c].path] = "whole"
                                                \/ \E d \in Paths : offers'[c].path \in prep'[d].gone
    <3>1. CASE c # b \/ offers'[b] = offers[b]
      <4>1. offers'[c] = offers[c] /\ c \in Listed(offers)
        BY <1>3, <3>1 DEF Listed
      <4>. QED
        BY <1>1, <4>1 DEF FilesInv, FilesKnown
    <3>2. CASE c = b /\ offers'[b].state \in {"Absent", "Offered", "Canceling"}
      BY <3>2
    <3>3. CASE c = b /\ offers[b].state = "Saved" /\ offers'[b].state = "Saved" /\ offers'[b].path = offers[b].path
      <4>1. b \in Listed(offers)
        BY <1>3, <3>3 DEF Listed
      <4>. QED
        BY <1>1, <3>3, <4>1 DEF FilesInv, FilesKnown
    <3>4. CASE /\ c = b /\ b \in Busy(offers) /\ offers'[b].path = offers[b].path /\ e.kind \in Terminal
               /\ offers'[b].state \in IF e.kind = "Done" THEN {"Saved"} ELSE {"Failed", "Canceled"}
      <4>1. b \in Listed(offers)
        BY <1>3, <3>4 DEF Listed, Busy
      <4>. QED
        BY <1>1, <1>5, <3>4, <4>1
    <3>. QED
      BY <1>0, <1>4, <3>1, <3>2, <3>3, <3>4
  <2>. QED
    BY <1>1, <2>1 DEF FilesInv, FilesKnown
<1>. QED
  BY <1>8, <1>9 DEF FilesInv

LEMMA InitFiles == Init => FilesInv
<1>. SUFFICES ASSUME Init PROVE FilesInv
  OBVIOUS
<1>1. /\ \A b \in Blobs : offers[b].state = "Absent" /\ job[b].pc = "none"
      /\ \A d \in Paths : disk[d] = "absent" /\ prep[d].gone = {}
  BY DEF Init, NoJob, NoPrep, Absent
<1>. QED
  BY <1>1, WorkingStages DEF FilesInv, Files, FilesKnown, Listed

LEMMA NextFiles == TransferInv /\ FilesInv /\ [Next]_vars => FilesInv'
BY NextSplits, QuietFiles, DownloadFiles, PrepareFiles, PreparedFiles, CancelFiles, PollFiles

-----------------------------------------------------------------------------
(* Withdrawals                                                             *)

Told(b) == b \in blobs \cup withdrawing \/ Event("Withdrawn", b) \in lost
WithdrawnAt(i, b) == events[i] = Event("Withdrawn", b)

(* A withdrawal comes after the offer it is about, or is dropped; a blob   *)
(* that is being announced is known, for Node::block waits for it.         *)
Heard ==
    /\ announcing \subseteq blobs
    /\ blocking.peers \subseteq blocked
    /\ blocking.pc = "blobs" => announcing \cap OfBlocked = {}
    /\ \A b \in Blobs, i \in DOMAIN events :
          OfferAt(i, b) => Told(b) \/ \E j \in DOMAIN events : j > i /\ WithdrawnAt(j, b)
    /\ \A b \in Listed(offers) :
          ~offers[b].withdrawn => Told(b) \/ \E j \in DOMAIN events : WithdrawnAt(j, b)

LEMMA HeardIs ==
    ASSUME TransferTyped, Heard
    PROVE  ListedKnown
<1>. SUFFICES ASSUME NEW b \in Listed(offers), ~offers[b].withdrawn, ~Told(b)
              PROVE  Count(b, {"Withdrawn"}) > 0
  BY DEF ListedKnown, Told
<1>1. PICK j \in DOMAIN events : WithdrawnAt(j, b)
  BY DEF Heard
<1>2. j \in Hits(events, b, {"Withdrawn"})
  BY <1>1 DEF Hits, WithdrawnAt, Event
<1>3. /\ IsFiniteSet(Hits(events, b, {"Withdrawn"}))
      /\ Cardinality(Hits(events, b, {"Withdrawn"})) \in Nat
  BY HitsFinite DEF TransferTyped, EventsTyped
<1>4. Cardinality(Hits(events, b, {"Withdrawn"})) # 0
  BY <1>2, <1>3, FS_EmptySet
<1>5. Count(b, {"Withdrawn"}) = Cardinality(Hits(events, b, {"Withdrawn"}))
  BY DEF Count, Hits
<1>. QED
  BY <1>3, <1>4, <1>5

(* Steps that take nothing from the channel.                               *)
LEMMA StaysHeard ==
    ASSUME TransferTyped, Heard, lost \subseteq lost',
           events' = events \/ \E e \in Events : events' = Append(events, e) /\ (e.kind = "Offer" => Told(e.blob)'),
           \A b \in Blobs : \/ Told(b) => Told(b)'
                            \/ events' = Append(events, Event("Withdrawn", b)),
           \A b \in Blobs : \/ offers'[b].state = "Absent" \/ (offers'[b].withdrawn = offers[b].withdrawn /\ b \in Listed(offers)),
           announcing' \subseteq blobs', blocking'.peers \subseteq blocked',
           blocking'.pc = "blobs" => announcing' \cap OfBlocked' = {}
    PROVE  Heard'
<1>1. events \in Seq(Events)
  BY DEF TransferTyped, EventsTyped
<1>2. \A i \in DOMAIN events : i \in DOMAIN events' /\ events'[i] = events[i]
  BY <1>1, AppendedIs
<1>3. ASSUME NEW b \in Blobs, events' = Append(events, Event("Withdrawn", b))
      PROVE  \E n \in DOMAIN events' : WithdrawnAt(n, b)' /\ \A i \in DOMAIN events : n > i
  <2>1. Event("Withdrawn", b) \in Events
    BY DEF Event, Events, Kinds
  <2>. QED
    BY <1>1, <1>3, <2>1, AppendedIs DEF WithdrawnAt
<1>4. ASSUME NEW b \in Blobs, NEW i \in DOMAIN events', events'[i] = Event("Offer", b)
      PROVE  Told(b)' \/ \E j \in DOMAIN events' : j > i /\ events'[j] = Event("Withdrawn", b)
  <2>1. CASE i \in DOMAIN events
    <3>1. Told(b) \/ \E j \in DOMAIN events : j > i /\ WithdrawnAt(j, b)
      BY <1>2, <1>4, <2>1 DEF Heard, OfferAt
    <3>2. CASE Told(b)
      BY <1>3, <2>1, <3>2 DEF WithdrawnAt
    <3>3. CASE \E j \in DOMAIN events : j > i /\ WithdrawnAt(j, b)
      BY <1>2, <3>3 DEF WithdrawnAt
    <3>. QED
      BY <3>1, <3>2, <3>3
  <2>2. CASE i \notin DOMAIN events
    <3>1. PICK e \in Events : events' = Append(events, e) /\ (e.kind = "Offer" => Told(e.blob)')
      BY <1>4, <2>2
    <3>2. events'[i] = e
      BY <1>1, <1>4, <2>2, <3>1, AppendedIs
    <3>3. e.kind = "Offer" /\ e.blob = b
      BY <1>4, <3>2 DEF Event
    <3>. QED
      BY <3>1, <3>3
  <2>. QED
    BY <2>1, <2>2
<1>5. ASSUME NEW b \in Listed(offers'), ~offers'[b].withdrawn
      PROVE  Told(b)' \/ \E j \in DOMAIN events' : events'[j] = Event("Withdrawn", b)
  <2>1. b \in Blobs /\ b \in Listed(offers) /\ ~offers[b].withdrawn
    BY <1>5 DEF Listed
  <2>2. Told(b) \/ \E j \in DOMAIN events : WithdrawnAt(j, b)
    BY <2>1 DEF Heard
  <2>. QED
    BY <1>2, <1>3, <2>1, <2>2 DEF WithdrawnAt
<1>. QED
  BY <1>4, <1>5 DEF Heard, OfferAt, WithdrawnAt

LEMMA QuietHeard ==
    ASSUME TransferInv, Heard, QuietStep
    PROVE  Heard'
<1>. USE DEF TransferInv
<1>0. /\ blocking \in [pc : {"none", "blobs", "jobs", "offers"}, peers : SUBSET Senders, removed : SUBSET Blobs]
      /\ ~AtWork => blocking.peers = {}
  BY DEF SignalInv, BlockingTyped
<1>1. \A b \in Blobs : offers'[b].state = "Absent" \/ (offers'[b].withdrawn = offers[b].withdrawn /\ b \in Listed(offers))
  BY QuietDoes DEF Listed, Absent
<1>2. ASSUME UNCHANGED <<events, lost>>, blobs \cup withdrawing \subseteq blobs' \cup withdrawing',
             announcing' \subseteq blobs', blocking'.peers \subseteq blocked',
             blocking'.pc = "blobs" => announcing' \cap OfBlocked' = {}
      PROVE  Heard'
  <2>1. \A b \in Blobs : Told(b) => Told(b)'
    BY <1>2 DEF Told
  <2>. QED
    BY <1>1, <1>2, <2>1, StaysHeard
<1>3. ASSUME NEW b \in Blobs, OfferArrives(b)
      PROVE  Heard'
  <2>1. /\ UNCHANGED <<events, lost, blocked, withdrawing, blocking>>
        /\ blobs' = blobs \cup {b} /\ announcing' = announcing \cup {b} /\ SenderOf[b] \notin blocked
    BY <1>3 DEF OfferArrives
  <2>. QED
    BY <1>2, <2>1 DEF Heard, OfBlocked
<1>4. ASSUME NEW b \in Blobs, Announce(b)
      PROVE  Heard'
  <2>1. /\ UNCHANGED <<blobs, blocked, withdrawing, blocking>>
        /\ b \in announcing /\ announcing' = announcing \ {b} /\ Emit(Event("Offer", b))
    BY <1>4 DEF Announce
  <2>2. Event("Offer", b) \in Events /\ Event("Offer", b).blob = b
    BY DEF Event, Events, Kinds
  <2>3. lost \subseteq lost' /\ (events' = events \/ events' = Append(events, Event("Offer", b)))
    BY <2>1 DEF Emit
  <2>4. \A c \in Blobs : Told(c) => Told(c)'
    BY <2>1, <2>3 DEF Told
  <2>5. Told(b)'
    BY <2>1 DEF Told, Heard
  <2>6. events' = events \/ \E e \in Events : events' = Append(events, e) /\ (e.kind = "Offer" => Told(e.blob)')
    BY <2>2, <2>3, <2>5
  <2>7. announcing' \subseteq blobs' /\ blocking'.peers \subseteq blocked' /\ (blocking'.pc = "blobs" => announcing' \cap OfBlocked' = {})
    BY <2>1 DEF Heard, OfBlocked
  <2>. QED
    BY <1>1, <2>3, <2>4, <2>6, <2>7, StaysHeard
<1>5. ASSUME NEW b \in Blobs, Unoffer(b)
      PROVE  Heard'
  BY <1>2, <1>5 DEF Unoffer, Heard, OfBlocked
<1>6. ASSUME NEW b \in Blobs, Withdrawn(b)
      PROVE  Heard'
  <2>1. /\ UNCHANGED <<blobs, announcing, blocked, blocking>>
        /\ withdrawing' = withdrawing \ {b} /\ Emit(Event("Withdrawn", b))
    BY <1>6 DEF Withdrawn
  <2>2. Event("Withdrawn", b) \in Events /\ Event("Withdrawn", b).kind # "Offer"
    BY DEF Event, Events, Kinds
  <2>3. \/ events' = events /\ lost' = lost \cup {Event("Withdrawn", b)}
        \/ events' = Append(events, Event("Withdrawn", b)) /\ lost' = lost
    BY <2>1 DEF Emit
  <2>4. \A c \in Blobs : (Told(c) => Told(c)') \/ events' = Append(events, Event("Withdrawn", c))
    <3>. SUFFICES ASSUME NEW c \in Blobs, Told(c), ~(events' = Append(events, Event("Withdrawn", c)))
                  PROVE  Told(c)'
      OBVIOUS
    <3>1. CASE c = b
      BY <2>3, <3>1 DEF Told
    <3>2. CASE c # b
      BY <2>1, <2>3, <3>2 DEF Told
    <3>. QED
      BY <3>1, <3>2
  <2>5. events' = events \/ \E e \in Events : events' = Append(events, e) /\ (e.kind = "Offer" => Told(e.blob)')
    BY <2>2, <2>3
  <2>6. announcing' \subseteq blobs' /\ blocking'.peers \subseteq blocked' /\ (blocking'.pc = "blobs" => announcing' \cap OfBlocked' = {})
    BY <2>1 DEF Heard, OfBlocked
  <2>. QED
    BY <1>1, <2>3, <2>4, <2>5, <2>6, StaysHeard
<1>7. ASSUME NEW b \in Blobs, JobStep(b)
      PROVE  Heard'
  <2>1. UNCHANGED native
    BY <1>7 DEF JobStep, Advance, Abort, Report, Release, Unregister
  <2>2. announcing' \subseteq blobs' /\ blocking'.peers \subseteq blocked' /\ (blocking'.pc = "blobs" => announcing' \cap OfBlocked' = {})
    BY <2>1 DEF Heard, OfBlocked, native
  <2>3. CASE UNCHANGED <<events, lost>>
    BY <1>2, <2>1, <2>2, <2>3 DEF native
  <2>4. CASE Report(b)
    <3>1. PICK kind \in Terminal : Emit(Event(kind, b))
      BY <2>4 DEF Report, Terminal
    <3>2. Event(kind, b) \in Events /\ Event(kind, b).kind # "Offer"
      BY <3>1 DEF Event, Events, Kinds, Terminal
    <3>3. lost \subseteq lost' /\ (events' = events \/ \E e \in Events : events' = Append(events, e) /\ (e.kind = "Offer" => Told(e.blob)'))
      BY <3>1, <3>2 DEF Emit
    <3>4. \A c \in Blobs : Told(c) => Told(c)'
      BY <2>1, <3>3 DEF Told, native
    <3>. QED
      BY <1>1, <2>2, <3>3, <3>4, StaysHeard
  <2>. QED
    BY <1>7, <2>3, <2>4 DEF JobStep, Advance, Abort, Release, Unregister
<1>8. ASSUME NEW p \in Senders, BlockList(p)
      PROVE  Heard'
  <2>1. /\ UNCHANGED <<events, lost, blobs, withdrawing, announcing>>
        /\ blocked' = blocked \cup {p} /\ blocking' = [pc |-> "blobs", peers |-> {p}, removed |-> {}]
        /\ \A b \in announcing : SenderOf[b] # p
    BY <1>8 DEF BlockList
  <2>. QED
    BY <1>2, <2>1 DEF Heard, OfBlocked
<1>9. ASSUME NEW p \in Senders, Unblock(p)
      PROVE  Heard'
  <2>1. /\ UNCHANGED <<events, lost, blobs, withdrawing, announcing, blocking>> /\ ~AtWork
    BY <1>9 DEF Unblock
  <2>. QED
    BY <1>0, <1>2, <2>1 DEF Heard, OfBlocked
<1>10. ASSUME NEW p \in Senders, ToggleMute(p)
       PROVE  Heard'
  BY <1>2, <1>10 DEF ToggleMute, native, Heard, OfBlocked
<1>11. CASE BlockBlobs
  <2>1. /\ UNCHANGED <<events, lost, announcing, blocked>> /\ blocking.pc = "blobs"
        /\ blobs' = blobs \ OfBlocked /\ withdrawing' = withdrawing \cup (blobs \cap OfBlocked)
        /\ blocking' = [blocking EXCEPT !.pc = "jobs", !.removed = blobs \cap OfBlocked]
    BY <1>11 DEF BlockBlobs
  <2>2. blocking'.pc = "jobs" /\ blocking'.peers = blocking.peers
    BY <1>0, <2>1
  <2>. QED
    BY <1>2, <2>1, <2>2 DEF Heard
<1>12. CASE BlockJobs
  <2>1. /\ UNCHANGED <<events, lost, announcing, blocked, blobs, withdrawing>>
        /\ blocking' = [blocking EXCEPT !.pc = "offers"]
    BY <1>12 DEF BlockJobs
  <2>2. blocking'.pc = "offers" /\ blocking'.peers = blocking.peers
    BY <1>0, <2>1
  <2>. QED
    BY <1>2, <2>1, <2>2 DEF Heard
<1>13. CASE BlockOffers
  <2>1. UNCHANGED <<events, lost, announcing, blocked, blobs, withdrawing>> /\ blocking' = NotBlocking
    BY <1>13 DEF BlockOffers
  <2>. QED
    BY <1>2, <2>1 DEF Heard, NotBlocking
<1>14. CASE UNCHANGED vars
  BY <1>2, <1>14 DEF vars, Heard, OfBlocked
<1>. QED
  BY <1>3, <1>4, <1>5, <1>6, <1>7, <1>8, <1>9, <1>10, <1>11, <1>12, <1>13, <1>14 DEF QuietStep, BlockStep

(* The frame thread takes nothing back that it was told.                   *)
LEMMA FrameHeard ==
    ASSUME TransferInv, Heard, UNCHANGED <<native, events, lost>>,
           \A b \in Blobs : \/ offers'[b].state = "Absent"
                            \/ offers'[b].withdrawn = offers[b].withdrawn /\ b \in Listed(offers)
    PROVE  Heard'
<1>1. UNCHANGED <<blobs, withdrawing, announcing, blocked, blocking, events, lost>>
  BY DEF native
<1>2. \A b \in Blobs : Told(b) => Told(b)'
  BY <1>1 DEF Told
<1>3. announcing' \subseteq blobs' /\ blocking'.peers \subseteq blocked' /\ (blocking'.pc = "blobs" => announcing' \cap OfBlocked' = {})
  BY <1>1 DEF Heard, OfBlocked
<1>. QED
  BY <1>1, <1>2, <1>3, StaysHeard DEF TransferInv

LEMMA PollHeard ==
    ASSUME TransferInv, Heard, Poll
    PROVE  Heard'
<1>. USE DEF TransferInv
<1>. DEFINE e == Head(events)
            b == e.blob
<1>0. Absent.state = "Absent" /\ Offered.state = "Offered"
  BY DEF Absent, Offered
<1>1. /\ events # << >> /\ events' = Tail(events) /\ events \in Seq(Events) /\ e \in Events
      /\ UNCHANGED <<blobs, withdrawing, announcing, blocked, blocking, lost>>
  BY PollDoes DEF TransferTyped, EventsTyped, native
<1>2. /\ 1 \in DOMAIN events /\ e = events[1]
      /\ \A i \in DOMAIN events : i \in Int /\ i >= 1
      /\ \A i \in DOMAIN events' : i \in Int /\ i + 1 \in DOMAIN events /\ events'[i] = events[i + 1]
      /\ \A i \in DOMAIN events : i = 1 \/ (i - 1 \in DOMAIN events' /\ events'[i - 1] = events[i])
  BY <1>1, TailIs
<1>3. b \in Blobs /\ \A c \in Blobs : c # b => offers'[c] = offers[c]
  BY PollFinds
<1>4. \/ offers'[b].state = "Absent"
      \/ offers'[b].withdrawn
      \/ e.kind # "Withdrawn" /\ offers'[b].withdrawn = offers[b].withdrawn /\ b \in Listed(offers)
      \/ e = Event("Offer", b) /\ offers'[b] = Offered
  <2>1. \/ offers'[b] = offers[b] /\ e.kind # "Withdrawn"
        \/ offers'[b] = offers[b] /\ b \notin Listed(offers)
        \/ e = Event("Offer", b) /\ offers'[b] = Offered
        \/ e.kind = "Withdrawn" /\ offers'[b].withdrawn
        \/ offers'[b] = Absent
        \/ e.kind # "Withdrawn" /\ b \in Busy(offers) /\ offers'[b].withdrawn = offers[b].withdrawn
    <3>1. Head(events).kind = "Withdrawn" => offers' = Withdraw(offers, b)
      BY PollDoes DEF Terminal
    <3>2. Head(events).kind = "Withdrawn" => offers'[b] = Absent \/ offers'[b].withdrawn
      BY <1>3, <3>1, WithdrawIs DEF TransferTyped, OffersTyped
    <3>3. CASE e.kind # "Withdrawn"
      BY <3>3, PollFinds DEF Terminal
    <3>. QED
      BY <3>2, <3>3
  <2>. QED
    BY <1>0, <1>3, <2>1 DEF Listed, Busy
<1>. HIDE DEF b, e
<1>5. \A c \in Blobs : Told(c)' <=> Told(c)
  BY <1>1 DEF Told
<1>6. ASSUME NEW c \in Blobs, NEW i \in DOMAIN events', events'[i] = Event("Offer", c)
      PROVE  Told(c)' \/ \E j \in DOMAIN events' : j > i /\ events'[j] = Event("Withdrawn", c)
  <2>1. i + 1 \in DOMAIN events /\ OfferAt(i + 1, c) /\ i \in Int
    BY <1>2, <1>6 DEF OfferAt
  <2>2. Told(c) \/ \E j \in DOMAIN events : j > i + 1 /\ WithdrawnAt(j, c)
    BY <2>1 DEF Heard
  <2>3. ASSUME NEW j \in DOMAIN events, j > i + 1, WithdrawnAt(j, c)
        PROVE  j - 1 \in DOMAIN events' /\ j - 1 > i /\ events'[j - 1] = Event("Withdrawn", c)
    <3>1. j \in Int /\ j >= 1 /\ i + 1 >= 1
      BY <1>2, <2>1
    <3>2. j # 1 /\ j - 1 > i
      BY <2>1, <2>3, <3>1
    <3>. QED
      BY <1>2, <2>3, <3>2 DEF WithdrawnAt
  <2>. QED
    BY <1>5, <2>2, <2>3
<1>7. ASSUME NEW c \in Listed(offers'), ~offers'[c].withdrawn
      PROVE  Told(c)' \/ \E j \in DOMAIN events' : events'[j] = Event("Withdrawn", c)
  <2>0. c \in Blobs /\ offers'[c].state # "Absent"
    BY <1>7 DEF Listed
  <2>1. CASE c # b \/ (e.kind # "Withdrawn" /\ offers'[b].withdrawn = offers[b].withdrawn /\ b \in Listed(offers))
    <3>1. c \in Listed(offers) /\ ~offers[c].withdrawn
      BY <1>3, <1>7, <2>0, <2>1 DEF Listed
    <3>2. Told(c) \/ \E j \in DOMAIN events : WithdrawnAt(j, c)
      BY <3>1 DEF Heard
    <3>3. ASSUME NEW j \in DOMAIN events, WithdrawnAt(j, c)
          PROVE  j # 1
      <4>1. events[j].blob = c /\ events[j].kind = "Withdrawn"
        BY <3>3 DEF WithdrawnAt, Event
      <4>. QED
        BY <1>2, <2>1, <4>1 DEF b
    <3>. QED
      BY <1>2, <1>5, <2>0, <3>2, <3>3 DEF WithdrawnAt
  <2>2. CASE c = b /\ e = Event("Offer", b)
    <3>1. OfferAt(1, c)
      BY <1>2, <2>2 DEF OfferAt
    <3>2. Told(c) \/ \E j \in DOMAIN events : j > 1 /\ WithdrawnAt(j, c)
      BY <1>2, <2>0, <3>1 DEF Heard
    <3>. QED
      BY <1>2, <1>5, <2>0, <3>2 DEF WithdrawnAt
  <2>. QED
    BY <1>4, <1>7, <2>0, <2>1, <2>2
<1>8. announcing' \subseteq blobs' /\ blocking'.peers \subseteq blocked' /\ (blocking'.pc = "blobs" => announcing' \cap OfBlocked' = {})
  BY <1>1 DEF Heard, OfBlocked
<1>. QED
  BY <1>6, <1>7, <1>8 DEF Heard, OfferAt, WithdrawnAt

LEMMA NextHeard == TransferInv /\ Heard /\ [Next]_vars => Heard'
<1>. SUFFICES ASSUME TransferInv, Heard, [Next]_vars PROVE Heard'
  OBVIOUS
<1>0. Absent.state = "Absent"
  BY DEF Absent
<1>1. ASSUME NEW b \in Blobs, NEW d \in Paths, Download(b, d)
      PROVE  Heard'
  <2>1. /\ UNCHANGED <<native, events, lost>> /\ offers' = BeginFetch(offers, b, d)
        /\ offers[b].state \in {"Offered", "Failed", "Canceled"}
    BY <1>1 DEF Download, CanBegin
  <2>2. /\ \A c \in Blobs : c # b => offers'[c] = offers[c]
        /\ offers'[b].withdrawn = offers[b].withdrawn /\ b \in Listed(offers)
    BY <2>1, BeginFetchIs DEF TransferInv, TransferTyped, OffersTyped, Listed
  <2>. QED
    BY <2>1, <2>2, FrameHeard DEF Listed
<1>2. ASSUME NEW d \in Paths, NEW gone \in SUBSET Paths, NEW bad \in BOOLEAN, Prepare(d, gone, bad)
      PROVE  Heard'
  BY <1>2, FrameHeard DEF Prepare, Listed
<1>3. ASSUME NEW d \in Paths, NEW full \in BOOLEAN, Prepared(d, full)
      PROVE  Heard'
  <2>1. UNCHANGED <<native, events, lost>>
    BY <1>3 DEF Prepared
  <2>2. \A c \in Blobs : c # prep[d].blob => offers'[c] = offers[c] \/ offers'[c] = Absent
    BY <1>3, PreparedFinds
  <2>3. \/ offers'[prep[d].blob] = Absent
        \/ offers'[prep[d].blob] = offers[prep[d].blob]
        \/ offers'[prep[d].blob].withdrawn = offers[prep[d].blob].withdrawn /\ prep[d].blob \in Listed(offers)
    BY <1>3, PreparedFinds
  <2>. QED
    BY <1>0, <2>1, <2>2, <2>3, FrameHeard DEF Listed
<1>4. ASSUME NEW b \in Blobs, CancelDownload(b)
      PROVE  Heard'
  <2>1. /\ UNCHANGED <<native, events, lost>> /\ offers[b].state = "Fetching"
        /\ \A c \in Blobs : c # b => offers'[c] = offers[c]
    BY <1>4, CancelDoes DEF TransferInv
  <2>2. offers'[b] = Absent \/ offers'[b].withdrawn = offers[b].withdrawn
    BY <1>4, CancelDoes DEF TransferInv
  <2>. QED
    BY <1>0, <2>1, <2>2, FrameHeard DEF Listed
<1>. QED
  BY <1>1, <1>2, <1>3, <1>4, NextSplits, QuietHeard, PollHeard

LEMMA InitHeard == Init => Heard
<1>. SUFFICES ASSUME Init PROVE Heard
  OBVIOUS
<1>1. /\ events = << >> /\ announcing = {} /\ blocking.peers = {} /\ blocking.pc = "none"
      /\ \A b \in Blobs : offers[b].state = "Absent"
  BY DEF Init, NotBlocking, Absent
<1>. QED
  BY <1>1 DEF Heard, Listed

(* OffersTrue: the list of offers, the folder and the node agree: no       *)
(* partial file outlives its job, a saved file is there until a clean-up   *)
(* whose callback is due, a failed one is not; and an offer that is shown  *)
(* can be fetched, or its withdrawal is on its way or was dropped.         *)
THEOREM ListTellsTheTruth == Spec => []OffersTrue
<1>. DEFINE Inv == TransferInv /\ FilesInv /\ Heard
<1>1. Init => Inv
  BY InitTransferInv, InitFiles, InitHeard
<1>2. Inv /\ [Next]_vars => Inv'
  BY NextTransferInv, NextFiles, NextHeard
<1>3. Inv => OffersTrue
  BY HeardIs DEF OffersTrue, FilesInv, TransferInv
<1>. QED
  BY <1>1, <1>2, <1>3, PTL DEF Spec

-----------------------------------------------------------------------------
(* The parts side by side: what one does is a step of it, and the other    *)
(* stands still.                                                           *)
THEOREM NodeParts == NodeSpec => AnnouncementSpec /\ Spec
<1>1. NodeInit => AnnouncementInit /\ Init
  BY DEF NodeInit
<1>2. ASSUME [NodeNext]_nodeVars PROVE [AnnouncementNext]_announcementVars /\ [Next]_vars
  <2>1. CASE UNCHANGED nodeVars
    BY <2>1 DEF nodeVars
  <2>2. CASE NodeNext
    BY <2>2 DEF NodeNext, OthersRest
  <2>. QED
    BY <1>2, <2>1, <2>2
<1>. QED
  BY <1>1, <1>2, PTL DEF NodeSpec, AnnouncementSpec, Spec

(* Whichever part moves, its variables keep their types and limits...      *)
THEOREM NodeTypes == NodeSpec => []NodeTypeOK
<1>1. AnnouncementTypeOK /\ TypeOK => NodeTypeOK
  BY DEF NodeTypeOK
<1>. QED
  BY <1>1, NodeParts, AnnouncementTypes, TransferTypes, PTL

(* ...and all that is promised of the parts holds of them side by side.    *)
THEOREM NodeKeepsPromises ==
    NodeSpec => [](AnnouncementsTrue /\ TransfersEnd /\ ForgottenSignalled /\ OffersTrue)
BY NodeParts, AnnouncementsHold, TransfersEndOnce, NoDownloadForgotten, ListTellsTheTruth, PTL
=============================================================================
