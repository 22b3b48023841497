-------------------------- MODULE FriendLinkProofs --------------------------
(***************************************************************************)
(* Direct texts keep the promises of TextMailbox for any set of texts, any *)
(* number of connections, losses, restarts and dropped frames.             *)
(*                                                                         *)
(* What the frames, the pending sends and the ends of the connections hold *)
(* is tied to the two databases: a text on its way is stored, an           *)
(* acknowledgement on its way is of a text that was received, and one end  *)
(* at most is about to show a text.  And where no frame is dropped, every  *)
(* text that waits is under way on the registered connection.              *)
(***************************************************************************)
EXTENDS FriendLink, TLAPS

(* Acknowledged texts were received, received texts were stored, and only  *)
(* a received text was shown, once.                                        *)
MailOrder ==
    /\ acked \subseteq received
    /\ received \subseteq stored
    /\ \A t \in Texts : shown[t] # 0 => shown[t] = 1 /\ t \in received

(* A text somebody means to send is stored.                                *)
SendsStored ==
    /\ \A n \in Nodes : cmd[n] # NoText => cmd[n] \in stored
    /\ \A s \in sends : s[2] \in stored
    /\ \A e \in Ends : todo[e] \subseteq stored

Honest(f) == IF f.kind = "text" THEN f.id \in stored ELSE f.id \in received

FramesHonest == \A e \in Ends : \A i \in DOMAIN chan[e] : Honest(chan[e][i])

(* The text an end handles was received; an end about to show it is the    *)
(* first and only one to.                                                  *)
HeldReceived ==
    /\ \A e \in Ends : pc[e] \in {"emit", "ack"} => held[e] \in received
    /\ \A e \in Ends : pc[e] = "emit" => shown[held[e]] = 0
    /\ \A e, f \in Ends :
         pc[e] = "emit" /\ pc[f] = "emit" /\ held[e] = held[f] => e = f

LinkInv == TypeOK /\ MailOrder /\ SendsStored /\ FramesHonest /\ HeldReceived

-----------------------------------------------------------------------------
LEMMA OtherNode == ASSUME NEW n \in Nodes PROVE Other(n) \in Nodes /\ Other(n) # n
  BY NodesAssumption DEF Other

LEMMA FarEnd == ASSUME NEW e \in Ends PROVE Far(e) \in Ends /\ Far(e) # e
  BY OtherNode DEF Ends, Far

(* Reading a frame and sending one keep the frames typed and honest.       *)
LEMMA ReadFrames ==
  ASSUME NEW e \in Ends, ChanType, FramesHonest, Incoming(e), Read(e),
         stored \subseteq stored', received \subseteq received'
  PROVE  ChanType' /\ FramesHonest'
<1> DEFINE g == Far(e)
           q == chan[g]
<1>0. g \in Ends
  BY FarEnd
<1>1. q \in Seq(Frames) /\ q # << >> /\ Len(q) <= StreamLimit
  BY <1>0 DEF ChanType, Incoming
<1>2. /\ Tail(q) \in Seq(Frames)
      /\ Len(Tail(q)) = Len(q) - 1
      /\ \A i \in DOMAIN Tail(q) : i + 1 \in DOMAIN q /\ Tail(q)[i] = q[i + 1]
  <2> HIDE DEF q
  <2> QED BY <1>1
<1>3. chan' = [chan EXCEPT ![g] = Tail(q)]
  BY DEF Read
<1>4. /\ chan' \in [Ends -> Seq(Frames)]
      /\ \A f \in Ends : chan'[f] = IF f = g THEN Tail(q) ELSE chan[f]
  BY <1>0, <1>2, <1>3 DEF ChanType
<1>5. Len(Tail(q)) <= StreamLimit
  <2> HIDE DEF q
  <2>1. Len(q) \in Nat
    BY <1>1
  <2> QED BY <1>1, <1>2, <2>1, BoundAssumption
<1>6. ChanType'
  <2> HIDE DEF g, q
  <2> QED BY <1>4, <1>5 DEF ChanType
<1>7. ASSUME NEW f \in Ends, NEW i \in DOMAIN chan'[f]
      PROVE  Honest(chan'[f][i])
  <2> HIDE DEF g
  <2>1. CASE f = g
    BY <2>1, <1>0, <1>2, <1>4, <1>7 DEF FramesHonest
  <2>2. CASE f # g
    BY <2>2, <1>4, <1>7 DEF FramesHonest
  <2> QED BY <2>1, <2>2
<1> QED
  BY <1>6, <1>7 DEF FramesHonest, Honest

LEMMA SendFrame ==
  ASSUME NEW e \in Ends, NEW f \in Frames, ChanType, FramesHonest,
         Send(e, f), Honest(f), stored \subseteq stored', received \subseteq received'
  PROVE  ChanType' /\ FramesHonest'
<1> DEFINE q == chan[e]
<1>1. CASE UNCHANGED chan
  BY <1>1 DEF ChanType, FramesHonest, Honest
<1>2. CASE CanSend(e) /\ chan' = [chan EXCEPT ![e] = Append(@, f)]
  <2>1. q \in Seq(Frames) /\ Len(q) < StreamLimit /\ Len(q) \in Nat
    BY <1>2 DEF ChanType, CanSend
  <2>2. /\ Append(q, f) \in Seq(Frames)
        /\ Len(Append(q, f)) = Len(q) + 1
        /\ \A i \in DOMAIN Append(q, f) :
             Append(q, f)[i] = f \/ (i \in DOMAIN q /\ Append(q, f)[i] = q[i])
    <3> HIDE DEF q
    <3> QED BY <2>1
  <2>3. /\ chan' \in [Ends -> Seq(Frames)]
        /\ \A g \in Ends : chan'[g] = IF g = e THEN Append(q, f) ELSE chan[g]
    BY <1>2, <2>2 DEF ChanType
  <2>4. Len(Append(q, f)) <= StreamLimit
    <3> HIDE DEF q
    <3> QED BY <2>1, <2>2, BoundAssumption
  <2>5. ChanType'
    <3> HIDE DEF q
    <3> QED BY <2>3, <2>4 DEF ChanType
  <2>6. ASSUME NEW g \in Ends, NEW i \in DOMAIN chan'[g]
        PROVE  Honest(chan'[g][i])
    <3>1. CASE g = e
      BY <3>1, <2>2, <2>3, <2>6 DEF FramesHonest
    <3>2. CASE g # e
      BY <3>2, <2>3, <2>6 DEF FramesHonest
    <3> QED BY <3>1, <3>2
  <2> QED
    BY <2>5, <2>6 DEF FramesHonest, Honest
<1> QED BY <1>1, <1>2 DEF Send

(* A break leaves some of the frames.                                      *)
LEMMA BreakFrames ==
  ASSUME NEW S \in SUBSET Conns, NEW gone \in SUBSET Nodes, ChanType, FramesHonest,
         Break(S, gone), stored \subseteq stored', received \subseteq received'
  PROVE  ChanType' /\ FramesHonest'
<1>1. PICK keep \in [Ends -> 0..StreamLimit] :
        /\ \A e \in Ends : keep[e] <= Len(chan[e])
        /\ chan' = [e \in Ends |->
                      IF e[1] \notin S THEN chan[e]
                      ELSE IF Other(e[2]) \in gone THEN << >>
                      ELSE SubSeq(chan[e], 1, keep[e])]
  BY DEF Break
<1>2. ASSUME NEW e \in Ends
      PROVE  /\ chan'[e] \in Seq(Frames)
             /\ Len(chan'[e]) <= StreamLimit
             /\ \A i \in DOMAIN chan'[e] : i \in DOMAIN chan[e] /\ chan'[e][i] = chan[e][i]
  <2>1. /\ chan[e] \in Seq(Frames) /\ Len(chan[e]) <= StreamLimit
        /\ keep[e] \in Nat /\ keep[e] <= Len(chan[e])
    BY <1>1 DEF ChanType
  <2>2. /\ SubSeq(chan[e], 1, keep[e]) \in Seq(Frames)
        /\ Len(SubSeq(chan[e], 1, keep[e])) = keep[e]
        /\ \A i \in 1..keep[e] : i \in DOMAIN chan[e]
                                 /\ SubSeq(chan[e], 1, keep[e])[i] = chan[e][i]
    BY <2>1
  <2>3. DOMAIN SubSeq(chan[e], 1, keep[e]) = 1..keep[e]
    BY <2>1, <2>2
  <2>4. StreamLimit \in Nat /\ << >> \in Seq(Frames) /\ Len(<< >>) = 0 /\ DOMAIN << >> = {}
    BY BoundAssumption
  <2>5. CASE chan'[e] = chan[e]
    BY <2>1, <2>5
  <2>6. CASE chan'[e] = << >>
    BY <2>4, <2>6
  <2>7. CASE chan'[e] = SubSeq(chan[e], 1, keep[e])
    <3>1. keep[e] <= StreamLimit
      BY <2>1, <2>4
    <3> QED BY <2>2, <2>3, <2>7, <3>1
  <2> QED BY <1>1, <2>5, <2>6, <2>7
<1>3. DOMAIN chan' = Ends
  BY <1>1
<1>4. ChanType'
  <2>1. chan' = [e \in Ends |-> chan'[e]]
    BY <1>1
  <2> QED BY <1>2, <2>1 DEF ChanType
<1> QED
  BY <1>2, <1>4 DEF FramesHonest, Honest

-----------------------------------------------------------------------------
(* Links, dials and faults stay well typed: one case for each action that  *)
(* touches them.                                                           *)
LEMMA DialTypeKept ==
  ASSUME TypeOK, Next
  PROVE  DialType'
<1> USE DEF TypeOK, DialType
<1>1. ASSUME NEW n \in Nodes, TickLinks(n) \/ TickFriends(n)
      PROVE  DialType'
  BY <1>1 DEF TickLinks, TickFriends
<1>2. ASSUME NEW n \in Nodes, DialConnect(n) PROVE DialType'
  BY <1>2 DEF DialConnect
<1>3. ASSUME NEW n \in Nodes, DialFail(n) PROVE DialType'
  BY <1>3, BoundAssumption DEF DialFail
<1>4. ASSUME NEW n \in Nodes, DialDone(n) PROVE DialType'
  BY <1>4 DEF DialDone
<1>5. ASSUME NEW n \in Nodes, LookupLink(n) PROVE DialType'
  BY <1>5 DEF LookupLink, dialVars
<1>6. ASSUME NEW n \in Nodes, Crash(n) PROVE DialType'
  BY <1>6, BoundAssumption DEF Crash, Break
<1>7. ASSUME NEW n \in Nodes, Restart(n) PROVE DialType'
  BY <1>7 DEF Restart
<1>8. ASSUME NEW e \in Ends, RunLink(e) \/ DropFrame(e) PROVE DialType'
  <2>0. e[1] \in Conns /\ e[2] \in Nodes
    BY DEF Ends
  <2>1. CASE Register(e)
    BY <2>0, <2>1 DEF Register, dialVars
  <2>2. CASE LinkEnd(e)
    BY <2>0, <2>2 DEF LinkEnd, dialVars
  <2>3. CASE DropFrame(e)
    BY <2>3, BoundAssumption DEF DropFrame, dialVars
  <2>4. CASE ReadOutbox(e) \/ FlushSend(e) \/ RecvFrame(e) \/ EmitText(e) \/ SendAck(e)
    BY <2>4 DEF ReadOutbox, FlushSend, RecvFrame, RecvText, RecvAck, EmitText, SendAck, dialVars
  <2> QED BY <1>8, <2>1, <2>2, <2>3, <2>4 DEF RunLink
<1>9. ASSUME NEW t \in Texts, StoreText(t) PROVE DialType'
  BY <1>9 DEF StoreText, dialVars
<1>10. ASSUME NEW c \in Conns, NEW t \in Texts, SpawnedSend(c, t) PROVE DialType'
  BY <1>10 DEF SpawnedSend, dialVars
<1>11. ASSUME NEW S \in SUBSET Conns, Lose(S) PROVE DialType'
  BY <1>11, BoundAssumption DEF Lose, Break, dialVars
<1> QED
  <2>1. CASE LosePath
    BY <2>1, <1>11 DEF LosePath
  <2>2. ASSUME NEW c \in Conns, LoseConn(c) PROVE DialType'
    BY <2>2, <1>11 DEF LoseConn
  <2> QED BY <1>1, <1>2, <1>3, <1>4, <1>5, <1>6, <1>7, <1>8, <1>9, <1>10, <2>1, <2>2 DEF Next

-----------------------------------------------------------------------------
(* Everything but the links and the dials.                                 *)
TextInv ==
    /\ MailType /\ SendType /\ EndType /\ ChanType
    /\ MailOrder /\ SendsStored /\ FramesHonest /\ HeldReceived

LEMMA QuietStep ==
  ASSUME TextInv, UNCHANGED <<mailVars, sendVars, endVars, chan>>
  PROVE  TextInv'
BY DEF TextInv, MailType, SendType, EndType, ChanType, MailOrder, SendsStored, FramesHonest,
       Honest, HeldReceived, mailVars, sendVars, endVars

(* A step that changes only frames and positions that handle no text.      *)
LEMMA EndsStep ==
  ASSUME TextInv, ChanType', FramesHonest', EndType', UNCHANGED <<mailVars, sendVars>>,
         \A e \in Ends : todo'[e] \subseteq stored,
         \A e \in Ends : pc'[e] \in {"emit", "ack"} => pc'[e] = pc[e] /\ held'[e] = held[e]
  PROVE  TextInv'
<1> USE DEF TextInv
<1>1. MailType' /\ SendType' /\ MailOrder'
  BY DEF MailType, SendType, MailOrder, mailVars, sendVars
<1>2. SendsStored'
  BY DEF SendsStored, mailVars, sendVars
<1>3. HeldReceived'
  BY DEF HeldReceived, mailVars
<1> QED BY <1>1, <1>2, <1>3

LEMMA DialSteps ==
  ASSUME TextInv, NEW n \in Nodes,
         TickLinks(n) \/ TickFriends(n) \/ DialFail(n) \/ DialDone(n) \/ Restart(n)
  PROVE  TextInv'
BY QuietStep DEF TickLinks, TickFriends, DialFail, DialDone, Restart

LEMMA DialConnectStep ==
  ASSUME TextInv, NEW n \in Nodes, DialConnect(n)
  PROVE  TextInv'
<1>1. PICK c \in Conns : pc' = [e \in Ends |-> IF e[1] = c THEN "register" ELSE pc[e]]
  BY DEF DialConnect
<1>2. UNCHANGED <<mailVars, sendVars, todo, held, chan>>
  BY DEF DialConnect
<1>3. EndType' /\ \A e \in Ends : pc'[e] \in {"emit", "ack"} => pc'[e] = pc[e]
  BY <1>1, <1>2 DEF TextInv, EndType
<1>4. ChanType' /\ FramesHonest' /\ \A e \in Ends : todo'[e] \subseteq stored
  BY <1>2 DEF TextInv, ChanType, FramesHonest, Honest, SendsStored, mailVars
<1> QED BY <1>2, <1>3, <1>4, EndsStep

LEMMA RegisterStep ==
  ASSUME TextInv, NEW e \in Ends, Register(e) \/ LinkEnd(e)
  PROVE  TextInv'
<1>1. UNCHANGED <<mailVars, sendVars, todo, held, chan>>
  BY DEF Register, LinkEnd
<1>2. EndType' /\ \A f \in Ends : pc'[f] \in {"emit", "ack"} => pc'[f] = pc[f]
  BY <1>1 DEF TextInv, EndType, Register, LinkEnd
<1>3. ChanType' /\ FramesHonest' /\ \A f \in Ends : todo'[f] \subseteq stored
  BY <1>1 DEF TextInv, ChanType, FramesHonest, Honest, SendsStored, mailVars
<1> QED BY <1>1, <1>2, <1>3, EndsStep

LEMMA FlushingStep ==
  ASSUME TextInv, NEW e \in Ends, NEW left, left \subseteq stored, Flushing(e, left),
         ChanType', FramesHonest', UNCHANGED <<mailVars, sendVars, held>>
  PROVE  TextInv'
<1>1. left \in SUBSET Texts
  BY DEF TextInv, MailType
<1>2. EndType' /\ \A f \in Ends : pc'[f] \in {"emit", "ack"} => pc'[f] = pc[f]
  BY <1>1 DEF TextInv, EndType, Flushing
<1>3. \A f \in Ends : todo'[f] \subseteq stored
  BY DEF TextInv, EndType, SendsStored, Flushing
<1> QED BY <1>2, <1>3, EndsStep

LEMMA ReadOutboxStep ==
  ASSUME TextInv, NEW e \in Ends, ReadOutbox(e)
  PROVE  TextInv'
<1>1. ChanType' /\ FramesHonest'
  BY DEF TextInv, ChanType, FramesHonest, Honest, ReadOutbox, mailVars
<1>2. Outbox(e[2]) \subseteq stored
  BY DEF Outbox
<1> QED BY <1>1, <1>2, FlushingStep DEF ReadOutbox

LEMMA FrameTypes ==
  ASSUME NEW t \in Texts
  PROVE  /\ Text(t) \in Frames /\ Ack(t) \in Frames
         /\ Honest(Text(t)) <=> t \in stored
         /\ Honest(Ack(t)) <=> t \in received
         /\ Text(t) # Ack(t)
BY DEF Text, Ack, Frames, Honest

LEMMA FlushSendStep ==
  ASSUME TextInv, NEW e \in Ends, FlushSend(e)
  PROVE  TextInv'
<1>1. PICK t \in todo[e] : Send(e, Text(t))
                           /\ Flushing(e, IF e[1] \in alive THEN todo[e] \ {t} ELSE {})
  BY DEF FlushSend
<1>2. todo[e] \subseteq stored /\ t \in stored /\ t \in Texts
  BY DEF TextInv, SendsStored, EndType
<1>3. UNCHANGED <<mailVars, sendVars, held>>
  BY DEF FlushSend
<1>4. ChanType' /\ FramesHonest'
  BY <1>1, <1>2, <1>3, SendFrame, FrameTypes DEF TextInv, mailVars
<1> QED BY <1>1, <1>2, <1>3, <1>4, FlushingStep

(* The first frame the far end sent is honest.                             *)
LEMMA HeadHonest ==
  ASSUME ChanType, FramesHonest, NEW e \in Ends, Incoming(e)
  PROVE  Honest(Head(chan[Far(e)]))
<1>1. Far(e) \in Ends /\ chan[Far(e)] \in Seq(Frames) /\ chan[Far(e)] # << >>
  BY FarEnd DEF ChanType, Incoming
<1>2. 1 \in DOMAIN chan[Far(e)] /\ Head(chan[Far(e)]) = chan[Far(e)][1]
  BY <1>1
<1> QED BY <1>1, <1>2 DEF FramesHonest

(* A text that arrives for the first time is held by no other end, and was *)
(* not shown.                                                              *)
LEMMA RecvTextStep ==
  ASSUME TextInv, NEW e \in Ends, NEW t \in Texts, RecvText(e, t)
  PROVE  TextInv'
<1> USE DEF TextInv
<1>1. t \in stored
  BY HeadHonest, FrameTypes DEF RecvText
<1>2. /\ UNCHANGED <<stored, shown, acked, cmd, sends, todo>>
      /\ received' = received \cup {t}
      /\ held' = [held EXCEPT ![e] = t]
      /\ pc' = [pc EXCEPT ![e] = AfterText(t)]
      /\ pc[e] = "loop"
  BY DEF RecvText, Incoming, sendVars
<1>3. ChanType' /\ FramesHonest'
  BY <1>2, ReadFrames DEF RecvText
<1>4. MailType' /\ SendType' /\ EndType'
  BY <1>2 DEF MailType, SendType, EndType, AfterText
<1>5. MailOrder' /\ SendsStored'
  BY <1>1, <1>2 DEF MailOrder, SendsStored
<1>6. \A f \in Ends : /\ f # e => pc'[f] = pc[f] /\ held'[f] = held[f]
                      /\ f = e => pc'[f] = AfterText(t) /\ held'[f] = t
  BY <1>2 DEF EndType
<1>7. AfterText(t) = "emit" => t \notin received /\ shown[t] = 0
  BY DEF AfterText, MailOrder, MailType
<1>8. HeldReceived'
  BY <1>2, <1>6, <1>7 DEF HeldReceived
<1> QED BY <1>3, <1>4, <1>5, <1>8

LEMMA EmitTextStep ==
  ASSUME TextInv, NEW e \in Ends, EmitText(e)
  PROVE  TextInv'
<1> USE DEF TextInv
<1>1. /\ UNCHANGED <<stored, received, acked, cmd, sends, todo, held, chan>>
      /\ shown' = [shown EXCEPT ![held[e]] = @ + 1]
      /\ pc' = [pc EXCEPT ![e] = "ack"]
      /\ pc[e] = "emit"
  BY DEF EmitText, sendVars
<1>2. held[e] \in Texts /\ held[e] \in received /\ shown[held[e]] = 0
  BY <1>1 DEF HeldReceived, MailType
<1>3. \A t \in Texts : shown'[t] = IF t = held[e] THEN 1 ELSE shown[t]
  BY <1>1, <1>2 DEF MailType
<1>4. MailType' /\ SendType' /\ EndType'
  BY <1>1, <1>2 DEF MailType, SendType, EndType
<1>5. ChanType' /\ FramesHonest' /\ SendsStored'
  BY <1>1 DEF ChanType, FramesHonest, Honest, SendsStored
<1>6. MailOrder'
  BY <1>1, <1>2, <1>3 DEF MailOrder
<1>7. \A f \in Ends : f # e => pc'[f] = pc[f]
  BY <1>1 DEF EndType
<1>8. pc'[e] = "ack"
  BY <1>1 DEF EndType
<1>9. ASSUME NEW f \in Ends, pc'[f] = "emit"
      PROVE  shown'[held[f]] = 0
  <2>1. f # e /\ pc[f] = "emit"
    BY <1>7, <1>8, <1>9
  <2>2. held[f] # held[e] /\ held[f] \in Texts /\ shown[held[f]] = 0
    BY <1>1, <2>1 DEF HeldReceived, MailType
  <2> QED BY <1>3, <2>2
<1>10. HeldReceived'
  BY <1>1, <1>2, <1>7, <1>8, <1>9 DEF HeldReceived
<1> QED BY <1>4, <1>5, <1>6, <1>10

LEMMA SendAckStep ==
  ASSUME TextInv, NEW e \in Ends, SendAck(e)
  PROVE  TextInv'
<1> USE DEF TextInv
<1>1. held[e] \in received /\ held[e] \in Texts
  BY DEF SendAck, HeldReceived, MailType
<1>2. /\ UNCHANGED <<mailVars, sendVars, todo>>
      /\ held' = [held EXCEPT ![e] = NoText]
      /\ pc' = [pc EXCEPT ![e] = "loop"]
  BY DEF SendAck
<1>3. ChanType' /\ FramesHonest'
  BY <1>1, <1>2, SendFrame, FrameTypes DEF SendAck, mailVars
<1>4. /\ EndType'
      /\ \A f \in Ends : pc'[f] \in {"emit", "ack"} => pc'[f] = pc[f] /\ held'[f] = held[f]
      /\ \A f \in Ends : todo'[f] \subseteq stored
  BY <1>2 DEF EndType, SendsStored
<1> QED BY <1>2, <1>3, <1>4, EndsStep

LEMMA RecvAckStep ==
  ASSUME TextInv, NEW e \in Ends, NEW t \in Texts, RecvAck(e, t)
  PROVE  TextInv'
<1> USE DEF TextInv
<1>1. t \in received
  BY HeadHonest, FrameTypes DEF RecvAck
<1>2. UNCHANGED <<stored, received, shown, sendVars, endVars>> /\ acked' = acked \cup {t}
  BY DEF RecvAck
<1>3. ChanType' /\ FramesHonest'
  BY <1>2, ReadFrames DEF RecvAck
<1>4. MailType' /\ MailOrder'
  BY <1>1, <1>2 DEF MailType, MailOrder
<1>5. SendType' /\ EndType' /\ SendsStored' /\ HeldReceived'
  BY <1>2 DEF SendType, EndType, SendsStored, HeldReceived, sendVars, endVars
<1> QED BY <1>3, <1>4, <1>5

LEMMA DropFrameStep ==
  ASSUME TextInv, NEW e \in Ends, DropFrame(e)
  PROVE  TextInv'
<1>1. UNCHANGED <<mailVars, sendVars, endVars>>
  BY DEF DropFrame
<1>2. ChanType' /\ FramesHonest'
  BY <1>1, ReadFrames DEF TextInv, DropFrame, mailVars
<1> QED BY <1>1, <1>2, EndsStep DEF TextInv, EndType, SendsStored, endVars

LEMMA StoreTextStep ==
  ASSUME TextInv, NEW t \in Texts, StoreText(t)
  PROVE  TextInv'
<1> USE DEF TextInv
<1>1. /\ stored' = stored \cup {t}
      /\ cmd' = [cmd EXCEPT ![Sender[t]] = t]
      /\ UNCHANGED <<received, shown, acked, sends, pc, todo, held, chan>>
  BY DEF StoreText, endVars
<1>2. MailType' /\ SendType' /\ EndType' /\ ChanType'
  BY <1>1 DEF MailType, SendType, EndType, ChanType
<1>3. MailOrder' /\ SendsStored' /\ HeldReceived'
  BY <1>1 DEF MailOrder, SendsStored, HeldReceived, SendType
<1>4. FramesHonest'
  BY <1>1 DEF FramesHonest, Honest
<1> QED BY <1>2, <1>3, <1>4

LEMMA LookupLinkStep ==
  ASSUME TextInv, DialType, NEW n \in Nodes, LookupLink(n)
  PROVE  TextInv'
<1> USE DEF TextInv
<1>1. UNCHANGED <<mailVars, endVars, chan>>
  BY DEF LookupLink
<1>2. /\ cmd' = [cmd EXCEPT ![n] = NoText]
      /\ sends' \subseteq sends \cup {<<link[n], cmd[n]>>}
      /\ link[n] = NoConn => sends' = sends
      /\ cmd[n] # NoText
  BY DEF LookupLink
<1>3. SendType' /\ SendsStored'
  BY <1>1, <1>2 DEF SendType, SendsStored, DialType, mailVars, endVars
<1>4. MailType' /\ EndType' /\ ChanType' /\ MailOrder' /\ FramesHonest' /\ HeldReceived'
  BY <1>1 DEF MailType, EndType, ChanType, MailOrder, FramesHonest, Honest, HeldReceived,
              mailVars, endVars
<1> QED BY <1>3, <1>4

LEMMA SpawnedSendStep ==
  ASSUME TextInv, NEW c \in Conns, NEW t \in Texts, SpawnedSend(c, t)
  PROVE  TextInv'
<1> USE DEF TextInv
<1>1. UNCHANGED <<mailVars, cmd, endVars>> /\ sends' \subseteq sends /\ t \in stored
  BY DEF SpawnedSend, SendsStored
<1>2. <<c, Sender[t]>> \in Ends
  BY SenderAssumption DEF Ends
<1>3. ChanType' /\ FramesHonest'
  BY <1>1, <1>2, SendFrame, FrameTypes DEF SpawnedSend, mailVars
<1>4. SendType' /\ SendsStored'
  BY <1>1 DEF SendType, SendsStored, mailVars, endVars
<1>5. MailType' /\ EndType' /\ MailOrder' /\ HeldReceived'
  BY <1>1 DEF MailType, EndType, MailOrder, HeldReceived, mailVars, endVars
<1> QED BY <1>3, <1>4, <1>5

LEMMA LoseStep ==
  ASSUME TextInv, NEW S \in SUBSET Conns, Lose(S)
  PROVE  TextInv'
<1>1. UNCHANGED <<mailVars, sendVars, endVars>>
  BY DEF Lose
<1>2. ChanType' /\ FramesHonest'
  BY <1>1, BreakFrames DEF TextInv, Lose, mailVars
<1> QED BY <1>1, <1>2, EndsStep DEF TextInv, EndType, SendsStored, endVars

LEMMA CrashStep ==
  ASSUME TextInv, NEW n \in Nodes, Crash(n)
  PROVE  TextInv'
<1> USE DEF TextInv
<1>1. /\ UNCHANGED mailVars
      /\ cmd' = [cmd EXCEPT ![n] = NoText]
      /\ sends' \subseteq sends
      /\ pc' = [e \in Ends |-> IF e[2] = n THEN "none" ELSE pc[e]]
      /\ todo' = [e \in Ends |-> IF e[2] = n THEN {} ELSE todo[e]]
      /\ held' = [e \in Ends |-> IF e[2] = n THEN NoText ELSE held[e]]
  BY DEF Crash
<1>2. ChanType' /\ FramesHonest'
  BY <1>1, BreakFrames DEF Crash, mailVars
<1>3. SendType' /\ SendsStored'
  BY <1>1 DEF SendType, SendsStored, mailVars, EndType
<1>4. EndType' /\ MailType' /\ MailOrder'
  BY <1>1 DEF EndType, MailType, MailOrder, mailVars
<1>5. \A e \in Ends : pc'[e] \in {"emit", "ack"} => pc'[e] = pc[e] /\ held'[e] = held[e]
  BY <1>1
<1>6. HeldReceived'
  BY <1>1, <1>5 DEF HeldReceived, mailVars
<1> QED BY <1>2, <1>3, <1>4, <1>6

-----------------------------------------------------------------------------
LEMMA LinkInit == Init => LinkInv
<1> SUFFICES ASSUME Init PROVE LinkInv
  OBVIOUS
<1>1. MailType /\ DialType /\ SendType /\ EndType
  BY BoundAssumption DEF Init, MailType, DialType, SendType, EndType
<1>2. \A e \in Ends : chan[e] = << >>
  BY DEF Init
<1>3. ChanType /\ FramesHonest
  <2>1. << >> \in Seq(Frames) /\ Len(<< >>) = 0 /\ DOMAIN << >> = {}
    OBVIOUS
  <2>2. chan \in [Ends -> Seq(Frames)]
    BY <2>1 DEF Init
  <2> QED BY <1>2, <2>1, <2>2, BoundAssumption DEF ChanType, FramesHonest
<1>4. MailOrder /\ SendsStored /\ HeldReceived
  BY DEF Init, MailOrder, SendsStored, HeldReceived
<1> QED BY <1>1, <1>3, <1>4 DEF LinkInv, TypeOK

LEMMA LinkStep == LinkInv /\ [Next]_vars => LinkInv'
<1> SUFFICES ASSUME LinkInv, [Next]_vars PROVE LinkInv'
  OBVIOUS
<1>0. TextInv /\ TypeOK /\ DialType
  BY DEF LinkInv, TextInv, TypeOK
<1>1. CASE UNCHANGED vars
  <2>1. TextInv'
    BY <1>0, <1>1, QuietStep DEF vars, dialVars
  <2>2. DialType'
    BY <1>0, <1>1 DEF DialType, vars, dialVars
  <2> QED BY <2>1, <2>2 DEF LinkInv, TextInv, TypeOK
<1>2. CASE Next
  <2>1. DialType'
    BY <1>0, <1>2, DialTypeKept
  <2>2. TextInv'
    <3>1. ASSUME NEW e \in Ends, RunLink(e) PROVE TextInv'
      BY <1>0, <3>1, RegisterStep, ReadOutboxStep, FlushSendStep, RecvTextStep, RecvAckStep,
         EmitTextStep, SendAckStep DEF RunLink, RecvFrame
    <3>2. CASE LosePath
      <4>1. alive \in SUBSET Conns
        BY <1>0 DEF DialType
      <4> QED BY <1>0, <3>2, <4>1, LoseStep DEF LosePath
    <3>3. ASSUME NEW c \in Conns, LoseConn(c) PROVE TextInv'
      BY <1>0, <3>3, LoseStep DEF LoseConn
    <3>4. ASSUME NEW n \in Nodes,
                 \/ TickLinks(n) \/ TickFriends(n)
                 \/ DialConnect(n) \/ DialFail(n) \/ DialDone(n)
                 \/ LookupLink(n)
                 \/ Crash(n) \/ Restart(n)
          PROVE  TextInv'
      BY <1>0, <3>4, DialSteps, DialConnectStep, LookupLinkStep, CrashStep
    <3> QED
      BY <1>0, <1>2, <3>1, <3>2, <3>3, <3>4, DropFrameStep, StoreTextStep, SpawnedSendStep DEF Next
  <2> QED BY <2>1, <2>2 DEF LinkInv, TextInv, TypeOK
<1> QED BY <1>1, <1>2

(* Whatever happens to the links, no side ever has more unread frames than *)
(* the transport lets it, and every variable keeps its type.               *)
THEOREM LinkTyped == Spec => []TypeOK
<1>1. LinkInv => TypeOK
  BY DEF LinkInv
<1> QED BY <1>1, LinkInit, LinkStep, PTL DEF Spec

-----------------------------------------------------------------------------
LEMMA MailboxStep == LinkInv /\ [Next]_vars => [Mailbox!Next]_(Mailbox!mail)
<1> SUFFICES ASSUME LinkInv, Next PROVE Mailbox!Next \/ UNCHANGED mailVars
  BY DEF vars, mailVars, Mailbox!mail
<1> USE DEF LinkInv, TypeOK
<1>1. ASSUME NEW e \in Ends, NEW t \in Texts, RecvText(e, t)
      PROVE  Mailbox!Next \/ UNCHANGED mailVars
  <2>1. t \in stored
    BY <1>1, HeadHonest, FrameTypes DEF RecvText
  <2>2. received' = received \cup {t} /\ UNCHANGED <<stored, shown, acked>>
    BY <1>1 DEF RecvText
  <2>3. CASE t \in received
    BY <2>2, <2>3 DEF mailVars
  <2>4. CASE t \notin received
    BY <2>1, <2>2, <2>4 DEF Mailbox!Next, Mailbox!Receive
  <2> QED BY <2>3, <2>4
<1>2. ASSUME NEW e \in Ends, NEW t \in Texts, RecvAck(e, t)
      PROVE  Mailbox!Next \/ UNCHANGED mailVars
  <2>1. t \in received /\ t \in stored
    BY <1>2, HeadHonest, FrameTypes DEF RecvAck, MailOrder
  <2>2. acked' = acked \cup {t} /\ UNCHANGED <<stored, received, shown>>
    BY <1>2 DEF RecvAck
  <2>3. CASE t \in acked
    BY <2>2, <2>3 DEF mailVars
  <2>4. CASE t \notin acked
    BY <2>1, <2>2, <2>4 DEF Mailbox!Next, Mailbox!Acknowledge
  <2> QED BY <2>3, <2>4
<1>3. ASSUME NEW e \in Ends, EmitText(e)
      PROVE  Mailbox!Next
  <2>1. held[e] \in received /\ held[e] \in Texts /\ shown[held[e]] = 0
    BY <1>3 DEF EmitText, HeldReceived, MailType
  <2>2. shown' = [shown EXCEPT ![held[e]] = 1] /\ UNCHANGED <<stored, received, acked>>
    BY <1>3, <2>1 DEF EmitText
  <2> QED BY <2>1, <2>2 DEF Mailbox!Next, Mailbox!Show
<1>4. ASSUME NEW t \in Texts, StoreText(t)
      PROVE  Mailbox!Next
  BY <1>4 DEF StoreText, Mailbox!Next, Mailbox!Store
<1>5. ASSUME NEW e \in Ends, RunLink(e)
      PROVE  Mailbox!Next \/ UNCHANGED mailVars
  <2>1. CASE RecvFrame(e)
    BY <1>1, <1>2, <2>1 DEF RecvFrame
  <2>2. CASE EmitText(e)
    BY <1>3, <2>2
  <2>3. CASE Register(e) \/ ReadOutbox(e) \/ FlushSend(e) \/ SendAck(e) \/ LinkEnd(e)
    BY <2>3 DEF Register, ReadOutbox, FlushSend, SendAck, LinkEnd
  <2> QED BY <1>5, <2>1, <2>2, <2>3 DEF RunLink
<1>6. ASSUME NEW n \in Nodes,
             \/ TickLinks(n) \/ TickFriends(n)
             \/ DialConnect(n) \/ DialFail(n) \/ DialDone(n)
             \/ LookupLink(n)
             \/ Crash(n) \/ Restart(n)
      PROVE  UNCHANGED mailVars
  BY <1>6 DEF TickLinks, TickFriends, DialConnect, DialFail, DialDone, LookupLink, Crash, Restart
<1>7. ASSUME NEW e \in Ends, DropFrame(e) PROVE UNCHANGED mailVars
  BY <1>7 DEF DropFrame
<1>8. ASSUME NEW c \in Conns, NEW t \in Texts, SpawnedSend(c, t) PROVE UNCHANGED mailVars
  BY <1>8 DEF SpawnedSend
<1>9. ASSUME NEW c \in Conns, LoseConn(c) PROVE UNCHANGED mailVars
  BY <1>9 DEF LoseConn, Lose
<1>10. CASE LosePath
  BY <1>10 DEF LosePath, Lose
<1> QED
  BY <1>4, <1>5, <1>6, <1>7, <1>8, <1>9, <1>10 DEF Next

(* The links implement the mailbox: a text is received, shown and          *)
(* acknowledged at most once and in this order, over any number of         *)
(* connections, lost frames, duplicates and restarts.                      *)
THEOREM LinkImplementsMailbox == Spec => MailboxSpec
<1>1. Init => Mailbox!Init
  BY DEF Init, Mailbox!Init
<1> QED BY <1>1, LinkInit, LinkStep, MailboxStep, PTL DEF Spec, MailboxSpec, Mailbox!Spec

-----------------------------------------------------------------------------
(* A text that waits is under way.  An end that reads has nothing in its   *)
(* hands, so what it takes off the connection is not put down.             *)
HandsFree == \A e \in Ends : pc[e] \notin {"emit", "ack"} => held[e] = NoText

(* A frame that is sent joins those on the connection...                   *)
LEMMA SendKeeps ==
  ASSUME ChanType, NEW e \in Ends, NEW f \in Frames, Send(e, f)
  PROVE  /\ \A g \in Ends, h \in Frames : InFrames(g, h) => InFrames(g, h)'
         /\ e[1] \in alive => InFrames(e, f)'
<1>1. CASE UNCHANGED chan /\ e[1] \notin alive
  BY <1>1 DEF InFrames
<1>2. CASE CanSend(e) /\ chan' = [chan EXCEPT ![e] = Append(@, f)]
  <2> DEFINE q == chan[e]
  <2>1. q \in Seq(Frames)
    BY DEF ChanType
  <2>2. /\ \A i \in DOMAIN q : i \in DOMAIN Append(q, f) /\ Append(q, f)[i] = q[i]
        /\ \E i \in DOMAIN Append(q, f) : Append(q, f)[i] = f
    <3> HIDE DEF q
    <3>1. Len(q) \in Nat /\ DOMAIN q = 1 .. Len(q) /\ DOMAIN Append(q, f) = 1 .. (Len(q) + 1)
      BY <2>1
    <3>2. Append(q, f)[Len(q) + 1] = f /\ Len(q) + 1 \in 1 .. (Len(q) + 1)
      BY <2>1, <3>1
    <3> QED
      BY <2>1, <3>1, <3>2
  <2>3. \A g \in Ends : chan'[g] = IF g = e THEN Append(q, f) ELSE chan[g]
    BY <1>2 DEF ChanType
  <2> HIDE DEF q
  <2>4. InFrames(e, f)'
    BY <2>2, <2>3 DEF InFrames
  <2>5. ASSUME NEW g \in Ends, NEW h \in Frames, InFrames(g, h) PROVE InFrames(g, h)'
    BY <2>2, <2>3, <2>5 DEF InFrames, q
  <2> QED
    BY <2>4, <2>5
<1> QED
  BY <1>1, <1>2 DEF Send

(* ...and reading takes the first away and no other.                       *)
LEMMA ReadKeeps ==
  ASSUME ChanType, NEW e \in Ends, Incoming(e), Read(e)
  PROVE  \A g \in Ends, h \in Frames :
            InFrames(g, h) => InFrames(g, h)' \/ (g = Far(e) /\ h = Head(chan[Far(e)]))
<1> DEFINE q == chan[Far(e)]
<1>1. Far(e) \in Ends /\ q \in Seq(Frames) /\ q # << >>
  BY FarEnd DEF ChanType, Incoming
<1>2. \A i \in DOMAIN q : q[i] = Head(q) \/ \E j \in DOMAIN Tail(q) : Tail(q)[j] = q[i]
  <2> HIDE DEF q
  <2>1. /\ Len(q) \in Nat /\ Len(q) >= 1 /\ DOMAIN q = 1 .. Len(q) /\ Head(q) = q[1]
        /\ DOMAIN Tail(q) = 1 .. (Len(q) - 1) /\ \A j \in 1 .. (Len(q) - 1) : Tail(q)[j] = q[j + 1]
    BY <1>1
  <2> TAKE i \in DOMAIN q
  <2>2. i = 1 \/ (i - 1 \in 1 .. (Len(q) - 1) /\ (i - 1) + 1 = i)
    BY <2>1
  <2> QED
    BY <2>1, <2>2
<1>3. \A g \in Ends : chan'[g] = IF g = Far(e) THEN Tail(q) ELSE chan[g]
  BY <1>1 DEF ChanType, Read
<1> SUFFICES ASSUME NEW g \in Ends, NEW h \in Frames, InFrames(g, h)
             PROVE  InFrames(g, h)' \/ (g = Far(e) /\ h = Head(chan[Far(e)]))
  OBVIOUS
<1>4. CASE g # Far(e)
  BY <1>3, <1>4 DEF InFrames
<1>5. CASE g = Far(e)
  <2>1. PICK i \in DOMAIN q : q[i] = h
    BY <1>5 DEF InFrames
  <2>2. chan'[g] = Tail(q)
    BY <1>3, <1>5
  <2> HIDE DEF q
  <2>3. h = Head(q) \/ InFrames(g, h)'
    BY <1>2, <2>1, <2>2 DEF InFrames
  <2> QED
    BY <1>5, <2>3 DEF q
<1> QED
  BY <1>4, <1>5

LEMMA HandsStep ==
  ASSUME TypeOK, HandsFree, [Next]_vars
  PROVE  HandsFree'
<1>a. EndType
  BY DEF TypeOK
<1>1. CASE UNCHANGED <<pc, held>>
  BY <1>1 DEF HandsFree
<1>2. ASSUME NEW n \in Nodes, DialConnect(n) PROVE HandsFree'
  <2>1. PICK c \in Conns : /\ Idle(c) /\ pc' = [e \in Ends |-> IF e[1] = c THEN "register" ELSE pc[e]]
                          /\ held' = held
    BY <1>2 DEF DialConnect
  <2>2. \A e \in Ends : e[1] = c => pc[e] = "none"
    BY <2>1 DEF Idle, Ends
  <2> QED
    BY <2>1, <2>2 DEF HandsFree
<1>3. ASSUME NEW e \in Ends, Register(e) \/ ReadOutbox(e) \/ FlushSend(e) \/ LinkEnd(e) PROVE HandsFree'
  BY <1>a, <1>3 DEF Register, ReadOutbox, FlushSend, Flushing, LinkEnd, HandsFree, EndType
<1>4. ASSUME NEW e \in Ends, NEW t \in Texts, RecvText(e, t) PROVE HandsFree'
  BY <1>a, <1>4 DEF RecvText, AfterText, HandsFree, EndType
<1>5. ASSUME NEW e \in Ends, EmitText(e) \/ SendAck(e) PROVE HandsFree'
  BY <1>a, <1>5 DEF EmitText, SendAck, HandsFree, EndType
<1>6. ASSUME NEW n \in Nodes, Crash(n) PROVE HandsFree'
  BY <1>a, <1>6 DEF Crash, HandsFree, EndType
<1> QED
  BY <1>1, <1>2, <1>3, <1>4, <1>5, <1>6
     DEF Next, vars, dialVars, endVars, RunLink, RecvFrame, TickLinks, TickFriends, DialFail, DialDone,
         LookupLink, Restart, DropFrame, RecvAck, StoreText, SpawnedSend, LosePath, LoseConn, Lose

(* A text waits for its acknowledgement on the registered link, which is   *)
(* up and past reading the outbox.                                         *)
Waits(n, t) ==
    /\ t \in Outbox(n) /\ cmd[n] # t /\ link[n] # NoConn /\ link[n] \in alive
    /\ pc[<<link[n], n>>] \notin {"register", "outbox"}

OnItsWay(n, t) ==
    \/ <<link[n], t>> \in sends
    \/ t \in todo[<<link[n], n>>]
    \/ InFrames(<<link[n], n>>, Text(t))
    \/ held[Far(<<link[n], n>>)] = t
    \/ InFrames(Far(<<link[n], n>>), Ack(t))

LEMMA WaitsOnItsWay ==
  ASSUME TypeOK
  PROVE  NoTextForgotten <=> \A n \in Nodes, t \in Texts : Waits(n, t) => OnItsWay(n, t)
<1>1. \A n \in Nodes : \A t \in Outbox(n) : t \in Texts /\ Sender[t] = n
  BY DEF TypeOK, MailType, Outbox
<1>2. \A n \in Nodes : \A t \in Outbox(n) : UnderWay(link[n], t) <=> OnItsWay(n, t)
  BY <1>1 DEF UnderWay, OnItsWay
<1> QED
  BY <1>1, <1>2 DEF NoTextForgotten, Waits

(* A text and an acknowledgement are frames, and tell which text they are. *)
LEMMA FramesTyped ==
  ASSUME NEW t \in Texts
  PROVE  Text(t) \in Frames /\ Ack(t) \in Frames /\ \A u \in Texts : /\ Text(t) # Ack(u)
                                                                     /\ Text(t) = Text(u) => t = u
                                                                     /\ Ack(t) = Ack(u) => t = u
BY DEF Text, Ack, Frames

LEMMA FarFar ==
  ASSUME NEW e \in Ends
  PROVE  Far(Far(e)) = e /\ Far(e) \in Ends /\ Far(e)[1] = e[1]
BY NodesAssumption DEF Far, Other, Ends

LEMMA OnItsWayStep ==
  ASSUME LinkInv, HandsFree, ~DropFrames, [Next]_vars, NEW n \in Nodes, NEW t \in Texts,
         Waits(n, t) => OnItsWay(n, t), Waits(n, t)'
  PROVE  OnItsWay(n, t)'
<1> DEFINE c == link[n]
<1> DEFINE e == <<c, n>>
<1>a. MailType /\ DialType /\ SendType /\ EndType /\ ChanType
  BY DEF LinkInv, TypeOK
<1>b. Text(t) \in Frames /\ Ack(t) \in Frames
  BY FramesTyped
<1>c. link'[n] # NoConn /\ link'[n] \in alive' /\ t \in Outbox(n)' /\ cmd'[n] # t
      /\ pc'[<<link'[n], n>>] \notin {"register", "outbox"}
  BY DEF Waits
<1>1. CASE UNCHANGED <<link, alive, pc, cmd, stored, acked, sends, todo, chan, held>>
  BY <1>1 DEF Waits, OnItsWay, Outbox, InFrames
<1>2. ASSUME NEW m \in Nodes, DialConnect(m) PROVE OnItsWay(n, t)'
  <2>1. PICK d \in Conns : /\ pc' = [f \in Ends |-> IF f[1] = d THEN "register" ELSE pc[f]]
                          /\ alive' = alive \cup {d}
    BY <1>2 DEF DialConnect
  <2>2. UNCHANGED <<link, cmd, stored, acked, sends, todo, chan, held>>
    BY <1>2 DEF DialConnect, mailVars, sendVars
  <2>3. c \in Conns /\ e \in Ends
    BY <1>a, <1>c, <2>2 DEF DialType, Ends
  <2>4. c # d
    BY <1>c, <2>1, <2>2, <2>3
  <2>5. c \in alive /\ pc'[e] = pc[e]
    BY <1>c, <2>1, <2>2, <2>3, <2>4
  <2>6. OnItsWay(n, t)
    BY <1>c, <2>2, <2>5 DEF Waits, Outbox
  <2> QED
    BY <2>2, <2>6 DEF OnItsWay, InFrames
<1>d. ASSUME UNCHANGED <<link, alive>> PROVE c \in Conns /\ c \in alive /\ e \in Ends /\ link'[n] = c
  BY <1>a, <1>c, <1>d DEF DialType, Ends
<1>3. ASSUME NEW f \in Ends, Register(f) PROVE OnItsWay(n, t)'
  <2>1. /\ link' = [link EXCEPT ![f[2]] = f[1]] /\ pc' = [pc EXCEPT ![f] = "outbox"]
        /\ UNCHANGED <<alive, cmd, stored, acked, sends, todo, chan, held>>
    BY <1>3 DEF Register, mailVars, sendVars
  <2>2. f = <<f[1], f[2]>> /\ f[2] \in Nodes
    BY DEF Ends
  <2>3. f[2] # n
    BY <1>a, <1>c, <2>1, <2>2 DEF DialType, EndType
  <2>4. link'[n] = c /\ e # f /\ pc'[e] = pc[e]
    BY <1>a, <2>1, <2>2, <2>3 DEF DialType, EndType
  <2>5. OnItsWay(n, t)
    BY <1>c, <2>1, <2>4 DEF Waits, Outbox
  <2> QED
    BY <2>1, <2>4, <2>5 DEF OnItsWay, InFrames
<1>4. ASSUME NEW f \in Ends, ReadOutbox(f) PROVE OnItsWay(n, t)'
  <2>1. /\ todo' = [todo EXCEPT ![f] = Outbox(f[2])]
        /\ \A g \in Ends : g # f => pc'[g] = pc[g]
        /\ UNCHANGED <<link, alive, cmd, stored, acked, sends, chan, held>>
    BY <1>a, <1>4 DEF ReadOutbox, Flushing, mailVars, sendVars, EndType
  <2>2. c \in Conns /\ c \in alive /\ e \in Ends /\ link'[n] = c
    BY <1>d, <2>1
  <2>3. CASE f = e
    <3>1. t \in todo'[e]
      BY <1>a, <1>c, <2>1, <2>2, <2>3 DEF Outbox, EndType
    <3> QED
      BY <2>2, <3>1 DEF OnItsWay
  <2>4. CASE f # e
    <3>1. todo'[e] = todo[e] /\ pc'[e] = pc[e]
      BY <1>a, <2>1, <2>2, <2>4 DEF EndType
    <3>2. OnItsWay(n, t)
      BY <1>c, <2>1, <2>2, <3>1 DEF Waits, Outbox
    <3> QED
      BY <2>1, <3>1, <3>2 DEF OnItsWay, InFrames
  <2> QED
    BY <2>3, <2>4
<1>5. ASSUME NEW f \in Ends, FlushSend(f) PROVE OnItsWay(n, t)'
  <2>1. PICK u \in todo[f] : /\ Send(f, Text(u))
                             /\ Flushing(f, IF f[1] \in alive THEN todo[f] \ {u} ELSE {})
    BY <1>5 DEF FlushSend
  <2>2. /\ u \in Texts /\ Text(u) \in Frames /\ pc[f] = "flush"
        /\ todo' = [todo EXCEPT ![f] = IF f[1] \in alive THEN todo[f] \ {u} ELSE {}]
        /\ \A g \in Ends : g # f => pc'[g] = pc[g]
        /\ UNCHANGED <<link, alive, cmd, stored, acked, sends, held>>
    BY <1>a, <1>5, <2>1, FramesTyped DEF FlushSend, Flushing, mailVars, sendVars, EndType
  <2>3. c \in Conns /\ c \in alive /\ e \in Ends /\ link'[n] = c /\ Far(e) \in Ends
    BY <1>d, <2>2, FarFar
  <2>4. pc[e] \notin {"register", "outbox"}
    BY <1>c, <2>2, <2>3
  <2>5. OnItsWay(n, t)
    BY <1>c, <2>2, <2>3, <2>4 DEF Waits, Outbox
  <2>6. /\ InFrames(e, Text(t)) => InFrames(e, Text(t))'
        /\ InFrames(Far(e), Ack(t)) => InFrames(Far(e), Ack(t))'
        /\ f[1] \in alive => InFrames(f, Text(u))'
    BY <1>a, <1>b, <2>1, <2>2, <2>3, SendKeeps
  <2>7. t \in todo[e] => t \in todo'[e] \/ InFrames(e, Text(t))'
    BY <1>a, <2>2, <2>3, <2>6 DEF EndType
  <2> QED
    BY <2>2, <2>3, <2>5, <2>6, <2>7 DEF OnItsWay
<1>6. ASSUME NEW f \in Ends, NEW u \in Texts, RecvText(f, u) PROVE OnItsWay(n, t)'
  <2>1. /\ Incoming(f) /\ Read(f) /\ Head(chan[Far(f)]) = Text(u) /\ pc[f] = "loop"
        /\ held' = [held EXCEPT ![f] = u] /\ \A g \in Ends : g # f => pc'[g] = pc[g]
        /\ UNCHANGED <<link, alive, cmd, stored, acked, sends, todo>>
    BY <1>a, <1>6 DEF RecvText, Incoming, sendVars, EndType
  <2>2. c \in Conns /\ c \in alive /\ e \in Ends /\ link'[n] = c /\ Far(e) \in Ends /\ Far(Far(e)) = e
    BY <1>d, <2>1, FarFar
  <2>3. pc[e] \notin {"register", "outbox"}
    BY <1>c, <2>1, <2>2
  <2>4. OnItsWay(n, t)
    BY <1>c, <2>1, <2>2, <2>3 DEF Waits, Outbox
  <2>5. /\ InFrames(e, Text(t)) => InFrames(e, Text(t))' \/ (e = Far(f) /\ Text(t) = Text(u))
        /\ InFrames(Far(e), Ack(t)) => InFrames(Far(e), Ack(t))' \/ Ack(t) = Text(u)
    BY <1>a, <1>b, <2>1, <2>2, ReadKeeps
  <2>6. Ack(t) # Text(u) /\ (Text(t) = Text(u) => t = u) /\ t # NoText
    BY FramesTyped, NoneAssumption
  <2>7. e = Far(f) => f = Far(e)
    BY FarFar
  <2>8. held[f] = NoText
    BY <2>1 DEF HandsFree
  <2>9. held[Far(e)] = t \/ (e = Far(f) /\ t = u) => held'[Far(e)] = t
    BY <1>a, <2>1, <2>2, <2>6, <2>7, <2>8 DEF EndType
  <2> QED
    BY <2>1, <2>2, <2>4, <2>5, <2>6, <2>9 DEF OnItsWay
<1>7. ASSUME NEW f \in Ends, NEW u \in Texts, RecvAck(f, u) PROVE OnItsWay(n, t)'
  <2>1. /\ Incoming(f) /\ Read(f) /\ Head(chan[Far(f)]) = Ack(u) /\ acked' = acked \cup {u}
        /\ UNCHANGED <<link, alive, cmd, stored, sends, todo, held, pc>>
    BY <1>7 DEF RecvAck, sendVars, endVars
  <2>2. c \in Conns /\ c \in alive /\ e \in Ends /\ link'[n] = c /\ Far(e) \in Ends
    BY <1>d, <2>1, FarFar
  <2>3. t # u
    BY <1>c, <2>1 DEF Outbox
  <2>4. OnItsWay(n, t)
    BY <1>c, <2>1, <2>2 DEF Waits, Outbox
  <2>5. /\ InFrames(e, Text(t)) => InFrames(e, Text(t))' \/ Text(t) = Ack(u)
        /\ InFrames(Far(e), Ack(t)) => InFrames(Far(e), Ack(t))' \/ Ack(t) = Ack(u)
    BY <1>a, <1>b, <2>1, <2>2, ReadKeeps
  <2>6. Text(t) # Ack(u) /\ Ack(t) # Ack(u)
    BY <2>3, FramesTyped
  <2> QED
    BY <2>1, <2>2, <2>4, <2>5, <2>6 DEF OnItsWay
<1>8. ASSUME NEW f \in Ends, EmitText(f) PROVE OnItsWay(n, t)'
  <2>1. /\ pc[f] = "emit" /\ pc' = [pc EXCEPT ![f] = "ack"]
        /\ UNCHANGED <<link, alive, cmd, stored, acked, sends, todo, held, chan>>
    BY <1>8 DEF EmitText, sendVars
  <2>2. c \in Conns /\ c \in alive /\ e \in Ends /\ link'[n] = c
    BY <1>d, <2>1
  <2>3. pc[e] \notin {"register", "outbox"}
    BY <1>a, <1>c, <2>1, <2>2 DEF EndType
  <2>4. OnItsWay(n, t)
    BY <1>c, <2>1, <2>2, <2>3 DEF Waits, Outbox
  <2> QED
    BY <2>1, <2>4 DEF OnItsWay, InFrames
<1>9. ASSUME NEW f \in Ends, SendAck(f) PROVE OnItsWay(n, t)'
  <2>1. /\ pc[f] = "ack" /\ pc' = [pc EXCEPT ![f] = "loop"] /\ held' = [held EXCEPT ![f] = NoText]
        /\ Send(f, Ack(held[f]))
        /\ UNCHANGED <<link, alive, cmd, stored, acked, sends, todo>>
    BY <1>9 DEF SendAck, mailVars, sendVars
  <2>2. c \in Conns /\ c \in alive /\ e \in Ends /\ link'[n] = c /\ Far(e) \in Ends /\ Far(e)[1] = c
    BY <1>d, <2>1, FarFar
  <2>3. pc[e] \notin {"register", "outbox"}
    BY <1>a, <1>c, <2>1, <2>2 DEF EndType
  <2>4. OnItsWay(n, t)
    BY <1>c, <2>1, <2>2, <2>3 DEF Waits, Outbox
  <2>5. PICK u \in Texts : u = held[f]
    BY <1>a, <2>1 DEF LinkInv, HeldReceived, MailType
  <2>6. /\ InFrames(e, Text(t)) => InFrames(e, Text(t))'
        /\ InFrames(Far(e), Ack(t)) => InFrames(Far(e), Ack(t))'
        /\ f[1] \in alive => InFrames(f, Ack(u))'
    <3>1. Ack(u) \in Frames /\ Send(f, Ack(u))
      BY <2>1, <2>5, FramesTyped
    <3> QED
      BY <1>a, <1>b, <2>2, <3>1, SendKeeps
  <2>7. held[Far(e)] = t => held'[Far(e)] = t \/ InFrames(Far(e), Ack(t))'
    <3>1. CASE f = Far(e)
      BY <2>2, <2>5, <2>6, <3>1
    <3>2. CASE f # Far(e)
      BY <1>a, <2>1, <2>2, <3>2 DEF EndType
    <3> QED
      BY <3>1, <3>2
  <2> QED
    BY <2>1, <2>2, <2>4, <2>6, <2>7 DEF OnItsWay
<1>10. ASSUME NEW f \in Ends, LinkEnd(f) PROVE OnItsWay(n, t)'
  <2>1. /\ f[1] \notin alive /\ pc[f] = "loop" /\ pc' = [pc EXCEPT ![f] = "none"]
        /\ link' = IF link[f[2]] = f[1] THEN [link EXCEPT ![f[2]] = NoConn] ELSE link
        /\ UNCHANGED <<alive, cmd, stored, acked, sends, todo, held, chan>>
    BY <1>10 DEF LinkEnd, mailVars, sendVars
  <2>2. link'[n] = c /\ c \in Conns /\ e \in Ends
    BY <1>a, <1>c, <2>1 DEF DialType, Ends
  <2>3. pc[e] \notin {"register", "outbox"}
    BY <1>a, <1>c, <2>1, <2>2 DEF EndType
  <2>4. OnItsWay(n, t)
    BY <1>c, <2>1, <2>2, <2>3 DEF Waits, Outbox
  <2> QED
    BY <2>1, <2>2, <2>4 DEF OnItsWay, InFrames
<1>11. ASSUME NEW u \in Texts, StoreText(u) PROVE OnItsWay(n, t)'
  <2>1. /\ Sender[u] \in Nodes /\ cmd[Sender[u]] = NoText /\ stored' = stored \cup {u}
        /\ cmd' = [cmd EXCEPT ![Sender[u]] = u]
        /\ UNCHANGED <<link, alive, acked, sends, todo, held, chan, pc>>
    BY <1>11, SenderAssumption DEF StoreText, endVars
  <2>2. t # u
    BY <1>a, <1>c, <2>1 DEF Outbox, SendType
  <2>3. t \in Outbox(n) /\ t # NoText
    BY <1>c, <2>1, <2>2, NoneAssumption DEF Outbox
  <2>4. cmd[n] # t
    BY <1>a, <1>c, <2>1, <2>3 DEF SendType
  <2>5. OnItsWay(n, t)
    BY <1>c, <2>1, <2>3, <2>4 DEF Waits
  <2> QED
    BY <2>1, <2>5 DEF OnItsWay, InFrames
<1>12. ASSUME NEW m \in Nodes, LookupLink(m) PROVE OnItsWay(n, t)'
  <2>1. /\ cmd' = [cmd EXCEPT ![m] = NoText]
        /\ sends' = IF link[m] = NoConn THEN sends ELSE sends \cup {<<link[m], cmd[m]>>}
        /\ UNCHANGED <<link, alive, stored, acked, todo, held, chan, pc>>
    BY <1>12 DEF LookupLink, mailVars, endVars
  <2>2. t \in Outbox(n) /\ link[n] # NoConn
    BY <1>c, <2>1 DEF Outbox
  <2>3. CASE m = n /\ cmd[n] = t
    <3>1. <<link[n], t>> \in sends'
      BY <2>1, <2>2, <2>3
    <3> QED
      BY <2>1, <3>1 DEF OnItsWay
  <2>4. CASE cmd[n] # t
    <3>1. OnItsWay(n, t)
      BY <1>c, <2>1, <2>2, <2>4 DEF Waits
    <3> QED
      BY <2>1, <3>1 DEF OnItsWay, InFrames
  <2>5. CASE m # n
    BY <1>a, <1>c, <2>1, <2>4, <2>5 DEF SendType
  <2> QED
    BY <2>3, <2>4, <2>5
<1>13. ASSUME NEW d \in Conns, NEW u \in Texts, SpawnedSend(d, u) PROVE OnItsWay(n, t)'
  <2> DEFINE f == <<d, Sender[u]>>
  <2>1. /\ Send(f, Text(u)) /\ sends' = sends \ {<<d, u>>} /\ f \in Ends /\ Text(u) \in Frames
        /\ UNCHANGED <<link, alive, cmd, stored, acked, todo, held, pc>>
    BY <1>13, SenderAssumption, FramesTyped DEF SpawnedSend, mailVars, endVars, Ends
  <2>2. c \in Conns /\ c \in alive /\ e \in Ends /\ link'[n] = c /\ Far(e) \in Ends
    BY <1>d, <2>1, FarFar
  <2>3. OnItsWay(n, t) /\ Sender[t] = n
    BY <1>c, <2>1, <2>2 DEF Waits, Outbox
  <2> HIDE DEF f
  <2>4. /\ InFrames(e, Text(t)) => InFrames(e, Text(t))'
        /\ InFrames(Far(e), Ack(t)) => InFrames(Far(e), Ack(t))'
        /\ f[1] \in alive => InFrames(f, Text(u))'
    BY <1>a, <1>b, <2>1, <2>2, SendKeeps
  <2>5. <<c, t>> \in sends => <<c, t>> \in sends' \/ InFrames(e, Text(t))'
    BY <2>1, <2>2, <2>3, <2>4 DEF f
  <2> QED
    BY <2>1, <2>2, <2>3, <2>4, <2>5 DEF OnItsWay
<1>14. ASSUME NEW S \in SUBSET Conns, Lose(S) PROVE OnItsWay(n, t)'
  <2>1. UNCHANGED <<link, cmd, stored, acked, sends, todo, held, pc>> /\ Break(S, {})
    BY <1>14 DEF Lose, mailVars, sendVars, endVars
  <2>2. /\ c \in Conns /\ c \in alive /\ c \notin S /\ e \in Ends /\ link'[n] = c
        /\ Far(e) \in Ends /\ Far(e)[1] = c
    BY <1>a, <1>c, <2>1, FarFar DEF DialType, Ends, Break
  <2>3. chan'[e] = chan[e] /\ chan'[Far(e)] = chan[Far(e)]
    BY <2>1, <2>2 DEF Break
  <2>4. OnItsWay(n, t)
    BY <1>c, <2>1, <2>2 DEF Waits, Outbox
  <2> QED
    BY <2>1, <2>2, <2>3, <2>4 DEF OnItsWay, InFrames
<1>15. ASSUME NEW m \in Nodes, Crash(m) PROVE OnItsWay(n, t)'
  <2>1. alive' = {}
    BY <1>a, <1>15 DEF Crash, Break, DialType
  <2> QED
    BY <1>c, <2>1
<1>16. ASSUME LosePath \/ \E d \in Conns : LoseConn(d) PROVE OnItsWay(n, t)'
  BY <1>a, <1>14, <1>16 DEF LosePath, LoseConn, DialType
<1>17. ASSUME NEW m \in Nodes, TickLinks(m) \/ TickFriends(m) \/ DialFail(m) \/ DialDone(m) \/ Restart(m)
       PROVE  OnItsWay(n, t)'
  BY <1>1, <1>17
     DEF TickLinks, TickFriends, DialFail, DialDone, Restart, mailVars, sendVars, endVars
<1>18. ASSUME NEW f \in Ends, RunLink(f) \/ DropFrame(f) PROVE OnItsWay(n, t)'
  BY <1>3, <1>4, <1>5, <1>6, <1>7, <1>8, <1>9, <1>10, <1>18 DEF RunLink, RecvFrame, DropFrame
<1> QED
  BY <1>1, <1>2, <1>11, <1>12, <1>13, <1>15, <1>16, <1>17, <1>18
     DEF Next, vars, mailVars, dialVars, sendVars, endVars

(* Every text that waits for its acknowledgement is under way on the       *)
(* registered link (run_link, flush_outbox, friend_send in                 *)
(* node/friends.rs), for any texts, connections, losses and restarts, as   *)
(* long as the rate limiter drops no frame.                                *)
THEOREM TextsUnderWay == ~DropFrames => (Spec => []NoTextForgotten)
<1> SUFFICES ASSUME ~DropFrames PROVE Spec => []NoTextForgotten
  OBVIOUS
<1>1. LinkInv /\ HandsFree /\ NoTextForgotten /\ [Next]_vars => (HandsFree /\ NoTextForgotten)'
  <2> SUFFICES ASSUME LinkInv, HandsFree, NoTextForgotten, [Next]_vars
               PROVE  (HandsFree /\ NoTextForgotten)'
    OBVIOUS
  <2>1. HandsFree' /\ TypeOK /\ TypeOK'
    BY HandsStep, LinkStep DEF LinkInv
  <2>2. \A n \in Nodes, t \in Texts : Waits(n, t)' => OnItsWay(n, t)'
    BY <2>1, WaitsOnItsWay, OnItsWayStep
  <2>3. NoTextForgotten'
    <3>1. ASSUME NEW n \in Nodes, NEW t \in Texts, Sender[t] = n
          PROVE  OnItsWay(n, t)' => UnderWay(link[n], t)'
      BY <3>1 DEF UnderWay, OnItsWay
    <3>2. \A n \in Nodes : \A t : t \in Outbox(n)' => t \in Texts /\ Sender[t] = n
      BY <2>1 DEF TypeOK, MailType, Outbox
    <3> QED
      BY <2>2, <3>1, <3>2 DEF NoTextForgotten, Waits
  <2> QED
    BY <2>1, <2>3
<1>2. Init => HandsFree /\ NoTextForgotten
  BY DEF Init, HandsFree, NoTextForgotten, Outbox
<1> QED
  BY <1>1, <1>2, LinkInit, LinkStep, PTL DEF Spec
=============================================================================
