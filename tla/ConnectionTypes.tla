---------------------------- MODULE ConnectionTypes ----------------------------
(* Type correctness of Connection for every modulus, k, w and bound.        *)
EXTENDS Connection, SequenceNumberProofs, SequenceTheorems

LEMMA Peers ==
  ASSUME NEW p \in Endpoint
  PROVE  /\ Peer(p) \in Endpoint
         /\ Peer(p) # p
         /\ Peer(Peer(p)) = p
         /\ Endpoint = {p, Peer(p)}
  BY EndpointAssumption DEF Endpoint, Peer

LEMMA ZeroType == 0 \in SeqNumber
  BY SeqModulusAssumption DEF SeqNumber

LEMMA FrameTypes ==
  ASSUME NEW s \in SeqNumber, NEW r \in SeqNumber, NEW vs \in Nat, NEW vr \in Nat
  PROVE  IFrame(s, r, vs, vr) \in Frame /\ SFrame(r, vs, vr) \in Frame
  BY ZeroType DEF IFrame, SFrame, Frame, FrameType

LEMMA UFrameTypes ==
  ASSUME SeqType, NEW p \in Endpoint, NEW type \in FrameType
  PROVE  UFrame(p, type) \in Frame
  BY ZeroType DEF SeqType, UFrame, Frame

WireType == wire \in [Endpoint -> Seq(Frame)]

LEMMA WritesType ==
  ASSUME WireType, NEW p \in Endpoint, NEW frames \in Seq(Frame), Writes(p, frames)
  PROVE  WireType'
  BY Peers DEF WireType, Writes

LEMMA HeadType ==
  ASSUME WireType, NEW p \in Endpoint, wire[p] # <<>>
  PROVE  Head(wire[p]) \in Frame /\ Tail(wire[p]) \in Seq(Frame)
  <1>1. wire[p] \in Seq(Frame)
    BY DEF WireType
  <1> QED
    BY <1>1, HeadTailProperties

LEMMA ReadsType ==
  ASSUME WireType, NEW p \in Endpoint, wire[p] # <<>>,
         NEW frames \in Seq(Frame), Reads(p, frames)
  PROVE  WireType'
  <1>1. Tail(wire[p]) \in Seq(Frame)
    BY HeadType
  <1>2. wire[Peer(p)] \o frames \in Seq(Frame)
    BY Peers DEF WireType
  <1> QED
    BY <1>1, <1>2, Peers DEF WireType, Reads

LEMMA RequeueType ==
  ASSUME TaskType, NEW p \in Endpoint, NEW cancelled, NEW added \in SUBSET Timers,
         Requeue(p, cancelled, added)
  PROVE  /\ queued' \in [Endpoint -> SUBSET Timers]
         /\ dropped' \in [Endpoint -> SUBSET Timers]
  <1>1. PICK gone \in SUBSET Duplicates(p, added) :
          /\ queued' = [queued EXCEPT ![p] = (@ \ (cancelled \cup gone)) \cup added]
          /\ dropped' = [dropped EXCEPT ![p] = (@ \cup gone) \ (cancelled \cup added)]
    BY DEF Requeue
  <1>2. gone \in SUBSET Timers
    BY DEF Duplicates, Alike, Timers
  <1> QED
    BY <1>1, <1>2 DEF TaskType

LEMMA RetimeType ==
  ASSUME TaskType, NEW p \in Endpoint, NEW cancelled, NEW added \in SUBSET Timers,
         Retime(p, cancelled, added)
  PROVE  /\ planned' \in [Endpoint -> SUBSET Timers]
         /\ queued' \in [Endpoint -> SUBSET Timers]
         /\ dropped' \in [Endpoint -> SUBSET Timers]
  <1>1. planned' = [planned EXCEPT ![p] = (@ \ cancelled) \cup added]
        /\ Requeue(p, cancelled, added)
    BY DEF Retime
  <1> QED
    BY <1>1, RequeueType DEF TaskType

LEMMA ReaderTypes ==
  ASSUME TypeOK, NEW p \in Endpoint,
         \/ UNCHANGED reader
         \/ \E to \in {"reading", "late", "failing", "done"} :
              reader' = [reader EXCEPT ![p] = to]
  PROVE  reader' \in [Endpoint -> {"reading", "late", "failing", "done"}]
  BY DEF TypeOK

LEMMA InHandTypes ==
  ASSUME TypeOK, NEW p \in Endpoint, FrameInHand(p)
  PROVE  reader' \in [Endpoint -> {"reading", "late", "failing", "done"}]
  BY ReaderTypes DEF FrameInHand

(* What an action leaves alone keeps its type. *)
LEMMA Same ==
  ASSUME TypeOK
  PROVE  /\ UNCHANGED seqVars => SeqType'
         /\ UNCHANGED closeVars => CloseType'
         /\ UNCHANGED transferVars => TransferType'
         /\ UNCHANGED deliveryVars => DeliveryType'
         /\ UNCHANGED taskVars => TaskType'
         /\ UNCHANGED tmVars => TmType'
         /\ UNCHANGED senderVars => SenderType'
         /\ UNCHANGED controlVars => ControlType'
  <1> USE DEF TypeOK
  <1>1. UNCHANGED seqVars => SeqType'
    BY DEF SeqType, seqVars
  <1>2. UNCHANGED closeVars => CloseType'
    BY DEF CloseType, closeVars
  <1>3. UNCHANGED transferVars => TransferType'
    BY DEF TransferType, transferVars
  <1>4. UNCHANGED deliveryVars => DeliveryType'
    BY DEF DeliveryType, deliveryVars
  <1>5. UNCHANGED taskVars => TaskType'
    BY DEF TaskType, taskVars
  <1>6. UNCHANGED tmVars => TmType'
    BY DEF TmType, tmVars
  <1>7. UNCHANGED senderVars => SenderType'
    BY DEF SenderType, senderVars
  <1>8. UNCHANGED controlVars => ControlType'
    BY DEF ControlType, controlVars, stopVars
  <1> QED
    BY <1>1, <1>2, <1>3, <1>4, <1>5, <1>6, <1>7, <1>8

(* The helpers *)

LEMMA NotifyAllType ==
  ASSUME SenderType, NEW p \in Endpoint, NotifyAll(p)
  PROVE  SenderType'
  BY DEF SenderType, NotifyAll

LEMMA DiffOfType ==
  ASSUME SeqType, NEW p \in Endpoint
  PROVE  getNumUnconfirmedAPdusSent(p) \in Nat
  BY DiffType DEF SeqType, getNumUnconfirmedAPdusSent, SeqNumber

LEMMA AcknowledgeType ==
  ASSUME SeqType, SenderType, NEW p \in Endpoint, NEW nr \in SeqNumber,
         Acknowledge(p, nr)
  PROVE  /\ acknowledgedSendSequenceNumber' \in [Endpoint -> SeqNumber]
         /\ acked' \in [Endpoint -> Nat]
         /\ SenderType'
  <1>1. sequenceNumberDiff(nr, acknowledgedSendSequenceNumber[p]) \in Nat
    BY DiffType DEF SeqType, SeqNumber
  <1>2. SenderType'
    BY NotifyAllType DEF Acknowledge, SenderType, senderVars
  <1> QED
    BY <1>1, <1>2 DEF Acknowledge, TakeAck, SeqType

LEMMA ConfirmType ==
  ASSUME SeqType, NEW p \in Endpoint, NEW r \in SeqNumber, NEW n \in Nat,
         Confirm(p, r, n)
  PROVE  /\ acknowledgedReceiveSequenceNumber' \in [Endpoint -> SeqNumber]
         /\ confirmed' \in [Endpoint -> Nat]
  BY DEF Confirm, SeqType

LEMMA CloseTypes ==
  ASSUME SeqType, CloseType, SenderType, NEW p \in Endpoint,
         NEW why \in Reasons, Close(p, why)
  PROVE  /\ closed' \in [Endpoint -> BOOLEAN]
         /\ closedBecause' \in [Endpoint -> Reasons]
         /\ acknowledgedSendSequenceNumber' \in [Endpoint -> SeqNumber]
         /\ acked' \in [Endpoint -> Nat]
         /\ SenderType'
  BY NotifyAllType DEF Close, SeqType, CloseType

LEMMA AckTimers ==
  ASSUME NEW p \in Endpoint, NEW nr
  PROVE  AckAdds(p, nr) \in SUBSET Timers
  BY DEF AckAdds, Timers

LEMMA ListenersType ==
  ASSUME TransferType, NEW p \in Endpoint
  PROVE  aSduListener[p] \in BOOLEAN /\ stopped[p] \in BOOLEAN
  BY DEF TransferType

----------------------------------------------------------------------------
(* The applications, the senders and the executor *)

LEMMA TypeApplication ==
  ASSUME TypeOK, NEW p \in Endpoint, AppClose(p) \/ setConnectionListener(p)
  PROVE  TypeOK'
  <1>1. CASE AppClose(p)
    <2>1. SeqType' /\ CloseType' /\ SenderType'
      BY <1>1, CloseTypes DEF TypeOK, AppClose, Reasons, SeqType, CloseType
    <2>2. reader' \in [Endpoint -> {"reading", "late", "failing", "done"}]
      BY <1>1, InHandTypes DEF AppClose
    <2> QED
      BY <1>1, <2>1, <2>2, Same DEF TypeOK, AppClose
  <1>2. CASE setConnectionListener(p)
    <2>1. TransferType'
      BY <1>2 DEF TypeOK, setConnectionListener, TransferType
    <2> QED
      BY <1>2, <2>1, Same DEF TypeOK, setConnectionListener
  <1> QED
    BY <1>1, <1>2

LEMMA TypeTransmit ==
  ASSUME TypeOK, NEW p \in Endpoint, Transmit(p)
  PROVE  SeqType' /\ TaskType' /\ WireType'
  <1> DEFINE r == receiveSequenceNumber[p]
             s == sendSequenceNumber[p]
             first == IF Wraps(s) THEN <<SFrame(r, sent[p], received[p])>> ELSE <<>>
             last == <<IFrame(s, r, sent[p] + 1, received[p])>>
  <1>1. r \in SeqNumber /\ s \in SeqNumber /\ NextSeq(s) \in SeqNumber
        /\ sent[p] \in Nat /\ sent[p] + 1 \in Nat /\ received[p] \in Nat
    BY NextSeqType DEF TypeOK, SeqType
  <1>2. SeqType'
    BY <1>1, ConfirmType DEF TypeOK, SeqType, Transmit
  <1>3. TaskType'
    <2>1. {"maxIdleTimeTimer"} \cup ({"maxTimeNoAckReceived"} \ planned[p])
            \in SUBSET Timers
      BY DEF Timers
    <2> QED
      BY <2>1, RetimeType DEF TypeOK, TaskType, Transmit
  <1>4. first \o last \in Seq(Frame)
    <2>1. SFrame(r, sent[p], received[p]) \in Frame
          /\ IFrame(s, r, sent[p] + 1, received[p]) \in Frame
      BY <1>1, FrameTypes
    <2>2. first \in Seq(Frame) /\ last \in Seq(Frame)
      BY <2>1
    <2> QED
      BY <2>2
  <1>5. Writes(p, first \o last)
    BY DEF Transmit
  <1>6. WireType'
    BY <1>4, <1>5, WritesType DEF TypeOK, WireType
  <1> QED
    BY <1>2, <1>3, <1>6

LEMMA TypeSenders ==
  ASSUME TypeOK, NEW p \in Endpoint, Send(p) \/ SendWaits(p) \/ SenderResumes(p)
  PROVE  TypeOK'
  <1>1. CASE Send(p)
    BY <1>1, TypeTransmit, Same DEF TypeOK, Send, WireType
  <1>2. CASE SendWaits(p)
    <2>1. SenderType'
      BY <1>2 DEF TypeOK, SendWaits, SenderType
    <2> QED
      BY <1>2, <2>1, Same DEF TypeOK, SendWaits
  <1>3. CASE SenderResumes(p)
    <2>1. SenderType'
      <3>1. SenderType
        BY DEF TypeOK
      <3>2. awake' = [awake EXCEPT ![p] = @ - 1] /\ awake[p] > 0
        BY <1>3 DEF SenderResumes
      <3>3. awake' \in [Endpoint -> Nat]
        BY <3>1, <3>2 DEF SenderType
      <3>4. waiting' = [waiting EXCEPT ![p] = @ + 1] \/ waiting' = waiting
        BY <1>3 DEF SenderResumes
      <3>5. waiting' \in [Endpoint -> Nat]
        BY <3>1, <3>4 DEF SenderType
      <3> QED
        BY <3>3, <3>5 DEF SenderType
    <2>2. SeqType' /\ TaskType' /\ wire' \in [Endpoint -> Seq(Frame)]
      BY <1>3, TypeTransmit, Same DEF TypeOK, SenderResumes, WireType
    <2> QED
      BY <1>3, <2>1, <2>2, Same DEF TypeOK, SenderResumes
  <1> QED
    BY <1>1, <1>2, <1>3

LEMMA TypeForward ==
  ASSUME TypeOK, NEW p \in Endpoint, ForwardASdu(p)
  PROVE  TypeOK'
  <1>1. tasks[p] \in Seq(Nat) /\ tasks[p] # <<>> /\ delivered[p] \in Seq(Nat)
    BY DEF TypeOK, DeliveryType, ForwardASdu
  <1>2. Head(tasks[p]) \in Nat /\ Tail(tasks[p]) \in Seq(Nat)
    BY <1>1, HeadTailProperties
  <1>3. Append(delivered[p], Head(tasks[p])) \in Seq(Nat)
    BY <1>1, <1>2, AppendProperties
  <1>4. DeliveryType
    BY DEF TypeOK
  <1>5. tasks' \in [Endpoint -> Seq(Nat)]
    BY <1>2, <1>4 DEF DeliveryType, ForwardASdu
  <1>6. delivered' \in [Endpoint -> Seq(Nat)] /\ lost' \in [Endpoint -> Nat]
    <2>1. \/ delivered' = [delivered EXCEPT ![p] = Append(@, Head(tasks[p]))] /\ lost' = lost
          \/ delivered' = delivered /\ lost' = [lost EXCEPT ![p] = @ + 1]
      BY DEF ForwardASdu
    <2>2. delivered \in [Endpoint -> Seq(Nat)] /\ lost \in [Endpoint -> Nat]
      BY <1>4 DEF DeliveryType
    <2>3. CASE delivered' = [delivered EXCEPT ![p] = Append(@, Head(tasks[p]))] /\ lost' = lost
      BY <1>3, <2>2, <2>3
    <2>4. CASE delivered' = delivered /\ lost' = [lost EXCEPT ![p] = @ + 1]
      BY <2>2, <2>4
    <2> QED
      BY <2>1, <2>3, <2>4
  <1>7. DeliveryType'
    BY <1>5, <1>6 DEF DeliveryType
  <1> QED
    BY <1>7, Same DEF TypeOK, ForwardASdu

----------------------------------------------------------------------------
(* The ConnectionReader *)

(* The frame in hand, and what answers it. *)
LEMMA ReadType ==
  ASSUME TypeOK, NEW p \in Endpoint, wire[p] # <<>>
  PROVE  /\ wire[p] # <<>>
         /\ Head(wire[p]) \in Frame
         /\ Head(wire[p]).nr \in SeqNumber
         /\ Head(wire[p]).ns \in SeqNumber
         /\ Head(wire[p]).vs \in Nat
  <1>2. Head(wire[p]) \in Frame
    BY HeadType DEF TypeOK, WireType
  <1> QED
    BY <1>2 DEF Frame

LEMMA HandledType ==
  ASSUME TypeOK, NEW p \in Endpoint, NEW type, Handles(p, type)
  PROVE  /\ wire[p] # <<>>
         /\ Head(wire[p]) \in Frame
         /\ Head(wire[p]).nr \in SeqNumber
         /\ Head(wire[p]).ns \in SeqNumber
         /\ Head(wire[p]).vs \in Nat
  BY ReadType DEF Handles, Readable

LEMMA AnswerTypes ==
  ASSUME TypeOK, NEW p \in Endpoint
  PROVE  /\ <<>> \in Seq(Frame)
         /\ \A type \in FrameType : <<UFrame(p, type)>> \in Seq(Frame)
         /\ \A r \in SeqNumber, n \in Nat : <<SFrame(r, sent[p], n)>> \in Seq(Frame)
  <1>1. \A type \in FrameType : UFrame(p, type) \in Frame
    BY UFrameTypes DEF TypeOK
  <1>2. sent[p] \in Nat
    BY DEF TypeOK, SeqType
  <1>3. \A r \in SeqNumber, n \in Nat : SFrame(r, sent[p], n) \in Frame
    BY <1>2, ZeroType, FrameTypes
  <1> QED
    BY <1>1, <1>3

LEMMA TypeIFrame ==
  ASSUME TypeOK, NEW p \in Endpoint, HandleIFrame(p)
  PROVE  TypeOK'
  <1> DEFINE f == Head(wire[p])
             n == NextSeq(f.ns)
             unconfirmed == IF Wraps(f.ns) THEN 0 ELSE
               sequenceNumberDiff(n, acknowledgedReceiveSequenceNumber[p])
             full == AckDue(p, unconfirmed)
  <1>1. /\ wire[p] # <<>> /\ f.nr \in SeqNumber /\ n \in SeqNumber
        /\ f.vs \in Nat
    BY HandledType, NextSeqType DEF HandleIFrame
  <1>2. received[p] + 1 \in Nat
    BY DEF TypeOK, SeqType
  <1>3. /\ acknowledgedSendSequenceNumber' \in [Endpoint -> SeqNumber]
        /\ acked' \in [Endpoint -> Nat]
        /\ SenderType'
    BY <1>1, AcknowledgeType DEF TypeOK, HandleIFrame
  <1>4. /\ acknowledgedReceiveSequenceNumber' \in [Endpoint -> SeqNumber]
        /\ confirmed' \in [Endpoint -> Nat]
    <2>1. CASE Confirm(p, n, received[p] + 1)
      BY <1>1, <1>2, <2>1, ConfirmType DEF TypeOK
    <2>2. CASE UNCHANGED <<acknowledgedReceiveSequenceNumber, confirmed>>
      BY <2>2 DEF TypeOK, SeqType
    <2> QED
      BY <2>1, <2>2 DEF HandleIFrame
  <1>5. SeqType'
    <2>1. SeqType
      BY DEF TypeOK
    <2>2. /\ receiveSequenceNumber' = [receiveSequenceNumber EXCEPT ![p] = n]
          /\ received' = [received EXCEPT ![p] = @ + 1]
          /\ UNCHANGED <<sendSequenceNumber, sent>>
      BY DEF HandleIFrame
    <2> QED
      BY <1>1, <1>3, <1>4, <2>1, <2>2 DEF SeqType
  <1>6. WireType'
    <2>1. \/ Reads(p, <<SFrame(n, sent[p], received[p] + 1)>>)
          \/ Reads(p, <<>>)
      BY DEF HandleIFrame
    <2> QED
      BY <1>1, <1>2, <2>1, AnswerTypes, ReadsType DEF TypeOK, WireType
  <1>7. DeliveryType'
    <2>1. DeliveryType
      BY DEF TypeOK
    <2>2. Append(tasks[p], f.vs) \in Seq(Nat)
      BY <1>1, <2>1, AppendProperties DEF DeliveryType
    <2>3. \/ tasks' = [tasks EXCEPT ![p] = Append(@, f.vs)] /\ UNCHANGED lost
          \/ lost' = [lost EXCEPT ![p] = @ + 1] /\ UNCHANGED tasks
      BY DEF HandleIFrame
    <2>4. UNCHANGED delivered
      BY DEF HandleIFrame
    <2>5. tasks' \in [Endpoint -> Seq(Nat)]
      BY <2>1, <2>2, <2>3 DEF DeliveryType
    <2>6. lost' \in [Endpoint -> Nat]
      <3>1. lost' = lost \/ lost' = [lost EXCEPT ![p] = @ + 1]
        BY <2>3
      <3>2. lost \in [Endpoint -> Nat]
        BY <2>1 DEF DeliveryType
      <3> QED
        BY <3>1, <3>2
    <2> QED
      BY <2>1, <2>4, <2>5, <2>6 DEF DeliveryType
  <1>8. TaskType'
    <2> DEFINE cancelled == AckCancels(p, f.nr) \cup
                 (IF full THEN cancelIfPlanned(p, "maxTimeNoAckSentTimer") ELSE {})
               added == AckAdds(p, f.nr) \cup {"maxIdleTimeTimer"} \cup
                 (IF AckDelayStarts(p, unconfirmed) THEN {"maxTimeNoAckSentTimer"}
                                                    ELSE {})
    <2>1. Retime(p, cancelled, added) /\ UNCHANGED stopDtTimer
      BY DEF HandleIFrame
    <2>2. added \in SUBSET Timers
      BY AckTimers DEF Timers
    <2>3. TaskType
      BY DEF TypeOK
    <2> HIDE DEF cancelled, added
    <2> QED
      BY <2>1, <2>2, <2>3, RetimeType DEF TaskType
  <1>9. reader' = reader /\ UNCHANGED <<closeVars, transferVars, tmVars, controlVars>>
    BY DEF HandleIFrame
  <1> QED
    BY <1>3, <1>5, <1>6, <1>7, <1>8, <1>9, Same DEF TypeOK, WireType

LEMMA TypeSFrame ==
  ASSUME TypeOK, NEW p \in Endpoint, HandleSFrame(p)
  PROVE  TypeOK'
  <1> DEFINE f == Head(wire[p])
  <1>1. wire[p] # <<>> /\ f.nr \in SeqNumber
    BY HandledType DEF HandleSFrame
  <1>2. /\ acknowledgedSendSequenceNumber' \in [Endpoint -> SeqNumber]
        /\ acked' \in [Endpoint -> Nat]
        /\ SenderType'
    BY <1>1, AcknowledgeType DEF TypeOK, HandleSFrame
  <1>3. SeqType'
    BY <1>2 DEF TypeOK, SeqType, HandleSFrame
  <1>4. WireType'
    <2>1. Reads(p, <<UFrame(p, "STOPDT_CON")>>) \/ Reads(p, <<>>)
      BY DEF HandleSFrame
    <2> QED
      BY <1>1, <2>1, AnswerTypes, ReadsType DEF TypeOK, WireType, FrameType
  <1>5. TransferType'
    <2>1. pending' \in BOOLEAN
      BY DEF HandleSFrame
    <2> QED
      BY <2>1 DEF TypeOK, TransferType, HandleSFrame
  <1>6. TaskType'
    <2> DEFINE added == AckAdds(p, f.nr) \cup {"maxIdleTimeTimer"}
               done == IF p = Server /\ stopDtTimer
                       THEN {"stopDtOutstandingSFormatTimer"} ELSE {}
    <2>1. /\ planned' = [planned EXCEPT
               ![p] = (@ \ (AckCancels(p, f.nr) \cup done)) \cup added]
          /\ Requeue(p, AckCancels(p, f.nr), added)
          /\ UNCHANGED stopDtTimer
      BY DEF HandleSFrame
    <2>2. added \in SUBSET Timers
      BY AckTimers DEF Timers
    <2>3. TaskType
      BY DEF TypeOK
    <2> HIDE DEF added, done
    <2>4. planned' \in [Endpoint -> SUBSET Timers]
      BY <2>1, <2>2, <2>3 DEF TaskType
    <2> QED
      BY <2>1, <2>2, <2>3, <2>4, RequeueType DEF TaskType
  <1>7. reader' = reader /\ UNCHANGED <<closeVars, deliveryVars, tmVars, controlVars>>
    BY DEF HandleSFrame
  <1> QED
    BY <1>2, <1>3, <1>4, <1>5, <1>6, <1>7, Same DEF TypeOK, WireType

LEMMA TypeStartDtAct ==
  ASSUME TypeOK, NEW p \in Endpoint, HandleStartDtAct(p)
  PROVE  TypeOK'
  <1>1. WireType'
    BY HandledType, AnswerTypes, ReadsType DEF TypeOK, WireType, FrameType, HandleStartDtAct
  <1>2. TransferType'
    BY DEF TypeOK, TransferType, HandleStartDtAct
  <1>3. TaskType'
    BY RetimeType DEF TypeOK, TaskType, HandleStartDtAct, resetMaxIdleTimeTimer, Timers
  <1> QED
    BY <1>1, <1>2, <1>3, Same DEF TypeOK, WireType, HandleStartDtAct

LEMMA TypeStopDtAct ==
  ASSUME TypeOK, NEW p \in Endpoint, HandleStopDtAct(p)
  PROVE  TypeOK'
  <1> DEFINE unconfirmed == numUnconfirmedIPdusReceived(p) > 0
             outstanding == Outstanding(p)
             r == receiveSequenceNumber[p]
             first == IF unconfirmed THEN <<SFrame(r, sent[p], received[p])>> ELSE <<>>
             last == IF outstanding THEN <<>> ELSE <<UFrame(p, "STOPDT_CON")>>
  <1>1. r \in SeqNumber /\ received[p] \in Nat
    BY DEF TypeOK, SeqType
  <1>2. WireType'
    <2>1. first \in Seq(Frame) /\ last \in Seq(Frame)
      BY <1>1, AnswerTypes DEF FrameType
    <2>2. wire[p] # <<>> /\ Reads(p, first \o last)
      BY HandledType DEF HandleStopDtAct
    <2> HIDE DEF first, last
    <2>3. first \o last \in Seq(Frame)
      BY <2>1
    <2> QED
      BY <2>2, <2>3, ReadsType DEF TypeOK, WireType
  <1>3. TransferType'
    <2>1. /\ stopped' = [stopped EXCEPT ![p] = TRUE]
          /\ aSduListenerBack' = [aSduListenerBack EXCEPT ![p] = @ \/ aSduListener[p]]
          /\ aSduListener' = [aSduListener EXCEPT ![p] = FALSE]
          /\ pending' \in BOOLEAN
      BY DEF HandleStopDtAct, Outstanding
    <2> QED
      BY <2>1 DEF TypeOK, TransferType
  <1>4. SeqType'
    BY <1>1, ConfirmType DEF TypeOK, SeqType, HandleStopDtAct
  <1>5. TaskType'
    <2> DEFINE added == {"maxIdleTimeTimer"} \cup
                 (IF outstanding THEN {"stopDtOutstandingSFormatTimer"} ELSE {})
    <2>1. Retime(p, cancelIfPlanned(p, "maxTimeNoAckSentTimer"), added)
          /\ stopDtTimer' = (stopDtTimer \/ outstanding)
      BY DEF HandleStopDtAct
    <2>2. added \in SUBSET Timers
      BY DEF Timers
    <2>3. stopDtTimer' \in BOOLEAN
      BY <2>1
    <2> HIDE DEF added
    <2> QED
      BY <2>1, <2>2, <2>3, RetimeType DEF TypeOK, TaskType
  <1> QED
    BY <1>2, <1>3, <1>4, <1>5, Same DEF TypeOK, WireType, HandleStopDtAct

LEMMA TypeConfirmations ==
  ASSUME TypeOK, NEW p \in Endpoint,
         HandleStartDtCon(p) \/ HandleStopDtCon(p) \/ HandleTestFrAct(p)
           \/ HandleTestFrCon(p)
  PROVE  TypeOK'
  <1>1. CASE HandleStartDtCon(p)
    <2>1. WireType'
      BY <1>1, HandledType, AnswerTypes, ReadsType DEF TypeOK, WireType, HandleStartDtCon
    <2>2. TaskType'
      BY <1>1, RetimeType
         DEF TypeOK, TaskType, HandleStartDtCon, resetMaxIdleTimeTimer, Timers
    <2>3. ControlType'
      BY <1>1 DEF TypeOK, ControlType, stopVars, HandleStartDtCon
    <2> QED
      BY <1>1, <2>1, <2>2, <2>3, Same DEF TypeOK, WireType, HandleStartDtCon
  <1>2. CASE HandleStopDtCon(p)
    <2>1. WireType'
      BY <1>2, HandledType, AnswerTypes, ReadsType DEF TypeOK, WireType, HandleStopDtCon
    <2>2. TaskType'
      BY <1>2, RetimeType
         DEF TypeOK, TaskType, HandleStopDtCon, resetMaxIdleTimeTimer, Timers
    <2>3. ControlType'
      BY <1>2 DEF TypeOK, ControlType, stopVars, HandleStopDtCon
    <2> QED
      BY <1>2, <2>1, <2>2, <2>3, Same DEF TypeOK, WireType, HandleStopDtCon
  <1>3. CASE HandleTestFrAct(p)
    <2>1. WireType'
      BY <1>3, HandledType, AnswerTypes, ReadsType
         DEF TypeOK, WireType, FrameType, HandleTestFrAct
    <2>2. TaskType'
      BY <1>3, RetimeType
         DEF TypeOK, TaskType, HandleTestFrAct, resetMaxIdleTimeTimer, Timers
    <2> QED
      BY <1>3, <2>1, <2>2, Same DEF TypeOK, WireType, HandleTestFrAct
  <1>4. CASE HandleTestFrCon(p)
    <2>1. WireType'
      BY <1>4, HandledType, AnswerTypes, ReadsType DEF TypeOK, WireType, HandleTestFrCon
    <2>2. TaskType'
      BY <1>4, RetimeType DEF TypeOK, TaskType, HandleTestFrCon, Timers
    <2> QED
      BY <1>4, <2>1, <2>2, Same DEF TypeOK, WireType, HandleTestFrCon
  <1> QED
    BY <1>1, <1>2, <1>3, <1>4

LEMMA CountType ==
  ASSUME SeqType, NEW p \in Endpoint, NEW counted, NEW n \in SeqNumber,
         Count(p, counted, n)
  PROVE  /\ receiveSequenceNumber' \in [Endpoint -> SeqNumber]
         /\ received' \in [Endpoint -> Nat]
  BY DEF SeqType, Count

LEMMA TypeReject ==
  ASSUME TypeOK, NEW p \in Endpoint, RejectFrame(p)
  PROVE  TypeOK'
  <1> DEFINE f == Head(wire[p])
             n == NextSeq(f.ns)
             counted == /\ f.type = "I_FORMAT" /\ ~StopRejects(p, f)
                        /\ f.ns = receiveSequenceNumber[p]
             answered == counted /\ Wraps(f.ns)
  <1>1. wire[p] # <<>>
    BY DEF RejectFrame, Readable
  <1>2. f \in Frame /\ f.nr \in SeqNumber
    BY <1>1, ReadType
  <1>3. n \in SeqNumber
    BY <1>2, NextSeqType DEF Frame
  <1>4. received[p] + 1 \in Nat
    BY DEF TypeOK, SeqType
  <1>5. \/ /\ Confirm(p, n, received[p] + 1)
           /\ Reads(p, <<SFrame(n, sent[p], received[p] + 1)>>)
        \/ /\ UNCHANGED <<acknowledgedReceiveSequenceNumber, confirmed>>
           /\ Reads(p, <<>>)
    BY DEF RejectFrame
  <1>6. WireType'
    BY <1>1, <1>3, <1>4, <1>5, AnswerTypes, ReadsType DEF TypeOK, WireType
  <1>7. TaskType'
    <2>1. UNCHANGED stopDtTimer
      BY DEF RejectFrame
    <2>2. \E c \in SUBSET Timers, a \in SUBSET Timers : Retime(p, c, a)
      BY DEF RejectFrame, Timers, AckCancels, cancelIfPlanned
    <2> QED
      BY <2>1, <2>2, RetimeType DEF TypeOK, TaskType
  <1>8. SeqType'
    <2>1. SeqType
      BY DEF TypeOK
    <2>2. /\ acknowledgedReceiveSequenceNumber' \in [Endpoint -> SeqNumber]
          /\ confirmed' \in [Endpoint -> Nat]
      <3>1. CASE Confirm(p, n, received[p] + 1)
        BY <1>3, <1>4, <2>1, <3>1, ConfirmType
      <3>2. CASE UNCHANGED <<acknowledgedReceiveSequenceNumber, confirmed>>
        BY <2>1, <3>2 DEF SeqType
      <3> QED
        BY <1>5, <3>1, <3>2
    <2>3. Count(p, counted, n) /\ UNCHANGED <<sendSequenceNumber, sent>>
      BY DEF RejectFrame
    <2>4. /\ receiveSequenceNumber' \in [Endpoint -> SeqNumber]
          /\ received' \in [Endpoint -> Nat]
      BY <1>3, <2>1, <2>3, CountType
    <2>5. /\ acknowledgedSendSequenceNumber' \in [Endpoint -> SeqNumber]
          /\ acked' \in [Endpoint -> Nat]
      <3>1. TakeAck(p, f.nr) \/ UNCHANGED <<acknowledgedSendSequenceNumber, acked>>
        BY DEF RejectFrame
      <3>2. sequenceNumberDiff(f.nr, acknowledgedSendSequenceNumber[p]) \in Nat
        <4>1. acknowledgedSendSequenceNumber[p] \in SeqNumber
          BY <2>1 DEF SeqType
        <4>2. sequenceNumberDiff(f.nr, acknowledgedSendSequenceNumber[p]) \in SeqNumber
          BY <1>2, <4>1, DiffType
        <4> QED
          BY <4>2 DEF SeqNumber
      <3> QED
        BY <1>2, <2>1, <3>1, <3>2 DEF SeqType, TakeAck
    <2> QED
      BY <2>1, <2>2, <2>3, <2>4, <2>5 DEF SeqType
  <1>9. CloseType'
    BY DEF TypeOK, CloseType, RejectFrame, Reasons
  <1>10. DeliveryType'
    <2>1. /\ lost' = [lost EXCEPT ![p] = IF counted THEN @ + 1 ELSE @]
          /\ UNCHANGED <<tasks, delivered>>
      BY DEF RejectFrame
    <2> QED
      BY <2>1 DEF TypeOK, DeliveryType
  <1>11. reader' = [reader EXCEPT ![p] = "failing"]
         /\ UNCHANGED <<transferVars, tmVars, senderVars, controlVars>>
    BY DEF RejectFrame
  <1>12. reader' \in [Endpoint -> {"reading", "late", "failing", "done"}]
    BY <1>11, ReaderTypes
  <1> QED
    BY <1>6, <1>7, <1>8, <1>9, <1>10, <1>11, <1>12, Same DEF TypeOK, WireType

LEMMA TypeLate ==
  ASSUME TypeOK, NEW p \in Endpoint,
         LateIFrame(p) \/ LateSFrame(p) \/ LateAct(p) \/ LateCon(p)
  PROVE  TypeOK'
  <1> DEFINE f == Head(wire[p])
             n == NextSeq(f.ns)
  <1>1. wire[p] # <<>> /\ Reads(p, <<>>)
    BY DEF LateIFrame, LateSFrame, LateAct, LateCon, InHand
  <1>2. f \in Frame /\ n \in SeqNumber /\ f.vs \in Nat
    BY <1>1, ReadType, NextSeqType
  <1>3. WireType'
    BY <1>1, AnswerTypes, ReadsType DEF TypeOK, WireType
  <1>4. reader' \in [Endpoint -> {"reading", "late", "failing", "done"}]
    <2>1. reader' = [reader EXCEPT ![p] = "reading"]
          \/ reader' = [reader EXCEPT ![p] = "failing"]
      BY DEF LateIFrame, LateSFrame, LateAct, LateCon
    <2> QED
      BY <2>1, ReaderTypes
  <1>5. CASE LateIFrame(p)
    <2>1. SeqType'
      <3>1. \E counted \in BOOLEAN : Count(p, counted, n)
        BY <1>5 DEF LateIFrame
      <3> QED
        BY <1>2, <1>5, <3>1, CountType DEF TypeOK, SeqType, LateIFrame
    <2>2. TaskType'
      <3>1. \E a \in SUBSET Timers : Retime(p, {}, a)
        BY <1>5 DEF LateIFrame, Timers
      <3>2. UNCHANGED stopDtTimer
        BY <1>5 DEF LateIFrame
      <3> QED
        BY <3>1, <3>2, RetimeType DEF TypeOK, TaskType
    <2>3. DeliveryType'
      <3>1. DeliveryType
        BY DEF TypeOK
      <3>2. Append(tasks[p], f.vs) \in Seq(Nat) /\ tasks[p] \in Seq(Nat)
        BY <1>2, <3>1, AppendProperties DEF DeliveryType
      <3>3. /\ \/ tasks' = [tasks EXCEPT ![p] = Append(@, f.vs)]
               \/ tasks' = [tasks EXCEPT ![p] = @]
            /\ \/ lost' = [lost EXCEPT ![p] = @ + 1]
               \/ lost' = [lost EXCEPT ![p] = @]
            /\ UNCHANGED delivered
        BY <1>5 DEF LateIFrame
      <3>4. tasks' \in [Endpoint -> Seq(Nat)]
        BY <3>1, <3>2, <3>3 DEF DeliveryType
      <3>5. lost' \in [Endpoint -> Nat]
        <4>1. lost \in [Endpoint -> Nat]
          BY <3>1 DEF DeliveryType
        <4> QED
          BY <3>3, <4>1
      <3> QED
        BY <3>1, <3>3, <3>4, <3>5 DEF DeliveryType
    <2> QED
      BY <1>3, <1>4, <1>5, <2>1, <2>2, <2>3, Same DEF TypeOK, WireType, LateIFrame
  <1>6. CASE LateSFrame(p)
    <2>1. TaskType'
      <3>1. \E d \in SUBSET Timers, a \in SUBSET Timers :
              /\ planned' = [planned EXCEPT ![p] = (@ \ d) \cup a]
              /\ Requeue(p, {}, a)
        BY <1>6 DEF LateSFrame, Timers
      <3>2. UNCHANGED stopDtTimer
        BY <1>6 DEF LateSFrame
      <3>3. planned' \in [Endpoint -> SUBSET Timers]
        BY <3>1 DEF TypeOK, TaskType
      <3> QED
        BY <3>1, <3>2, <3>3, RequeueType DEF TypeOK, TaskType
    <2> QED
      BY <1>3, <1>4, <1>6, <2>1, Same DEF TypeOK, WireType, LateSFrame
  <1>7. CASE LateAct(p)
    <2>1. TransferType'
      <3> DEFINE stop == f.type = "STOPDT_ACT"
                 start == f.type = "STARTDT_ACT"
      <3>1. TransferType
        BY DEF TypeOK
      <3>2. \E s \in BOOLEAN : stopped' = [stopped EXCEPT ![p] = s]
        BY <1>7 DEF LateAct
      <3>3. \E b \in BOOLEAN : aSduListenerBack' = [aSduListenerBack EXCEPT ![p] = b]
        BY <1>7 DEF LateAct
      <3>4. \E b \in BOOLEAN : aSduListener' = [aSduListener EXCEPT ![p] = b]
        BY <1>7 DEF LateAct
      <3>5. pending' \in BOOLEAN
        BY <1>7 DEF LateAct
      <3> QED
        BY <3>1, <3>2, <3>3, <3>4, <3>5 DEF TransferType
    <2>2. TaskType'
      <3>1. \E c \in SUBSET Timers : Retime(p, c, {})
        BY <1>7 DEF LateAct, Timers, cancelIfPlanned
      <3>2. UNCHANGED stopDtTimer
        BY <1>7 DEF LateAct
      <3> QED
        BY <3>1, <3>2, RetimeType DEF TypeOK, TaskType
    <2> QED
      BY <1>3, <1>4, <1>7, <2>1, <2>2, Same DEF TypeOK, WireType, LateAct
  <1>8. CASE LateCon(p)
    <2>1. ControlType'
      BY <1>8 DEF TypeOK, ControlType, stopVars, LateCon
    <2>2. TaskType'
      <3>1. \E c \in SUBSET Timers, a \in SUBSET Timers : Retime(p, c, a)
        BY <1>8 DEF LateCon, Timers
      <3>2. UNCHANGED stopDtTimer
        BY <1>8 DEF LateCon
      <3> QED
        BY <3>1, <3>2, RetimeType DEF TypeOK, TaskType
    <2> QED
      BY <1>3, <1>4, <1>8, <2>1, <2>2, Same DEF TypeOK, WireType, LateCon
  <1> QED
    BY <1>5, <1>6, <1>7, <1>8

LEMMA TypeReaderEnds ==
  ASSUME TypeOK, NEW p \in Endpoint, ReaderStops(p) \/ ReaderBroken(p) \/ ReaderExit(p)
  PROVE  TypeOK'
  <1>1. CASE ReaderStops(p)
    <2>1. CloseType'
      BY <1>1 DEF TypeOK, CloseType, ReaderStops, Reasons
    <2>2. reader' \in [Endpoint -> {"reading", "late", "failing", "done"}]
      BY <1>1 DEF TypeOK, ReaderStops
    <2> QED
      BY <1>1, <2>1, <2>2, Same DEF TypeOK, ReaderStops
  <1>2. CASE ReaderBroken(p)
    <2>1. CloseType'
      BY <1>2 DEF TypeOK, CloseType, ReaderBroken, Reasons
    <2>2. reader' \in [Endpoint -> {"reading", "late", "failing", "done"}]
      BY <1>2 DEF TypeOK, ReaderBroken
    <2> QED
      BY <1>2, <2>1, <2>2, Same DEF TypeOK, ReaderBroken
  <1>3. CASE ReaderExit(p)
    <2>1. /\ closed' \in [Endpoint -> BOOLEAN]
          /\ closedBecause' \in [Endpoint -> Reasons]
          /\ acknowledgedSendSequenceNumber' \in [Endpoint -> SeqNumber]
          /\ acked' \in [Endpoint -> Nat]
          /\ SenderType'
      BY <1>3, CloseTypes DEF TypeOK, ReaderExit, Reasons
    <2>2. SeqType'
      BY <1>3, <2>1 DEF TypeOK, SeqType, ReaderExit
    <2>3. CloseType'
      <3>1. ClosedCalls(p) \in Nat
        BY DEF ClosedCalls
      <3>2. notified' = [notified EXCEPT ![p] = @ + ClosedCalls(p)]
        BY <1>3 DEF ReaderExit
      <3> QED
        BY <2>1, <3>1, <3>2 DEF TypeOK, CloseType
    <2>4. reader' \in [Endpoint -> {"reading", "late", "failing", "done"}]
      BY <1>3 DEF TypeOK, ReaderExit
    <2>5. TmType'
      BY <1>3 DEF TypeOK, TmType, ReaderExit
    <2>6. DeliveryType'
      <3>1. DeliveryType
        BY DEF TypeOK
      <3>2. CASE UNCHANGED <<tasks, lost>>
        BY <1>3, <3>1, <3>2 DEF DeliveryType, ReaderExit
      <3>3. CASE /\ tasks' = [tasks EXCEPT
                      ![p] = SubSeq(@, 1, IF @ = <<>> THEN 0 ELSE 1)]
                 /\ lost' = [lost EXCEPT ![p] = @ + Len(tasks[p]) - Len(tasks'[p])]
        <4> DEFINE kept == SubSeq(tasks[p], 1, IF tasks[p] = <<>> THEN 0 ELSE 1)
        <4>1. kept \in Seq(Nat) /\ Len(kept) \in Nat /\ Len(tasks[p]) \in Nat
              /\ Len(kept) <= Len(tasks[p])
          <5>1. tasks[p] \in Seq(Nat)
            BY <3>1 DEF DeliveryType
          <5>2. CASE tasks[p] = <<>>
            BY <5>1, <5>2, SubSeqProperties, EmptySeq
          <5>3. CASE tasks[p] # <<>>
            BY <5>1, <5>3, SubSeqProperties, EmptySeq
          <5> QED
            BY <5>2, <5>3
        <4>2. tasks' = [tasks EXCEPT ![p] = kept]
          BY <3>3
        <4> HIDE DEF kept
        <4>3. tasks' \in [Endpoint -> Seq(Nat)] /\ tasks'[p] = kept
          BY <3>1, <4>1, <4>2 DEF DeliveryType
        <4>4. lost[p] \in Nat /\ lost[p] + Len(tasks[p]) - Len(kept) \in Nat
          BY <3>1, <4>1 DEF DeliveryType
        <4>5. lost' \in [Endpoint -> Nat]
          BY <3>1, <3>3, <4>3, <4>4 DEF DeliveryType
        <4> QED
          BY <1>3, <3>1, <4>3, <4>5 DEF DeliveryType, ReaderExit
      <3> QED
        BY <1>3, <3>2, <3>3 DEF ReaderExit
    <2> QED
      BY <1>3, <2>1, <2>2, <2>3, <2>4, <2>5, <2>6, Same DEF TypeOK, ReaderExit
  <1> QED
    BY <1>1, <1>2, <1>3

----------------------------------------------------------------------------
(* The TimeoutManager *)

LEMMA TypeTimers ==
  ASSUME TypeOK, NEW p \in Endpoint,
         \/ \E t \in Timers : TakeTimer(p, t)
         \/ TimerThread(p)
  PROVE  TypeOK'
  <1>1. CASE \E t \in Timers : TakeTimer(p, t)
    <2>1. PICK t \in Timers : TakeTimer(p, t)
      BY <1>1
    <2>2. TaskType'
      BY <2>1 DEF TypeOK, TaskType, TakeTimer
    <2>3. TmType'
      BY <2>1 DEF TypeOK, TmType, TakeTimer
    <2> QED
      BY <2>1, <2>2, <2>3, Same DEF TypeOK, TakeTimer
  <1>2. CASE ExecuteNoAckReceived(p)
    <2>1. /\ closed' \in [Endpoint -> BOOLEAN]
          /\ closedBecause' \in [Endpoint -> Reasons]
          /\ acknowledgedSendSequenceNumber' \in [Endpoint -> SeqNumber]
          /\ acked' \in [Endpoint -> Nat]
          /\ SenderType'
      BY <1>2, CloseTypes DEF TypeOK, ExecuteNoAckReceived, Reasons
    <2>2. SeqType'
      BY <1>2, <2>1 DEF TypeOK, SeqType, ExecuteNoAckReceived
    <2>3. notified' \in [Endpoint -> Nat]
      BY <1>2 DEF TypeOK, CloseType, ExecuteNoAckReceived
    <2>4. TmType'
      BY <1>2 DEF TypeOK, TmType, ExecuteNoAckReceived, Executes
    <2>5. reader' \in [Endpoint -> {"reading", "late", "failing", "done"}]
      BY <1>2, InHandTypes DEF ExecuteNoAckReceived
    <2> QED
      BY <1>2, <2>1, <2>2, <2>3, <2>4, <2>5, Same
         DEF TypeOK, CloseType, ExecuteNoAckReceived
  <1>3. CASE ExecuteNoAckSent(p)
    <2>1. receiveSequenceNumber[p] \in SeqNumber /\ received[p] \in Nat
      BY DEF TypeOK, SeqType
    <2>2. SeqType'
      BY <1>3, <2>1, ConfirmType DEF TypeOK, SeqType, ExecuteNoAckSent
    <2>3. WireType'
      BY <1>3, <2>1, AnswerTypes, WritesType DEF TypeOK, WireType, ExecuteNoAckSent
    <2>4. TaskType'
      BY <1>3, RetimeType
         DEF TypeOK, TaskType, ExecuteNoAckSent, resetMaxIdleTimeTimer, Timers
    <2>5. TmType'
      BY <1>3 DEF TypeOK, TmType, ExecuteNoAckSent, Executes
    <2> QED
      BY <1>3, <2>2, <2>3, <2>4, <2>5, Same DEF TypeOK, WireType, ExecuteNoAckSent
  <1>4. CASE ExecuteIdle(p)
    <2>1. WireType'
      BY <1>4, AnswerTypes, WritesType DEF TypeOK, WireType, FrameType, ExecuteIdle
    <2>2. TaskType'
      BY <1>4, RetimeType DEF TypeOK, TaskType, ExecuteIdle, Timers
    <2>3. TmType'
      BY <1>4 DEF TypeOK, TmType, ExecuteIdle, Executes
    <2> QED
      BY <1>4, <2>1, <2>2, <2>3, Same DEF TypeOK, WireType, ExecuteIdle
  <1>5. CASE ExecuteStopDt(p)
    <2>1. WireType'
      BY <1>5, AnswerTypes, WritesType DEF TypeOK, WireType, FrameType, ExecuteStopDt
    <2>2. TransferType'
      BY <1>5 DEF TypeOK, TransferType, ExecuteStopDt
    <2>3. TmType'
      BY <1>5 DEF TypeOK, TmType, ExecuteStopDt, Executes
    <2> QED
      BY <1>5, <2>1, <2>2, <2>3, Same DEF TypeOK, WireType, ExecuteStopDt
  <1>6. CASE TimerWriteFails(p)
    <2>1. TmType'
      BY <1>6 DEF TypeOK, TmType, TimerWriteFails, Executes
    <2> QED
      BY <1>6, <2>1, Same DEF TypeOK, TimerWriteFails
  <1>7. CASE TimerInterrupted(p)
    <2>1. TmType'
      BY <1>7 DEF TypeOK, TmType, TimerInterrupted
    <2> QED
      BY <1>7, <2>1, Same DEF TypeOK, TimerInterrupted
  <1>8. CASE TimerDone(p)
    <2>1. TmType'
      BY <1>8 DEF TypeOK, TmType, TimerDone
    <2>2. TaskType'
      BY <1>8 DEF TypeOK, TaskType, TimerDone
    <2> QED
      BY <1>8, <2>1, <2>2, Same DEF TypeOK, TimerDone
  <1> QED
    BY <1>1, <1>2, <1>3, <1>4, <1>5, <1>6, <1>7, <1>8 DEF TimerThread

----------------------------------------------------------------------------
(* startDataTransfer and stopDataTransfer *)

LEMMA ClientIsEndpoint == Client \in Endpoint /\ Server \in Endpoint
  BY DEF Endpoint

LEMMA TypeCalls ==
  ASSUME TypeOK, ControlCalls
  PROVE  TypeOK'
  <1> USE ClientIsEndpoint
  <1>1. CASE StartDataTransfer
    <2>1. WireType'
      BY <1>1, AnswerTypes, WritesType
         DEF TypeOK, WireType, FrameType, StartDataTransfer
    <2>2. ControlType'
      BY <1>1 DEF TypeOK, ControlType, stopVars, StartDataTransfer, At
    <2> QED
      BY <1>1, <2>1, <2>2, Same DEF TypeOK, WireType, StartDataTransfer
  <1>2. CASE StopDataTransfer
    <2>1. TransferType'
      BY <1>2 DEF TypeOK, TransferType, StopDataTransfer
    <2>2. ControlType'
      BY <1>2 DEF TypeOK, ControlType, stopVars, StopDataTransfer, At
    <2> QED
      BY <1>2, <2>1, <2>2, Same DEF TypeOK, StopDataTransfer
  <1> QED
    BY <1>1, <1>2 DEF ControlCalls

LEMMA TypeControl ==
  ASSUME TypeOK, ControlThread
  PROVE  TypeOK'
  <1> USE ClientIsEndpoint
  <1>1. CASE StartConfirmed
    <2>1. TransferType'
      BY <1>1 DEF TypeOK, TransferType, StartConfirmed
    <2>2. ControlType'
      BY <1>1 DEF TypeOK, ControlType, stopVars, StartConfirmed, At
    <2> QED
      BY <1>1, <2>1, <2>2, Same DEF TypeOK, StartConfirmed
  <1>2. CASE StartTimesOut \/ StopReadsDiff \/ StopFails \/ StopReturns
    <2>1. ControlType'
      BY <1>2 DEF TypeOK, ControlType, stopVars, At, StartTimesOut, StopReadsDiff, StopFails,
                  StopReturns
    <2> QED
      BY <1>2, <2>1, Same DEF TypeOK, StartTimesOut, StopReadsDiff, StopFails,
                              StopReturns
  <1>3. CASE StopWritesSFrame
    <2>1. stopNr \in SeqNumber /\ stopCount \in Nat
      BY DEF TypeOK, ControlType
    <2>2. SeqType'
      BY <1>3, <2>1 DEF TypeOK, SeqType, StopWritesSFrame
    <2>3. WireType'
      BY <1>3, <2>1, AnswerTypes, WritesType DEF TypeOK, WireType, StopWritesSFrame
    <2>4. ControlType'
      BY <1>3, ZeroType DEF TypeOK, ControlType, stopVars, StopWritesSFrame, At
    <2> QED
      BY <1>3, <2>2, <2>3, <2>4, Same DEF TypeOK, WireType, StopWritesSFrame
  <1>4. CASE StopRecordsSFrame
    <2>1. SeqType'
      BY <1>4 DEF TypeOK, SeqType, StopRecordsSFrame
    <2>2. TaskType'
      BY <1>4, RetimeType
         DEF TypeOK, TaskType, StopRecordsSFrame, resetMaxIdleTimeTimer, Timers
    <2>3. ControlType'
      BY <1>4 DEF TypeOK, ControlType, stopVars, StopRecordsSFrame, At
    <2> QED
      BY <1>4, <2>1, <2>2, <2>3, Same DEF TypeOK, StopRecordsSFrame
  <1>5. CASE StopCancelsTimer
    <2>1. TaskType'
      BY <1>5, RetimeType DEF TypeOK, TaskType, StopCancelsTimer
    <2>2. ControlType'
      BY <1>5 DEF TypeOK, ControlType, stopVars, StopCancelsTimer, At
    <2> QED
      BY <1>5, <2>1, <2>2, Same DEF TypeOK, StopCancelsTimer
  <1>6. CASE StopSendsAct
    <2>1. WireType'
      BY <1>6, AnswerTypes, WritesType DEF TypeOK, WireType, FrameType, StopSendsAct
    <2>2. ControlType'
      BY <1>6 DEF TypeOK, ControlType, stopVars, StopSendsAct, At
    <2> QED
      BY <1>6, <2>1, <2>2, Same DEF TypeOK, WireType, StopSendsAct
  <1>7. CASE StopReadsNumber
    <2>1. ControlType'
      BY <1>7, ClientIsEndpoint DEF TypeOK, SeqType, ControlType, StopReadsNumber, At
    <2> QED
      BY <1>7, <2>1, Same DEF TypeOK, StopReadsNumber
  <1> QED
    BY <1>1, <1>2, <1>3, <1>4, <1>5, <1>6, <1>7 DEF ControlThread

----------------------------------------------------------------------------
LEMMA TypeInit == Init => TypeOK
  <1> SUFFICES ASSUME Init
               PROVE  TypeOK
    OBVIOUS
  <1>1. SeqType
    BY ZeroType DEF Init, SeqType
  <1>2. CloseType /\ TransferType
    BY DEF Init, CloseType, TransferType, Reasons
  <1>3. DeliveryType
    BY DEF Init, DeliveryType
  <1>4. TaskType /\ TmType
    BY DEF Init, TaskType, TmType, Timers
  <1>5. SenderType /\ ControlType
    BY ZeroType DEF Init, SenderType, ControlType
  <1>6. reader \in [Endpoint -> {"reading", "late", "failing", "done"}]
    BY DEF Init
  <1>7. wire \in [Endpoint -> Seq(Frame)]
    BY DEF Init
  <1> QED
    BY <1>1, <1>2, <1>3, <1>4, <1>5, <1>6, <1>7 DEF TypeOK

LEMMA TypeStep == TypeOK /\ [Next]_vars => TypeOK'
  <1> SUFFICES ASSUME TypeOK, [Next]_vars
               PROVE  TypeOK'
    OBVIOUS
  <1>1. CASE UNCHANGED vars
    BY <1>1, Same DEF vars, TypeOK
  <1>2. ASSUME NEW p \in Endpoint, ReaderThread(p)
        PROVE  TypeOK'
    BY <1>2, TypeIFrame, TypeSFrame, TypeStartDtAct, TypeStopDtAct,
       TypeConfirmations, TypeReject, TypeLate, TypeReaderEnds DEF ReaderThread
  <1>3. ASSUME NEW p \in Endpoint, ReaderBroken(p)
        PROVE  TypeOK'
    BY <1>3, TypeReaderEnds
  <1>4. ASSUME NEW p \in Endpoint,
               AppClose(p) \/ setConnectionListener(p)
        PROVE  TypeOK'
    BY <1>4, TypeApplication
  <1>5. ASSUME NEW p \in Endpoint, Send(p) \/ SendWaits(p) \/ SenderResumes(p)
        PROVE  TypeOK'
    BY <1>5, TypeSenders
  <1>6. ASSUME NEW p \in Endpoint,
               (\E t \in Timers : TakeTimer(p, t)) \/ TimerThread(p)
        PROVE  TypeOK'
    BY <1>6, TypeTimers
  <1>7. ASSUME NEW p \in Endpoint, ForwardASdu(p)
        PROVE  TypeOK'
    BY <1>7, TypeForward
  <1>8. CASE ControlCalls \/ ControlThread
    BY <1>8, TypeCalls, TypeControl
  <1> QED
    BY <1>1, <1>2, <1>3, <1>4, <1>5, <1>6, <1>7, <1>8 DEF Next

(* Every field, thread and history variable always has one of the values    *)
(* declared for it, in particular every counter stays a 15-bit number.      *)
THEOREM TypeCorrect == Spec => []TypeOK
  BY TypeInit, TypeStep, PTL DEF Spec
=============================================================================
