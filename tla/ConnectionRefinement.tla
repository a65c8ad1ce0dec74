------------------------- MODULE ConnectionRefinement -------------------------
(* Connection implements WindowProtocol, for every modulus, k, w and bound: *)
(* its first state is one of the abstract protocol and each of its steps is *)
(* a Send, Receive, Close or ReceiveLate of it or changes nothing it sees,  *)
(* until stopDataTransfer has written an overtaken N(R).  And what that     *)
(* rests on, the window a closed endpoint has written off, gives the        *)
(* threads waiting in send a reason to wait.                                *)
EXTENDS ConnectionProofs

(* A closed endpoint has written its window off, and stays so. *)
WrittenOff == \A p \in Endpoint : closed[p] => acked[p] = sent[p]

Refines == [Window!Next]_(Window!windowVars)
RefinesNow == (~overtaken => Refines) /\ WrittenOff'

SameState == \A e \in Endpoint : WindowState(e)' = WindowState(e)

----------------------------------------------------------------------------
(* The kinds of step *)

LEMMA RefQuiet ==
  ASSUME UNCHANGED <<sent, received, acked, closed>>, SameState, WrittenOff
  PROVE  RefinesNow
  BY DEF RefinesNow, Refines, Window!windowVars, WrittenOff, SameState

(* Only a frame in hand, and close(), are states of the abstract protocol. *)
LEMMA SameReader ==
  ASSUME UNCHANGED <<closed, reader>>
  PROVE  SameState
  BY DEF SameState, WindowState

LEMMA ReaderMoves ==
  ASSUME TypeOK, UNCHANGED closed, NEW p \in Endpoint, NEW to, to # "late",
         reader[p] # "late", reader' = [reader EXCEPT ![p] = to]
  PROVE  SameState
  BY DEF SameState, WindowState, TypeOK

(* close() by the application or a timer, and by the reader at its end *)
LEMMA RefClose ==
  ASSUME TypeOK, WrittenOff, NEW p \in Endpoint, NEW why, Close(p, why),
         UNCHANGED <<sent, received>>,
         FrameInHand(p) \/ (reader[p] = "failing" /\ reader' = [reader EXCEPT ![p] = "done"])
  PROVE  RefinesNow
  <1>0. /\ closed \in [Endpoint -> BOOLEAN] /\ acked \in [Endpoint -> Nat]
        /\ reader \in [Endpoint -> {"reading", "late", "failing", "done"}]
    BY DEF TypeOK, SeqType, CloseType
  <1>1. /\ closed' = [closed EXCEPT ![p] = TRUE]
        /\ acked' = [acked EXCEPT ![p] = sent[p]]
    BY DEF Close
  <1>2. WrittenOff'
    BY <1>0, <1>1 DEF WrittenOff
  <1>3. CASE closed[p]
    <2>1. closed' = closed /\ acked' = acked
      BY <1>0, <1>1, <1>3 DEF WrittenOff
    <2>2. SameState
      BY <1>0, <1>3, <2>1 DEF FrameInHand, SameState, WindowState
    <2> QED
      BY <2>1, <2>2, RefQuiet
  <1>4. CASE ~closed[p]
    <2> DEFINE end == IF reader'[p] = "late" THEN "closing" ELSE "closed"
    <2>1. \A e \in Endpoint : WindowState(e)' = IF e = p THEN end ELSE WindowState(e)
      BY <1>0, <1>1 DEF WindowState, FrameInHand
    <2>2. end \in {"closing", "closed"}
      OBVIOUS
    <2> HIDE DEF end
    <2>3. [e \in Endpoint |-> WindowState(e)]' =
            [[e \in Endpoint |-> WindowState(e)] EXCEPT ![p] = end]
      BY <2>1
    <2>4. [e \in Endpoint |-> WindowState(e)][p] = "open"
      BY <1>4 DEF WindowState
    <2>5. Window!Close(p)
      BY <1>1, <2>2, <2>3, <2>4 DEF Window!Close
    <2> QED
      BY <1>2, <2>5 DEF RefinesNow, Refines, Window!Next
  <1> QED
    BY <1>3, <1>4

LEMMA RefTransmit ==
  ASSUME TypeOK, NumberInv, WrittenOff, NEW p \in Endpoint,
         ~WindowFull(p), MaySend(p), Transmit(p), UNCHANGED <<closed, reader>>
  PROVE  RefinesNow
  <1>1. sent' = [sent EXCEPT ![p] = @ + 1] /\ UNCHANGED <<received, acked>>
    BY DEF Transmit
  <1>2. sent[p] \in Nat /\ acked[p] \in Nat /\ K[p] \in Nat
    BY Counts
  <1>3. sent[p] - acked[p] < K[p]
    BY <1>2, Unconfirmed DEF WindowFull
  <1>4. ~closed[p]
    BY DEF MaySend
  <1>5. [e \in Endpoint |-> WindowState(e)]' = [e \in Endpoint |-> WindowState(e)]
        /\ [e \in Endpoint |-> WindowState(e)][p] = "open"
    BY <1>4 DEF WindowState
  <1>6. Window!Send(p)
    BY <1>1, <1>3, <1>5 DEF Window!Send
  <1>7. WrittenOff'
    BY <1>1, <1>4 DEF WrittenOff, TypeOK, SeqType
  <1> QED
    BY <1>6, <1>7 DEF RefinesNow, Refines, Window!Next

(* The ASDU of a frame the reader takes is the next one of the other end. *)
LEMMA RefTake ==
  ASSUME TypeOK, NumberInv, NEW p \in Endpoint, Readable(p) \/ InHand(p),
         NEW counted \in BOOLEAN, counted => Head(wire[p]).type = "I_FORMAT",
         received' = [received EXCEPT ![p] = IF counted THEN @ + 1 ELSE @]
  PROVE  Window!Take(p, Peer(p))
  <1> DEFINE f == Head(wire[p])
             q == Peer(p)
  <1>1. /\ received[p] \in Nat /\ sent[q] \in Nat /\ received \in [Endpoint -> Nat]
        /\ f.vs = received[p] + Carries(f) /\ f.vs <= sent[q]
    BY Counts, Peers, FirstFrame DEF TypeOK, SeqType
  <1> HIDE DEF f, q
  <1>2. CASE counted
    <2>1. f.vs = received[p] + 1
      BY <1>1, <1>2 DEF Carries, f
    <2>2. received[p] < sent[q] /\ received' = [received EXCEPT ![p] = @ + 1]
      BY <1>1, <1>2, <2>1
    <2> QED
      BY <2>2 DEF Window!Take, q
  <1>3. CASE ~counted
    <2>1. received' = received
      BY <1>1, <1>3
    <2> QED
      BY <2>1 DEF Window!Take
  <1> QED
    BY <1>2, <1>3

(* A frame is read: its ASDU is counted if it has one, and it acknowledges  *)
(* no more than the other end has received.                                 *)
LEMMA RefRead ==
  ASSUME TypeOK, NumberInv, WrittenOff, NEW p \in Endpoint, Readable(p),
         Window!Take(p, Peer(p)),
         NEW a \in Nat, acked[p] <= a, ~overtaken => a <= Head(wire[p]).vr,
         acked' = [acked EXCEPT ![p] = a],
         UNCHANGED <<sent, closed, reader>>
  PROVE  RefinesNow
  <1> DEFINE f == Head(wire[p])
             q == Peer(p)
  <1>1. q \in Endpoint \ {p}
    BY Peers
  <1>2. ~closed[p]
    BY DEF Readable
  <1>3. WrittenOff'
    BY <1>2 DEF WrittenOff, TypeOK, SeqType
  <1>4. ASSUME ~overtaken PROVE Window!Receive(p, q)
    <2>1. /\ acked[p] \in Nat /\ received[q] \in Nat
          /\ f.vr \in Nat /\ f.vr <= received[q]
      BY <1>1, Counts, FirstFrame
    <2>2. a \in acked[p] .. received[q]
      BY <1>4, <2>1
    <2>3. [e \in Endpoint |-> WindowState(e)]' = [e \in Endpoint |-> WindowState(e)]
          /\ [e \in Endpoint |-> WindowState(e)][p] = "open"
      BY <1>2 DEF WindowState
    <2> HIDE DEF f
    <2> QED
      BY <2>2, <2>3 DEF Window!Receive
  <1> QED
    BY <1>1, <1>3, <1>4 DEF RefinesNow, Refines, Window!Next

(* The frame in hand of a connection that has closed *)
LEMMA RefLate ==
  ASSUME TypeOK, WrittenOff, NEW p \in Endpoint, InHand(p),
         Window!Take(p, Peer(p)), UNCHANGED <<sent, acked, closed>>,
         NEW to, to # "late", reader' = [reader EXCEPT ![p] = to]
  PROVE  RefinesNow
  <1>1. Peer(p) \in Endpoint \ {p}
    BY Peers
  <1>2. WindowState(p) = "closing"
    BY DEF WindowState, InHand
  <1>3. \A e \in Endpoint : WindowState(e)' = IF e = p THEN "closed" ELSE WindowState(e)
    BY DEF WindowState, InHand, TypeOK
  <1>4. [e \in Endpoint |-> WindowState(e)]' =
          [[e \in Endpoint |-> WindowState(e)] EXCEPT ![p] = "closed"]
        /\ [e \in Endpoint |-> WindowState(e)][p] = "closing"
    BY <1>2, <1>3
  <1>5. Window!ReceiveLate(p, Peer(p))
    BY <1>4 DEF Window!ReceiveLate
  <1>6. WrittenOff'
    BY DEF WrittenOff
  <1> QED
    BY <1>1, <1>5, <1>6 DEF RefinesNow, Refines, Window!Next

(* A frame that is rejected: once overtaken, one that has been counted may  *)
(* be, and before that only in state STOPDT.                                *)
LEMMA RefReject ==
  ASSUME TypeOK, NumberInv, WrittenOff, NEW p \in Endpoint, RejectFrame(p)
  PROVE  RefinesNow
  <1> DEFINE f == Head(wire[p])
             counted == /\ f.type = "I_FORMAT" /\ ~StopRejects(p, f)
                        /\ f.ns = receiveSequenceNumber[p]
  <1>1. Readable(p) /\ ~WindowExceeded(p, f.nr)
    BY FirstFrame, NeverExceeded DEF RejectFrame
  <1>2. /\ UNCHANGED <<sent, acked, closed>>
        /\ Count(p, counted, NextSeq(f.ns))
        /\ reader' = [reader EXCEPT ![p] = "failing"]
    BY <1>1 DEF RejectFrame
  <1>3. SameState
    BY <1>1, <1>2, ReaderMoves DEF Readable
  <1>4. WrittenOff'
    BY <1>2 DEF WrittenOff
  <1>5. ASSUME ~overtaken PROVE Refines
    <2>1. StopRejects(p, f)
      BY <1>1, <1>5, NumbersAccepted DEF RejectFrame
    <2>2. received' = [received EXCEPT ![p] = @]
      BY <1>2, <2>1 DEF Count
    <2>3. received' = received
      BY <2>2 DEF TypeOK, SeqType
    <2> QED
      BY <1>2, <1>3, <1>5, <2>3, RefQuiet DEF RefinesNow
  <1> QED
    BY <1>4, <1>5 DEF RefinesNow

----------------------------------------------------------------------------
(* The actions *)

LEMMA RefReader ==
  ASSUME TypeOK, NumberInv, WrittenOff, NEW p \in Endpoint,
         ReaderThread(p) \/ ReaderBroken(p)
  PROVE  RefinesNow
  <1> DEFINE f == Head(wire[p])
  <1>1. ASSUME HandleIFrame(p) \/ HandleSFrame(p)
        PROVE  RefinesNow
    <2>1. /\ Readable(p) /\ f.type \in {"I_FORMAT", "S_FORMAT"}
          /\ ~NumberRejects(p, f) /\ Acknowledge(p, f.nr)
          /\ UNCHANGED <<sent, closed, reader>>
      BY <1>1 DEF HandleIFrame, HandleSFrame, Handles, closeVars
    <2>2. PICK a \in Nat : /\ acked[p] <= a
                           /\ ~overtaken => a = f.vr
                           /\ acked' = [acked EXCEPT ![p] = a]
      BY <2>1, AcknowledgeCounts
    <2>3. f.vr \in Nat
      BY <2>1, FirstFrame
    <2>4. ~overtaken => a <= f.vr
      BY <2>2, <2>3
    <2>5. Window!Take(p, Peer(p))
      <3>1. CASE HandleIFrame(p)
        <4>1. f.type = "I_FORMAT" /\ received' = [received EXCEPT ![p] = IF TRUE THEN @ + 1 ELSE @]
          BY <3>1 DEF HandleIFrame, Handles
        <4> HIDE DEF f
        <4> QED
          BY <2>1, <4>1, RefTake DEF f
      <3>2. CASE HandleSFrame(p)
        <4>1. received' = received
          BY <3>2 DEF HandleSFrame
        <4> QED
          BY <4>1 DEF Window!Take
      <3> QED
        BY <1>1, <3>1, <3>2
    <2> HIDE DEF f
    <2> QED
      BY <2>1, <2>2, <2>4, <2>5, RefRead DEF f
  <1>2. CASE HandleStartDtAct(p) \/ HandleStopDtAct(p) \/ HandleStartDtCon(p)
               \/ HandleStopDtCon(p) \/ HandleTestFrAct(p) \/ HandleTestFrCon(p)
    <2>1. UNCHANGED <<sent, received, acked, closed, reader>>
      BY <1>2 DEF HandleStartDtAct, HandleStopDtAct, HandleStartDtCon, HandleStopDtCon,
                  HandleTestFrAct, HandleTestFrCon, seqVars, closeVars
    <2> QED
      BY <2>1, SameReader, RefQuiet
  <1>3. CASE ReaderStops(p) \/ ReaderBroken(p)
    <2>1. /\ UNCHANGED <<sent, received, acked, closed>>
          /\ reader[p] = "reading" /\ reader' = [reader EXCEPT ![p] = "failing"]
      BY <1>3 DEF ReaderStops, ReaderBroken, seqVars
    <2> QED
      BY <2>1, ReaderMoves, RefQuiet
  <1>4. CASE RejectFrame(p)
    BY <1>4, RefReject
  <1>5. CASE LateIFrame(p) \/ LateSFrame(p) \/ LateAct(p) \/ LateCon(p)
    <2>1. InHand(p) /\ UNCHANGED <<sent, acked, closed>>
      BY <1>5 DEF LateIFrame, LateSFrame, LateAct, LateCon, seqVars, closeVars
    <2>2. \E to : to # "late" /\ reader' = [reader EXCEPT ![p] = to]
      BY <1>5 DEF LateIFrame, LateSFrame, LateAct, LateCon
    <2>3. Window!Take(p, Peer(p))
      <3>1. CASE LateIFrame(p)
        <4> DEFINE counted == ~StopRejects(p, f) /\ f.ns = receiveSequenceNumber[p]
        <4>1. f.type = "I_FORMAT" /\ Count(p, counted, NextSeq(f.ns))
          BY <3>1 DEF LateIFrame
        <4>2. counted \in BOOLEAN
          BY DEF StopRejects
        <4> HIDE DEF counted, f
        <4>3. received' = [received EXCEPT ![p] = IF counted THEN @ + 1 ELSE @]
          BY <4>1 DEF Count
        <4> QED
          BY <2>1, <4>1, <4>2, <4>3, RefTake DEF f
      <3>2. CASE LateSFrame(p) \/ LateAct(p) \/ LateCon(p)
        BY <3>2 DEF LateSFrame, LateAct, LateCon, seqVars, Window!Take
      <3> QED
        BY <1>5, <3>1, <3>2
    <2> QED
      BY <2>1, <2>2, <2>3, RefLate
  <1>6. CASE ReaderExit(p)
    BY <1>6, RefClose DEF ReaderExit
  <1> QED
    BY <1>1, <1>2, <1>3, <1>4, <1>5, <1>6 DEF ReaderThread

LEMMA RefOthers ==
  ASSUME TypeOK, NumberInv, WrittenOff, NEW p \in Endpoint,
         \/ AppClose(p) \/ setConnectionListener(p)
         \/ Send(p) \/ SendWaits(p) \/ SenderResumes(p) \/ ForwardASdu(p)
         \/ \E t \in Timers : TakeTimer(p, t)
         \/ TimerThread(p)
  PROVE  RefinesNow
  <1>1. CASE AppClose(p)
    BY <1>1, RefClose DEF AppClose
  <1>2. CASE setConnectionListener(p) \/ SendWaits(p) \/ ForwardASdu(p)
               \/ \E t \in Timers : TakeTimer(p, t)
    <2>1. UNCHANGED <<sent, received, acked, closed, reader>>
      BY <1>2 DEF setConnectionListener, SendWaits, ForwardASdu, TakeTimer, seqVars,
                  closeVars
    <2> QED
      BY <2>1, SameReader, RefQuiet
  <1>3. CASE Send(p)
    BY <1>3, RefTransmit DEF Send, closeVars
  <1>4. CASE SenderResumes(p)
    <2>1. UNCHANGED <<closed, reader>>
      BY <1>4 DEF SenderResumes, closeVars
    <2>2. CASE UNCHANGED seqVars
      BY <2>1, <2>2, SameReader, RefQuiet DEF seqVars
    <2>3. CASE ~WindowFull(p) /\ MaySend(p) /\ Transmit(p)
      BY <2>1, <2>3, RefTransmit
    <2> QED
      BY <1>4, <2>2, <2>3 DEF SenderResumes
  <1>5. CASE ExecuteNoAckReceived(p)
    BY <1>5, RefClose DEF ExecuteNoAckReceived
  <1>6. CASE TimerThread(p) /\ ~ExecuteNoAckReceived(p)
    <2>1. UNCHANGED <<sent, received, acked, closed, reader>>
      BY <1>6 DEF TimerThread, ExecuteNoAckSent, ExecuteIdle, ExecuteStopDt,
                  TimerWriteFails, TimerInterrupted, TimerDone, seqVars, closeVars
    <2> QED
      BY <2>1, SameReader, RefQuiet
  <1> QED
    BY <1>1, <1>2, <1>3, <1>4, <1>5, <1>6

LEMMA RefControl ==
  ASSUME WrittenOff, ControlCalls \/ ControlThread
  PROVE  RefinesNow
  <1>1. UNCHANGED <<sent, received, acked, closed, reader>>
    BY DEF ControlCalls, ControlThread, StartDataTransfer, StopDataTransfer,
           StartConfirmed, StartTimesOut, StopReadsDiff, StopReadsNumber, StopWritesSFrame,
           StopRecordsSFrame, StopCancelsTimer, StopSendsAct, StopFails, StopReturns,
           seqVars, closeVars
  <1> QED
    BY <1>1, SameReader, RefQuiet

LEMMA RefStep ==
  TypeOK /\ NumberInv /\ WrittenOff /\ [Next]_vars => RefinesNow
  <1> SUFFICES ASSUME TypeOK, NumberInv, WrittenOff, [Next]_vars
               PROVE  RefinesNow
    OBVIOUS
  <1>1. CASE UNCHANGED vars
    BY <1>1, SameReader, RefQuiet DEF vars, seqVars, closeVars
  <1>2. ASSUME NEW p \in Endpoint, ReaderThread(p) \/ ReaderBroken(p)
        PROVE  RefinesNow
    BY <1>2, RefReader
  <1>3. ASSUME NEW p \in Endpoint,
               \/ AppClose(p) \/ setConnectionListener(p)
               \/ Send(p) \/ SendWaits(p) \/ SenderResumes(p) \/ ForwardASdu(p)
               \/ \E t \in Timers : TakeTimer(p, t)
               \/ TimerThread(p)
        PROVE  RefinesNow
    BY <1>3, RefOthers
  <1>4. CASE ControlCalls \/ ControlThread
    BY <1>4, RefControl
  <1> QED
    BY <1>1, <1>2, <1>3, <1>4 DEF Next

LEMMA RefInit == Init => Window!Init /\ WrittenOff
  BY DEF Init, Window!Init, WrittenOff, WindowState

(* Every behaviour of two Connections is one of the abstract protocol: no   *)
(* ASDU skipped or taken twice, at most k outstanding, no acknowledgement   *)
(* of what was not taken or taken back, and after close() nothing sent and  *)
(* at most the one ASDU taken that the reader had in hand.  It is so as     *)
(* long as stopDataTransfer's S-frame is not overtaken: behind an N(R) that *)
(* goes back an endpoint may hold for acknowledged what was not taken.      *)
THEOREM Refinement == Spec /\ [](~overtaken) => ImplementsWindowProtocol
  <1>1. RefinesNow => WrittenOff' /\ (~overtaken => [Window!Next]_(Window!windowVars))
    BY DEF RefinesNow, Refines
  <1>2. Spec /\ [](~overtaken) => Window!Init /\ [][Window!Next]_(Window!windowVars)
    BY <1>1, RefInit, RefStep, TypeCorrect, NumbersCorrect, PTL DEF Spec
  <1> QED
    BY <1>2 DEF ImplementsWindowProtocol, Window!Spec

----------------------------------------------------------------------------
(* The waiting senders *)

LEMMA Woken ==
  ASSUME TypeOK, NEW p \in Endpoint, NotifyAll(p)
  PROVE  waiting' = [waiting EXCEPT ![p] = 0]
  BY DEF NotifyAll

(* As long as a window and closed keep, nobody may begin to wait unless the *)
(* window is full.                                                          *)
LEMMA WaitQuiet ==
  ASSUME TypeOK, NoLostWakeup,
         UNCHANGED <<sendSequenceNumber, acknowledgedSendSequenceNumber, closed, waiting>>
  PROVE  NoLostWakeup'
  BY DEF NoLostWakeup, WindowFull, getNumUnconfirmedAPdusSent

LEMMA WaitNotified ==
  ASSUME TypeOK, NoLostWakeup, NEW p \in Endpoint,
         waiting' = [waiting EXCEPT ![p] = 0],
         NEW a, NEW c \in BOOLEAN,
         acknowledgedSendSequenceNumber' = [acknowledgedSendSequenceNumber EXCEPT ![p] = a],
         closed' = [closed EXCEPT ![p] = c],
         UNCHANGED sendSequenceNumber
  PROVE  NoLostWakeup'
  <1>1. waiting'[p] = 0
    BY DEF TypeOK, SenderType
  <1>2. \A q \in Endpoint \ {p} :
          /\ waiting'[q] = waiting[q] /\ closed'[q] = closed[q]
          /\ WindowFull(q)' <=> WindowFull(q)
    BY DEF TypeOK, SenderType, SeqType, CloseType, WindowFull, getNumUnconfirmedAPdusSent
  <1> QED
    BY <1>1, <1>2 DEF NoLostWakeup

(* A full window is that of an open endpoint: close() writes it off. *)
LEMMA FullIsOpen ==
  ASSUME TypeOK, NumberInv, WrittenOff, NEW p \in Endpoint, WindowFull(p)
  PROVE  ~closed[p]
  <1>1. sent[p] \in Nat /\ acked[p] \in Nat /\ K[p] \in Nat /\ K[p] >= 1
    BY Counts, WindowAssumption, SeqModulusAssumption
  <1>2. sent[p] - acked[p] >= K[p]
    BY Unconfirmed DEF WindowFull
  <1> QED
    BY <1>1, <1>2 DEF WrittenOff

LEMMA WaitTransmit ==
  ASSUME TypeOK, NoLostWakeup, NEW p \in Endpoint, ~WindowFull(p), Transmit(p),
         UNCHANGED <<closed, waiting>>
  PROVE  NoLostWakeup'
  <1>1. ~(waiting[p] > 0)
    BY DEF NoLostWakeup
  <1>2. \A q \in Endpoint \ {p} : WindowFull(q)' <=> WindowFull(q)
    BY DEF TypeOK, SeqType, Transmit, WindowFull, getNumUnconfirmedAPdusSent
  <1> QED
    BY <1>1, <1>2 DEF NoLostWakeup

LEMMA WaitJoins ==
  ASSUME TypeOK, NumberInv, WrittenOff, NoLostWakeup, NEW p \in Endpoint, WindowFull(p),
         waiting' = [waiting EXCEPT ![p] = @ + 1],
         UNCHANGED <<sendSequenceNumber, acknowledgedSendSequenceNumber, closed>>
  PROVE  NoLostWakeup'
  <1>1. ~closed[p]
    BY FullIsOpen
  <1>2. \A q \in Endpoint : WindowFull(q)' <=> WindowFull(q)
    BY DEF WindowFull, getNumUnconfirmedAPdusSent
  <1>3. \A q \in Endpoint \ {p} : waiting'[q] = waiting[q]
    BY DEF TypeOK, SenderType
  <1> QED
    BY <1>1, <1>2, <1>3 DEF NoLostWakeup

LEMMA WaitReader ==
  ASSUME TypeOK, NumberInv, NoLostWakeup, NEW p \in Endpoint, ReaderThread(p) \/ ReaderBroken(p)
  PROVE  NoLostWakeup'
  <1> DEFINE nr == Head(wire[p]).nr
  <1>1. CASE HandleIFrame(p) \/ HandleSFrame(p)
    <2>1. /\ Acknowledge(p, nr)
          /\ UNCHANGED <<sendSequenceNumber, closed>>
      BY <1>1 DEF HandleIFrame, HandleSFrame, closeVars
    <2>2. CASE nr = acknowledgedSendSequenceNumber[p]
      <3>1. UNCHANGED <<acknowledgedSendSequenceNumber, waiting>>
        BY <2>1, <2>2 DEF Acknowledge, TakeAck, senderVars, TypeOK, SeqType
      <3> QED
        BY <2>1, <3>1, WaitQuiet
    <2>3. CASE nr # acknowledgedSendSequenceNumber[p]
      <3>1. waiting' = [waiting EXCEPT ![p] = 0]
        BY <2>1, <2>3 DEF Acknowledge, NotifyAll
      <3>2. closed[p] \in BOOLEAN /\ closed' = [closed EXCEPT ![p] = closed[p]]
        BY <2>1 DEF TypeOK, CloseType
      <3>3. acknowledgedSendSequenceNumber' =
              [acknowledgedSendSequenceNumber EXCEPT ![p] = nr]
        BY <2>1 DEF Acknowledge, TakeAck
      <3> HIDE DEF nr
      <3> QED
        BY <2>1, <3>1, <3>2, <3>3, WaitNotified
    <2> QED
      BY <2>2, <2>3
  <1>2. CASE HandleStartDtAct(p) \/ HandleStopDtAct(p) \/ HandleStartDtCon(p)
               \/ HandleStopDtCon(p) \/ HandleTestFrAct(p) \/ HandleTestFrCon(p)
               \/ LateIFrame(p) \/ LateSFrame(p) \/ LateAct(p) \/ LateCon(p)
               \/ RejectFrame(p) \/ ReaderStops(p) \/ ReaderBroken(p)
    <2>1. ~RejectFrame(p) \/ ~WindowExceeded(p, nr)
      BY FirstFrame, NeverExceeded DEF RejectFrame
    <2>2. UNCHANGED <<sendSequenceNumber, acknowledgedSendSequenceNumber, closed, waiting>>
      BY <1>2, <2>1 DEF HandleStartDtAct, HandleStopDtAct, HandleStartDtCon,
                  HandleStopDtCon, HandleTestFrAct, HandleTestFrCon, RejectFrame,
                  LateIFrame, LateSFrame, LateAct, LateCon, ReaderStops,
                  ReaderBroken, seqVars, closeVars, senderVars
    <2> QED
      BY <2>2, WaitQuiet
  <1>3. CASE ReaderExit(p)
    <2>1. Close(p, "remote") /\ UNCHANGED sendSequenceNumber
      BY <1>3 DEF ReaderExit
    <2> QED
      BY <2>1, Woken, WaitNotified DEF Close
  <1> QED
    BY <1>1, <1>2, <1>3 DEF ReaderThread

LEMMA WaitOthers ==
  ASSUME TypeOK, NumberInv, WrittenOff, NoLostWakeup, NEW p \in Endpoint,
         \/ AppClose(p) \/ setConnectionListener(p)
         \/ Send(p) \/ SendWaits(p) \/ SenderResumes(p) \/ ForwardASdu(p)
         \/ \E t \in Timers : TakeTimer(p, t)
         \/ TimerThread(p)
  PROVE  NoLostWakeup'
  <1>1. CASE AppClose(p) \/ ExecuteNoAckReceived(p)
    <2>1. (Close(p, "local") \/ Close(p, "timeout")) /\ UNCHANGED sendSequenceNumber
      BY <1>1 DEF AppClose, ExecuteNoAckReceived
    <2> QED
      BY <2>1, Woken, WaitNotified DEF Close
  <1>2. CASE setConnectionListener(p) \/ ForwardASdu(p)
               \/ \E t \in Timers : TakeTimer(p, t)
    <2>1. UNCHANGED <<sendSequenceNumber, acknowledgedSendSequenceNumber, closed, waiting>>
      BY <1>2 DEF setConnectionListener, ForwardASdu, TakeTimer, seqVars, closeVars,
                  senderVars
    <2> QED
      BY <2>1, WaitQuiet
  <1>3. CASE Send(p)
    BY <1>3, WaitTransmit DEF Send, closeVars, senderVars
  <1>4. CASE SendWaits(p)
    BY <1>4, WaitJoins DEF SendWaits, closeVars, seqVars
  <1>5. CASE SenderResumes(p)
    <2>1. UNCHANGED closed
      BY <1>5 DEF SenderResumes, closeVars
    <2>2. CASE WindowFull(p) /\ waiting' = [waiting EXCEPT ![p] = @ + 1] /\ UNCHANGED seqVars
      BY <2>1, <2>2, WaitJoins DEF seqVars
    <2>3. CASE UNCHANGED <<seqVars, waiting>>
      BY <2>1, <2>3, WaitQuiet DEF seqVars
    <2>4. CASE ~WindowFull(p) /\ Transmit(p) /\ UNCHANGED waiting
      BY <2>1, <2>4, WaitTransmit
    <2> QED
      BY <1>5, <2>2, <2>3, <2>4 DEF SenderResumes
  <1>6. CASE TimerThread(p) /\ ~ExecuteNoAckReceived(p)
    <2>1. UNCHANGED <<sendSequenceNumber, acknowledgedSendSequenceNumber, closed, waiting>>
      BY <1>6 DEF TimerThread, ExecuteNoAckSent, ExecuteIdle, ExecuteStopDt,
                  TimerWriteFails, TimerInterrupted, TimerDone, seqVars, closeVars,
                  senderVars
    <2> QED
      BY <2>1, WaitQuiet
  <1> QED
    BY <1>1, <1>2, <1>3, <1>4, <1>5, <1>6

LEMMA WaitStep ==
  TypeOK /\ NumberInv /\ WrittenOff /\ NoLostWakeup /\ [Next]_vars => NoLostWakeup'
  <1> SUFFICES ASSUME TypeOK, NumberInv, WrittenOff, NoLostWakeup, [Next]_vars
               PROVE  NoLostWakeup'
    OBVIOUS
  <1>1. CASE UNCHANGED vars
    BY <1>1, WaitQuiet DEF vars, seqVars, closeVars, senderVars
  <1>2. ASSUME NEW p \in Endpoint, ReaderThread(p) \/ ReaderBroken(p)
        PROVE  NoLostWakeup'
    BY <1>2, WaitReader
  <1>3. ASSUME NEW p \in Endpoint,
               \/ AppClose(p) \/ setConnectionListener(p)
               \/ Send(p) \/ SendWaits(p) \/ SenderResumes(p) \/ ForwardASdu(p)
               \/ \E t \in Timers : TakeTimer(p, t)
               \/ TimerThread(p)
        PROVE  NoLostWakeup'
    BY <1>3, WaitOthers
  <1>4. CASE ControlCalls \/ ControlThread
    <2>1. UNCHANGED <<sendSequenceNumber, acknowledgedSendSequenceNumber, closed, waiting>>
      BY <1>4 DEF ControlCalls, ControlThread, StartDataTransfer, StopDataTransfer,
             StartConfirmed, StartTimesOut, StopReadsDiff, StopReadsNumber,
             StopWritesSFrame, StopRecordsSFrame, StopCancelsTimer, StopSendsAct, StopFails, StopReturns,
             seqVars, closeVars, senderVars
    <2> QED
      BY <2>1, WaitQuiet
  <1> QED
    BY <1>1, <1>2, <1>3, <1>4 DEF Next

(* No acknowledgement and no close() leaves a thread in send's wait() that  *)
(* has no reason to be there.                                               *)
THEOREM WaitersHaveReason == Spec => []NoLostWakeup
  <1>1. Init => WrittenOff /\ NoLostWakeup
    BY RefInit DEF Init, NoLostWakeup
  <1>2. RefinesNow => WrittenOff'
    BY DEF RefinesNow
  <1> QED
    BY <1>1, <1>2, RefStep, WaitStep, TypeCorrect, NumbersCorrect, PTL DEF Spec
=============================================================================
