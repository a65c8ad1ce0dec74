---------------------------- MODULE Connection ----------------------------
(* Two connected objects of class Connection, the one of the controlling    *)
(* station (Client) and the one a ServerThread created for it (Server),     *)
(* with the threads that work on each: the application's threads that call  *)
(* send, the thread that calls startDataTransfer and stopDataTransfer, the  *)
(* ConnectionReader, the TimeoutManager and the executor that forwards      *)
(* ASDUs.  A step is what a thread does while it holds the monitor of the   *)
(* Connection, or one unsynchronized access of stopDataTransfer.            *)
(*                                                                          *)
(* Time is abstracted: a timer that is queued may expire at any moment.     *)
(* TCP is a FIFO in each direction that neither loses nor repeats; closing  *)
(* the socket ends it.                                                      *)
EXTENDS SequenceNumbers, Sequences

CONSTANTS
  Client, Server,       \* the two endpoints
  \* of each endpoint's settings: getMaxNumOfOutstandingIPdus(),
  \* getMaxUnconfirmedIPdusReceived() and useSharedThreadPool()
  K, W, UseSharedThreadPool,
  Expiring,             \* bound: the timers of each endpoint that may expire
  MaxInFlight,          \* bound: t3 expires with fewer frames on the wire
  MaxSends,             \* bound: calls of send at each endpoint
  MaxStarts, MaxStops,  \* bounds: calls of start- and stopDataTransfer
  Closers,              \* the endpoints whose application may call close
  Attachers,            \* those whose application calls setConnectionListener
  LinkMayFail           \* the TCP connection may break

Endpoint == {Client, Server}
Peer(p) == IF p = Client THEN Server ELSE Client

Timers == {"maxTimeNoTestConReceived", "maxTimeNoAckReceived",
           "maxIdleTimeTimer", "maxTimeNoAckSentTimer",
           "stopDtOutstandingSFormatTimer"}

ASSUME EndpointAssumption == Client # Server
ASSUME WindowAssumption ==
  /\ K \in [Endpoint -> 1 .. SeqModulus - 1]
  /\ W \in [Endpoint -> 1 .. SeqModulus - 1]
ASSUME BoundAssumption ==
  /\ MaxSends \in [Endpoint -> Nat] /\ MaxStarts \in Nat /\ MaxStops \in Nat
  /\ Expiring \in [Endpoint -> SUBSET Timers]
  /\ Closers \subseteq Endpoint /\ Attachers \subseteq Endpoint
  /\ UseSharedThreadPool \in [Endpoint -> BOOLEAN] /\ LinkMayFail \in BOOLEAN
  /\ MaxInFlight \in Nat

VARIABLES
  \* the fields of each Connection
  sendSequenceNumber, receiveSequenceNumber,
  acknowledgedSendSequenceNumber, acknowledgedReceiveSequenceNumber,
  closed, stopped,
  pending,              \* of the server, the client never reads its own
  aSduListener, aSduListenerBack,    \* "the field is not null"
  stopDtTimer,          \* the server has a stopDtOutstandingSFormatTimer
  startDtCon, stopDtCon,             \* the latches of the client
  \* its timers: planned is what isPlanned() answers, queued what will run
  planned, queued,
  \* its threads
  tm, task,             \* the TimeoutManager and the task it has taken
  reader,               \* the ConnectionReader; "late": it had decoded a
                        \* frame when the connection closed
  waiting, awake,       \* senders in wait(), senders notified but not resumed
  control,              \* where the client's starting and stopping thread is
  starts, stops,        \* how often it has called the two methods
  stopNr,               \* the N(R) stopDataTransfer has put in its S-frame
  tasks,                \* the ASDUs handed to the serialExecutor
  \* the network: the frames on their way to each endpoint
  wire,
  \* history, which no guard of an action reads
  sent, received, acked,   \* absolute counts behind the modular counters
  confirmed,            \* the highest N(R) put on the wire, as a count
  delivered, lost,      \* ASDUs given to a listener, count of those dropped
  notified,             \* calls of connectionClosed
  closedBecause,        \* the first reason for closing
  dropped,              \* timers removed from the queue for an equal one
  stopCount,            \* the count behind stopNr
  overtaken             \* stopDataTransfer has written an N(R) when the reader
                        \* had already counted a further I-frame

seqVars == <<sendSequenceNumber, receiveSequenceNumber,
             acknowledgedSendSequenceNumber, acknowledgedReceiveSequenceNumber,
             sent, received, acked, confirmed>>
closeVars == <<closed, closedBecause, notified>>
transferVars == <<stopped, pending, aSduListener, aSduListenerBack>>
deliveryVars == <<tasks, delivered, lost>>
taskVars == <<planned, queued, stopDtTimer, dropped>>
tmVars == <<tm, task>>
senderVars == <<waiting, awake>>
stopVars == <<stopNr, stopCount, overtaken>>
controlVars == <<control, startDtCon, stopDtCon, starts, stops, stopVars>>

vars == <<seqVars, closeVars, transferVars, deliveryVars, taskVars, tmVars,
          senderVars, controlVars, reader, wire>>

----------------------------------------------------------------------------
(* Frames.  ns and nr are the N(S) and N(R) of the wire; vs and vr are      *)
(* history: how many I-frames the sender had sent, this one included, and   *)
(* how many it had received.  So vs also names the ASDU of an I-frame.      *)

FrameType == {"I_FORMAT", "S_FORMAT", "STARTDT_ACT", "STARTDT_CON",
              "STOPDT_ACT", "STOPDT_CON", "TESTFR_ACT", "TESTFR_CON"}

IFrame(s, r, vs, vr) ==
  [type |-> "I_FORMAT", ns |-> s, nr |-> r, vs |-> vs, vr |-> vr]
SFrameMutant(r, vs, vr) ==      \* acknowledges the frame it expects next
  [type |-> "S_FORMAT", ns |-> 0, nr |-> NextSeq(r), vs |-> vs, vr |-> vr]
SFrame(r, vs, vr) ==
  [type |-> "S_FORMAT", ns |-> 0, nr |-> r, vs |-> vs, vr |-> vr]
UFrame(p, type) ==
  [type |-> type, ns |-> 0, nr |-> 0, vs |-> sent[p], vr |-> received[p]]

Writes(p, frames) == wire' = [wire EXCEPT ![Peer(p)] = @ \o frames]
Reads(p, frames) ==
  wire' = [wire EXCEPT ![p] = Tail(@), ![Peer(p)] = @ \o frames]

----------------------------------------------------------------------------
(* Timers.  addTimerTask makes a task planned and queued, cancel neither;   *)
(* cancelIfPlanned(t) is "if (t.isPlanned()) t.cancel()".                   *)

cancelIfPlanned(p, t) == {t} \cap planned[p]

(* The tasks made for t1 (the fifth with what is left of t1).  Added in the *)
(* same millisecond two of them are equal, and addTimerTask then removes    *)
(* the one already queued, which stays planned.                             *)
Alike == {"maxTimeNoTestConReceived", "maxTimeNoAckReceived",
          "stopDtOutstandingSFormatTimer"}
Duplicates(p, added) ==
  IF added \cap Alike = {} THEN {} ELSE (Alike \cap queued[p] \cap planned[p]) \ added

Requeue(p, cancelled, added) ==
  \E gone \in SUBSET Duplicates(p, added) :
    /\ queued' = [queued EXCEPT ![p] = (@ \ (cancelled \cup gone)) \cup added]
    /\ dropped' = [dropped EXCEPT ![p] = (@ \cup gone) \ (cancelled \cup added)]

Retime(p, cancelled, added) ==
  /\ planned' = [planned EXCEPT ![p] = (@ \ cancelled) \cup added]
  /\ Requeue(p, cancelled, added)

ResetMutant(p) == Retime(p, {"maxIdleTimeTimer"}, {})      \* only cancels
(* resetMaxIdleTimeTimer alone: every handled frame ends with it *)
resetMaxIdleTimeTimer(p) == Retime(p, {}, {"maxIdleTimeTimer"})

----------------------------------------------------------------------------
(* The window *)

getNumUnconfirmedAPdusSent(p) ==
  sequenceNumberDiff(sendSequenceNumber[p], acknowledgedSendSequenceNumber[p])
numUnconfirmedIPdusReceived(p) ==
  sequenceNumberDiff(receiveSequenceNumber[p],
                     acknowledgedReceiveSequenceNumber[p])
WindowFullMutant(p) == getNumUnconfirmedAPdusSent(p) > K[p]
WindowFull(p) == getNumUnconfirmedAPdusSent(p) >= K[p]

(* The two things handleReceiveSequenceNumber throws for: the second when   *)
(* it has already taken the acknowledgement. *)
AckBeyondSent(p, nr) ==
  /\ nr # acknowledgedSendSequenceNumber[p]
  /\ sequenceNumberDiff(nr, acknowledgedSendSequenceNumber[p])
       > getNumUnconfirmedAPdusSent(p)
WindowExceeded(p, nr) ==
  /\ ~AckBeyondSent(p, nr)
  /\ nr \notin {acknowledgedSendSequenceNumber[p], sendSequenceNumber[p]}
  /\ sequenceNumberDiff(sendSequenceNumber[p], nr) > K[p]
AckRejected(p, nr) == AckBeyondSent(p, nr) \/ WindowExceeded(p, nr)

NotifyOneMutant(p) ==      \* notify()
  LET n == IF waiting[p] > 0 THEN 1 ELSE 0
  IN  /\ awake' = [awake EXCEPT ![p] = @ + n]
      /\ waiting' = [waiting EXCEPT ![p] = @ - n]
NoNotifyMutant(p) == UNCHANGED senderVars
NotifyAll(p) ==
  /\ awake' = [awake EXCEPT ![p] = @ + waiting[p]]
  /\ waiting' = [waiting EXCEPT ![p] = 0]

(* The rest of it, but for the timers: *)
TakeAck(p, nr) ==
  /\ acknowledgedSendSequenceNumber' =
       [acknowledgedSendSequenceNumber EXCEPT ![p] = nr]
  /\ acked' = [acked EXCEPT
       ![p] = @ + sequenceNumberDiff(nr, acknowledgedSendSequenceNumber[p])]
Acknowledge(p, nr) ==
  /\ TakeAck(p, nr)
  /\ IF nr = acknowledgedSendSequenceNumber[p] THEN UNCHANGED senderVars
                                               ELSE NotifyAll(p)

AckCancels(p, nr) ==
  IF nr = acknowledgedSendSequenceNumber[p] THEN {}
  ELSE cancelIfPlanned(p, "maxTimeNoAckReceived")
AckAddsMutant(p, nr) == {}      \* t1 not restarted for the frames still out
AckAdds(p, nr) ==
  IF nr \in {acknowledgedSendSequenceNumber[p], sendSequenceNumber[p]} THEN {}
  ELSE {"maxTimeNoAckReceived"}

(* handleIFrame acknowledges at once when w I-frames are unconfirmed, and   *)
(* otherwise starts t2 for the first of them.                               *)
AckDueMutant(p, unconfirmed) == unconfirmed > W[p]
AckDue(p, unconfirmed) == unconfirmed >= W[p]

AckDelayNeverMutant(p, unconfirmed) == FALSE
AckDelayFirstMutant(p, unconfirmed) ==   \* trusts isPlanned of a running task
  ~AckDue(p, unconfirmed) /\ "maxTimeNoAckSentTimer" \notin planned[p]
AckDelayStarts(p, unconfirmed) ==
  /\ ~AckDue(p, unconfirmed)
  /\ "maxTimeNoAckSentTimer" \notin planned[p] \/ unconfirmed = 1

(* updateReceiveSeqNum, but for the S-frame at the wrap *)
Count(p, counted, n) ==
  /\ receiveSequenceNumber' =
       [receiveSequenceNumber EXCEPT ![p] = IF counted THEN n ELSE @]
  /\ received' = [received EXCEPT ![p] = IF counted THEN @ + 1 ELSE @]

(* What a written N(R) does: the writer holds n received I-frames, counter  *)
(* r, for acknowledged.                                                     *)
Confirm(p, r, n) ==
  /\ acknowledgedReceiveSequenceNumber' =
       [acknowledgedReceiveSequenceNumber EXCEPT ![p] = r]
  /\ confirmed' = [confirmed EXCEPT ![p] = n]

----------------------------------------------------------------------------
Init ==
  /\ sendSequenceNumber = [p \in Endpoint |-> 0]
  /\ receiveSequenceNumber = [p \in Endpoint |-> 0]
  /\ acknowledgedSendSequenceNumber = [p \in Endpoint |-> 0]
  /\ acknowledgedReceiveSequenceNumber = [p \in Endpoint |-> 0]
  /\ closed = [p \in Endpoint |-> FALSE]
  /\ stopped = [p \in Endpoint |-> TRUE]
  /\ pending = FALSE
  /\ aSduListener = [p \in Endpoint |-> p = Server]
  /\ aSduListenerBack = [p \in Endpoint |-> FALSE]
  /\ stopDtTimer = FALSE
  /\ startDtCon = "none"
  /\ stopDtCon = "none"
  /\ planned = [p \in Endpoint |-> {"maxIdleTimeTimer"}]
  /\ queued = [p \in Endpoint |-> {"maxIdleTimeTimer"}]
  /\ tm = [p \in Endpoint |-> "idle"]
  /\ task = [p \in Endpoint |-> "maxIdleTimeTimer"]
  /\ reader = [p \in Endpoint |-> "reading"]
  /\ waiting = [p \in Endpoint |-> 0]
  /\ awake = [p \in Endpoint |-> 0]
  /\ control = "idle"
  /\ starts = 0
  /\ stops = 0
  /\ tasks = [p \in Endpoint |-> <<>>]
  /\ wire = [p \in Endpoint |-> <<>>]
  /\ sent = [p \in Endpoint |-> 0]
  /\ received = [p \in Endpoint |-> 0]
  /\ acked = [p \in Endpoint |-> 0]
  /\ confirmed = [p \in Endpoint |-> 0]
  /\ delivered = [p \in Endpoint |-> <<>>]
  /\ lost = [p \in Endpoint |-> 0]
  /\ notified = [p \in Endpoint |-> 0]
  /\ closedBecause = [p \in Endpoint |-> "none"]
  /\ dropped = [p \in Endpoint |-> {}]
  /\ stopNr = 0
  /\ stopCount = 0
  /\ overtaken = FALSE

----------------------------------------------------------------------------
(* close().  Closing a closed connection changes nothing here: its window   *)
(* is already written off and nobody waits.                                 *)
Close(p, why) ==
  /\ closed' = [closed EXCEPT ![p] = TRUE]
  /\ closedBecause' = [closedBecause EXCEPT ![p] = IF @ = "none" THEN why ELSE @]
  /\ acknowledgedSendSequenceNumber' =
       [acknowledgedSendSequenceNumber EXCEPT ![p] = sendSequenceNumber[p]]
  /\ acked' = [acked EXCEPT ![p] = sent[p]]
  /\ NotifyAll(p)

(* A reader may have decoded a frame before the socket closes and wait for  *)
(* the monitor with it: it will handle that frame yet, and no other.        *)
FrameInHand(p) ==
  \/ UNCHANGED reader
  \/ /\ ~closed[p] /\ reader[p] = "reading" /\ wire[p] # <<>>
     /\ reader' = [reader EXCEPT ![p] = "late"]

AppClose(p) ==
  /\ p \in Closers
  /\ ~closed[p]
  /\ Close(p, "local")
  /\ FrameInHand(p)
  /\ UNCHANGED <<sendSequenceNumber, receiveSequenceNumber,
                 acknowledgedReceiveSequenceNumber, sent, received, confirmed,
                 notified, transferVars, deliveryVars, taskVars, tmVars,
                 controlVars, wire>>

setConnectionListener(p) ==
  /\ p \in Attachers
  /\ ~aSduListener[p]
  /\ aSduListener' = [aSduListener EXCEPT ![p] = TRUE]
  /\ UNCHANGED <<seqVars, closeVars, stopped, pending, aSduListenerBack,
                 deliveryVars, taskVars, tmVars, senderVars, controlVars,
                 reader, wire>>

----------------------------------------------------------------------------
(* The application's senders: send().  A call that throws at once changes   *)
(* nothing and is not an action.                                            *)

MaySendMutant(p) == ~closed[p]
MaySendClosedMutant(p) == ~stopped[p]
MaySend(p) == ~closed[p] /\ ~stopped[p]

(* send() past its loop and its two checks *)
Transmit(p) ==
  LET r == receiveSequenceNumber[p]
      s == sendSequenceNumber[p]
  IN  /\ sendSequenceNumber' = [sendSequenceNumber EXCEPT ![p] = NextSeq(@)]
      /\ sent' = [sent EXCEPT ![p] = @ + 1]
      /\ Confirm(p, r, received[p])
      /\ Writes(p, (IF Wraps(s) THEN <<SFrame(r, sent[p], received[p])>>
                                ELSE <<>>)
                   \o <<IFrame(s, r, sent[p] + 1, received[p])>>)
      /\ Retime(p, cancelIfPlanned(p, "maxTimeNoAckSentTimer"),
                {"maxIdleTimeTimer"} \cup ({"maxTimeNoAckReceived"} \ planned[p]))
      /\ UNCHANGED <<receiveSequenceNumber, acknowledgedSendSequenceNumber,
                     received, acked, stopDtTimer>>

Send(p) ==
  /\ sent[p] + waiting[p] + awake[p] < MaxSends[p]
  /\ ~WindowFull(p) /\ MaySend(p)
  /\ Transmit(p)
  /\ UNCHANGED <<closeVars, transferVars, deliveryVars, tmVars, senderVars,
                 controlVars, reader>>

SendWaits(p) ==
  /\ sent[p] + waiting[p] + awake[p] < MaxSends[p]
  /\ WindowFull(p)
  /\ waiting' = [waiting EXCEPT ![p] = @ + 1]
  /\ UNCHANGED <<seqVars, closeVars, transferVars, deliveryVars, taskVars,
                 tmVars, awake, controlVars, reader, wire>>

(* A notified sender gets the monitor again and re-examines everything. *)
SenderResumes(p) ==
  /\ awake[p] > 0
  /\ awake' = [awake EXCEPT ![p] = @ - 1]
  /\ \/ /\ WindowFull(p)
        /\ waiting' = [waiting EXCEPT ![p] = @ + 1]
        /\ UNCHANGED <<seqVars, taskVars, wire>>
     \/ /\ ~WindowFull(p) /\ ~MaySend(p)
        /\ UNCHANGED <<seqVars, taskVars, waiting, wire>>
     \/ /\ ~WindowFull(p) /\ MaySend(p)
        /\ Transmit(p)
        /\ UNCHANGED waiting
  /\ UNCHANGED <<closeVars, transferVars, deliveryVars, tmVars, controlVars,
                 reader>>

----------------------------------------------------------------------------
(* The ConnectionReader: one frame per turn.  It decodes without the        *)
(* monitor and handles the frame under it; only a close() of its own        *)
(* connection sees the difference, so decoding is no step of its own.       *)

Readable(p) == reader[p] = "reading" /\ ~closed[p] /\ wire[p] # <<>>
InHand(p) == reader[p] = "late" /\ closed[p] /\ wire[p] # <<>>

(* closeIfStopped throws: only for a connection of a ServerThread *)
StopRejects(p, f) ==
  /\ f.type \in {"I_FORMAT", "S_FORMAT"}
  /\ p = Server /\ stopped[p] /\ ~pending

NumberRejects(p, f) ==
  \/ f.type = "I_FORMAT" /\ f.ns # receiveSequenceNumber[p]
  \/ f.type \in {"I_FORMAT", "S_FORMAT"} /\ AckRejected(p, f.nr)

Handles(p, type) ==
  LET f == Head(wire[p])
  IN  /\ Readable(p)
      /\ f.type = type
      /\ ~StopRejects(p, f) /\ ~NumberRejects(p, f)

HandleIFrame(p) ==
  LET f == Head(wire[p])
      n == NextSeq(f.ns)
      unconfirmed == IF Wraps(f.ns) THEN 0    \* updateReceiveSeqNum answered
                     ELSE sequenceNumberDiff(n, acknowledgedReceiveSequenceNumber[p])
      full == AckDue(p, unconfirmed)
      t2 == "maxTimeNoAckSentTimer"
  IN  /\ Handles(p, "I_FORMAT")
      /\ receiveSequenceNumber' = [receiveSequenceNumber EXCEPT ![p] = n]
      /\ received' = [received EXCEPT ![p] = @ + 1]
      /\ IF Wraps(f.ns) \/ full
         THEN /\ Confirm(p, n, received[p] + 1)
              /\ Reads(p, <<SFrame(n, sent[p], received[p] + 1)>>)
         ELSE /\ UNCHANGED <<acknowledgedReceiveSequenceNumber, confirmed>>
              /\ Reads(p, <<>>)
      /\ Acknowledge(p, f.nr)
      /\ IF aSduListener[p]
         THEN tasks' = [tasks EXCEPT ![p] = Append(@, f.vs)] /\ UNCHANGED lost
         ELSE lost' = [lost EXCEPT ![p] = @ + 1] /\ UNCHANGED tasks
      /\ Retime(p,
           AckCancels(p, f.nr) \cup (IF full THEN cancelIfPlanned(p, t2) ELSE {}),
           AckAdds(p, f.nr) \cup {"maxIdleTimeTimer"}
             \cup (IF AckDelayStarts(p, unconfirmed) THEN {t2} ELSE {}))
      /\ UNCHANGED <<sendSequenceNumber, sent, closeVars, transferVars,
                     delivered, stopDtTimer, tmVars, controlVars, reader>>

(* An S-frame makes the server run its stopDtOutstandingSFormatTimer by     *)
(* hand, if it ever had one; that timer does nothing while data transfer is *)
(* stopped.                                                                 *)
HandleSFrame(p) ==
  LET f == Head(wire[p])
      manual == p = Server /\ stopDtTimer
      answers == manual /\ ~stopped[p]
      done == IF manual THEN {"stopDtOutstandingSFormatTimer"} ELSE {}
      added == AckAdds(p, f.nr) \cup {"maxIdleTimeTimer"}
  IN  /\ Handles(p, "S_FORMAT")
      /\ Acknowledge(p, f.nr)
      /\ Reads(p, IF answers THEN <<UFrame(p, "STOPDT_CON")>> ELSE <<>>)
      /\ pending' = (pending /\ ~answers)
      /\ planned' = [planned EXCEPT
           ![p] = (@ \ (AckCancels(p, f.nr) \cup done)) \cup added]
      /\ Requeue(p, AckCancels(p, f.nr), added)
      /\ UNCHANGED <<sendSequenceNumber, receiveSequenceNumber,
                     acknowledgedReceiveSequenceNumber, sent, received,
                     confirmed, closeVars, stopped, aSduListener,
                     aSduListenerBack, deliveryVars, stopDtTimer, tmVars,
                     controlVars, reader>>

HandleStartDtAct(p) ==
  /\ Handles(p, "STARTDT_ACT")
  /\ Reads(p, <<UFrame(p, "STARTDT_CON")>>)
  /\ aSduListener' = [aSduListener EXCEPT ![p] = @ \/ aSduListenerBack[p]]
  /\ stopped' = [stopped EXCEPT ![p] = FALSE]
  /\ resetMaxIdleTimeTimer(p)
  /\ UNCHANGED <<seqVars, closeVars, pending, aSduListenerBack, deliveryVars,
                 stopDtTimer, tmVars, senderVars, controlVars, reader>>

(* STOPDT_CON has to wait for an acknowledgement *)
OutstandingMutant(p) == FALSE
Outstanding(p) == /\ getNumUnconfirmedAPdusSent(p) > 0
                  /\ "maxTimeNoAckReceived" \in planned[p]

HandleStopDtAct(p) ==
  LET unconfirmed == numUnconfirmedIPdusReceived(p) > 0
      outstanding == Outstanding(p)
      r == receiveSequenceNumber[p]
  IN  /\ Handles(p, "STOPDT_ACT")
      /\ stopped' = [stopped EXCEPT ![p] = TRUE]
      /\ aSduListenerBack' = [aSduListenerBack EXCEPT ![p] = @ \/ aSduListener[p]]
      /\ aSduListener' = [aSduListener EXCEPT ![p] = FALSE]
      /\ IF unconfirmed THEN Confirm(p, r, received[p])
         ELSE UNCHANGED <<acknowledgedReceiveSequenceNumber, confirmed>>
      /\ Reads(p, (IF unconfirmed THEN <<SFrame(r, sent[p], received[p])>>
                                  ELSE <<>>)
                  \o (IF outstanding THEN <<>>
                                     ELSE <<UFrame(p, "STOPDT_CON")>>))
      /\ pending' = outstanding
      /\ stopDtTimer' = (stopDtTimer \/ outstanding)
      /\ Retime(p, cancelIfPlanned(p, "maxTimeNoAckSentTimer"),
           {"maxIdleTimeTimer"} \cup
             (IF outstanding THEN {"stopDtOutstandingSFormatTimer"} ELSE {}))
      /\ UNCHANGED <<sendSequenceNumber, receiveSequenceNumber,
                     acknowledgedSendSequenceNumber, sent, received, acked,
                     closeVars, deliveryVars, tmVars, senderVars, controlVars,
                     reader>>

(* STARTDT_CON and STOPDT_CON count the latch of the latest call down. *)
HandleStartDtCon(p) ==
  /\ Handles(p, "STARTDT_CON")
  /\ Reads(p, <<>>)
  /\ startDtCon' = IF startDtCon = "armed" THEN "down" ELSE startDtCon
  /\ resetMaxIdleTimeTimer(p)
  /\ UNCHANGED <<seqVars, closeVars, transferVars, deliveryVars, stopDtTimer,
                 tmVars, senderVars, control, stopDtCon, starts, stops, stopVars, reader>>

HandleStopDtCon(p) ==
  /\ Handles(p, "STOPDT_CON")
  /\ Reads(p, <<>>)
  /\ stopDtCon' = IF stopDtCon = "armed" THEN "down" ELSE stopDtCon
  /\ resetMaxIdleTimeTimer(p)
  /\ UNCHANGED <<seqVars, closeVars, transferVars, deliveryVars, stopDtTimer,
                 tmVars, senderVars, control, startDtCon, starts, stops, stopVars, reader>>

HandleTestFrAct(p) ==
  /\ Handles(p, "TESTFR_ACT")
  /\ Reads(p, <<UFrame(p, "TESTFR_CON")>>)
  /\ resetMaxIdleTimeTimer(p)
  /\ UNCHANGED <<seqVars, closeVars, transferVars, deliveryVars, stopDtTimer,
                 tmVars, senderVars, controlVars, reader>>

HandleTestFrConMutant(p) ==      \* cancels the wrong one of the two t1 timers
  /\ Handles(p, "TESTFR_CON")
  /\ Reads(p, <<>>)
  /\ Retime(p, {"maxTimeNoAckReceived"}, {"maxIdleTimeTimer"})
  /\ UNCHANGED <<seqVars, closeVars, transferVars, deliveryVars, stopDtTimer,
                 tmVars, senderVars, controlVars, reader>>
HandleTestFrCon(p) ==
  /\ Handles(p, "TESTFR_CON")
  /\ Reads(p, <<>>)
  /\ Retime(p, {"maxTimeNoTestConReceived"}, {"maxIdleTimeTimer"})
  /\ UNCHANGED <<seqVars, closeVars, transferVars, deliveryVars, stopDtTimer,
                 tmVars, senderVars, controlVars, reader>>

(* A frame the handlers throw for.  verifySeqNumber throws before anything  *)
(* is changed, the check of N(R) after the I-frame has been counted.        *)
RejectFrame(p) ==
  LET f == Head(wire[p])
      counted == /\ f.type = "I_FORMAT" /\ ~StopRejects(p, f)
                 /\ f.ns = receiveSequenceNumber[p]
      answered == counted /\ Wraps(f.ns)
      exceeded == /\ ~StopRejects(p, f)
                  /\ f.type = "S_FORMAT" \/ counted
                  /\ WindowExceeded(p, f.nr)
      n == NextSeq(f.ns)
  IN  /\ Readable(p)
      /\ StopRejects(p, f) \/ NumberRejects(p, f)
      /\ reader' = [reader EXCEPT ![p] = "failing"]
      /\ closedBecause' = [closedBecause EXCEPT
           ![p] = IF StopRejects(p, f) THEN "stopdt" ELSE "sequence"]
      /\ Count(p, counted, n)
      /\ lost' = [lost EXCEPT ![p] = IF counted THEN @ + 1 ELSE @]
      /\ IF answered
         THEN /\ Confirm(p, n, received[p] + 1)
              /\ Reads(p, <<SFrame(n, sent[p], received[p] + 1)>>)
         ELSE /\ UNCHANGED <<acknowledgedReceiveSequenceNumber, confirmed>>
              /\ Reads(p, <<>>)
      /\ Retime(p, IF exceeded THEN AckCancels(p, f.nr) ELSE {},
                   IF answered THEN {"maxIdleTimeTimer"} ELSE {})
      /\ IF exceeded THEN TakeAck(p, f.nr)
         ELSE UNCHANGED <<acknowledgedSendSequenceNumber, acked>>
      /\ UNCHANGED <<sendSequenceNumber, sent, closed, notified, transferVars,
                     tasks, delivered, stopDtTimer, tmVars, senderVars,
                     controlVars>>

----------------------------------------------------------------------------
(* The frame in hand when the connection closes.  The handlers never look   *)
(* at closed, so it has its effects up to the first write, which throws.    *)
(* close() has written the window off: an N(R) behind it is rejected.       *)

LateIFrame(p) ==
  LET f == Head(wire[p])
      n == NextSeq(f.ns)
      counted == ~StopRejects(p, f) /\ f.ns = receiveSequenceNumber[p]
      taken == counted /\ ~Wraps(f.ns) /\ ~AckRejected(p, f.nr)
      forwarded == taken /\ aSduListener[p]
      unconfirmed == sequenceNumberDiff(n, acknowledgedReceiveSequenceNumber[p])
      finished == taken /\ ~AckDue(p, unconfirmed)
  IN  /\ InHand(p)
      /\ f.type = "I_FORMAT"
      /\ Reads(p, <<>>)
      /\ Count(p, counted, n)
      /\ tasks' = [tasks EXCEPT ![p] = IF forwarded THEN Append(@, f.vs) ELSE @]
      /\ lost' = [lost EXCEPT ![p] = IF counted /\ ~forwarded THEN @ + 1 ELSE @]
      /\ Retime(p, {}, IF ~finished THEN {} ELSE {"maxIdleTimeTimer"} \cup
                        (IF AckDelayStarts(p, unconfirmed)
                         THEN {"maxTimeNoAckSentTimer"} ELSE {}))
      /\ reader' = [reader EXCEPT ![p] = IF finished THEN "reading" ELSE "failing"]
      /\ UNCHANGED <<sendSequenceNumber, acknowledgedSendSequenceNumber,
                     acknowledgedReceiveSequenceNumber, sent, acked, confirmed,
                     closeVars, transferVars, delivered, stopDtTimer, tmVars,
                     senderVars, controlVars>>

LateSFrame(p) ==
  LET f == Head(wire[p])
      taken == ~StopRejects(p, f) /\ ~AckRejected(p, f.nr)
      done == IF taken /\ p = Server /\ stopDtTimer
              THEN {"stopDtOutstandingSFormatTimer"} ELSE {}
      added == IF taken THEN {"maxIdleTimeTimer"} ELSE {}
  IN  /\ InHand(p)
      /\ f.type = "S_FORMAT"
      /\ Reads(p, <<>>)
      /\ planned' = [planned EXCEPT ![p] = (@ \ done) \cup added]
      /\ Requeue(p, {}, added)
      /\ reader' = [reader EXCEPT ![p] = IF taken THEN "reading" ELSE "failing"]
      /\ UNCHANGED <<seqVars, closeVars, transferVars, deliveryVars, stopDtTimer,
                     tmVars, senderVars, controlVars>>

(* The answer to an ACT is never written; what precedes it has happened.    *)
LateAct(p) ==
  LET type == Head(wire[p]).type
      start == type = "STARTDT_ACT"
      stop == type = "STOPDT_ACT"
  IN  /\ InHand(p)
      /\ start \/ stop \/ type = "TESTFR_ACT"
      /\ Reads(p, <<>>)
      /\ stopped' = [stopped EXCEPT ![p] = stop \/ (@ /\ ~start)]
      /\ pending' = (pending \/ stop)
      /\ aSduListenerBack' =
           [aSduListenerBack EXCEPT ![p] = @ \/ (stop /\ aSduListener[p])]
      /\ aSduListener' = [aSduListener EXCEPT
           ![p] = ~stop /\ (@ \/ (start /\ aSduListenerBack[p]))]
      /\ Retime(p, IF stop THEN cancelIfPlanned(p, "maxTimeNoAckSentTimer") ELSE {}, {})
      /\ reader' = [reader EXCEPT ![p] = "failing"]
      /\ UNCHANGED <<seqVars, closeVars, deliveryVars, stopDtTimer, tmVars,
                     senderVars, controlVars>>

LateCon(p) ==
  LET type == Head(wire[p]).type
      Down(con, latch) == IF type = con /\ latch = "armed" THEN "down" ELSE latch
  IN  /\ InHand(p)
      /\ type \in {"STARTDT_CON", "STOPDT_CON", "TESTFR_CON"}
      /\ Reads(p, <<>>)
      /\ startDtCon' = Down("STARTDT_CON", startDtCon)
      /\ stopDtCon' = Down("STOPDT_CON", stopDtCon)
      /\ Retime(p, IF type = "TESTFR_CON" THEN {"maxTimeNoTestConReceived"} ELSE {},
                {"maxIdleTimeTimer"})
      /\ reader' = [reader EXCEPT ![p] = "reading"]
      /\ UNCHANGED <<seqVars, closeVars, transferVars, deliveryVars, stopDtTimer,
                     tmVars, senderVars, control, starts, stops, stopVars>>

(* A reader that does not see the end of the stream. *)
ReaderStopsMutant(p) ==
  /\ reader[p] = "reading" /\ closed[p]
  /\ reader' = [reader EXCEPT ![p] = "failing"]
  /\ UNCHANGED <<seqVars, closeVars, transferVars, deliveryVars, taskVars,
                 tmVars, senderVars, controlVars, wire>>

(* Decoding throws: the socket is closed at this end, or the stream is at   *)
(* its end.                                                                 *)
ReaderStops(p) ==
  /\ reader[p] = "reading"
  /\ closed[p] \/ (closed[Peer(p)] /\ wire[p] = <<>>)
  /\ reader' = [reader EXCEPT ![p] = "failing"]
  /\ closedBecause' =
       [closedBecause EXCEPT ![p] = IF @ = "none" THEN "remote" ELSE @]
  /\ UNCHANGED <<seqVars, closed, notified, transferVars, deliveryVars,
                 taskVars, tmVars, senderVars, controlVars, wire>>

(* A reset: what is still on its way is not read. *)
ReaderBroken(p) ==
  /\ reader[p] = "reading"
  /\ LinkMayFail \/ closed[Peer(p)]
  /\ ~closed[p]
  /\ reader' = [reader EXCEPT ![p] = "failing"]
  /\ closedBecause' = [closedBecause EXCEPT ![p] = "remote"]
  /\ UNCHANGED <<seqVars, closed, notified, transferVars, deliveryVars,
                 taskVars, tmVars, senderVars, controlVars, wire>>

(* The calls of connectionClosed at the end of run() *)
ClosedCallsMutant(p) == IF aSduListener[p] THEN 1 ELSE 0
ClosedCalls(p) ==
  (IF aSduListener[p] THEN 1 ELSE 0)
    + (IF stopped[p] /\ aSduListenerBack[p] THEN 1 ELSE 0)

(* The finally clause of run().  shutdownNow interrupts the TimeoutManager: *)
(* a task that waits for the monitor will swallow the interrupt, otherwise  *)
(* the thread ends.  It also discards every ASDU the serialExecutor has not *)
(* yet given to a thread, all but the first.                                *)
ReaderExit(p) ==
  /\ reader[p] = "failing"
  /\ reader' = [reader EXCEPT ![p] = "done"]
  /\ Close(p, "remote")
  /\ notified' = [notified EXCEPT ![p] = @ + ClosedCalls(p)]
  /\ IF UseSharedThreadPool[p]
     THEN UNCHANGED <<tm, tasks, lost>>
     ELSE /\ tm' = [tm EXCEPT
               ![p] = IF @ = "ready" THEN "interrupted" ELSE "dead"]
          /\ tasks' = [tasks EXCEPT ![p] = SubSeq(@, 1, IF @ = <<>> THEN 0 ELSE 1)]
          /\ lost' = [lost EXCEPT ![p] = @ + Len(tasks[p]) - Len(tasks'[p])]
  /\ UNCHANGED <<sendSequenceNumber, receiveSequenceNumber,
                 acknowledgedReceiveSequenceNumber, sent, received,
                 confirmed, transferVars, delivered, taskVars, task,
                 controlVars, wire>>

----------------------------------------------------------------------------
(* The TimeoutManager's thread.  It takes a due task and reads canceled     *)
(* before execute() asks for the monitor, and sets done after execute() has *)
(* released it: three steps.                                                *)

TakeTimer(p, t) ==
  /\ tm[p] = "idle"
  /\ t \in queued[p] \cap Expiring[p]
  /\ t = "maxIdleTimeTimer" => Len(wire[Peer(p)]) < MaxInFlight
  /\ queued' = [queued EXCEPT ![p] = @ \ {t}]
  /\ task' = [task EXCEPT ![p] = t]
  /\ tm' = [tm EXCEPT      \* the fifth timer looks at stopped first
       ![p] = IF t = "stopDtOutstandingSFormatTimer" /\ stopped[p] THEN "ran"
                                                                   ELSE "ready"]
  /\ UNCHANGED <<seqVars, closeVars, transferVars, deliveryVars, planned,
                 stopDtTimer, dropped, senderVars, controlVars, reader, wire>>

Executes(p, timers) ==
  /\ tm[p] = "ready"
  /\ task[p] \in timers
  /\ tm' = [tm EXCEPT ![p] = "ran"]
  /\ UNCHANGED task

(* MaxTimeNoAckReceivedTimer, both of them: t1 *)
ExecuteNoAckReceived(p) ==
  /\ Executes(p, {"maxTimeNoAckReceived", "maxTimeNoTestConReceived"})
  /\ Close(p, "timeout")
  /\ FrameInHand(p)
  /\ notified' = [notified EXCEPT ![p] = @ + IF aSduListener[p] THEN 1 ELSE 0]
  /\ UNCHANGED <<sendSequenceNumber, receiveSequenceNumber,
                 acknowledgedReceiveSequenceNumber, sent, received, confirmed,
                 transferVars, deliveryVars, taskVars, controlVars, wire>>

(* MaxTimeNoAckSentTimer: t2 *)
ExecuteNoAckSent(p) ==
  LET r == receiveSequenceNumber[p]
  IN  /\ ~closed[p]
      /\ Executes(p, {"maxTimeNoAckSentTimer"})
      /\ Writes(p, <<SFrame(r, sent[p], received[p])>>)
      /\ Confirm(p, r, received[p])
      /\ resetMaxIdleTimeTimer(p)
      /\ UNCHANGED <<sendSequenceNumber, receiveSequenceNumber,
                     acknowledgedSendSequenceNumber, sent, received, acked,
                     closeVars, transferVars, deliveryVars, stopDtTimer,
                     senderVars, controlVars, reader>>

(* MaxIdleTimeTimer: t3 *)
ExecuteIdle(p) ==
  /\ Executes(p, {"maxIdleTimeTimer"})
  /\ IF closed[p] THEN UNCHANGED wire ELSE Writes(p, <<UFrame(p, "TESTFR_ACT")>>)
  /\ Retime(p, {}, {"maxTimeNoTestConReceived"})
  /\ UNCHANGED <<seqVars, closeVars, transferVars, deliveryVars, stopDtTimer,
                 senderVars, controlVars, reader>>

ExecuteStopDt(p) ==
  /\ ~closed[p]
  /\ Executes(p, {"stopDtOutstandingSFormatTimer"})
  /\ Writes(p, <<UFrame(p, "STOPDT_CON")>>)
  /\ pending' = FALSE
  /\ UNCHANGED <<seqVars, closeVars, stopped, aSduListener, aSduListenerBack,
                 deliveryVars, taskVars, senderVars, controlVars, reader>>

(* The write on a closed socket throws; both timers ignore that. *)
TimerWriteFails(p) ==
  /\ closed[p]
  /\ Executes(p, {"maxTimeNoAckSentTimer", "stopDtOutstandingSFormatTimer"})
  /\ UNCHANGED <<seqVars, closeVars, transferVars, deliveryVars, taskVars,
                 senderVars, controlVars, reader, wire>>

(* Thread.interrupted() answers true, once: the task does nothing and the   *)
(* thread, its interrupt forgotten, goes on.                                *)
TimerInterrupted(p) ==
  /\ tm[p] = "interrupted"
  /\ tm' = [tm EXCEPT ![p] = "ran"]
  /\ UNCHANGED <<seqVars, closeVars, transferVars, deliveryVars, taskVars, task,
                 senderVars, controlVars, reader, wire>>

TimerDone(p) ==
  /\ tm[p] = "ran"
  /\ tm' = [tm EXCEPT ![p] = "idle"]
  /\ planned' = [planned EXCEPT ![p] = @ \ {task[p]}]
  /\ UNCHANGED <<seqVars, closeVars, transferVars, deliveryVars, queued,
                 stopDtTimer, dropped, task, senderVars, controlVars, reader, wire>>

----------------------------------------------------------------------------
(* Without the serialExecutor the tasks would run in any order. *)
ForwardMutant(p) ==
  /\ tasks[p] # <<>> /\ aSduListener[p]
  /\ tasks' = [tasks EXCEPT ![p] = SubSeq(@, 1, Len(@) - 1)]
  /\ delivered' = [delivered EXCEPT ![p] = Append(@, tasks[p][Len(tasks[p])])]
  /\ UNCHANGED <<lost, seqVars, closeVars, transferVars, taskVars, tmVars,
                 senderVars, controlVars, reader, wire>>

(* The executor runs the head of the serialExecutor's queue.  The Runnable  *)
(* reads the field aSduListener when it runs; if it is null by then the     *)
(* ASDU is lost to a NullPointerException.                                  *)
ForwardASdu(p) ==
  /\ tasks[p] # <<>>
  /\ tasks' = [tasks EXCEPT ![p] = Tail(@)]
  /\ IF aSduListener[p]
     THEN /\ delivered' = [delivered EXCEPT ![p] = Append(@, Head(tasks[p]))]
          /\ UNCHANGED lost
     ELSE lost' = [lost EXCEPT ![p] = @ + 1] /\ UNCHANGED delivered
  /\ UNCHANGED <<seqVars, closeVars, transferVars, taskVars, tmVars, senderVars,
                 controlVars, reader, wire>>

----------------------------------------------------------------------------
(* The client's thread that calls startDataTransfer and stopDataTransfer.   *)
(* control is where it is inside the call, "idle" outside.                  *)

At(here, next) == control = here /\ control' = next

StartDataTransfer ==
  /\ At("idle", "startAwait")
  /\ starts < MaxStarts
  /\ ~closed[Client]
  /\ starts' = starts + 1
  /\ startDtCon' = "armed"
  /\ Writes(Client, <<UFrame(Client, "STARTDT_ACT")>>)
  /\ UNCHANGED <<seqVars, closeVars, transferVars, deliveryVars, taskVars,
                 tmVars, senderVars, stopDtCon, stops, stopVars, reader>>

StartConfirmed ==
  /\ At("startAwait", "idle")
  /\ startDtCon = "down"
  /\ aSduListener' = [aSduListener EXCEPT ![Client] = TRUE]
  /\ stopped' = [stopped EXCEPT ![Client] = FALSE]
  /\ UNCHANGED <<seqVars, closeVars, pending, aSduListenerBack, deliveryVars,
                 taskVars, tmVars, senderVars, startDtCon, stopDtCon, starts,
                 stops, stopVars, reader, wire>>

StartTimesOut ==
  /\ At("startAwait", "idle")
  /\ startDtCon = "armed"
  /\ UNCHANGED <<seqVars, closeVars, transferVars, deliveryVars, taskVars,
                 tmVars, senderVars, startDtCon, stopDtCon, starts, stops, stopVars,
                 reader, wire>>

StopDataTransfer ==
  /\ At("idle", "stopDiff")
  /\ stops < MaxStops
  /\ stops' = stops + 1
  /\ aSduListenerBack' = [aSduListenerBack EXCEPT ![Client] = aSduListener[Client]]
  /\ aSduListener' = [aSduListener EXCEPT ![Client] = FALSE]
  /\ stopped' = [stopped EXCEPT ![Client] = TRUE]
  /\ UNCHANGED <<seqVars, closeVars, pending, deliveryVars, taskVars, tmVars,
                 senderVars, startDtCon, stopDtCon, starts, stopVars, reader, wire>>

(* sendSFormatIfUnconfirmedAPdu: the difference under the monitor, ...      *)
StopReadsDiff ==
  /\ \/ /\ numUnconfirmedIPdusReceived(Client) > 0
        /\ At("stopDiff", "stopRead")
     \/ /\ numUnconfirmedIPdusReceived(Client) = 0
        /\ At("stopDiff", "stopCancel")
  /\ UNCHANGED <<seqVars, closeVars, transferVars, deliveryVars, taskVars,
                 tmVars, senderVars, startDtCon, stopDtCon, starts, stops,
                 stopVars, reader, wire>>

(* ... the counter without it, as N(R) of an S-frame, ...                   *)
StopReadsNumberMutant ==      \* acknowledges the frame it expects next
  /\ At("stopRead", "stopWrite")
  /\ stopNr' = NextSeq(receiveSequenceNumber[Client])
  /\ stopCount' = received[Client] + 1
  /\ UNCHANGED <<seqVars, closeVars, transferVars, deliveryVars, taskVars,
                 tmVars, senderVars, startDtCon, stopDtCon, starts, stops,
                 overtaken, reader, wire>>
StopReadsNumber ==
  /\ At("stopRead", "stopWrite")
  /\ stopNr' = receiveSequenceNumber[Client]
  /\ stopCount' = received[Client]
  /\ UNCHANGED <<seqVars, closeVars, transferVars, deliveryVars, taskVars,
                 tmVars, senderVars, startDtCon, stopDtCon, starts, stops,
                 overtaken, reader, wire>>

(* ... the S-frame, by now perhaps behind an N(R) that another thread has   *)
(* written, ...                                                             *)
StopWritesSFrame ==
  /\ At("stopWrite", "stopRecord")
  /\ ~closed[Client]
  /\ Writes(Client, <<SFrame(stopNr, sent[Client], stopCount)>>)
  /\ confirmed' = [confirmed EXCEPT ![Client] = IF @ < stopCount THEN stopCount ELSE @]
  /\ overtaken' = (overtaken \/ stopCount < received[Client])
  /\ stopNr' = 0 /\ stopCount' = 0     \* not read any more
  /\ UNCHANGED <<sendSequenceNumber, receiveSequenceNumber,
                 acknowledgedSendSequenceNumber,
                 acknowledgedReceiveSequenceNumber, sent, received, acked,
                 closeVars, transferVars, deliveryVars, taskVars, tmVars,
                 senderVars, startDtCon, stopDtCon, starts, stops, reader>>

(* ... and then the counter, read again, as what has been acknowledged.     *)
StopRecordsSFrame ==
  /\ At("stopRecord", "stopCancel")
  /\ acknowledgedReceiveSequenceNumber' =
       [acknowledgedReceiveSequenceNumber EXCEPT
          ![Client] = receiveSequenceNumber[Client]]
  /\ resetMaxIdleTimeTimer(Client)
  /\ UNCHANGED <<sendSequenceNumber, receiveSequenceNumber,
                 acknowledgedSendSequenceNumber, sent, received, acked,
                 confirmed, closeVars, transferVars, deliveryVars, stopDtTimer,
                 tmVars, senderVars, startDtCon, stopDtCon, starts, stops, stopVars,
                 reader, wire>>

(* The cancel in sendSFormatIfUnconfirmedAPdu and the one after it. *)
StopCancelsTimer ==
  /\ At("stopCancel", "stopSend")
  /\ Retime(Client, cancelIfPlanned(Client, "maxTimeNoAckSentTimer"), {})
  /\ UNCHANGED <<seqVars, closeVars, transferVars, deliveryVars, stopDtTimer,
                 tmVars, senderVars, startDtCon, stopDtCon, starts, stops, stopVars,
                 reader, wire>>

StopSendsAct ==
  /\ At("stopSend", "stopAwait")
  /\ ~closed[Client]
  /\ stopDtCon' = "armed"
  /\ Writes(Client, <<UFrame(Client, "STOPDT_ACT")>>)
  /\ UNCHANGED <<seqVars, closeVars, transferVars, deliveryVars, taskVars,
                 tmVars, senderVars, startDtCon, starts, stops, stopVars, reader>>

(* A write on the closed socket throws out of stopDataTransfer. *)
StopFails ==
  /\ control \in {"stopWrite", "stopSend"}
  /\ closed[Client]
  /\ control' = "idle"
  /\ UNCHANGED <<seqVars, closeVars, transferVars, deliveryVars, taskVars,
                 tmVars, senderVars, startDtCon, stopDtCon, starts, stops, stopVars,
                 reader, wire>>

(* await returns, because of STOPDT_CON or because t1 has passed; either    *)
(* way nothing is left to do but to return or to throw.                     *)
StopReturns ==
  /\ At("stopAwait", "idle")
  /\ UNCHANGED <<seqVars, closeVars, transferVars, deliveryVars, taskVars,
                 tmVars, senderVars, startDtCon, stopDtCon, starts, stops, stopVars,
                 reader, wire>>

----------------------------------------------------------------------------
ReaderThread(p) ==
  \/ HandleIFrame(p)
  \/ HandleSFrame(p)
  \/ HandleStartDtAct(p)
  \/ HandleStopDtAct(p)
  \/ HandleStartDtCon(p)
  \/ HandleStopDtCon(p)
  \/ HandleTestFrAct(p)
  \/ HandleTestFrCon(p)
  \/ RejectFrame(p)
  \/ LateIFrame(p)
  \/ LateSFrame(p)
  \/ LateAct(p)
  \/ LateCon(p)
  \/ ReaderStops(p)
  \/ ReaderExit(p)

TimerThread(p) ==
  \/ ExecuteNoAckReceived(p)
  \/ ExecuteNoAckSent(p)
  \/ ExecuteIdle(p)
  \/ ExecuteStopDt(p)
  \/ TimerWriteFails(p)
  \/ TimerInterrupted(p)
  \/ TimerDone(p)

(* The calls the application may make or not, and the steps inside one. *)
ControlCalls == StartDataTransfer \/ StopDataTransfer
ControlThread ==
  \/ StartConfirmed
  \/ StartTimesOut
  \/ StopReadsDiff
  \/ StopReadsNumber
  \/ StopWritesSFrame
  \/ StopRecordsSFrame
  \/ StopCancelsTimer
  \/ StopSendsAct
  \/ StopFails
  \/ StopReturns

Next ==
  \/ \E p \in Endpoint :
       \/ AppClose(p)
       \/ setConnectionListener(p)
       \/ Send(p)
       \/ SendWaits(p)
       \/ SenderResumes(p)
       \/ ReaderThread(p)
       \/ ReaderBroken(p)
       \/ \E t \in Timers : TakeTimer(p, t)
       \/ TimerThread(p)
       \/ ForwardASdu(p)
  \/ ControlCalls
  \/ ControlThread

Spec == Init /\ [][Next]_vars

(* Every thread of the JVM keeps running, so a step it can take is taken;   *)
(* and a task that stays in the TimeoutManager's queue comes due.  Nothing  *)
(* obliges the applications to call anything or the network to fail.        *)
Fairness ==
  /\ \A p \in Endpoint :
       /\ WF_vars(ReaderThread(p))
       /\ WF_vars(TimerThread(p))
       /\ WF_vars(SenderResumes(p))
       /\ WF_vars(ForwardASdu(p))
       /\ \A t \in Expiring[p] : WF_vars(TakeTimer(p, t))
  /\ WF_vars(ControlThread)

FairSpec == Spec /\ Fairness

----------------------------------------------------------------------------
(* Properties *)

Frame == [type : FrameType, ns : SeqNumber, nr : SeqNumber, vs : Nat, vr : Nat]

Reasons == {"none", "sequence", "stopdt", "remote", "local", "timeout"}

SeqType ==
  /\ sendSequenceNumber \in [Endpoint -> SeqNumber]
  /\ receiveSequenceNumber \in [Endpoint -> SeqNumber]
  /\ acknowledgedSendSequenceNumber \in [Endpoint -> SeqNumber]
  /\ acknowledgedReceiveSequenceNumber \in [Endpoint -> SeqNumber]
  /\ sent \in [Endpoint -> Nat]
  /\ received \in [Endpoint -> Nat]
  /\ acked \in [Endpoint -> Nat]
  /\ confirmed \in [Endpoint -> Nat]

CloseType ==
  /\ closed \in [Endpoint -> BOOLEAN]
  /\ closedBecause \in [Endpoint -> Reasons]
  /\ notified \in [Endpoint -> Nat]

TransferType ==
  /\ stopped \in [Endpoint -> BOOLEAN]
  /\ pending \in BOOLEAN
  /\ aSduListener \in [Endpoint -> BOOLEAN]
  /\ aSduListenerBack \in [Endpoint -> BOOLEAN]

DeliveryType ==
  /\ tasks \in [Endpoint -> Seq(Nat)]
  /\ delivered \in [Endpoint -> Seq(Nat)]
  /\ lost \in [Endpoint -> Nat]

TaskType ==
  /\ planned \in [Endpoint -> SUBSET Timers]
  /\ queued \in [Endpoint -> SUBSET Timers]
  /\ stopDtTimer \in BOOLEAN
  /\ dropped \in [Endpoint -> SUBSET Timers]

TmType ==
  /\ tm \in [Endpoint -> {"idle", "ready", "ran", "interrupted", "dead"}]
  /\ task \in [Endpoint -> Timers]

SenderType ==
  /\ waiting \in [Endpoint -> Nat]
  /\ awake \in [Endpoint -> Nat]

ControlType ==
  /\ control \in {"idle", "startAwait", "stopDiff", "stopRead", "stopWrite",
                  "stopRecord", "stopCancel", "stopSend", "stopAwait"}
  /\ startDtCon \in {"none", "armed", "down"}
  /\ stopDtCon \in {"none", "armed", "down"}
  /\ starts \in Nat
  /\ stops \in Nat
  /\ stopNr \in SeqNumber
  /\ stopCount \in Nat
  /\ overtaken \in BOOLEAN

(* Every field, thread and history variable has the values it can have.     *)
TypeOK ==
  /\ SeqType /\ CloseType /\ TransferType /\ DeliveryType
  /\ TaskType /\ TmType /\ SenderType /\ ControlType
  /\ reader \in [Endpoint -> {"reading", "late", "failing", "done"}]
  /\ wire \in [Endpoint -> Seq(Frame)]

(* Two correct endpoints never close the connection over a sequence number, *)
(* wherever the counters wrap and however sends, acknowledgements of three  *)
(* kinds and timers interleave (verifySeqNumber and                         *)
(* handleReceiveSequenceNumber never throw), as long as stopDataTransfer,   *)
(* which writes its S-frame without the monitor, has not been overtaken.    *)
NoSequenceError ==
  ~overtaken => \A p \in Endpoint : closedBecause[p] # "sequence"

(* While a connection is open, every I-frame it holds for acknowledged has  *)
(* been received by the other end: the 15-bit N(R) is never read as more    *)
(* than was meant (the same proviso).                                       *)
AckedWasReceived ==
  ~overtaken => \A p \in Endpoint : ~closed[p] => acked[p] <= received[Peer(p)]

(* At most k I-frames are unacknowledged, however many threads call send.   *)
WindowRespected == \A p \in Endpoint : sent[p] - acked[p] <= K[p]

(* A thread in send's wait() has a reason to be there: the window is full   *)
(* and the connection open.  No acknowledgement and no close() goes by      *)
(* without waking all of them.                                              *)
NoLostWakeup ==
  \A p \in Endpoint : waiting[p] > 0 => WindowFull(p) /\ ~closed[p]

Running(p, t) == tm[p] = "ready" /\ task[p] = t

(* An unacknowledged I-frame has t1 running: the timer is in the queue, or  *)
(* the TimeoutManager is about to execute it, or else it was removed from   *)
(* the queue when an equal timer was added in the same millisecond.  There  *)
(* is no other way to lose it, and the next acknowledgement or send that    *)
(* plans it again ends the loss.                                            *)
SentIsTimed ==
  \A p \in Endpoint :
    ~closed[p] /\ acked[p] < sent[p] =>
      \/ "maxTimeNoAckReceived" \in queued[p] \cup dropped[p]
      \/ Running(p, "maxTimeNoAckReceived")

(* A received I-frame that no written N(R) has acknowledged has t2 running. *)
(* stopDataTransfer breaks it: it cancels t2, and records what it has       *)
(* acknowledged, outside the monitor.                                       *)
ReceivedIsTimed ==
  \A p \in Endpoint :
    ~closed[p] /\ confirmed[p] < received[p] =>
      \/ "maxTimeNoAckSentTimer" \in queued[p]
      \/ Running(p, "maxTimeNoAckSentTimer")

(* acknowledgedReceiveSequenceNumber is the N(R) last written, and between  *)
(* two frames fewer than w I-frames are unacknowledged, as long as the      *)
(* connection is open (and the same proviso).                               *)
ConfirmedIsRecorded ==
  \A p \in Endpoint : ~closed[p] =>
    /\ numUnconfirmedIPdusReceived(p) = received[p] - confirmed[p]
    /\ received[p] - confirmed[p] < W[p]

(* An open connection whose reader works always has t3 or the test frame's  *)
(* t1 running, so a peer that has silently gone is noticed.                 *)
LinkSupervised ==
  \A p \in Endpoint :
    ~closed[p] /\ reader[p] = "reading" =>
      \/ {"maxIdleTimeTimer", "maxTimeNoTestConReceived"} \cap queued[p] # {}
      \/ Running(p, "maxIdleTimeTimer") \/ Running(p, "maxTimeNoTestConReceived")

(* Listeners get ASDUs in the order they were sent and no ASDU twice, and   *)
(* every received ASDU is with the listener, in the executor's queue or     *)
(* counted as lost.                                                         *)
ForwardedInOrder ==
  \A p \in Endpoint :
    LET s == delivered[p] \o tasks[p]
    IN  /\ \A i, j \in 1 .. Len(s) : i < j => s[i] < s[j]
        /\ \A i \in 1 .. Len(s) : s[i] <= received[p]
        /\ Len(s) + lost[p] = received[p]

(* An I-frame never reaches a server in state STOPDT, whatever start- and   *)
(* stopDataTransfer calls have timed out and been repeated and whether the  *)
(* server has closed meanwhile: the client sends data only behind the       *)
(* STARTDT_ACT of its latest start.                                         *)
NoDataWhileStopped ==
  (Readable(Server) \/ InHand(Server)) /\ Head(wire[Server]).type = "I_FORMAT"
    => ~StopRejects(Server, Head(wire[Server]))

(* STOPDT_CON says that the client has acknowledged every I-frame the       *)
(* server sent: the reason for pending and for the wait in handleStopDtAct. *)
StopConfirmsAll ==
  \A i \in 1 .. Len(wire[Client]) :
    wire[Client][i].type = "STOPDT_CON" => acked[Server] >= wire[Client][i].vs

(* It does as long as data transfer has been started only once. *)
FirstStopConfirmsAll == starts <= 1 => StopConfirmsAll

(* The server's application is told that its connection has closed, whether *)
(* data transfer was stopped, restarted or never started, by a call of      *)
(* connectionClosed on the listener it gave.                                *)
ServerIsTold == reader[Server] = "done" => notified[Server] >= 1

(* So is the client's, once its listener has had an ASDU, although          *)
(* stopDataTransfer takes the listener away: the first time it is kept in   *)
(* aSduListenerBack (a second stopDataTransfer overwrites that with null).  *)
ClientIsTold ==
  reader[Client] = "done" /\ delivered[Client] # <<>> /\ stops <= 1
    => notified[Client] >= 1

(* The connection implements the abstract window protocol: each step is a   *)
(* Send, Receive, Close or ReceiveLate of it or changes nothing it sees.    *)
(* In particular an acknowledgement is never taken back, and an endpoint    *)
(* that has closed sends nothing and takes at most the one ASDU its reader  *)
(* had in hand.  (stopDataTransfer must not have been overtaken.)           *)
WindowState(p) == IF ~closed[p] THEN "open"
                  ELSE IF reader[p] = "late" THEN "closing" ELSE "closed"
Window ==
  INSTANCE WindowProtocol WITH state <- [p \in Endpoint |-> WindowState(p)]
ImplementsWindowProtocol == Window!Spec

(* Every I-frame is acknowledged in the end (or its sender closes), though  *)
(* the receiver waits for w of them or for t2.                              *)
EveryIFrameAcknowledged ==
  \A p \in Endpoint : \A n \in 1 .. MaxSends[p] :
    sent[p] >= n ~> acked[p] >= n

(* A call of send that had to wait returns or throws in the end. *)
BlockedSendsReturn ==
  \A p \in Endpoint : waiting[p] + awake[p] > 0 ~> waiting[p] + awake[p] = 0

(* Once either end has closed, both readers end, so both applications are   *)
(* told, and nobody is left waiting in send.                                *)
CloseCompletes ==
  \A p \in Endpoint :
    closed[p] ~> \A q \in Endpoint : /\ closed[q] /\ reader[q] = "done"
                                     /\ waiting[q] + awake[q] = 0

(* What the library's documentation says and the code does not do. *)

(* "If no STOPDT con could be received, while t1, the connection will be    *)
(* closed": after a stopDataTransfer that has timed out either the answer   *)
(* still arrives or the connection ends closed.                             *)
StopTimeoutCloses ==
  control = "idle" /\ stopDtCon = "armed"
    ~> closed[Client] \/ stopDtCon = "down" \/ control # "idle"

(* "would hold true: ackNumber <= number (without mod 2^15)": an N(R) that  *)
(* arrives is not behind what has been acknowledged.                        *)
AckNumbersInOrder ==
  \A p \in Endpoint :
    Readable(p) /\ Head(wire[p]).type \in {"I_FORMAT", "S_FORMAT"}
      => acked[p] <= Head(wire[p]).vr

(* A client that only starts data transfer loses no ASDU it receives.       *)
StartLosesNoASdu == stops = 0 /\ ~closed[Client] => lost[Client] = 0
=============================================================================
