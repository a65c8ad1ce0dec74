------------------------------ MODULE Framing ------------------------------
(* The stream of I-frames from one end of a connection to the other: send   *)
(* numbers and encodes an ASDU, the reader of the peer must find where each *)
(* frame ends, and tell from N(S) that one is missing.  What is left out,   *)
(* the start and stop of data transfer and the other frames, is in module   *)
(* Connection.                                                              *)
EXTENDS ASduFormat, SequenceNumbers, FiniteSets

CONSTANTS
  ASdus,            \* those the application may send
  Settings,         \* the field lengths both ends may be configured with
  MaxNumOfOutstandingIPdus,
  MaxSends          \* bound: calls of send

(* CommonBuilder admits a window of 1 to 32767. *)
ASSUME WindowAssumption ==
  MaxNumOfOutstandingIPdus \in Nat /\ MaxNumOfOutstandingIPdus < SeqModulus

ASSUME SettingsAssumption ==
  Settings \subseteq [cotFieldLength : 1 .. 2, commonAddressFieldLength : 1 .. 2,
                      ioaFieldLength : 1 .. 3]

(* A private ASDU has neither element sets nor elements. *)
ASSUME ASdusAssumption ==
  \A a \in ASdus :
    a \in ASdu /\ (a.type = "private" => a.sets = 0 /\ a.elements = <<>>)

VARIABLES
  settings,
  sendSequenceNumber, acknowledgedSendSequenceNumber,
  maxTimeNoAckReceived,      \* t1 is planned
  wire,                      \* frames written and not yet decoded
  receiveSequenceNumber,
  reader,                    \* "reading", or "lost" between two frames
  closed,                    \* the connection, at both ends
  \* history
  accepted, delivered,       \* ASDUs: written by send, decoded and forwarded
  failed,                    \* calls of send in which encode threw
  gap                        \* how many were accepted before the first of these

senderVars == <<sendSequenceNumber, acknowledgedSendSequenceNumber,
                maxTimeNoAckReceived>>
readerVars == <<wire, receiveSequenceNumber, reader, delivered>>
sentVars == <<accepted, failed, gap>>

vars == <<settings, senderVars, readerVars, closed, sentVars>>

Init ==
  /\ settings \in Settings
  /\ sendSequenceNumber = 0 /\ acknowledgedSendSequenceNumber = 0
  /\ maxTimeNoAckReceived = FALSE
  /\ wire = <<>>
  /\ receiveSequenceNumber = 0
  /\ reader = "reading"
  /\ closed = FALSE
  /\ accepted = <<>> /\ delivered = <<>>
  /\ failed = 0 /\ gap = 0

----------------------------------------------------------------------------
(* Connection.send *)

BufferLength == 255       \* Connection.buffer
ApciLength == 6
Fits(a) == ApciLength + ASduOctets(a, settings) <= BufferLength

Frame(a) ==
  [sendSeqNum |-> sendSequenceNumber, type |-> a.type, vsq |-> Vsq(a),
   payload |-> PayloadOctets(a, settings), aSduLength |-> ASduOctets(a, settings),
   segment |-> a.octets]

(* The number is taken and t1 planned before the ASDU is encoded. *)
Numbers ==
  /\ ~closed
  /\ Len(accepted) + failed < MaxSends
  /\ sequenceNumberDiff(sendSequenceNumber, acknowledgedSendSequenceNumber)
       < MaxNumOfOutstandingIPdus
  /\ sendSequenceNumber' = NextSeq(sendSequenceNumber)
  /\ maxTimeNoAckReceived' = TRUE
  /\ UNCHANGED <<settings, acknowledgedSendSequenceNumber, receiveSequenceNumber,
                 reader, closed, delivered>>

Send(a) ==
  /\ Fits(a)
  /\ Numbers
  /\ wire' = Append(wire, Frame(a))
  /\ accepted' = Append(accepted, a)
  /\ UNCHANGED <<failed, gap>>

UnplannedMutant(a) ==
  /\ ~Fits(a)
  /\ ~closed
  /\ Len(accepted) + failed < MaxSends
  /\ sequenceNumberDiff(sendSequenceNumber, acknowledgedSendSequenceNumber)
       < MaxNumOfOutstandingIPdus
  /\ sendSequenceNumber' = NextSeq(sendSequenceNumber)
  /\ failed' = failed + 1
  /\ gap' = IF failed = 0 THEN Len(accepted) ELSE gap
  /\ UNCHANGED <<settings, acknowledgedSendSequenceNumber, maxTimeNoAckReceived,
                 readerVars, closed, accepted>>
(* encode runs over the end of the buffer. *)
EncodeThrows(a) ==
  /\ ~Fits(a)
  /\ Numbers
  /\ failed' = failed + 1
  /\ gap' = IF failed = 0 THEN Len(accepted) ELSE gap
  /\ UNCHANGED <<wire, accepted>>

----------------------------------------------------------------------------
(* The reader of the peer: APdu.decode, then handleIFrame *)

Closes ==
  /\ closed' = TRUE
  /\ UNCHANGED <<settings, senderVars, readerVars, sentVars>>

Read(f) == OctetsRead(f.type, f.vsq, f.aSduLength, f.segment, settings)
(* A type InformationObject.decode does not know matters if there is one. *)
Decodable(f) ==
  f.type = "private" \/ f.type \in DOMAIN Elements \/ ObjectsRead(f.vsq) = 0

ExpectedMutant(f) == TRUE
(* verifySeqNumber *)
Expected(f) == f.sendSeqNum = receiveSequenceNumber

Forward(f) ==
  /\ receiveSequenceNumber' = NextSeq(f.sendSeqNum)
  /\ delivered' =
       Append(delivered, Decoded(f.type, f.vsq, f.aSduLength, f.segment, settings))
  /\ wire' = Tail(wire)
  /\ UNCHANGED <<settings, senderVars, closed, sentVars>>

HandleIFrame ==
  /\ ~closed /\ reader = "reading" /\ wire # <<>>
  /\ LET f == Head(wire) IN
       /\ Decodable(f) /\ Read(f) = f.payload
       /\ Expected(f)
       /\ Forward(f)
  /\ UNCHANGED reader

(* It stops within the frame, or goes on into the next one.  The ASDU is    *)
(* forwarded, and the next START flag is looked for where none stands.      *)
LosesStep ==
  /\ ~closed /\ reader = "reading" /\ wire # <<>>
  /\ LET f == Head(wire) IN
       /\ Decodable(f)
       /\ Read(f) # f.payload
       /\ Read(f) > f.payload => Len(wire) > 1
       /\ Expected(f)
       /\ Forward(f)
  /\ reader' = "lost"

(* An exception of decode (a type it does not know, the message fragment    *)
(* timeout when it waits for octets that do not come), or the wrong N(S)    *)
RejectFrame ==
  /\ ~closed /\ reader = "reading" /\ wire # <<>>
  /\ LET f == Head(wire) IN
       \/ ~Decodable(f)
       \/ Decodable(f) /\ Read(f) > f.payload
       \/ ~Expected(f)
  /\ Closes

(* The octet is no START flag, or what follows is no frame. *)
LostReaderCloses ==
  /\ ~closed /\ reader = "lost"
  /\ Closes

----------------------------------------------------------------------------
(* The sender *)

(* handleReceiveSequenceNumber, for an S-frame or I-frame that the peer     *)
(* wrote when it had received n more frames than are acknowledged           *)
HandleReceiveSequenceNumber ==
  /\ ~closed
  /\ \E n \in 1 .. sequenceNumberDiff(receiveSequenceNumber,
                                     acknowledgedSendSequenceNumber) :
       acknowledgedSendSequenceNumber' =
         (acknowledgedSendSequenceNumber + n) % SeqModulus
  /\ maxTimeNoAckReceived' = (sendSequenceNumber # acknowledgedSendSequenceNumber')
  /\ UNCHANGED <<settings, sendSequenceNumber, readerVars, closed, sentVars>>

(* MaxTimeNoAckReceivedTimer.execute *)
NoAckReceived ==
  /\ ~closed /\ maxTimeNoAckReceived
  /\ Closes

Reader == HandleIFrame \/ LosesStep \/ RejectFrame

Next ==
  \/ \E a \in ASdus : Send(a) \/ EncodeThrows(a)
  \/ Reader
  \/ LostReaderCloses
  \/ HandleReceiveSequenceNumber
  \/ NoAckReceived

Spec == Init /\ [][Next]_vars

(* The reader runs, and a timer that stays planned comes due. *)
Fairness == WF_vars(Reader) /\ WF_vars(NoAckReceived)

FairSpec == Spec /\ Fairness
----------------------------------------------------------------------------
(* Properties *)

FrameType ==
  [sendSeqNum : SeqNumber, type : STRING, vsq : 0 .. 255, payload : Nat,
   aSduLength : Nat, segment : Nat]

TypeOK ==
  /\ settings \in Settings
  /\ sendSequenceNumber \in SeqNumber
  /\ acknowledgedSendSequenceNumber \in SeqNumber
  /\ receiveSequenceNumber \in SeqNumber
  /\ maxTimeNoAckReceived \in BOOLEAN
  /\ wire \in Seq(FrameType)
  /\ reader \in {"reading", "lost"} /\ closed \in BOOLEAN
  /\ accepted \in Seq(ASdus) /\ delivered \in Seq(ASdu)
  /\ failed \in Nat /\ gap \in Nat

AllRegular == \A i \in 1 .. Len(accepted) : Regular(accepted[i])

(* The reader always stands at the start of a frame, whatever the field     *)
(* lengths, as long as every ASDU sent is regular.                          *)
InStep == AllRegular => reader = "reading"

(* Then each ASDU arrives with as many objects and elements as were sent,   *)
(* none missing before one that has arrived.                                *)
DeliveredAsSent ==
  AllRegular =>
    IsPrefix(delivered, [i \in 1 .. Len(accepted) |-> Content(accepted[i])])

(* When encode has thrown, no ASDU sent after that is ever taken for the    *)
(* one that is missing: the numbers show the gap, however many are missing. *)
NothingAfterGap == failed > 0 => Len(delivered) <= gap

(* And the connection does not live on with the gap: the peer closes it     *)
(* when it meets the next frame, or t1 does.                                *)
GapCloses == failed > 0 ~> closed

(* An answer that sends back what was received is regular, even when what   *)
(* was received was not: it does not put the other direction out of step.   *)
AnswersRegular ==
  \A i \in 1 .. Len(delivered) :
    Confirmable(delivered[i]) => Regular(delivered[i])

(* Each command method pairs its type with the elements the decoder reads   *)
(* for it, and fits into the buffer whatever the field lengths; a segment   *)
(* if it is short enough, and a directory if it has one entry.              *)
CommandsArrive ==
  \A a \in Commands \cup {SendSegment(236), SendDirectory(1)} :
    Regular(a) /\ Fits(a)
============================================================================
