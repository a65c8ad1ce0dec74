-------------------------- MODULE ConnectionProofs --------------------------
(* Safety of Connection for every modulus, every k and w and every bound:   *)
(* never more than k I-frames outstanding and, unless stopDataTransfer has  *)
(* been overtaken, no sequence error and no acknowledgement of what was not *)
(* received.  The inductive invariant relates the                           *)
(* modular counters to the absolute counts behind them and says what the    *)
(* frames on the wire can be.  On it rest six more invariants: of the       *)
(* timers t1 and t3, of t2 and what is recorded as acknowledged, of what    *)
(* the listeners have seen, of the STARTDT_ACT that is ahead of any data,   *)
(* of the listener that is kept until it is told, and of the fifth timer    *)
(* and what the first STOPDT_CON confirms.                                  *)
EXTENDS ConnectionTypes

----------------------------------------------------------------------------
(* The inductive invariant *)

Carries(f) == IF f.type = "I_FORMAT" THEN 1 ELSE 0

(* The counters of a frame are its sender's counts at that moment. *)
Numbered(f) ==
  /\ f.type = "I_FORMAT" => f.ns = (f.vs - 1) % SeqModulus
  /\ f.type \in {"I_FORMAT", "S_FORMAT"} => f.nr = f.vr % SeqModulus

(* The counts a reader of w has seen when it has read i frames of it. *)
SentUpTo(w, v, i) == IF i = 0 THEN v ELSE w[i].vs
AckedUpTo(w, r, i) == IF i = 0 THEN r ELSE w[i].vr

(* The frames w lead a reader that has received v I-frames and seen r of    *)
(* its own acknowledged to the s I-frames the writer has sent, without a    *)
(* gap; no acknowledgement exceeds the m I-frames the writer has received,  *)
(* and if ok they do not go back.                                           *)
Linked(w, v, r, s, m, ok, i) ==
  /\ w[i].vs = SentUpTo(w, v, i - 1) + Carries(w[i])
  /\ w[i].vs <= s
  /\ ok => AckedUpTo(w, r, i - 1) <= w[i].vr
  /\ w[i].vr <= m
  /\ Numbered(w[i])

Chain(w, v, r, s, m, ok) ==
  /\ \A i \in 1 .. Len(w) : Linked(w, v, r, s, m, ok, i)
  /\ SentUpTo(w, v, Len(w)) = s

Counted(p) ==
  /\ sendSequenceNumber[p] = sent[p] % SeqModulus
  /\ receiveSequenceNumber[p] = received[p] % SeqModulus
  /\ acknowledgedSendSequenceNumber[p] = acked[p] % SeqModulus

Windowed(p) ==
  /\ acked[p] <= sent[p]
  /\ sent[p] - acked[p] <= K[p]
  /\ received[p] <= sent[Peer(p)]
  /\ ~overtaken /\ ~closed[p] => acked[p] <= received[Peer(p)]

(* The reader will handle the first frame on its way. *)
Reading(p) == (~closed[p] /\ reader[p] = "reading") \/ reader[p] = "late"

OnTheWay(p) ==
  Reading(p) =>
    Chain(wire[p], received[p], acked[p], sent[Peer(p)], received[Peer(p)],
          ~overtaken /\ ~closed[p])

Trusted(p) == ~overtaken => closedBecause[p] # "sequence"

NumberInv ==
  \A p \in Endpoint :
    /\ Counted(p)
    /\ Windowed(p)
    /\ OnTheWay(p)
    /\ Trusted(p)

(* The N(R) in stopDataTransfer's hand has been the counter. *)
StopInv ==
  control = "stopWrite" =>
    stopNr = stopCount % SeqModulus /\ stopCount <= received[Client]

----------------------------------------------------------------------------
(* Chains *)

LEMMA ElementTypes ==
  ASSUME NEW w \in Seq(Frame)
  PROVE  /\ Len(w) \in Nat
         /\ \A i \in 1 .. Len(w) : w[i] \in Frame /\ w[i].vs \in Nat /\ w[i].vr \in Nat
  <1>1. Len(w) \in Nat
    BY LenProperties
  <1>2. \A i \in 1 .. Len(w) : w[i] \in Frame
    BY ElementOfSeq
  <1> QED
    BY <1>1, <1>2 DEF Frame

(* Frames the writer adds, which carry its present counts and no ASDU,      *)
(* after it has received m1 - m more.                                       *)
LEMMA ChainReplies ==
  ASSUME NEW w \in Seq(Frame), NEW out \in Seq(Frame),
         NEW v \in Nat, NEW r \in Nat, NEW s \in Nat, NEW m \in Nat, NEW m1 \in Nat, NEW ok,
         Chain(w, v, r, s, m, ok), ok => r <= m, m <= m1,
         \A i \in 1 .. Len(out) :
           /\ out[i].type # "I_FORMAT"
           /\ out[i].vs = s
           /\ out[i].vr <= m1
           /\ ok => out[i].vr = m1
           /\ Numbered(out[i])
  PROVE  Chain(w \o out, v, r, s, m1, ok)
  <1> DEFINE x == w \o out
  <1>1. /\ x \in Seq(Frame)
        /\ Len(x) = Len(w) + Len(out)
        /\ \A i \in 1 .. Len(w) : x[i] = w[i]
        /\ \A j \in 1 .. Len(out) : x[Len(w) + j] = out[j]
    <2>1. /\ x \in Seq(Frame)
          /\ Len(x) = Len(w) + Len(out)
          /\ \A i \in 1 .. Len(w) + Len(out) :
               x[i] = IF i <= Len(w) THEN w[i] ELSE out[i - Len(w)]
      BY ConcatProperties
    <2>2. Len(w) \in Nat /\ Len(out) \in Nat
      BY ElementTypes
    <2> HIDE DEF x
    <2>3. ASSUME NEW i \in 1 .. Len(w)
          PROVE  x[i] = w[i]
      <3>1. i \in 1 .. Len(w) + Len(out) /\ i <= Len(w)
        BY <2>2
      <3> QED
        BY <2>1, <3>1
    <2>4. ASSUME NEW j \in 1 .. Len(out)
          PROVE  x[Len(w) + j] = out[j]
      <3>1. Len(w) + j \in 1 .. Len(w) + Len(out) /\ ~(Len(w) + j <= Len(w))
            /\ (Len(w) + j) - Len(w) = j
        BY <2>2
      <3> QED
        BY <2>1, <3>1
    <2> QED
      BY <2>1, <2>3, <2>4
  <1>2. Len(w) \in Nat /\ Len(out) \in Nat
    BY ElementTypes
  <1>3. \A i \in 1 .. Len(w) : w[i].vr <= m /\ w[i].vr \in Nat
    BY ElementTypes DEF Chain, Linked
  <1>4. SentUpTo(w, v, Len(w)) = s
    BY DEF Chain
  <1> HIDE DEF x
  <1>5. ASSUME NEW i \in 1 .. Len(w)
        PROVE  Linked(x, v, r, s, m1, ok, i)
    <2>1. Linked(w, v, r, s, m, ok, i)
      BY DEF Chain
    <2>2. x[i] = w[i] /\ (i # 1 => x[i - 1] = w[i - 1])
      <3>1. i # 1 => i - 1 \in 1 .. Len(w)
        BY <1>2
      <3> QED
        BY <1>1, <3>1
    <2>3. SentUpTo(x, v, i - 1) = SentUpTo(w, v, i - 1)
          /\ AckedUpTo(x, r, i - 1) = AckedUpTo(w, r, i - 1)
      BY <2>2 DEF SentUpTo, AckedUpTo
    <2>4. x[i].vr <= m1
      BY <1>3, <2>2
    <2> QED
      BY <2>1, <2>2, <2>3, <2>4 DEF Linked
  <1>6. ASSUME NEW j \in 1 .. Len(out)
        PROVE  Linked(x, v, r, s, m1, ok, Len(w) + j)
    <2> DEFINE i == Len(w) + j
    <2>1. x[i] = out[j] /\ i \in 1 .. Len(x)
      BY <1>1, <1>2
    <2>2. SentUpTo(x, v, i - 1) = s /\ (ok => AckedUpTo(x, r, i - 1) <= m1)
      <3>1. CASE j = 1
        <4>1. i - 1 = Len(w)
          BY <1>2, <3>1
        <4>2. CASE Len(w) = 0
          BY <1>4, <4>1, <4>2 DEF SentUpTo, AckedUpTo
        <4>3. CASE Len(w) # 0
          <5>1. x[Len(w)] = w[Len(w)] /\ Len(w) \in 1 .. Len(w)
            BY <1>1, <1>2, <4>3
          <5>2. w[Len(w)].vs = s
            BY <1>4, <4>3 DEF SentUpTo
          <5>3. w[Len(w)].vr <= m1
            BY <1>3, <5>1
          <5> HIDE DEF i
          <5> QED
            BY <4>1, <4>3, <5>1, <5>2, <5>3 DEF SentUpTo, AckedUpTo
        <4> QED
          BY <4>2, <4>3
      <3>2. CASE j # 1
        <4>1. /\ j - 1 \in 1 .. Len(out) /\ i - 1 # 0
              /\ i - 1 = Len(w) + (j - 1)
          BY <1>2, <3>2
        <4>2. x[i - 1] = out[j - 1]
          BY <1>1, <4>1
        <4> HIDE DEF i
        <4> QED
          BY <4>1, <4>2 DEF SentUpTo, AckedUpTo
      <3> QED
        BY <3>1, <3>2
    <2>3. Carries(out[j]) = 0
      BY DEF Carries
    <2> QED
      BY <2>1, <2>2, <2>3 DEF Linked
  <1>7. \A i \in 1 .. Len(x) : Linked(x, v, r, s, m1, ok, i)
    <2> TAKE i \in 1 .. Len(x)
    <2>1. CASE i <= Len(w)
      BY <1>5, <2>1
    <2>2. CASE i > Len(w)
      <3>1. i - Len(w) \in 1 .. Len(out) /\ Len(w) + (i - Len(w)) = i
        BY <1>1, <1>2, <2>2
      <3> QED
        BY <1>6, <3>1
    <2> QED
      BY <1>2, <2>1, <2>2
  <1>8. SentUpTo(x, v, Len(x)) = s
    <2>1. CASE Len(out) = 0
      <3>1. x = w
        BY <2>1, EmptySeq, ConcatEmptySeq DEF x
      <3> QED
        BY <1>4, <3>1
    <2>2. CASE Len(out) # 0
      <3>1. Len(out) \in 1 .. Len(out) /\ Len(x) # 0
        BY <1>1, <1>2, <2>2
      <3>2. x[Len(x)] = out[Len(out)]
        BY <1>1, <3>1
      <3>3. out[Len(out)].vs = s
        BY <3>1
      <3> QED
        BY <3>1, <3>2, <3>3 DEF SentUpTo
    <2> QED
      BY <2>1, <2>2
  <1> QED
    BY <1>7, <1>8 DEF Chain, x

(* The I-frame the writer adds when it sends. *)
LEMMA ChainSend ==
  ASSUME NEW w \in Seq(Frame), NEW f \in Frame,
         NEW v \in Nat, NEW r \in Nat, NEW s \in Nat, NEW m \in Nat, NEW ok,
         Chain(w, v, r, s, m, ok), ok => r <= m,
         f.type = "I_FORMAT", f.vs = s + 1, f.vr = m, Numbered(f)
  PROVE  Chain(w \o <<f>>, v, r, s + 1, m, ok)
  <1> DEFINE x == w \o <<f>>
  <1>1. /\ x \in Seq(Frame)
        /\ Len(x) = Len(w) + 1
        /\ \A i \in 1 .. Len(w) : x[i] = w[i]
        /\ x[Len(w) + 1] = f
    <2>1. <<f>> \in Seq(Frame) /\ Len(<<f>>) = 1 /\ <<f>>[1] = f
      OBVIOUS
    <2> QED
      BY <2>1, ConcatProperties, LenProperties
  <1>2. Len(w) \in Nat
    BY ElementTypes
  <1>3. \A i \in 1 .. Len(w) : w[i].vr <= m /\ w[i].vr \in Nat /\ w[i].vs \in Nat
    BY ElementTypes DEF Chain, Linked
  <1>4. SentUpTo(w, v, Len(w)) = s
    BY DEF Chain
  <1> HIDE DEF x
  <1>5. ASSUME NEW i \in 1 .. Len(w)
        PROVE  Linked(x, v, r, s + 1, m, ok, i)
    <2>1. Linked(w, v, r, s, m, ok, i)
      BY DEF Chain
    <2>2. x[i] = w[i] /\ (i # 1 => x[i - 1] = w[i - 1])
      <3>1. i # 1 => i - 1 \in 1 .. Len(w)
        BY <1>2
      <3> QED
        BY <1>1, <3>1
    <2>3. SentUpTo(x, v, i - 1) = SentUpTo(w, v, i - 1)
          /\ AckedUpTo(x, r, i - 1) = AckedUpTo(w, r, i - 1)
      BY <2>2 DEF SentUpTo, AckedUpTo
    <2>4. x[i].vs <= s + 1
      BY <1>3, <2>1, <2>2 DEF Linked
    <2> QED
      BY <2>1, <2>2, <2>3, <2>4 DEF Linked
  <1>6. Linked(x, v, r, s + 1, m, ok, Len(w) + 1)
    <2>1. SentUpTo(x, v, Len(w)) = s /\ (ok => AckedUpTo(x, r, Len(w)) <= m)
      <3>1. CASE Len(w) = 0
        BY <1>4, <3>1 DEF SentUpTo, AckedUpTo
      <3>2. CASE Len(w) # 0
        <4>1. x[Len(w)] = w[Len(w)] /\ Len(w) \in 1 .. Len(w)
          BY <1>1, <1>2, <3>2
        <4> QED
          BY <1>3, <1>4, <3>2, <4>1 DEF SentUpTo, AckedUpTo
      <3> QED
        BY <3>1, <3>2
    <2>2. (Len(w) + 1) - 1 = Len(w)
      BY <1>2
    <2>3. Carries(f) = 1
      BY DEF Carries
    <2> QED
      BY <1>1, <2>1, <2>2, <2>3 DEF Linked
  <1>7. \A i \in 1 .. Len(x) : Linked(x, v, r, s + 1, m, ok, i)
    BY <1>1, <1>2, <1>5, <1>6
  <1>8. SentUpTo(x, v, Len(x)) = s + 1
    BY <1>1, <1>2 DEF SentUpTo
  <1> QED
    BY <1>7, <1>8 DEF Chain, x

LEMMA ChainHead ==
  ASSUME NEW w \in Seq(Frame), w # <<>>, NEW v, NEW r, NEW s, NEW m, NEW ok,
         Chain(w, v, r, s, m, ok)
  PROVE  Linked(w, v, r, s, m, ok, 1) /\ Head(w) = w[1]
  <1>1. Head(w) = w[1]
    BY HeadTailProperties
  <1>2. Len(w) \in Nat /\ Len(w) # 0
    BY LenProperties, EmptySeq
  <1> QED
    BY <1>1, <1>2 DEF Chain

(* The reader takes the first frame and perhaps its acknowledgement. *)
LEMMA ChainTail ==
  ASSUME NEW w \in Seq(Frame), w # <<>>,
         NEW v \in Nat, NEW r \in Nat, NEW s \in Nat, NEW m \in Nat, NEW a \in Nat,
         NEW ok,
         Chain(w, v, r, s, m, ok), ok => a <= Head(w).vr
  PROVE  /\ Chain(Tail(w), Head(w).vs, a, s, m, ok)
         /\ Head(w).vs = v + Carries(Head(w)) /\ Head(w).vs <= s
         /\ (ok => r <= Head(w).vr) /\ Head(w).vr <= m
         /\ Numbered(Head(w))
  <1> DEFINE x == Tail(w)
             f == Head(w)
  <1>1. /\ f \in Frame /\ x \in Seq(Frame) /\ Len(x) = Len(w) - 1
        /\ \A i \in 1 .. Len(x) : x[i] = w[i + 1]
        /\ f = w[1]
    BY HeadTailProperties
  <1>2. Len(w) \in Nat /\ Len(w) # 0
    BY LenProperties, EmptySeq
  <1>3. Linked(w, v, r, s, m, ok, 1)
    BY ChainHead
  <1> HIDE DEF x, f
  <1>4. /\ f.vs = v + Carries(f) /\ f.vs <= s
        /\ (ok => r <= f.vr) /\ f.vr <= m
        /\ Numbered(f)
    BY <1>1, <1>3 DEF Linked, SentUpTo, AckedUpTo
  <1>5. \A i \in 1 .. Len(x) : Linked(x, f.vs, a, s, m, ok, i)
    <2> TAKE i \in 1 .. Len(x)
    <2>1. Linked(w, v, r, s, m, ok, i + 1) /\ x[i] = w[i + 1]
      BY <1>1, <1>2 DEF Chain
    <2>2. SentUpTo(x, f.vs, i - 1) = SentUpTo(w, v, i)
      <3>1. CASE i = 1
        BY <1>1, <3>1 DEF SentUpTo
      <3>2. CASE i # 1
        <4>1. x[i - 1] = w[i]
          BY <1>1, <1>2, <3>2
        <4> QED
          BY <3>2, <4>1 DEF SentUpTo
      <3> QED
        BY <3>1, <3>2
    <2>3. ASSUME ok
          PROVE  AckedUpTo(x, a, i - 1) <= x[i].vr
      <3>1. AckedUpTo(w, r, i) <= w[i + 1].vr
        BY <2>1, <2>3 DEF Linked
      <3>2. CASE i = 1
        <4>1. f.vr \in Nat /\ x[i].vr \in Nat
          <5>1. f \in Frame
            BY <1>1
          <5>2. x[i].vr \in Nat
            BY <1>1, ElementTypes
          <5> QED
            BY <5>1, <5>2 DEF Frame
        <4>2. f.vr <= x[i].vr
          BY <1>1, <2>1, <3>1, <3>2 DEF AckedUpTo
        <4>3. a <= f.vr
          BY <2>3 DEF f
        <4>4. a <= x[i].vr
          BY <4>1, <4>2, <4>3
        <4> QED
          BY <3>2, <4>4 DEF AckedUpTo
      <3>3. CASE i # 1
        <4>1. x[i - 1] = w[i]
          BY <1>1, <1>2, <3>3
        <4> QED
          BY <2>1, <3>1, <3>3, <4>1 DEF AckedUpTo
      <3> QED
        BY <3>2, <3>3
    <2> QED
      BY <2>1, <2>2, <2>3 DEF Linked
  <1>6. SentUpTo(x, f.vs, Len(x)) = s
    <2>1. SentUpTo(w, v, Len(w)) = s
      BY DEF Chain
    <2>2. CASE Len(x) = 0
      <3>1. Len(w) = 1
        BY <1>1, <1>2, <2>2
      <3> QED
        BY <1>1, <2>1, <2>2, <3>1 DEF SentUpTo
    <2>3. CASE Len(x) # 0
      <3>1. x[Len(x)] = w[Len(w)]
        BY <1>1, <1>2, <2>3
      <3> QED
        BY <1>2, <2>1, <2>3, <3>1 DEF SentUpTo
    <2> QED
      BY <2>2, <2>3
  <1> QED
    BY <1>4, <1>5, <1>6 DEF Chain, x, f

(* It is still a chain when less is asked of it. *)
LEMMA ChainWeaker ==
  ASSUME NEW w, NEW v, NEW r, NEW r2, NEW s, NEW m, NEW ok, NEW ok2,
         Chain(w, v, r, s, m, ok), ~ok2 \/ (ok /\ r2 = r)
  PROVE  Chain(w, v, r2, s, m, ok2)
  <1>1. ASSUME NEW i \in 1 .. Len(w)
        PROVE  Linked(w, v, r2, s, m, ok2, i)
    <2>1. Linked(w, v, r, s, m, ok, i)
      BY DEF Chain
    <2> QED
      BY <2>1 DEF Linked
  <1> QED
    BY <1>1 DEF Chain

----------------------------------------------------------------------------
(* What the invariant says of an endpoint *)

LEMMA Counts ==
  ASSUME TypeOK, NEW p \in Endpoint
  PROVE  /\ sent[p] \in Nat /\ received[p] \in Nat /\ acked[p] \in Nat
         /\ wire[p] \in Seq(Frame)
         /\ K[p] \in Nat /\ K[p] < SeqModulus
  BY WindowAssumption, SeqModulusAssumption DEF TypeOK, SeqType

LEMMA Facts ==
  ASSUME TypeOK, NumberInv, NEW p \in Endpoint
  PROVE  /\ Counted(p) /\ Windowed(p) /\ OnTheWay(p)
         /\ acked[p] <= sent[p] /\ sent[p] - acked[p] < SeqModulus
  <1>1. Counted(p) /\ Windowed(p) /\ OnTheWay(p)
    BY DEF NumberInv
  <1>2. acked[p] <= sent[p] /\ sent[p] - acked[p] <= K[p]
    BY <1>1 DEF Windowed
  <1>3. sent[p] \in Nat /\ acked[p] \in Nat /\ K[p] \in Nat /\ K[p] < SeqModulus
    BY Counts
  <1> QED
    BY <1>1, <1>2, <1>3, SeqModulusAssumption

(* The differences the code computes are those of the counts. *)
LEMMA Unconfirmed ==
  ASSUME TypeOK, NumberInv, NEW p \in Endpoint
  PROVE  getNumUnconfirmedAPdusSent(p) = sent[p] - acked[p]
  BY Facts, Counts, DiffIsDistance DEF getNumUnconfirmedAPdusSent, Counted

(* Of the frame the reader handles next: *)
LEMMA FirstFrame ==
  ASSUME TypeOK, NumberInv, NEW p \in Endpoint, Readable(p) \/ InHand(p)
  PROVE  /\ wire[p] # <<>>
         /\ Head(wire[p]).vs \in Nat /\ Head(wire[p]).vr \in Nat
         /\ Head(wire[p]).nr \in SeqNumber
         /\ Head(wire[p]).vs = received[p] + Carries(Head(wire[p]))
         /\ Head(wire[p]).vs <= sent[Peer(p)]
         /\ ~overtaken /\ ~closed[p] => acked[p] <= Head(wire[p]).vr
         /\ Head(wire[p]).vr <= received[Peer(p)]
         /\ Head(wire[p]).vr <= sent[p]
         /\ Numbered(Head(wire[p]))
  <1> DEFINE f == Head(wire[p])
             q == Peer(p)
             ok == ~overtaken /\ ~closed[p]
  <1>1. /\ sent[p] \in Nat /\ received[p] \in Nat /\ acked[p] \in Nat
        /\ sent[q] \in Nat /\ received[q] \in Nat /\ wire[p] \in Seq(Frame)
    BY Counts, Peers
  <1>2. Chain(wire[p], received[p], acked[p], sent[q], received[q], ok) /\ wire[p] # <<>>
    BY DEF NumberInv, OnTheWay, Reading, Readable, InHand
  <1>3. f.vs \in Nat /\ f.vr \in Nat /\ f.nr \in SeqNumber
    BY <1>2, HeadType DEF TypeOK, WireType, Frame
  <1>4. received[q] <= sent[p]
    BY Peers DEF NumberInv, Windowed
  <1> HIDE DEF ok
  <1>6. /\ f.vs = received[p] + Carries(f) /\ f.vs <= sent[q]
        /\ ok => acked[p] <= f.vr
        /\ f.vr <= received[q]
        /\ Numbered(f)
    <2>1. Linked(wire[p], received[p], acked[p], sent[q], received[q], ok, 1)
          /\ f = wire[p][1]
      BY <1>1, <1>2, ChainHead
    <2> HIDE DEF f, q
    <2> QED
      BY <2>1 DEF Linked, SentUpTo, AckedUpTo
  <1> HIDE DEF f, q
  <1>7. f.vr <= sent[p]
    BY <1>1, <1>3, <1>4, <1>6
  <1> QED
    BY <1>2, <1>3, <1>6, <1>7 DEF f, q, ok

(* An N(R) that is not beyond what has been sent. *)
LEMMA AckWithin ==
  ASSUME TypeOK, NumberInv, NEW p \in Endpoint, NEW nr \in SeqNumber,
         ~AckBeyondSent(p, nr)
  PROVE  LET a == acked[p] + sequenceNumberDiff(nr, acknowledgedSendSequenceNumber[p])
         IN  /\ a \in Nat /\ acked[p] <= a /\ a <= sent[p]
             /\ a % SeqModulus = nr
  <1> DEFINE d == sequenceNumberDiff(nr, acknowledgedSendSequenceNumber[p])
  <1>1. sent[p] \in Nat /\ acked[p] \in Nat /\ acked[p] <= sent[p]
        /\ acknowledgedSendSequenceNumber[p] = acked[p] % SeqModulus
    BY Counts, Facts DEF Counted
  <1>2. acknowledgedSendSequenceNumber[p] \in SeqNumber
    BY DEF TypeOK, SeqType
  <1>3. d \in Nat
    BY <1>2, DiffType DEF SeqNumber
  <1>4. d <= sent[p] - acked[p]
    <2>1. CASE nr = acknowledgedSendSequenceNumber[p]
      <3>1. d = 0
        BY <1>2, <2>1, SeqModulusAssumption DEF sequenceNumberDiff, SeqNumber
      <3> QED
        BY <1>1, <3>1
    <2>2. CASE nr # acknowledgedSendSequenceNumber[p]
      <3>1. ~(d > sent[p] - acked[p])
        BY <2>2, Unconfirmed DEF AckBeyondSent
      <3> QED
        BY <1>1, <1>3, <3>1
    <2> QED
      BY <2>1, <2>2
  <1>5. (acked[p] + d) % SeqModulus = nr
    BY <1>1, DiffCounts
  <1> HIDE DEF d
  <1>6. acked[p] + d \in Nat /\ acked[p] <= acked[p] + d /\ acked[p] + d <= sent[p]
    BY <1>1, <1>3, <1>4
  <1> QED
    BY <1>5, <1>6 DEF d

(* The second check of handleReceiveSequenceNumber never fails. *)
LEMMA NeverExceeded ==
  ASSUME TypeOK, NumberInv, NEW p \in Endpoint, NEW nr \in SeqNumber
  PROVE  ~WindowExceeded(p, nr)
  <1> SUFFICES ASSUME ~AckBeyondSent(p, nr)
               PROVE  ~(sequenceNumberDiff(sendSequenceNumber[p], nr) > K[p])
    BY DEF WindowExceeded
  <1> DEFINE a == acked[p] + sequenceNumberDiff(nr, acknowledgedSendSequenceNumber[p])
  <1>1. a \in Nat /\ acked[p] <= a /\ a <= sent[p] /\ a % SeqModulus = nr
    BY AckWithin
  <1> HIDE DEF a
  <1>2. /\ sent[p] \in Nat /\ acked[p] \in Nat /\ K[p] \in Nat
        /\ sent[p] - acked[p] < SeqModulus /\ sent[p] - acked[p] <= K[p]
        /\ sendSequenceNumber[p] = sent[p] % SeqModulus
    BY Counts, Facts DEF Counted, Windowed
  <1>3. sent[p] - a < SeqModulus /\ sent[p] - a <= K[p]
    BY <1>1, <1>2, SeqModulusAssumption
  <1>4. sequenceNumberDiff(sent[p] % SeqModulus, a % SeqModulus) = sent[p] - a
    BY <1>1, <1>2, <1>3, DiffIsDistance
  <1> QED
    BY <1>1, <1>2, <1>3, <1>4

(* Unless stopDataTransfer has been overtaken, a frame the reader can take  *)
(* is not rejected for its numbers, and acknowledges what it should.        *)
LEMMA AckMeant ==
  ASSUME TypeOK, NumberInv, NEW p \in Endpoint, Readable(p), ~overtaken,
         Head(wire[p]).type \in {"I_FORMAT", "S_FORMAT"}
  PROVE  LET f == Head(wire[p])
             d == sequenceNumberDiff(f.nr, acknowledgedSendSequenceNumber[p])
         IN  d = f.vr - acked[p] /\ d <= sent[p] - acked[p]
  <1> DEFINE f == Head(wire[p])
  <1>1. /\ f.vr \in Nat /\ acked[p] \in Nat /\ sent[p] \in Nat
        /\ acked[p] <= f.vr /\ f.vr <= sent[p]
        /\ sent[p] - acked[p] < SeqModulus
    BY FirstFrame, Counts, Facts DEF Readable
  <1>2. f.nr = f.vr % SeqModulus
    BY FirstFrame DEF Numbered
  <1>3. acknowledgedSendSequenceNumber[p] = acked[p] % SeqModulus
    BY Facts DEF Counted
  <1> HIDE DEF f
  <1>4. f.vr - acked[p] < SeqModulus /\ f.vr - acked[p] <= sent[p] - acked[p]
    BY <1>1, SeqModulusAssumption
  <1>5. sequenceNumberDiff(f.nr, acknowledgedSendSequenceNumber[p]) = f.vr - acked[p]
    BY <1>1, <1>2, <1>3, <1>4, DiffIsDistance
  <1> QED
    BY <1>4, <1>5 DEF f

LEMMA NumbersAccepted ==
  ASSUME TypeOK, NumberInv, NEW p \in Endpoint, Readable(p), ~overtaken
  PROVE  ~NumberRejects(p, Head(wire[p]))
  <1> DEFINE f == Head(wire[p])
  <1>1. /\ f.vs \in Nat /\ f.nr \in SeqNumber /\ received[p] \in Nat
        /\ f.vs = received[p] + Carries(f) /\ Numbered(f)
        /\ receiveSequenceNumber[p] = received[p] % SeqModulus
    BY FirstFrame, Counts, Facts DEF Counted
  <1>2. f.type = "I_FORMAT" => f.ns = receiveSequenceNumber[p]
    <2>1. CASE f.type = "I_FORMAT"
      <3>1. f.vs - 1 = received[p]
        BY <1>1, <2>1 DEF Carries
      <3> QED
        BY <1>1, <2>1, <3>1 DEF Numbered
    <2> QED
      BY <2>1
  <1>3. ASSUME f.type \in {"I_FORMAT", "S_FORMAT"}
        PROVE  ~AckRejected(p, f.nr)
    <2>1. sequenceNumberDiff(f.nr, acknowledgedSendSequenceNumber[p])
            <= sent[p] - acked[p]
          /\ sequenceNumberDiff(f.nr, acknowledgedSendSequenceNumber[p]) \in Int
      <3>1. f.vr \in Nat /\ acked[p] \in Nat
        BY FirstFrame, Counts
      <3> QED
        BY <1>3, <3>1, AckMeant
    <2>2. getNumUnconfirmedAPdusSent(p) = sent[p] - acked[p]
          /\ sent[p] \in Nat /\ acked[p] \in Nat
      BY Unconfirmed, Counts
    <2>3. ~AckBeyondSent(p, f.nr)
      BY <2>1, <2>2 DEF AckBeyondSent
    <2> QED
      BY <1>1, <2>3, NeverExceeded DEF AckRejected
  <1> QED
    BY <1>2, <1>3 DEF NumberRejects, f

----------------------------------------------------------------------------
(* The kinds of step.  First: one that sends, receives and counts nothing.  *)

LEMMA QuietStep ==
  ASSUME TypeOK, NumberInv,
         UNCHANGED <<sendSequenceNumber, receiveSequenceNumber,
                     acknowledgedSendSequenceNumber, sent, received, acked,
                     closed, wire, overtaken>>,
         \A p \in Endpoint : reader'[p] \in {"reading", "late"} => reader'[p] = reader[p],
         \A p \in Endpoint : Trusted(p)'
  PROVE  NumberInv'
  <1> SUFFICES ASSUME NEW p \in Endpoint
               PROVE  (/\ Counted(p) /\ Windowed(p) /\ OnTheWay(p) /\ Trusted(p))'
    BY DEF NumberInv
  <1>1. Counted(p) /\ Windowed(p) /\ OnTheWay(p)
    BY DEF NumberInv
  <1>2. Counted(p)'
    BY <1>1 DEF Counted
  <1>3. Windowed(p)'
    BY <1>1 DEF Windowed
  <1>4. OnTheWay(p)'
    BY <1>1 DEF OnTheWay, Reading
  <1> QED
    BY <1>2, <1>3, <1>4

(* A connection closes and writes its window off; its reader may have a     *)
(* frame in hand.                                                           *)
LEMMA CloseStep ==
  ASSUME TypeOK, NumberInv, NEW p \in Endpoint, NEW why \in Reasons \ {"sequence"},
         Close(p, why),
         UNCHANGED <<sendSequenceNumber, receiveSequenceNumber, sent, received, wire,
                     overtaken>>,
         reader'[p] = "late" => Reading(p),
         \A e \in Endpoint \ {p} : reader'[e] = reader[e]
  PROVE  NumberInv'
  <1> SUFFICES ASSUME NEW e \in Endpoint
               PROVE  (/\ Counted(e) /\ Windowed(e) /\ OnTheWay(e) /\ Trusted(e))'
    BY DEF NumberInv
  <1>1. Counted(e) /\ Windowed(e) /\ OnTheWay(e) /\ Trusted(e)
    BY DEF NumberInv
  <1>2. /\ closed' = [closed EXCEPT ![p] = TRUE]
        /\ closedBecause' = [closedBecause EXCEPT ![p] = IF @ = "none" THEN why ELSE @]
        /\ acknowledgedSendSequenceNumber' =
             [acknowledgedSendSequenceNumber EXCEPT ![p] = sendSequenceNumber[p]]
        /\ acked' = [acked EXCEPT ![p] = sent[p]]
    BY DEF Close
  <1>3. /\ closed \in [Endpoint -> BOOLEAN] /\ closedBecause \in [Endpoint -> Reasons]
        /\ acknowledgedSendSequenceNumber \in [Endpoint -> SeqNumber]
        /\ acked \in [Endpoint -> Nat]
    BY DEF TypeOK, SeqType, CloseType
  <1>4. Trusted(e)'
    BY <1>1, <1>2, <1>3 DEF Trusted
  <1>5. CASE e = p
    <2>1. closed'[p] /\ acked'[p] = sent[p]
          /\ acknowledgedSendSequenceNumber'[p] = sendSequenceNumber[p]
      BY <1>2, <1>3
    <2>2. Counted(p)'
      BY <1>1, <1>5, <2>1 DEF Counted
    <2>3. Windowed(p)'
      BY <1>1, <1>5, <2>1, Counts DEF Windowed
    <2>4. OnTheWay(p)'
      <3> SUFFICES ASSUME Reading(p)
                   PROVE  Chain(wire[p], received[p], sent[p], sent[Peer(p)],
                                received[Peer(p)], FALSE)
        BY <2>1 DEF OnTheWay, Reading
      <3>1. Chain(wire[p], received[p], acked[p], sent[Peer(p)], received[Peer(p)],
                  ~overtaken /\ ~closed[p])
        BY <1>1, <1>5 DEF OnTheWay
      <3> QED
        BY <3>1, ChainWeaker
    <2> QED
      BY <1>4, <1>5, <2>2, <2>3, <2>4
  <1>6. CASE e # p
    <2>1. closed'[e] = closed[e] /\ acked'[e] = acked[e]
          /\ acknowledgedSendSequenceNumber'[e] = acknowledgedSendSequenceNumber[e]
          /\ reader'[e] = reader[e]
      BY <1>2, <1>3, <1>6
    <2>2. Counted(e)'
      BY <1>1, <2>1 DEF Counted
    <2>3. Windowed(e)'
      BY <1>1, <2>1 DEF Windowed
    <2>4. OnTheWay(e)'
      BY <1>1, <2>1 DEF OnTheWay, Reading
    <2> QED
      BY <1>4, <2>2, <2>3, <2>4
  <1> QED
    BY <1>5, <1>6

(* Frames that carry the writer's present count of what it has sent, v of   *)
(* what it has received and no ASDU.                                        *)
Replies(p, out, v) ==
  \A i \in 1 .. Len(out) :
    /\ out[i].type # "I_FORMAT"
    /\ out[i].vs = sent[p]
    /\ out[i].vr = v
    /\ Numbered(out[i])

(* Such a frame is written, at the end of a call or by a timer. *)
LEMMA WriteStep ==
  ASSUME TypeOK, NumberInv, NEW p \in Endpoint, NEW out \in Seq(Frame),
         NEW v \in Nat, v <= received[p], Replies(p, out, v), Writes(p, out),
         overtaken' \in BOOLEAN, overtaken \/ v < received[p] => overtaken',
         UNCHANGED <<sendSequenceNumber, receiveSequenceNumber,
                     acknowledgedSendSequenceNumber, sent, received, acked,
                     closed, reader, closedBecause>>
  PROVE  NumberInv'
  <1> SUFFICES ASSUME NEW e \in Endpoint
               PROVE  (/\ Counted(e) /\ Windowed(e) /\ OnTheWay(e) /\ Trusted(e))'
    BY DEF NumberInv
  <1>1. Counted(e) /\ Windowed(e) /\ OnTheWay(e) /\ Trusted(e)
    BY DEF NumberInv
  <1>2. Counted(e)' /\ Windowed(e)' /\ Trusted(e)'
    BY <1>1 DEF Counted, Windowed, Trusted
  <1>3. wire' = [wire EXCEPT ![Peer(p)] = @ \o out] /\ wire \in [Endpoint -> Seq(Frame)]
    BY DEF Writes, TypeOK
  <1> DEFINE ok == ~overtaken' /\ ~closed[e]
  <1>4. ASSUME Reading(e)
        PROVE  Chain(wire[e], received[e], acked[e], sent[Peer(e)], received[Peer(e)], ok)
    <2>1. Chain(wire[e], received[e], acked[e], sent[Peer(e)], received[Peer(e)],
                ~overtaken /\ ~closed[e])
      BY <1>1, <1>4 DEF OnTheWay
    <2>2. ~ok \/ (~overtaken /\ ~closed[e])
      OBVIOUS
    <2> HIDE DEF ok
    <2> QED
      BY <2>1, <2>2, ChainWeaker
  <1>5. CASE e = p
    <2>1. wire'[e] = wire[e]
      BY <1>3, <1>5, Peers
    <2> QED
      BY <1>2, <1>4, <2>1 DEF OnTheWay, Reading
  <1>6. CASE e # p
    <2>1. e = Peer(p) /\ Peer(e) = p
      BY <1>6, Peers
    <2>2. wire'[e] = wire[e] \o out
      BY <1>3, <2>1
    <2>3. ASSUME Reading(e)
          PROVE  Chain(wire[e] \o out, received[e], acked[e], sent[p], received[p], ok)
      <3>1. Chain(wire[e], received[e], acked[e], sent[p], received[p], ok)
        BY <1>4, <2>1, <2>3
      <3>2. ok => acked[e] <= received[p] /\ v = received[p]
        BY <1>1, <2>1, Counts DEF Windowed
      <3>3. wire[e] \in Seq(Frame) /\ sent[p] \in Nat /\ received[p] \in Nat
            /\ received[e] \in Nat /\ acked[e] \in Nat
        BY Counts
      <3> HIDE DEF ok
      <3>4. /\ received[p] <= received[p]
            /\ \A i \in 1 .. Len(out) :
                 /\ out[i].type # "I_FORMAT" /\ out[i].vs = sent[p]
                 /\ out[i].vr <= received[p] /\ (ok => out[i].vr = received[p])
                 /\ Numbered(out[i])
        BY <3>2, <3>3 DEF Replies
      <3> QED
        BY <3>1, <3>2, <3>3, <3>4, ChainReplies
    <2>4. OnTheWay(e)'
      BY <2>1, <2>2, <2>3 DEF OnTheWay, Reading
    <2> QED
      BY <1>2, <2>4
  <1> QED
    BY <1>5, <1>6

LEMMA FramesAssociative ==
  ASSUME NEW a \in Seq(Frame), NEW b \in Seq(Frame), NEW c \in Seq(Frame)
  PROVE  (a \o b) \o c = a \o (b \o c)
  OBVIOUS

(* send() past its checks, of a thread that found the window not full. *)
LEMMA TransmitStep ==
  ASSUME TypeOK, NumberInv, NEW p \in Endpoint, ~WindowFull(p), Transmit(p),
         UNCHANGED <<closed, reader, closedBecause, overtaken>>
  PROVE  NumberInv'
  <1> DEFINE r == receiveSequenceNumber[p]
             s == sendSequenceNumber[p]
             first == IF Wraps(s) THEN <<SFrame(r, sent[p], received[p])>> ELSE <<>>
             f == IFrame(s, r, sent[p] + 1, received[p])
  <1>0. /\ sent[p] \in Nat /\ received[p] \in Nat /\ acked[p] \in Nat
        /\ r \in SeqNumber /\ s \in SeqNumber
        /\ K[p] \in Nat
    BY Counts DEF TypeOK, SeqType
  <1>1. Counted(p) /\ Windowed(p)
    BY DEF NumberInv
  <1>2. /\ sendSequenceNumber' = [sendSequenceNumber EXCEPT ![p] = NextSeq(@)]
        /\ sent' = [sent EXCEPT ![p] = @ + 1]
        /\ wire' = [wire EXCEPT ![Peer(p)] = @ \o (first \o <<f>>)]
        /\ UNCHANGED <<receiveSequenceNumber, acknowledgedSendSequenceNumber,
                       received, acked>>
    BY DEF Transmit, Writes
  <1>3. /\ sendSequenceNumber \in [Endpoint -> SeqNumber]
        /\ sent \in [Endpoint -> Nat] /\ wire \in [Endpoint -> Seq(Frame)]
    BY DEF TypeOK, SeqType
  <1>4. sendSequenceNumber'[p] = NextSeq(s) /\ sent'[p] = sent[p] + 1
    BY <1>2, <1>3
  <1>5. sent[p] - acked[p] < K[p]
    BY <1>0, Unconfirmed DEF WindowFull
  <1>6. first \in Seq(Frame) /\ f \in Frame /\ Replies(p, first, received[p])
    <2>1. SFrame(r, sent[p], received[p]) \in Frame /\ f \in Frame
      BY <1>0, FrameTypes
    <2>2. /\ SFrame(r, sent[p], received[p]).type = "S_FORMAT"
          /\ SFrame(r, sent[p], received[p]).vs = sent[p]
          /\ SFrame(r, sent[p], received[p]).vr = received[p]
          /\ SFrame(r, sent[p], received[p]).nr = r
      BY DEF SFrame
    <2>3. Numbered(SFrame(r, sent[p], received[p]))
      BY <1>1, <2>2 DEF Numbered, Counted
    <2> HIDE DEF f
    <2> QED
      BY <2>1, <2>2, <2>3 DEF Replies
  <1>7. f.type = "I_FORMAT" /\ f.vs = sent[p] + 1 /\ f.vr = received[p]
        /\ f.ns = s /\ f.nr = r
    BY DEF IFrame
  <1>8. Numbered(f)
    <2>1. f.vs - 1 = sent[p]
      BY <1>0, <1>7
    <2> QED
      BY <1>1, <1>7, <2>1 DEF Numbered, Counted
  <1> HIDE DEF first, f
  <1> SUFFICES ASSUME NEW e \in Endpoint
               PROVE  (/\ Counted(e) /\ Windowed(e) /\ OnTheWay(e) /\ Trusted(e))'
    BY DEF NumberInv
  <1>9. Counted(e) /\ Windowed(e) /\ OnTheWay(e) /\ Trusted(e)'
    BY DEF NumberInv, Trusted
  <1>10. CASE e = p
    <2>1. wire'[e] = wire[e] /\ sent'[Peer(e)] = sent[Peer(e)]
      BY <1>2, <1>3, <1>10, Peers
    <2>2. Counted(e)'
      <3>1. NextSeq(s) = (sent[p] + 1) % SeqModulus
        BY <1>0, <1>1, NextSeqCounts DEF Counted
      <3> QED
        BY <1>2, <1>4, <1>9, <1>10, <3>1 DEF Counted
    <2>3. Windowed(e)'
      <3>1. acked[p] <= sent[p] + 1 /\ (sent[p] + 1) - acked[p] <= K[p]
        BY <1>0, <1>1, <1>5 DEF Windowed
      <3> QED
        BY <1>2, <1>4, <1>9, <1>10, <2>1, <3>1 DEF Windowed
    <2>4. OnTheWay(e)'
      BY <1>2, <1>9, <2>1 DEF OnTheWay, Reading
    <2> QED
      BY <1>9, <2>2, <2>3, <2>4
  <1>11. CASE e # p
    <2>1. e = Peer(p) /\ Peer(e) = p
      BY <1>11, Peers
    <2>2. wire'[e] = wire[e] \o (first \o <<f>>)
          /\ sendSequenceNumber'[e] = sendSequenceNumber[e] /\ sent'[e] = sent[e]
      BY <1>2, <1>3, <1>11, <2>1
    <2>3. sent[e] \in Nat /\ received[e] \in Nat /\ acked[e] \in Nat
          /\ wire[e] \in Seq(Frame)
      BY Counts
    <2>4. Counted(e)'
      BY <1>2, <1>9, <2>2 DEF Counted
    <2>5. Windowed(e)'
      <3>1. received[e] <= sent[p] + 1
        BY <1>0, <1>9, <2>1, <2>3 DEF Windowed
      <3> QED
        BY <1>2, <1>4, <1>9, <2>1, <2>2, <3>1 DEF Windowed
    <2> DEFINE ok == ~overtaken /\ ~closed[e]
    <2>6. ASSUME Reading(e)
          PROVE  Chain(wire'[e], received[e], acked[e], sent[p] + 1, received[p], ok)
      <3>1. Chain(wire[e], received[e], acked[e], sent[p], received[p], ok)
        BY <1>9, <2>1, <2>6 DEF OnTheWay
      <3>2. /\ ok => acked[e] <= received[p]
            /\ received[p] <= received[p]
        BY <1>0, <1>9, <2>1 DEF Windowed
      <3> HIDE DEF ok
      <3>3. Chain(wire[e] \o first, received[e], acked[e], sent[p], received[p], ok)
        BY <1>0, <1>6, <2>3, <3>1, <3>2, ChainReplies DEF Replies
      <3>4. wire[e] \o first \in Seq(Frame) /\ <<f>> \in Seq(Frame)
        BY <1>6, <2>3, ConcatProperties
      <3>5. Chain((wire[e] \o first) \o <<f>>, received[e], acked[e], sent[p] + 1,
                  received[p], ok)
        BY <1>0, <1>6, <1>7, <1>8, <2>3, <3>2, <3>3, <3>4, ChainSend
      <3>6. (wire[e] \o first) \o <<f>> = wire'[e]
        <4>1. (wire[e] \o first) \o <<f>> = wire[e] \o (first \o <<f>>)
          <5>1. first \in Seq(Frame) /\ wire[e] \in Seq(Frame)
            BY <1>6, <2>3
          <5> QED
            BY <3>4, <5>1, FramesAssociative
        <4> QED
          BY <2>2, <4>1
      <3> QED
        BY <3>5, <3>6
    <2>7. OnTheWay(e)'
      BY <1>2, <1>4, <2>1, <2>6 DEF OnTheWay, Reading
    <2> QED
      BY <1>9, <2>4, <2>5, <2>7
  <1> QED
    BY <1>10, <1>11

(* The reader takes the frame f, may count its ASDU, may take an            *)
(* acknowledgement up to a from it, and writes replies.                     *)
LEMMA ReadStep ==
  ASSUME TypeOK, NumberInv, NEW p \in Endpoint, Readable(p) \/ InHand(p),
         NEW f, f = Head(wire[p]), NEW out \in Seq(Frame), Reads(p, out),
         NEW n \in Nat, received[p] <= n, n <= f.vs, Replies(p, out, n),
         NEW a \in Nat, acked[p] <= a, a <= sent[p],
         ~overtaken /\ ~closed[p] => a <= f.vr,
         received' = [received EXCEPT ![p] = n],
         receiveSequenceNumber' = [receiveSequenceNumber EXCEPT ![p] = n % SeqModulus],
         acked' = [acked EXCEPT ![p] = a],
         acknowledgedSendSequenceNumber' =
           [acknowledgedSendSequenceNumber EXCEPT ![p] = a % SeqModulus],
         UNCHANGED <<sendSequenceNumber, sent, closed, overtaken>>,
         reader'[p] # "late", reader'[p] = "reading" => n = f.vs \/ closed[p],
         \A e \in Endpoint \ {p} : reader'[e] = reader[e],
         \A e \in Endpoint : Trusted(e)'
  PROVE  NumberInv'
  <1> DEFINE q == Peer(p)
             ok == ~overtaken /\ ~closed[p]
  <1>1. q \in Endpoint /\ q # p /\ Peer(q) = p /\ Endpoint = {p, q}
    BY Peers
  <1>2. /\ sent[p] \in Nat /\ received[p] \in Nat /\ acked[p] \in Nat
        /\ sent[q] \in Nat /\ received[q] \in Nat /\ acked[q] \in Nat
        /\ wire[p] \in Seq(Frame) /\ wire[q] \in Seq(Frame)
        /\ K[p] \in Nat
    BY <1>1, Counts
  <1>3. Chain(wire[p], received[p], acked[p], sent[q], received[q], ok) /\ wire[p] # <<>>
    BY DEF NumberInv, OnTheWay, Reading, Readable, InHand
  <1>4. f \in Frame /\ f.vs \in Nat /\ f.vr \in Nat
    BY <1>3, HeadType DEF TypeOK, WireType, Frame
  <1>5. /\ Chain(Tail(wire[p]), f.vs, a, sent[q], received[q], ok)
        /\ f.vs <= sent[q]
        /\ f.vr <= received[q]
    <2>1. ok => a <= f.vr
      OBVIOUS
    <2> HIDE DEF ok
    <2> QED
      BY <1>2, <1>3, <1>4, <2>1, ChainTail
  <1>6. /\ received'[p] = n /\ received'[q] = received[q]
        /\ receiveSequenceNumber'[p] = n % SeqModulus
        /\ receiveSequenceNumber'[q] = receiveSequenceNumber[q]
        /\ acked'[p] = a /\ acked'[q] = acked[q]
        /\ acknowledgedSendSequenceNumber'[p] = a % SeqModulus
        /\ acknowledgedSendSequenceNumber'[q] = acknowledgedSendSequenceNumber[q]
    BY <1>1 DEF TypeOK, SeqType
  <1>7. wire'[p] = Tail(wire[p]) /\ wire'[q] = wire[q] \o out
    BY <1>1 DEF TypeOK, Reads
  <1>8. /\ Counted(p) /\ Windowed(p)
        /\ Counted(q) /\ Windowed(q) /\ OnTheWay(q)
    BY <1>1 DEF NumberInv
  <1> HIDE DEF q
  <1>10. Counted(p)' /\ Counted(q)'
    BY <1>6, <1>8 DEF Counted
  <1>11. Windowed(p)'
    <2>1. sent[p] - a <= K[p]
      <3>1. sent[p] - acked[p] <= K[p]
        BY <1>8 DEF Windowed
      <3> QED
        BY <1>2, <3>1
    <2>2. ok => a <= received[q]
      BY <1>2, <1>4, <1>5
    <2>3. n <= sent[q]
      BY <1>2, <1>4, <1>5
    <2> QED
      BY <1>6, <2>1, <2>2, <2>3 DEF Windowed, q
  <1>12. Windowed(q)'
    <2>1. /\ acked[q] <= sent[q] /\ sent[q] - acked[q] <= K[q] /\ received[q] <= sent[p]
          /\ (~overtaken /\ ~closed[q] => acked[q] <= received[p])
      BY <1>1, <1>8 DEF Windowed
    <2>2. ~overtaken /\ ~closed[q] => acked[q] <= n
      BY <1>2, <2>1
    <2> QED
      BY <1>1, <1>6, <2>1, <2>2 DEF Windowed
  <1>13. OnTheWay(p)'
    <2>1. CASE ~closed[p] /\ reader'[p] = "reading"
      <3>1. n = f.vs
        BY <2>1
      <3> QED
        BY <1>5, <1>6, <1>7, <3>1 DEF OnTheWay, q
    <2> QED
      BY <2>1 DEF OnTheWay, Reading
  <1>14. OnTheWay(q)'
    <2> DEFINE okq == ~overtaken /\ ~closed[q]
    <2>1. ASSUME Reading(q)
          PROVE  Chain(wire[q] \o out, received[q], acked[q], sent[p], n, okq)
      <3>1. Chain(wire[q], received[q], acked[q], sent[p], received[p], okq)
        BY <1>1, <1>8, <2>1 DEF OnTheWay
      <3>2. okq => acked[q] <= received[p]
        BY <1>1, <1>8, <2>1 DEF Windowed
      <3>3. \A i \in 1 .. Len(out) :
              /\ out[i].type # "I_FORMAT" /\ out[i].vs = sent[p]
              /\ out[i].vr <= n /\ (okq => out[i].vr = n)
              /\ Numbered(out[i])
        BY DEF Replies
      <3> HIDE DEF okq
      <3> QED
        BY <1>2, <3>1, <3>2, <3>3, ChainReplies
    <2>2. reader'[q] = reader[q]
      BY <1>1
    <2> QED
      BY <1>1, <1>6, <1>7, <2>1, <2>2 DEF OnTheWay, Reading
  <1> QED
    BY <1>1, <1>10, <1>11, <1>12, <1>13, <1>14 DEF NumberInv

----------------------------------------------------------------------------
(* The frames the handlers answer with *)

LEMMA ReplyFrames ==
  ASSUME TypeOK, NumberInv, NEW p \in Endpoint
  PROVE  /\ \A v : Replies(p, <<>>, v) /\ <<>> \in Seq(Frame)
         /\ \A type \in FrameType \ {"I_FORMAT", "S_FORMAT"} :
              /\ <<UFrame(p, type)>> \in Seq(Frame)
              /\ Replies(p, <<UFrame(p, type)>>, received[p])
         /\ \A v \in Nat :
              /\ <<SFrame(v % SeqModulus, sent[p], v)>> \in Seq(Frame)
              /\ Replies(p, <<SFrame(v % SeqModulus, sent[p], v)>>, v)
  <1>1. \A v : Replies(p, <<>>, v) /\ <<>> \in Seq(Frame)
    BY EmptySeq DEF Replies
  <1>2. ASSUME NEW type \in FrameType \ {"I_FORMAT", "S_FORMAT"}
        PROVE  /\ <<UFrame(p, type)>> \in Seq(Frame)
               /\ Replies(p, <<UFrame(p, type)>>, received[p])
    <2> DEFINE g == UFrame(p, type)
    <2>1. g.type = type /\ g.vs = sent[p] /\ g.vr = received[p]
      BY DEF UFrame
    <2>2. g \in Frame
      BY UFrameTypes DEF TypeOK
    <2> HIDE DEF g
    <2>3. <<g>> \in Seq(Frame) /\ Len(<<g>>) = 1 /\ <<g>>[1] = g
      BY <2>2
    <2> QED
      BY <2>1, <2>3 DEF Replies, Numbered, g
  <1>3. ASSUME NEW v \in Nat
        PROVE  /\ <<SFrame(v % SeqModulus, sent[p], v)>> \in Seq(Frame)
               /\ Replies(p, <<SFrame(v % SeqModulus, sent[p], v)>>, v)
    <2> DEFINE g == SFrame(v % SeqModulus, sent[p], v)
    <2>1. g.type = "S_FORMAT" /\ g.vs = sent[p] /\ g.vr = v /\ g.nr = v % SeqModulus
      BY DEF SFrame
    <2>2. g \in Frame
      <3>1. v % SeqModulus \in SeqNumber /\ sent[p] \in Nat
        BY SeqModulusAssumption, Counts DEF SeqNumber
      <3> QED
        BY <3>1, ZeroType, FrameTypes
    <2> HIDE DEF g
    <2>3. <<g>> \in Seq(Frame) /\ Len(<<g>>) = 1 /\ <<g>>[1] = g
      BY <2>2
    <2> QED
      BY <2>1, <2>3 DEF Replies, Numbered, g
  <1> QED
    BY <1>1, <1>2, <1>3

(* A frame in hand that is rejected or not, counted or not. *)
LEMMA RejectStep ==
  ASSUME TypeOK, NumberInv, NEW p \in Endpoint, RejectFrame(p)
  PROVE  NumberInv'
  <1> DEFINE f == Head(wire[p])
             counted == /\ f.type = "I_FORMAT" /\ ~StopRejects(p, f)
                        /\ f.ns = receiveSequenceNumber[p]
             n == IF counted THEN received[p] + 1 ELSE received[p]
             reply == <<SFrame(NextSeq(f.ns), sent[p], received[p] + 1)>>
  <1>1. Readable(p)
    BY DEF RejectFrame
  <1>2. /\ f.vs \in Nat /\ f.nr \in SeqNumber /\ received[p] \in Nat
        /\ acked[p] \in Nat /\ sent[p] \in Nat /\ acked[p] <= sent[p]
        /\ f.vs = received[p] + Carries(f)
        /\ ~overtaken /\ ~closed[p] => acked[p] <= f.vr
        /\ receiveSequenceNumber[p] = received[p] % SeqModulus
        /\ acknowledgedSendSequenceNumber[p] = acked[p] % SeqModulus
    BY <1>1, FirstFrame, Counts, Facts DEF Counted
  <1>3. ~WindowExceeded(p, f.nr)
    BY <1>2, NeverExceeded
  <1>4. /\ reader' = [reader EXCEPT ![p] = "failing"]
        /\ closedBecause' = [closedBecause EXCEPT
             ![p] = IF StopRejects(p, f) THEN "stopdt" ELSE "sequence"]
        /\ Count(p, counted, NextSeq(f.ns))
        /\ (Reads(p, reply) /\ counted) \/ Reads(p, <<>>)
        /\ UNCHANGED <<sendSequenceNumber, acknowledgedSendSequenceNumber, sent, acked,
                       closed, overtaken>>
    BY <1>3 DEF RejectFrame, controlVars, stopVars
  <1>5. counted => f.vs = received[p] + 1
    BY <1>2 DEF Carries
  <1>6. n \in Nat /\ received[p] <= n /\ n <= f.vs
    BY <1>2, <1>5 DEF Carries
  <1>7. counted => NextSeq(f.ns) = (received[p] + 1) % SeqModulus
    BY <1>2, NextSeqCounts
  <1>8. /\ received' = [received EXCEPT ![p] = n]
        /\ receiveSequenceNumber' = [receiveSequenceNumber EXCEPT ![p] = n % SeqModulus]
    <2>1. CASE counted
      BY <1>4, <1>7, <2>1 DEF Count
    <2>2. CASE ~counted
      BY <1>2, <1>4, <2>2 DEF Count, TypeOK, SeqType
    <2> QED
      BY <2>1, <2>2
  <1>9. \E out \in Seq(Frame) : Reads(p, out) /\ Replies(p, out, n)
    <2>1. CASE Reads(p, reply) /\ counted
      <3>1. n = received[p] + 1 /\ n \in Nat
        BY <1>6, <2>1
      <3>2. reply = <<SFrame(n % SeqModulus, sent[p], n)>>
        BY <1>7, <2>1, <3>1
      <3> QED
        BY <2>1, <3>1, <3>2, ReplyFrames
    <2>2. CASE Reads(p, <<>>)
      BY <2>2, ReplyFrames
    <2> QED
      BY <1>4, <2>1, <2>2
  <1>10. PICK out \in Seq(Frame) : Reads(p, out) /\ Replies(p, out, n)
    BY <1>9
  <1>11. /\ acked' = [acked EXCEPT ![p] = acked[p]]
         /\ acknowledgedSendSequenceNumber' =
              [acknowledgedSendSequenceNumber EXCEPT ![p] = acked[p] % SeqModulus]
    BY <1>2, <1>4 DEF TypeOK, SeqType
  <1>12. \A e \in Endpoint : Trusted(e)'
    <2>1. closedBecause'[p] = "sequence" => overtaken
      <3>1. closedBecause'[p] = IF StopRejects(p, f) THEN "stopdt" ELSE "sequence"
        BY <1>4 DEF TypeOK, CloseType
      <3>2. StopRejects(p, f) \/ NumberRejects(p, f)
        BY DEF RejectFrame
      <3> QED
        BY <1>1, <3>1, <3>2, NumbersAccepted
    <2>2. \A e \in Endpoint \ {p} : closedBecause'[e] = closedBecause[e]
      BY <1>4 DEF TypeOK, CloseType
    <2>3. \A e \in Endpoint : Trusted(e)
      BY DEF NumberInv
    <2> QED
      BY <1>4, <2>1, <2>2, <2>3 DEF Trusted
  <1>13. reader'[p] = "failing" /\ \A e \in Endpoint \ {p} : reader'[e] = reader[e]
    BY <1>4 DEF TypeOK
  <1>14. acked[p] <= acked[p]
    BY <1>2
  <1> HIDE DEF n, counted, reply
  <1> QED
    BY <1>1, <1>2, <1>4, <1>6, <1>8, <1>10, <1>11, <1>12, <1>13, <1>14, ReadStep

(* The frame in hand of a connection that has closed is answered by nothing *)
(* and acknowledges nothing.                                                *)
LEMMA LateStep ==
  ASSUME TypeOK, NumberInv, NEW p \in Endpoint,
         LateIFrame(p) \/ LateSFrame(p) \/ LateAct(p) \/ LateCon(p)
  PROVE  NumberInv'
  <1> DEFINE f == Head(wire[p])
             counted == /\ f.type = "I_FORMAT" /\ ~StopRejects(p, f)
                        /\ f.ns = receiveSequenceNumber[p]
             n == IF counted THEN received[p] + 1 ELSE received[p]
  <1> USE DEF LateIFrame, LateSFrame, LateAct, LateCon
  <1>1. InHand(p) /\ closed[p] /\ Reads(p, <<>>)
    BY DEF InHand
  <1>2. /\ f.vs \in Nat /\ received[p] \in Nat
        /\ acked[p] \in Nat /\ sent[p] \in Nat /\ acked[p] <= sent[p]
        /\ f.vs = received[p] + Carries(f)
        /\ receiveSequenceNumber[p] = received[p] % SeqModulus
        /\ acknowledgedSendSequenceNumber[p] = acked[p] % SeqModulus
    BY <1>1, FirstFrame, Counts, Facts DEF Counted
  <1>3. /\ \/ Count(p, counted, NextSeq(f.ns))
           \/ UNCHANGED <<receiveSequenceNumber, received>> /\ ~counted
        /\ UNCHANGED <<sendSequenceNumber, acknowledgedSendSequenceNumber, sent, acked,
                       closed, closedBecause, overtaken>>
    <2>1. UNCHANGED <<sendSequenceNumber, acknowledgedSendSequenceNumber, sent, acked,
                      closed, closedBecause, overtaken>>
      BY DEF seqVars, closeVars, controlVars, stopVars
    <2>2. CASE LateIFrame(p)
      <3>1. f.type = "I_FORMAT"
        BY <2>2
      <3>2. Count(p, ~StopRejects(p, f) /\ f.ns = receiveSequenceNumber[p], NextSeq(f.ns))
        BY <2>2
      <3> QED
        BY <2>1, <3>1, <3>2
    <2>3. CASE LateSFrame(p) \/ LateAct(p) \/ LateCon(p)
      BY <2>1, <2>3 DEF seqVars
    <2> QED
      BY <2>2, <2>3
  <1>4. reader' = [reader EXCEPT ![p] = "reading"]
        \/ reader' = [reader EXCEPT ![p] = "failing"]
    OBVIOUS
  <1>5. n \in Nat /\ received[p] <= n /\ n <= f.vs
    BY <1>2 DEF Carries
  <1>6. counted => NextSeq(f.ns) = (received[p] + 1) % SeqModulus
    BY <1>2, NextSeqCounts
  <1>7. /\ received' = [received EXCEPT ![p] = n]
        /\ receiveSequenceNumber' = [receiveSequenceNumber EXCEPT ![p] = n % SeqModulus]
    <2>1. CASE counted
      BY <1>3, <1>6, <2>1 DEF Count
    <2>2. CASE ~counted
      BY <1>2, <1>3, <2>2 DEF Count, TypeOK, SeqType
    <2> QED
      BY <2>1, <2>2
  <1>8. <<>> \in Seq(Frame) /\ Replies(p, <<>>, n)
    BY ReplyFrames
  <1>9. /\ acked' = [acked EXCEPT ![p] = acked[p]]
        /\ acknowledgedSendSequenceNumber' =
             [acknowledgedSendSequenceNumber EXCEPT ![p] = acked[p] % SeqModulus]
    BY <1>2, <1>3 DEF TypeOK, SeqType
  <1>10. \A e \in Endpoint : Trusted(e)'
    BY <1>3 DEF NumberInv, Trusted
  <1>11. reader'[p] # "late" /\ \A e \in Endpoint \ {p} : reader'[e] = reader[e]
    BY <1>4 DEF TypeOK
  <1>12. acked[p] <= acked[p]
    BY <1>2
  <1> HIDE DEF n, counted, LateIFrame, LateSFrame, LateAct, LateCon
  <1> QED
    BY <1>1, <1>2, <1>3, <1>5, <1>7, <1>8, <1>9, <1>10, <1>11, <1>12, ReadStep

(* An acknowledgement that is not rejected counts on by as much as the      *)
(* frame acknowledges.                                                      *)
LEMMA AcknowledgeCounts ==
  ASSUME TypeOK, NumberInv, NEW p \in Endpoint, Readable(p),
         Head(wire[p]).type \in {"I_FORMAT", "S_FORMAT"},
         ~NumberRejects(p, Head(wire[p])), Acknowledge(p, Head(wire[p]).nr)
  PROVE  \E a \in Nat :
           /\ acked[p] <= a /\ a <= sent[p]
           /\ ~overtaken => a = Head(wire[p]).vr
           /\ acked' = [acked EXCEPT ![p] = a]
           /\ acknowledgedSendSequenceNumber' =
                [acknowledgedSendSequenceNumber EXCEPT ![p] = a % SeqModulus]
  <1> DEFINE f == Head(wire[p])
             d == sequenceNumberDiff(f.nr, acknowledgedSendSequenceNumber[p])
             a == acked[p] + d
  <1>1. f.nr \in SeqNumber /\ f.vr \in Nat /\ acked[p] \in Nat
    BY FirstFrame, Counts
  <1>2. ~AckBeyondSent(p, f.nr)
    BY DEF NumberRejects, AckRejected
  <1>3. a \in Nat /\ acked[p] <= a /\ a <= sent[p] /\ a % SeqModulus = f.nr
    BY <1>1, <1>2, AckWithin
  <1>4. ~overtaken => a = f.vr
    <2>1. ~overtaken => d = f.vr - acked[p]
      BY AckMeant
    <2> QED
      BY <1>1, <2>1
  <1>5. /\ acked' = [acked EXCEPT ![p] = a]
        /\ acknowledgedSendSequenceNumber' =
             [acknowledgedSendSequenceNumber EXCEPT ![p] = f.nr]
    BY <1>1 DEF Acknowledge, TakeAck, TypeOK, SeqType
  <1> HIDE DEF a
  <1> QED
    BY <1>3, <1>4, <1>5

----------------------------------------------------------------------------
(* The actions of the ConnectionReader *)

LEMMA NumIFrame ==
  ASSUME TypeOK, NumberInv, NEW p \in Endpoint, HandleIFrame(p)
  PROVE  NumberInv'
  <1> DEFINE f == Head(wire[p])
             n == NextSeq(f.ns)
             reply == <<SFrame(n, sent[p], received[p] + 1)>>
  <1>1. Readable(p) /\ f.type = "I_FORMAT" /\ ~NumberRejects(p, f)
    BY DEF HandleIFrame, Handles
  <1>2. /\ f.vs \in Nat /\ f.vr \in Nat /\ received[p] \in Nat
        /\ f.vs = received[p] + 1
        /\ f.ns = (f.vs - 1) % SeqModulus
    BY <1>1, FirstFrame, Counts DEF Carries, Numbered
  <1>3. n = f.vs % SeqModulus
    <2>1. f.ns = received[p] % SeqModulus
      <3>1. f.vs - 1 = received[p]
        BY <1>2
      <3> QED
        BY <1>2, <3>1
    <2> QED
      BY <1>2, <2>1, NextSeqCounts
  <1>4. PICK a \in Nat :
          /\ acked[p] <= a /\ a <= sent[p]
          /\ ~overtaken => a = f.vr
          /\ acked' = [acked EXCEPT ![p] = a]
          /\ acknowledgedSendSequenceNumber' =
               [acknowledgedSendSequenceNumber EXCEPT ![p] = a % SeqModulus]
    BY <1>1, AcknowledgeCounts DEF HandleIFrame
  <1>5. /\ received' = [received EXCEPT ![p] = f.vs]
        /\ receiveSequenceNumber' = [receiveSequenceNumber EXCEPT ![p] = f.vs % SeqModulus]
        /\ UNCHANGED <<sendSequenceNumber, sent, closed, reader, closedBecause, overtaken>>
    BY <1>2, <1>3 DEF HandleIFrame, closeVars, controlVars, stopVars
  <1>6. PICK out \in {reply, <<>>} : Reads(p, out)
    BY DEF HandleIFrame
  <1>7. out \in Seq(Frame) /\ Replies(p, out, f.vs)
    BY <1>2, <1>3, ReplyFrames
  <1>8. f.vs <= f.vs /\ received[p] <= f.vs /\ (~overtaken /\ ~closed[p] => a <= f.vr)
    BY <1>2, <1>4
  <1>9. \A e \in Endpoint : Trusted(e)'
    BY <1>5 DEF NumberInv, Trusted
  <1>10. reader'[p] # "late" /\ \A e \in Endpoint \ {p} : reader'[e] = reader[e]
    BY <1>1, <1>5 DEF Readable
  <1> HIDE DEF f, reply, n
  <1> QED
    BY <1>1, <1>2, <1>4, <1>5, <1>6, <1>7, <1>8, <1>9, <1>10, ReadStep DEF f

LEMMA NumSFrame ==
  ASSUME TypeOK, NumberInv, NEW p \in Endpoint, HandleSFrame(p)
  PROVE  NumberInv'
  <1> DEFINE f == Head(wire[p])
             con == <<UFrame(p, "STOPDT_CON")>>
  <1>1. Readable(p) /\ f.type = "S_FORMAT" /\ ~NumberRejects(p, f)
    BY DEF HandleSFrame, Handles
  <1>2. /\ f.vs \in Nat /\ f.vr \in Nat /\ received[p] \in Nat
        /\ f.vs = received[p]
    BY <1>1, FirstFrame, Counts DEF Carries
  <1>3. PICK a \in Nat :
          /\ acked[p] <= a /\ a <= sent[p]
          /\ ~overtaken => a = f.vr
          /\ acked' = [acked EXCEPT ![p] = a]
          /\ acknowledgedSendSequenceNumber' =
               [acknowledgedSendSequenceNumber EXCEPT ![p] = a % SeqModulus]
    BY <1>1, AcknowledgeCounts DEF HandleSFrame
  <1>4. /\ received' = [received EXCEPT ![p] = f.vs]
        /\ receiveSequenceNumber' = [receiveSequenceNumber EXCEPT ![p] = f.vs % SeqModulus]
    <2>1. received' = received /\ receiveSequenceNumber' = receiveSequenceNumber
      BY DEF HandleSFrame
    <2>2. receiveSequenceNumber[p] = f.vs % SeqModulus
      BY <1>2, Facts DEF Counted
    <2> QED
      BY <1>2, <2>1, <2>2 DEF TypeOK, SeqType
  <1>5. UNCHANGED <<sendSequenceNumber, sent, closed, reader, closedBecause, overtaken>>
    BY DEF HandleSFrame, closeVars, controlVars, stopVars
  <1>6. PICK out \in {con, <<>>} : Reads(p, out)
    BY DEF HandleSFrame
  <1>7. out \in Seq(Frame) /\ Replies(p, out, f.vs)
    BY <1>2, ReplyFrames DEF FrameType
  <1>8. f.vs <= f.vs /\ received[p] <= f.vs /\ (~overtaken /\ ~closed[p] => a <= f.vr)
    BY <1>2, <1>3
  <1>9. \A e \in Endpoint : Trusted(e)'
    BY <1>5 DEF NumberInv, Trusted
  <1>10. reader'[p] # "late" /\ \A e \in Endpoint \ {p} : reader'[e] = reader[e]
    BY <1>1, <1>5 DEF Readable
  <1> HIDE DEF f, con
  <1> QED
    BY <1>1, <1>2, <1>3, <1>4, <1>5, <1>6, <1>7, <1>8, <1>9, <1>10, ReadStep DEF f

LEMMA UFrameStep ==
  ASSUME TypeOK, NumberInv, NEW p \in Endpoint, Readable(p),
         Head(wire[p]).type # "I_FORMAT",
         NEW out \in Seq(Frame), Replies(p, out, received[p]), Reads(p, out),
         UNCHANGED <<sendSequenceNumber, receiveSequenceNumber,
                     acknowledgedSendSequenceNumber, sent, received, acked,
                     closed, closedBecause, reader, overtaken>>
  PROVE  NumberInv'
  <1> DEFINE f == Head(wire[p])
  <1>1. /\ f.vs \in Nat /\ f.vr \in Nat /\ acked[p] \in Nat
        /\ f.vs = received[p] /\ acked[p] <= acked[p] /\ acked[p] <= sent[p]
        /\ f.vs <= f.vs
        /\ ~overtaken /\ ~closed[p] => acked[p] <= f.vr
    BY FirstFrame, Counts, Facts DEF Carries
  <1>2. /\ received' = [received EXCEPT ![p] = f.vs]
        /\ receiveSequenceNumber' = [receiveSequenceNumber EXCEPT ![p] = f.vs % SeqModulus]
        /\ acked' = [acked EXCEPT ![p] = acked[p]]
        /\ acknowledgedSendSequenceNumber' =
             [acknowledgedSendSequenceNumber EXCEPT ![p] = acked[p] % SeqModulus]
    BY <1>1, Facts DEF Counted, TypeOK, SeqType
  <1>3. Replies(p, out, f.vs)
    BY <1>1
  <1>4. \A e \in Endpoint : Trusted(e)'
    BY DEF NumberInv, Trusted
  <1>5. reader'[p] # "late" /\ \A e \in Endpoint \ {p} : reader'[e] = reader[e]
    BY DEF Readable
  <1>6. received[p] <= f.vs
    BY <1>1
  <1> HIDE DEF f
  <1> QED
    BY <1>1, <1>2, <1>3, <1>4, <1>5, <1>6, ReadStep DEF f

LEMMA NumUFrame ==
  ASSUME TypeOK, NumberInv, NEW p \in Endpoint,
         HandleStartDtAct(p) \/ HandleStartDtCon(p) \/ HandleStopDtCon(p)
           \/ HandleTestFrAct(p) \/ HandleTestFrCon(p)
  PROVE  NumberInv'
  <1> USE DEF HandleStartDtAct, HandleStartDtCon, HandleStopDtCon, HandleTestFrAct,
              HandleTestFrCon
  <1>1. Readable(p) /\ Head(wire[p]).type # "I_FORMAT"
    BY DEF Handles
  <1>2. UNCHANGED <<seqVars, closeVars, reader, overtaken>>
    BY DEF controlVars, stopVars
  <1>3. PICK out \in {<<UFrame(p, "STARTDT_CON")>>, <<UFrame(p, "TESTFR_CON")>>, <<>>} :
          Reads(p, out)
    OBVIOUS
  <1>4. out \in Seq(Frame) /\ Replies(p, out, received[p])
    BY ReplyFrames DEF FrameType
  <1> QED
    BY <1>1, <1>2, <1>3, <1>4, UFrameStep DEF seqVars, closeVars

LEMMA RepliesConcat ==
  ASSUME NEW p \in Endpoint, NEW v, NEW a \in Seq(Frame), NEW b \in Seq(Frame),
         Replies(p, a, v), Replies(p, b, v)
  PROVE  a \o b \in Seq(Frame) /\ Replies(p, a \o b, v)
  <1> DEFINE x == a \o b
  <1>1. /\ x \in Seq(Frame)
        /\ Len(x) = Len(a) + Len(b)
        /\ \A i \in 1 .. Len(a) + Len(b) :
             x[i] = IF i <= Len(a) THEN a[i] ELSE b[i - Len(a)]
    BY ConcatProperties
  <1>2. Len(a) \in Nat /\ Len(b) \in Nat
    BY LenProperties
  <1> HIDE DEF x
  <1>3. ASSUME NEW i \in 1 .. Len(x)
        PROVE  (\E j \in 1 .. Len(a) : x[i] = a[j]) \/ (\E j \in 1 .. Len(b) : x[i] = b[j])
    <2>1. CASE i <= Len(a)
      BY <1>1, <1>2, <2>1
    <2>2. CASE i > Len(a)
      <3>1. i - Len(a) \in 1 .. Len(b) /\ x[i] = b[i - Len(a)]
        BY <1>1, <1>2, <2>2
      <3> QED
        BY <3>1
    <2> QED
      BY <1>2, <2>1, <2>2
  <1> QED
    BY <1>1, <1>3 DEF Replies, x

LEMMA NumStopDtAct ==
  ASSUME TypeOK, NumberInv, NEW p \in Endpoint, HandleStopDtAct(p)
  PROVE  NumberInv'
  <1> DEFINE r == receiveSequenceNumber[p]
             ack == <<SFrame(r, sent[p], received[p])>>
             con == <<UFrame(p, "STOPDT_CON")>>
  <1>1. Readable(p) /\ Head(wire[p]).type # "I_FORMAT"
    BY DEF HandleStopDtAct, Handles
  <1>2. UNCHANGED <<sendSequenceNumber, receiveSequenceNumber,
                    acknowledgedSendSequenceNumber, sent, received, acked,
                    closed, closedBecause, reader, overtaken>>
    BY DEF HandleStopDtAct, closeVars, controlVars, stopVars
  <1>3. PICK first \in {ack, <<>>}, last \in {con, <<>>} : Reads(p, first \o last)
    BY DEF HandleStopDtAct
  <1>4. r = received[p] % SeqModulus /\ received[p] \in Nat
    BY Facts, Counts DEF Counted
  <1>5. /\ first \in Seq(Frame) /\ Replies(p, first, received[p])
        /\ last \in Seq(Frame) /\ Replies(p, last, received[p])
    BY <1>4, ReplyFrames DEF FrameType
  <1> HIDE DEF ack, con
  <1>6. first \o last \in Seq(Frame) /\ Replies(p, first \o last, received[p])
    BY <1>5, RepliesConcat
  <1> QED
    BY <1>1, <1>2, <1>3, <1>6, UFrameStep

LEMMA NumReaderEnds ==
  ASSUME TypeOK, NumberInv, NEW p \in Endpoint,
         ReaderStops(p) \/ ReaderBroken(p) \/ ReaderExit(p)
  PROVE  NumberInv'
  <1>0. /\ reader \in [Endpoint -> {"reading", "late", "failing", "done"}]
        /\ closedBecause \in [Endpoint -> Reasons]
        /\ \A e \in Endpoint : Trusted(e)
    BY DEF TypeOK, CloseType, NumberInv
  <1>1. CASE ReaderStops(p) \/ ReaderBroken(p)
    <2>1. /\ reader' = [reader EXCEPT ![p] = "failing"]
          /\ closedBecause' = [closedBecause EXCEPT ![p] = "remote"]
               \/ closedBecause' = [closedBecause EXCEPT ![p] = @]
          /\ UNCHANGED <<seqVars, closed, wire, overtaken>>
      BY <1>1 DEF ReaderStops, ReaderBroken, controlVars, stopVars
    <2>2. \A e \in Endpoint : reader'[e] \in {"reading", "late"} => reader'[e] = reader[e]
      BY <1>0, <2>1
    <2>3. \A e \in Endpoint : Trusted(e)'
      BY <1>0, <2>1 DEF Trusted
    <2> QED
      BY <2>1, <2>2, <2>3, QuietStep DEF seqVars
  <1>2. CASE ReaderExit(p)
    <2>1. /\ reader' = [reader EXCEPT ![p] = "done"]
          /\ Close(p, "remote")
          /\ UNCHANGED <<sendSequenceNumber, receiveSequenceNumber, sent, received, wire,
                         overtaken>>
      BY <1>2 DEF ReaderExit, controlVars, stopVars
    <2>2. reader'[p] # "late" /\ \A e \in Endpoint \ {p} : reader'[e] = reader[e]
      BY <1>0, <2>1
    <2>3. "remote" \in Reasons \ {"sequence"}
      BY DEF Reasons
    <2> QED
      BY <2>1, <2>2, <2>3, CloseStep
  <1> QED
    BY <1>1, <1>2

----------------------------------------------------------------------------
(* The other actions *)

(* A frame is written with the present counts. *)
LEMMA WriteNow ==
  ASSUME TypeOK, NumberInv, NEW p \in Endpoint, NEW out \in Seq(Frame),
         Replies(p, out, received[p]), Writes(p, out),
         UNCHANGED <<sendSequenceNumber, receiveSequenceNumber,
                     acknowledgedSendSequenceNumber, sent, received, acked,
                     closed, reader, closedBecause, overtaken>>
  PROVE  NumberInv'
  <1>1. received[p] \in Nat /\ received[p] <= received[p] /\ ~(received[p] < received[p])
    BY Counts
  <1>2. overtaken' \in BOOLEAN /\ (overtaken \/ received[p] < received[p] => overtaken')
    BY <1>1 DEF TypeOK, ControlType
  <1> QED
    BY <1>1, <1>2, WriteStep

LEMMA NumQuiet ==
  ASSUME TypeOK, NumberInv,
         UNCHANGED <<sendSequenceNumber, receiveSequenceNumber,
                     acknowledgedSendSequenceNumber, sent, received, acked>>,
         UNCHANGED <<closeVars, reader, wire, overtaken>>
  PROVE  NumberInv'
  <1>1. \A p \in Endpoint : Trusted(p)'
    BY DEF NumberInv, Trusted, closeVars
  <1> QED
    BY <1>1, QuietStep DEF closeVars

LEMMA NumSenders ==
  ASSUME TypeOK, NumberInv, NEW p \in Endpoint,
         Send(p) \/ SendWaits(p) \/ SenderResumes(p)
  PROVE  NumberInv'
  <1>1. CASE Send(p)
    BY <1>1, TransmitStep DEF Send, closeVars, controlVars, stopVars
  <1>2. CASE SendWaits(p)
    BY <1>2, NumQuiet DEF SendWaits, seqVars, controlVars, stopVars
  <1>3. CASE SenderResumes(p)
    <2>1. UNCHANGED <<closeVars, reader, overtaken>>
      BY <1>3 DEF SenderResumes, controlVars, stopVars
    <2>2. CASE UNCHANGED <<seqVars, wire>>
      BY <2>1, <2>2, NumQuiet DEF seqVars
    <2>3. CASE ~WindowFull(p) /\ Transmit(p)
      BY <2>1, <2>3, TransmitStep DEF closeVars
    <2> QED
      BY <1>3, <2>2, <2>3 DEF SenderResumes
  <1> QED
    BY <1>1, <1>2, <1>3

LEMMA InHandReads ==
  ASSUME TypeOK, NEW p \in Endpoint, FrameInHand(p)
  PROVE  /\ reader'[p] = "late" => Reading(p)
         /\ \A e \in Endpoint \ {p} : reader'[e] = reader[e]
  BY DEF TypeOK, FrameInHand, Reading

LEMMA NumTimers ==
  ASSUME TypeOK, NumberInv, NEW p \in Endpoint,
         (\E t \in Timers : TakeTimer(p, t)) \/ TimerThread(p)
  PROVE  NumberInv'
  <1>1. CASE (\E t \in Timers : TakeTimer(p, t)) \/ TimerWriteFails(p)
               \/ TimerInterrupted(p) \/ TimerDone(p)
    <2>1. UNCHANGED <<seqVars, closeVars, reader, wire, overtaken>>
      BY <1>1 DEF TakeTimer, TimerWriteFails, TimerInterrupted, TimerDone, controlVars,
                  stopVars
    <2> QED
      BY <2>1, NumQuiet DEF seqVars
  <1>2. CASE ExecuteNoAckReceived(p)
    <2>1. "timeout" \in Reasons \ {"sequence"}
      BY DEF Reasons
    <2>2. FrameInHand(p) /\ UNCHANGED overtaken
      BY <1>2 DEF ExecuteNoAckReceived, controlVars, stopVars
    <2> QED
      BY <1>2, <2>1, <2>2, InHandReads, CloseStep DEF ExecuteNoAckReceived
  <1>3. CASE ExecuteNoAckSent(p)
    <2> DEFINE out == <<SFrame(receiveSequenceNumber[p], sent[p], received[p])>>
    <2>1. out \in Seq(Frame) /\ Replies(p, out, received[p])
      BY ReplyFrames, Facts, Counts DEF Counted
    <2>2. Writes(p, out)
      BY <1>3 DEF ExecuteNoAckSent
    <2> HIDE DEF out
    <2> QED
      BY <1>3, <2>1, <2>2, WriteNow DEF ExecuteNoAckSent, closeVars, controlVars, stopVars
  <1>4. CASE ExecuteIdle(p) \/ ExecuteStopDt(p)
    <2>1. UNCHANGED <<seqVars, closeVars, reader, overtaken>>
      BY <1>4 DEF ExecuteIdle, ExecuteStopDt, controlVars, stopVars
    <2>2. CASE UNCHANGED wire
      BY <2>1, <2>2, NumQuiet DEF seqVars
    <2>3. ASSUME NEW type \in {"TESTFR_ACT", "STOPDT_CON"}, Writes(p, <<UFrame(p, type)>>)
          PROVE  NumberInv'
      BY <2>1, <2>3, ReplyFrames, WriteNow DEF FrameType, seqVars, closeVars
    <2> QED
      BY <1>4, <2>2, <2>3 DEF ExecuteIdle, ExecuteStopDt
  <1> QED
    BY <1>1, <1>2, <1>3, <1>4 DEF TimerThread

LEMMA NumControl ==
  ASSUME TypeOK, NumberInv, StopInv, ControlCalls \/ ControlThread
  PROVE  NumberInv'
  <1> USE ClientIsEndpoint
  <1>1. CASE StartConfirmed \/ StartTimesOut \/ StopDataTransfer \/ StopReadsDiff
               \/ StopReadsNumber \/ StopCancelsTimer \/ StopFails \/ StopReturns
    <2>1. UNCHANGED <<seqVars, closeVars, reader, wire, overtaken>>
      BY <1>1 DEF StartConfirmed, StartTimesOut, StopDataTransfer, StopReadsDiff,
                  StopReadsNumber, StopCancelsTimer, StopFails, StopReturns, stopVars
    <2> QED
      BY <2>1, NumQuiet DEF seqVars
  <1>2. CASE StopRecordsSFrame
    BY <1>2, NumQuiet DEF StopRecordsSFrame, stopVars
  <1>3. CASE StartDataTransfer \/ StopSendsAct
    <2>1. UNCHANGED <<seqVars, closeVars, reader, overtaken>>
      BY <1>3 DEF StartDataTransfer, StopSendsAct, stopVars
    <2>2. ASSUME NEW type \in {"STARTDT_ACT", "STOPDT_ACT"},
                 Writes(Client, <<UFrame(Client, type)>>)
          PROVE  NumberInv'
      BY <2>1, <2>2, ReplyFrames, WriteNow DEF FrameType, seqVars, closeVars
    <2> QED
      BY <1>3, <2>2 DEF StartDataTransfer, StopSendsAct
  <1>4. CASE StopWritesSFrame
    <2> DEFINE out == <<SFrame(stopNr, sent[Client], stopCount)>>
    <2>1. stopNr = stopCount % SeqModulus /\ stopCount <= received[Client]
          /\ stopCount \in Nat /\ received[Client] \in Nat
      BY <1>4, Counts DEF StopInv, StopWritesSFrame, At, TypeOK, ControlType
    <2>2. out \in Seq(Frame) /\ Replies(Client, out, stopCount)
      BY <2>1, ReplyFrames
    <2>3. Writes(Client, out)
      BY <1>4 DEF StopWritesSFrame
    <2>4. overtaken' = (overtaken \/ stopCount < received[Client])
      BY <1>4 DEF StopWritesSFrame
    <2> HIDE DEF out
    <2>5. overtaken' \in BOOLEAN /\ (overtaken \/ stopCount < received[Client] => overtaken')
      BY <2>4 DEF TypeOK, ControlType
    <2>6. UNCHANGED <<sendSequenceNumber, receiveSequenceNumber,
                      acknowledgedSendSequenceNumber, sent, received, acked,
                      closed, reader, closedBecause>>
      BY <1>4 DEF StopWritesSFrame, closeVars
    <2> QED
      BY <2>1, <2>2, <2>3, <2>5, <2>6, WriteStep
  <1> QED
    BY <1>1, <1>2, <1>3, <1>4 DEF ControlCalls, ControlThread

LEMMA NumApplication ==
  ASSUME TypeOK, NumberInv, NEW p \in Endpoint,
         AppClose(p) \/ setConnectionListener(p) \/ ForwardASdu(p)
  PROVE  NumberInv'
  <1>1. CASE AppClose(p)
    <2>1. "local" \in Reasons \ {"sequence"}
      BY DEF Reasons
    <2>2. FrameInHand(p) /\ UNCHANGED overtaken
      BY <1>1 DEF AppClose, controlVars, stopVars
    <2> QED
      BY <1>1, <2>1, <2>2, InHandReads, CloseStep DEF AppClose
  <1>2. CASE setConnectionListener(p) \/ ForwardASdu(p)
    BY <1>2, NumQuiet DEF setConnectionListener, ForwardASdu, seqVars, controlVars, stopVars
  <1> QED
    BY <1>1, <1>2

----------------------------------------------------------------------------
LEMMA NumInit == Init => NumberInv
  <1> SUFFICES ASSUME Init, NEW p \in Endpoint
               PROVE  Counted(p) /\ Windowed(p) /\ OnTheWay(p) /\ Trusted(p)
    BY DEF NumberInv
  <1>1. Peer(p) \in Endpoint
    BY Peers
  <1>2. 0 % SeqModulus = 0
    BY SeqModulusAssumption
  <1>3. K[p] \in Nat
    BY WindowAssumption
  <1>4. Counted(p)
    BY <1>2 DEF Init, Counted
  <1>5. Windowed(p)
    BY <1>1, <1>3 DEF Init, Windowed
  <1>6. \A ok : Chain(<<>>, 0, 0, 0, 0, ok)
    BY DEF Chain, SentUpTo
  <1>7. OnTheWay(p)
    BY <1>1, <1>6 DEF Init, OnTheWay
  <1> QED
    BY <1>4, <1>5, <1>7 DEF Init, Trusted

(* The count of received I-frames never falls. *)
LEMMA ReceivedGrows ==
  ASSUME TypeOK, [Next]_vars
  PROVE  /\ received[Client] \in Nat
         /\ \/ received'[Client] = received[Client]
            \/ received'[Client] = received[Client] + 1
  <1> USE ClientIsEndpoint
  <1>1. received \in [Endpoint -> Nat]
    BY DEF TypeOK, SeqType
  <1>2. CASE UNCHANGED received
    BY <1>1, <1>2
  <1>3. ASSUME NEW p \in Endpoint, received' = [received EXCEPT ![p] = @ + 1]
        PROVE  \/ received'[Client] = received[Client]
               \/ received'[Client] = received[Client] + 1
    BY <1>1, <1>3
  <1>4. ASSUME NEW p \in Endpoint, ReaderThread(p)
        PROVE  \/ received'[Client] = received[Client]
               \/ received'[Client] = received[Client] + 1
    <2>1. CASE HandleIFrame(p)
      BY <1>3, <2>1 DEF HandleIFrame
    <2>2. CASE RejectFrame(p) \/ LateIFrame(p)
      <3>1. \E counted : received' = [received EXCEPT ![p] = IF counted THEN @ + 1 ELSE @]
        BY <2>2 DEF RejectFrame, LateIFrame, Count
      <3> QED
        BY <1>1, <3>1
    <2>3. CASE HandleSFrame(p) \/ HandleStartDtAct(p) \/ HandleStopDtAct(p)
               \/ HandleStartDtCon(p) \/ HandleStopDtCon(p) \/ HandleTestFrAct(p)
               \/ HandleTestFrCon(p) \/ LateSFrame(p) \/ LateAct(p) \/ LateCon(p)
               \/ ReaderStops(p) \/ ReaderExit(p)
      BY <1>2, <2>3 DEF HandleSFrame, HandleStartDtAct, HandleStopDtAct,
         HandleStartDtCon, HandleStopDtCon, HandleTestFrAct, HandleTestFrCon,
         LateSFrame, LateAct, LateCon, ReaderStops, ReaderExit, seqVars
    <2> QED
      BY <1>4, <2>1, <2>2, <2>3 DEF ReaderThread
  <1>5. ASSUME NEW p \in Endpoint, TimerThread(p)
        PROVE  UNCHANGED received
    BY <1>5 DEF TimerThread, ExecuteNoAckReceived, ExecuteNoAckSent, ExecuteIdle,
       ExecuteStopDt, TimerWriteFails, TimerInterrupted, TimerDone, seqVars
  <1>6. CASE ControlCalls \/ ControlThread
    BY <1>2, <1>6 DEF ControlCalls, ControlThread, StartDataTransfer, StopDataTransfer,
       StartConfirmed, StartTimesOut, StopReadsDiff, StopReadsNumber, StopWritesSFrame,
       StopRecordsSFrame, StopCancelsTimer, StopSendsAct, StopFails, StopReturns, seqVars
  <1>7. ASSUME NEW p \in Endpoint,
               AppClose(p) \/ setConnectionListener(p) \/ Send(p) \/ SendWaits(p)
                 \/ SenderResumes(p) \/ ReaderBroken(p)
                 \/ (\E t \in Timers : TakeTimer(p, t)) \/ ForwardASdu(p)
        PROVE  UNCHANGED received
    BY <1>7 DEF AppClose, setConnectionListener, Send, SendWaits, SenderResumes,
       Transmit, ReaderBroken, TakeTimer, ForwardASdu, seqVars
  <1>8. CASE UNCHANGED vars
    BY <1>2, <1>8 DEF vars, seqVars
  <1> QED
    BY <1>1, <1>2, <1>4, <1>5, <1>6, <1>7, <1>8 DEF Next

(* Only the thread in stopDataTransfer touches what it has in hand. *)
LEMMA StopHands ==
  ASSUME [Next]_vars
  PROVE  \/ StopReadsNumber
         \/ control' # "stopWrite"
         \/ UNCHANGED <<control, stopNr, stopCount>>
  <1>1. CASE ControlCalls \/ ControlThread
    BY <1>1 DEF ControlCalls, ControlThread, StartDataTransfer, StopDataTransfer,
       StartConfirmed, StartTimesOut, StopReadsDiff, StopWritesSFrame,
       StopRecordsSFrame, StopCancelsTimer, StopSendsAct, StopFails, StopReturns, At
  <1>2. ASSUME NEW p \in Endpoint, ReaderThread(p)
        PROVE  UNCHANGED <<control, stopNr, stopCount>>
    BY <1>2 DEF ReaderThread, HandleIFrame, HandleSFrame, HandleStartDtAct,
       HandleStopDtAct, HandleStartDtCon, HandleStopDtCon, HandleTestFrAct,
       HandleTestFrCon, RejectFrame, LateIFrame, LateSFrame, LateAct, LateCon,
       ReaderStops, ReaderExit, controlVars, stopVars
  <1>3. ASSUME NEW p \in Endpoint, TimerThread(p)
        PROVE  UNCHANGED <<control, stopNr, stopCount>>
    BY <1>3 DEF TimerThread, ExecuteNoAckReceived, ExecuteNoAckSent, ExecuteIdle,
       ExecuteStopDt, TimerWriteFails, TimerInterrupted, TimerDone, controlVars, stopVars
  <1>4. ASSUME NEW p \in Endpoint,
               AppClose(p) \/ setConnectionListener(p) \/ Send(p) \/ SendWaits(p)
                 \/ SenderResumes(p) \/ ReaderBroken(p)
                 \/ (\E t \in Timers : TakeTimer(p, t)) \/ ForwardASdu(p)
        PROVE  UNCHANGED <<control, stopNr, stopCount>>
    BY <1>4 DEF AppClose, setConnectionListener, Send, SendWaits, SenderResumes,
       ReaderBroken, TakeTimer, ForwardASdu, controlVars, stopVars
  <1>5. CASE UNCHANGED vars
    BY <1>5 DEF vars, controlVars, stopVars
  <1> QED
    BY <1>1, <1>2, <1>3, <1>4, <1>5 DEF Next

LEMMA StopStep == TypeOK /\ NumberInv /\ StopInv /\ [Next]_vars => StopInv'
  <1> SUFFICES ASSUME TypeOK, NumberInv, StopInv, [Next]_vars, control' = "stopWrite"
               PROVE  stopNr' = stopCount' % SeqModulus /\ stopCount' <= received'[Client]
    BY DEF StopInv
  <1>1. received[Client] \in Nat /\ stopCount \in Nat
        /\ received[Client] <= received'[Client] /\ received'[Client] \in Nat
    BY ReceivedGrows DEF TypeOK, ControlType
  <1>2. CASE StopReadsNumber
    <2>1. stopNr' = receiveSequenceNumber[Client] /\ stopCount' = received[Client]
      BY <1>2 DEF StopReadsNumber
    <2>2. receiveSequenceNumber[Client] = received[Client] % SeqModulus
      BY ClientIsEndpoint, Facts DEF Counted
    <2> QED
      BY <1>1, <2>1, <2>2
  <1>3. CASE UNCHANGED <<control, stopNr, stopCount>>
    BY <1>1, <1>3 DEF StopInv
  <1> QED
    BY <1>2, <1>3, StopHands

LEMMA NumStep == TypeOK /\ NumberInv /\ StopInv /\ [Next]_vars => NumberInv'
  <1> SUFFICES ASSUME TypeOK, NumberInv, StopInv, [Next]_vars
               PROVE  NumberInv'
    OBVIOUS
  <1>1. CASE UNCHANGED vars
    BY <1>1, NumQuiet DEF vars, seqVars, controlVars, stopVars
  <1>2. ASSUME NEW p \in Endpoint, ReaderThread(p) \/ ReaderBroken(p)
        PROVE  NumberInv'
    BY <1>2, NumIFrame, NumSFrame, NumUFrame, NumStopDtAct, RejectStep, LateStep, NumReaderEnds
       DEF ReaderThread
  <1>3. ASSUME NEW p \in Endpoint,
               AppClose(p) \/ setConnectionListener(p) \/ ForwardASdu(p)
        PROVE  NumberInv'
    BY <1>3, NumApplication
  <1>4. ASSUME NEW p \in Endpoint, Send(p) \/ SendWaits(p) \/ SenderResumes(p)
        PROVE  NumberInv'
    BY <1>4, NumSenders
  <1>5. ASSUME NEW p \in Endpoint,
               (\E t \in Timers : TakeTimer(p, t)) \/ TimerThread(p)
        PROVE  NumberInv'
    BY <1>5, NumTimers
  <1>6. CASE ControlCalls \/ ControlThread
    BY <1>6, NumControl
  <1> QED
    BY <1>1, <1>2, <1>3, <1>4, <1>5, <1>6 DEF Next

(* The modular counters stand for the counts, at most k I-frames are        *)
(* unacknowledged, and the frames on the wire lead each reader to what the  *)
(* other end has sent; their acknowledgements come in order, and an open    *)
(* connection holds nothing for acknowledged that was not received, as long *)
(* as stopDataTransfer has not written an overtaken N(R).                   *)
THEOREM NumbersCorrect == Spec => []NumberInv
  <1>1. Init => StopInv
    BY DEF Init, StopInv
  <1> QED
    BY <1>1, TypeInit, TypeStep, NumInit, NumStep, StopStep, PTL DEF Spec

(* No connection is closed over a sequence number (verifySeqNumber and      *)
(* handleReceiveSequenceNumber do not throw between two such endpoints)     *)
(* before stopDataTransfer has written an overtaken N(R).                   *)
THEOREM NeverSequenceError == Spec => []NoSequenceError
  <1>1. NumberInv => NoSequenceError
    BY DEF NumberInv, Trusted, NoSequenceError
  <1> QED
    BY <1>1, NumbersCorrect, PTL

(* Nor does until then an open connection hold an I-frame for acknowledged  *)
(* that the other end has not received.                                     *)
THEOREM OnlyReceivedIsAcked == Spec => []AckedWasReceived
  <1>1. NumberInv => AckedWasReceived
    BY DEF NumberInv, Windowed, AckedWasReceived
  <1> QED
    BY <1>1, NumbersCorrect, PTL

(* Never more than k I-frames are outstanding.                              *)
THEOREM WindowKept == Spec => []WindowRespected
  <1>1. NumberInv => WindowRespected
    BY DEF NumberInv, Windowed, WindowRespected
  <1> QED
    BY <1>1, NumbersCorrect, PTL

----------------------------------------------------------------------------
(* The timers t1 and t3.  A planned t1 is in the queue or about to be       *)
(* executed, so that send need not plan it again, or was removed for an     *)
(* equal timer; t3 and the test frame's t1 are never both lost that way.    *)

T1 == "maxTimeNoAckReceived"
Supervisors == {"maxIdleTimeTimer", "maxTimeNoTestConReceived"}
Supervising(p) == \E t \in Supervisors : t \in queued[p] \/ Running(p, t)

TimedAt(p) ==
  ~closed[p] =>
    /\ T1 \in planned[p] \/ acked[p] < sent[p] =>
         T1 \in queued[p] \cup dropped[p] \/ Running(p, T1)
    /\ reader[p] = "reading" => Supervising(p)

TimerInv == \A p \in Endpoint : TimedAt(p)

(* A step at p leaves the timers and the window of the other endpoint alone *)
Elsewhere(p) ==
  \A q \in Endpoint \ {p} :
    /\ planned'[q] = planned[q] /\ queued'[q] = queued[q] /\ dropped'[q] = dropped[q]
    /\ tm'[q] = tm[q] /\ task'[q] = task[q]
    /\ closed'[q] = closed[q] /\ reader'[q] = reader[q]
    /\ sent'[q] = sent[q] /\ acked'[q] = acked[q]

LEMMA TimedElsewhere ==
  ASSUME TimerInv, NEW p \in Endpoint, Elsewhere(p), TimedAt(p)'
  PROVE  TimerInv'
  BY DEF TimerInv, TimedAt, Supervising, Running, Elsewhere

(* c is cancelled, of which d was in the queue, and a added: t1 stays as    *)
(* long as it is due, and one of the others stays or comes.                 *)
Retimed(p, c, d, a) ==
  /\ planned'[p] = (planned[p] \ c) \cup a
  /\ queued[p] \cup dropped[p] \subseteq queued'[p] \cup dropped'[p] \cup d
  /\ a \subseteq queued'[p]
  /\ d \subseteq c
  /\ closed'[p] = closed[p]
  /\ reader'[p] = "reading" => reader[p] = "reading"
  /\ Running(p, T1) => Running(p, T1)'
  /\ ~closed[p] /\ acked'[p] < sent'[p] =>
       \/ T1 \in a
       \/ T1 \notin d /\ (T1 \in planned[p] \/ acked[p] < sent[p])
  /\ \/ a \cap Supervisors # {}
     \/ /\ queued[p] \cap Supervisors \subseteq queued'[p]
        /\ \A t \in Supervisors : Running(p, t) => Running(p, t)'

LEMMA TimedRetime ==
  ASSUME TimerInv, NEW p \in Endpoint, Elsewhere(p),
         NEW c, NEW d, NEW a, Retimed(p, c, d, a)
  PROVE  TimerInv'
  <1>1. TimedAt(p)
    BY DEF TimerInv
  <1> USE DEF Retimed
  <1>2. TimedAt(p)'
    <2> SUFFICES ASSUME ~closed[p]
                 PROVE /\ (T1 \in planned[p] \/ acked[p] < sent[p] =>
                             T1 \in queued[p] \cup dropped[p] \/ Running(p, T1))'
                       /\ (reader[p] = "reading" => Supervising(p))'
      BY DEF TimedAt
    <2>1. T1 \in planned'[p] \/ acked'[p] < sent'[p] =>
            T1 \in queued'[p] \cup dropped'[p] \/ Running(p, T1)'
      BY <1>1 DEF TimedAt
    <2>2. reader'[p] = "reading" => \E t \in Supervisors : t \in queued'[p] \/ Running(p, t)'
      BY <1>1 DEF TimedAt, Supervising
    <2> QED
      BY <2>1, <2>2 DEF Supervising
  <1> QED
    BY <1>2, TimedElsewhere

LEMMA TimedQuiet ==
  ASSUME TimerInv,
         UNCHANGED <<planned, queued, dropped, tm, task, closed, sent, acked>>,
         \A p \in Endpoint : reader'[p] = "reading" => closed[p] \/ reader[p] = "reading"
  PROVE  TimerInv'
  BY DEF TimerInv, TimedAt, Supervising, Running

LEMMA TimedClose ==
  ASSUME TypeOK, TimerInv, NEW p \in Endpoint, Elsewhere(p), closed'[p] = TRUE
  PROVE  TimerInv'
  BY TimedElsewhere DEF TimedAt

(* What an acknowledgement that adds no t1 says of the window. *)
LEMMA AckWindow ==
  ASSUME TypeOK, NumberInv, NEW p \in Endpoint, Readable(p),
         Head(wire[p]).type \in {"I_FORMAT", "S_FORMAT"},
         ~NumberRejects(p, Head(wire[p])), Acknowledge(p, Head(wire[p]).nr),
         sent'[p] = sent[p], acked'[p] < sent'[p]
  PROVE  \/ T1 \in AckAdds(p, Head(wire[p]).nr)
         \/ AckCancels(p, Head(wire[p]).nr) = {} /\ acked[p] < sent[p]
  <1> DEFINE nr == Head(wire[p]).nr
  <1>1. /\ acked[p] \in Nat /\ sent[p] \in Nat /\ sent[p] - acked[p] < SeqModulus
        /\ sendSequenceNumber[p] = sent[p] % SeqModulus
    BY Counts, Facts DEF Counted
  <1>2. PICK a \in Nat :
          /\ acked[p] <= a /\ a <= sent[p]
          /\ acked' = [acked EXCEPT ![p] = a]
          /\ acknowledgedSendSequenceNumber' =
               [acknowledgedSendSequenceNumber EXCEPT ![p] = a % SeqModulus]
    BY AcknowledgeCounts
  <1>3. acked'[p] = a /\ nr = a % SeqModulus
    BY <1>2 DEF Acknowledge, TakeAck, TypeOK, SeqType
  <1> HIDE DEF nr
  <1>4. a < sent[p] /\ acked[p] < sent[p] /\ sent[p] - a < SeqModulus
    BY <1>1, <1>2, <1>3, SeqModulusAssumption
  <1>5. CASE nr = acknowledgedSendSequenceNumber[p]
    BY <1>4, <1>5 DEF AckCancels, nr
  <1>6. CASE nr = sendSequenceNumber[p]
    <2>1. sequenceNumberDiff(sent[p] % SeqModulus, a % SeqModulus) = sent[p] - a
      BY <1>1, <1>2, <1>4, DiffIsDistance
    <2>2. sequenceNumberDiff(sent[p] % SeqModulus, sent[p] % SeqModulus) = sent[p] - sent[p]
      BY <1>1, SeqModulusAssumption, DiffIsDistance
    <2>3. sent[p] - a = sent[p] - sent[p]
      BY <1>1, <1>3, <1>6, <2>1, <2>2
    <2> QED
      BY <1>1, <1>2, <1>4, <2>3
  <1>7. CASE nr \notin {acknowledgedSendSequenceNumber[p], sendSequenceNumber[p]}
    BY <1>7 DEF AckAdds, T1, nr
  <1> QED
    BY <1>5, <1>6, <1>7

(* A rejected frame has not acknowledged anything. *)
LEMMA RejectTakesNothing ==
  ASSUME TypeOK, NumberInv, NEW p \in Endpoint, RejectFrame(p)
  PROVE  /\ UNCHANGED <<acked, acknowledgedSendSequenceNumber>>
         /\ Retime(p, {}, {"maxIdleTimeTimer"}) \/ Retime(p, {}, {})
  <1>1. Head(wire[p]).nr \in SeqNumber
    BY FirstFrame DEF RejectFrame
  <1>2. ~WindowExceeded(p, Head(wire[p]).nr)
    BY <1>1, NeverExceeded
  <1> QED
    BY <1>2 DEF RejectFrame

(* The queue loses what is cancelled and timers like the ones added. *)
LEMMA RequeueAt ==
  ASSUME TypeOK, NEW p \in Endpoint, NEW c, NEW a, Requeue(p, c, a)
  PROVE  /\ queued[p] \cup dropped[p] \subseteq queued'[p] \cup dropped'[p] \cup c
         /\ a \subseteq queued'[p] /\ queued'[p] \subseteq queued[p] \cup a
         /\ \A t : t \notin Alike \/ a \cap Alike = {} =>
              (t \in queued'[p] <=> t \in (queued[p] \ c) \cup a)
         /\ \A q \in Endpoint \ {p} : queued'[q] = queued[q] /\ dropped'[q] = dropped[q]
  <1>1. PICK gone \in SUBSET Duplicates(p, a) :
          /\ queued' = [queued EXCEPT ![p] = (@ \ (c \cup gone)) \cup a]
          /\ dropped' = [dropped EXCEPT ![p] = (@ \cup gone) \ (c \cup a)]
    BY DEF Requeue
  <1>2. gone \subseteq Alike /\ (a \cap Alike = {} => gone = {})
    BY DEF Duplicates
  <1>3. /\ queued'[p] = (queued[p] \ (c \cup gone)) \cup a
        /\ dropped'[p] = (dropped[p] \cup gone) \ (c \cup a)
        /\ \A q \in Endpoint \ {p} : queued'[q] = queued[q] /\ dropped'[q] = dropped[q]
    BY <1>1 DEF TypeOK, TaskType
  <1> QED
    BY <1>2, <1>3

LEMMA RetimeAt ==
  ASSUME TypeOK, NEW p \in Endpoint, NEW c, NEW a, Retime(p, c, a)
  PROVE  /\ planned'[p] = (planned[p] \ c) \cup a
         /\ queued[p] \cup dropped[p] \subseteq queued'[p] \cup dropped'[p] \cup c
         /\ a \subseteq queued'[p] /\ queued'[p] \subseteq queued[p] \cup a
         /\ \A t : t \notin Alike \/ a \cap Alike = {} =>
              (t \in queued'[p] <=> t \in (queued[p] \ c) \cup a)
         /\ \A q \in Endpoint \ {p} :
              planned'[q] = planned[q] /\ queued'[q] = queued[q] /\ dropped'[q] = dropped[q]
  <1>1. planned' = [planned EXCEPT ![p] = (@ \ c) \cup a] /\ Requeue(p, c, a)
    BY DEF Retime
  <1> QED
    BY <1>1, RequeueAt DEF TypeOK, TaskType

(* Handlers and timers that cancel neither t1 nor a supervisor, or replace  *)
(* it, and leave the window as it is. *)
LEMMA TimedReset ==
  ASSUME TypeOK, TimerInv, NEW p \in Endpoint, NEW c, NEW a, Retime(p, c, a),
         T1 \notin c, a \cap Supervisors # {},
         UNCHANGED <<closed, sent, acked, tm, task>>,
         reader'[p] = "reading" => reader[p] = "reading",
         \A q \in Endpoint \ {p} : reader'[q] = reader[q]
  PROVE  TimerInv'
  <1>1. Elsewhere(p)
    BY RetimeAt DEF Elsewhere
  <1>2. Running(p, T1) => Running(p, T1)'
    BY DEF Running
  <1>3. /\ planned'[p] = (planned[p] \ c) \cup a
        /\ queued[p] \cup dropped[p] \subseteq queued'[p] \cup dropped'[p] \cup c
        /\ a \subseteq queued'[p]
    BY RetimeAt
  <1>4. Retimed(p, c, c, a)
    BY <1>2, <1>3 DEF Retimed
  <1> QED
    BY <1>1, <1>4, TimedRetime

LEMMA TimedFrames ==
  ASSUME TypeOK, NumberInv, TimerInv, NEW p \in Endpoint, HandleIFrame(p) \/ HandleSFrame(p)
  PROVE  TimerInv'
  <1> DEFINE nr == Head(wire[p]).nr
             t2 == "maxTimeNoAckSentTimer"
  <1>1. /\ Readable(p) /\ Head(wire[p]).type \in {"I_FORMAT", "S_FORMAT"}
        /\ ~NumberRejects(p, Head(wire[p])) /\ Acknowledge(p, nr)
    BY DEF HandleIFrame, HandleSFrame, Handles
  <1>2. UNCHANGED <<sent, closed, reader, tm, task>>
    BY DEF HandleIFrame, HandleSFrame, closeVars, tmVars
  <1>3. PICK c, d, a :
          /\ planned'[p] = (planned[p] \ c) \cup a
          /\ queued[p] \cup dropped[p] \subseteq queued'[p] \cup dropped'[p] \cup d
          /\ a \subseteq queued'[p]
          /\ \A q \in Endpoint \ {p} :
               planned'[q] = planned[q] /\ queued'[q] = queued[q] /\ dropped'[q] = dropped[q]
          /\ d \subseteq c
          /\ T1 \in d => T1 \in AckCancels(p, nr)
          /\ AckAdds(p, nr) \subseteq a /\ "maxIdleTimeTimer" \in a
    <2>1. CASE HandleIFrame(p)
      <3>1. PICK c, a :
              /\ Retime(p, AckCancels(p, nr) \cup c, AckAdds(p, nr) \cup {"maxIdleTimeTimer"} \cup a)
              /\ T1 \notin c
        <4> DEFINE full == AckDue(p, IF Wraps(Head(wire[p]).ns) THEN 0
                             ELSE sequenceNumberDiff(NextSeq(Head(wire[p]).ns),
                                    acknowledgedReceiveSequenceNumber[p]))
                   out == IF full THEN cancelIfPlanned(p, t2) ELSE {}
                   in == IF AckDelayStarts(p, IF Wraps(Head(wire[p]).ns) THEN 0
                             ELSE sequenceNumberDiff(NextSeq(Head(wire[p]).ns),
                                    acknowledgedReceiveSequenceNumber[p]))
                         THEN {t2} ELSE {}
        <4>1. T1 \notin out
          BY DEF cancelIfPlanned, T1
        <4>2. Retime(p, AckCancels(p, nr) \cup out,
                     AckAdds(p, nr) \cup {"maxIdleTimeTimer"} \cup in)
          BY <2>1 DEF HandleIFrame
        <4> HIDE DEF out, in
        <4> QED
          BY <4>1, <4>2
      <3> DEFINE out == AckCancels(p, nr) \cup c
                 in == AckAdds(p, nr) \cup {"maxIdleTimeTimer"} \cup a
      <3>2. /\ planned'[p] = (planned[p] \ out) \cup in
            /\ queued[p] \cup dropped[p] \subseteq queued'[p] \cup dropped'[p] \cup out
            /\ in \subseteq queued'[p]
            /\ \A q \in Endpoint \ {p} :
                 planned'[q] = planned[q] /\ queued'[q] = queued[q] /\ dropped'[q] = dropped[q]
        BY <3>1, RetimeAt
      <3>3. out \subseteq out /\ (T1 \in out => T1 \in AckCancels(p, nr))
            /\ AckAdds(p, nr) \subseteq in /\ "maxIdleTimeTimer" \in in
        BY <3>1
      <3> HIDE DEF out, in
      <3> QED
        BY <3>2, <3>3
    <2>2. CASE HandleSFrame(p)
      <3> DEFINE in == AckAdds(p, nr) \cup {"maxIdleTimeTimer"}
      <3>1. PICK c :
              /\ planned' = [planned EXCEPT ![p] = (@ \ (AckCancels(p, nr) \cup c)) \cup in]
              /\ Requeue(p, AckCancels(p, nr), in)
        BY <2>2 DEF HandleSFrame
      <3> DEFINE out == AckCancels(p, nr) \cup c
      <3>2. /\ planned'[p] = (planned[p] \ out) \cup in
            /\ queued[p] \cup dropped[p]
                 \subseteq queued'[p] \cup dropped'[p] \cup AckCancels(p, nr)
            /\ in \subseteq queued'[p]
            /\ \A q \in Endpoint \ {p} :
                 planned'[q] = planned[q] /\ queued'[q] = queued[q] /\ dropped'[q] = dropped[q]
        BY <3>1, RequeueAt DEF TypeOK, TaskType
      <3>3. AckCancels(p, nr) \subseteq out
            /\ AckAdds(p, nr) \subseteq in /\ "maxIdleTimeTimer" \in in
        OBVIOUS
      <3> HIDE DEF out, in
      <3> QED
        BY <3>2, <3>3
    <2> QED
      BY <2>1, <2>2
  <1>4. \A q \in Endpoint \ {p} : acked'[q] = acked[q]
    BY <1>1 DEF Acknowledge, TakeAck, TypeOK, SeqType
  <1>5. Elsewhere(p)
    BY <1>2, <1>3, <1>4 DEF Elsewhere
  <1>6. ~closed[p] /\ acked'[p] < sent'[p] =>
          T1 \in a \/ (T1 \notin d /\ (T1 \in planned[p] \/ acked[p] < sent[p]))
    BY <1>1, <1>2, <1>3, AckWindow
  <1>7. Running(p, T1) => Running(p, T1)'
    BY <1>2 DEF Running
  <1>8. a \cap Supervisors # {}
    BY <1>3 DEF Supervisors
  <1>9. Retimed(p, c, d, a)
    BY <1>2, <1>3, <1>6, <1>7, <1>8 DEF Retimed
  <1> QED
    BY <1>5, <1>9, TimedRetime

LEMMA TimedTransmit ==
  ASSUME TypeOK, TimerInv, NEW p \in Endpoint, Transmit(p),
         UNCHANGED <<closed, reader, tm, task>>
  PROVE  TimerInv'
  <1> DEFINE c == cancelIfPlanned(p, "maxTimeNoAckSentTimer")
             a == {"maxIdleTimeTimer"} \cup ({T1} \ planned[p])
  <1>1. /\ planned'[p] = (planned[p] \ c) \cup a
        /\ queued[p] \cup dropped[p] \subseteq queued'[p] \cup dropped'[p] \cup c
        /\ a \subseteq queued'[p]
        /\ \A q \in Endpoint \ {p} :
             planned'[q] = planned[q] /\ queued'[q] = queued[q] /\ dropped'[q] = dropped[q]
    BY RetimeAt DEF Transmit, T1
  <1>2. T1 \notin c /\ a \cap Supervisors # {} /\ (T1 \in planned[p] \/ T1 \in a)
    BY DEF cancelIfPlanned, T1, Supervisors
  <1>3. Elsewhere(p)
    BY <1>1 DEF Elsewhere, Transmit, TypeOK, SeqType
  <1>4. Running(p, T1) => Running(p, T1)'
    BY DEF Running
  <1> HIDE DEF c, a
  <1>5. Retimed(p, c, c, a)
    BY <1>1, <1>2, <1>4 DEF Retimed
  <1> QED
    BY <1>3, <1>5, TimedRetime

LEMMA LateTimers ==
  ASSUME TypeOK, NEW p \in Endpoint,
         LateIFrame(p) \/ LateSFrame(p) \/ LateAct(p) \/ LateCon(p)
  PROVE  \A q \in Endpoint \ {p} :
           planned'[q] = planned[q] /\ queued'[q] = queued[q] /\ dropped'[q] = dropped[q]
  <1>1. CASE LateSFrame(p)
    <2>1. PICK a, c : planned' = [planned EXCEPT ![p] = (@ \ c) \cup a] /\ Requeue(p, {}, a)
      BY <1>1 DEF LateSFrame
    <2> QED
      BY <2>1, RequeueAt DEF TypeOK, TaskType
  <1>2. CASE ~LateSFrame(p)
    <2>1. PICK c, a : Retime(p, c, a)
      BY <1>2 DEF LateIFrame, LateAct, LateCon
    <2> QED
      BY <2>1, RetimeAt
  <1> QED
    BY <1>1, <1>2

LEMMA TimedReader ==
  ASSUME TypeOK, NumberInv, TimerInv, NEW p \in Endpoint, ReaderThread(p) \/ ReaderBroken(p)
  PROVE  TimerInv'
  <1>1. CASE HandleIFrame(p) \/ HandleSFrame(p)
    BY <1>1, TimedFrames
  <1>2. CASE HandleStartDtAct(p) \/ HandleStartDtCon(p) \/ HandleStopDtCon(p)
               \/ HandleTestFrAct(p) \/ HandleTestFrCon(p)
    <2>1. PICK c, a : Retime(p, c, a) /\ T1 \notin c /\ "maxIdleTimeTimer" \in a
      BY <1>2 DEF HandleStartDtAct, HandleStartDtCon, HandleStopDtCon,
                  HandleTestFrAct, HandleTestFrCon, resetMaxIdleTimeTimer, T1
    <2>2. UNCHANGED <<closed, reader, sent, acked, tm, task>>
      BY <1>2 DEF HandleStartDtAct, HandleStartDtCon, HandleStopDtCon,
                  HandleTestFrAct, HandleTestFrCon, seqVars, closeVars, tmVars
    <2> QED
      BY <2>1, <2>2, TimedReset DEF Supervisors
  <1>3. CASE HandleStopDtAct(p)
    <2>1. PICK c, a : Retime(p, c, a) /\ T1 \notin c /\ "maxIdleTimeTimer" \in a
      BY <1>3 DEF HandleStopDtAct, cancelIfPlanned, T1
    <2>2. UNCHANGED <<closed, reader, sent, acked, tm, task>>
      BY <1>3 DEF HandleStopDtAct, closeVars, tmVars
    <2> QED
      BY <2>1, <2>2, TimedReset DEF Supervisors
  <1>4. CASE RejectFrame(p)
    <2>1. /\ UNCHANGED <<closed, sent, tm, task>>
          /\ reader' = [reader EXCEPT ![p] = "failing"]
      BY <1>4 DEF RejectFrame, tmVars
    <2>2. /\ reader'[p] = "failing"
          /\ \A q \in Endpoint \ {p} : reader'[q] = reader[q]
      BY <2>1 DEF TypeOK
    <2>3. PICK a : Retime(p, {}, a)
      BY <1>4, RejectTakesNothing
    <2>4. UNCHANGED acked
      BY <1>4, RejectTakesNothing
    <2>5. Elsewhere(p)
      BY <2>1, <2>2, <2>3, <2>4, RetimeAt DEF Elsewhere
    <2>6. TimedAt(p)'
      <3>1. TimedAt(p)
        BY DEF TimerInv
      <3>2. /\ planned'[p] = (planned[p] \ {}) \cup a
            /\ queued[p] \cup dropped[p] \subseteq queued'[p] \cup dropped'[p] \cup {}
            /\ a \subseteq queued'[p]
        BY <2>3, RetimeAt
      <3> QED
        BY <2>1, <2>2, <2>4, <3>1, <3>2 DEF TimedAt, Running
    <2> QED
      BY <2>5, <2>6, TimedElsewhere
  <1>5. CASE LateIFrame(p) \/ LateSFrame(p) \/ LateAct(p) \/ LateCon(p)
    <2>1. /\ UNCHANGED <<closed, sent, acked, tm, task>> /\ closed[p]
          /\ \E to : reader' = [reader EXCEPT ![p] = to]
      BY <1>5 DEF LateIFrame, LateSFrame, LateAct, LateCon, InHand, seqVars, closeVars, tmVars
    <2>2. \A q \in Endpoint \ {p} :
            planned'[q] = planned[q] /\ queued'[q] = queued[q] /\ dropped'[q] = dropped[q]
      BY <1>5, LateTimers
    <2>3. Elsewhere(p)
      BY <2>1, <2>2 DEF Elsewhere, TypeOK
    <2>4. closed'[p] = TRUE
      BY <2>1 DEF TypeOK, CloseType
    <2> QED
      BY <2>3, <2>4, TimedClose
  <1>6. CASE ReaderStops(p) \/ ReaderBroken(p)
    <2>1. /\ UNCHANGED <<planned, queued, dropped, tm, task, closed, sent, acked>>
          /\ reader' = [reader EXCEPT ![p] = "failing"]
      BY <1>6 DEF ReaderStops, ReaderBroken, seqVars, taskVars, tmVars
    <2>2. \A q \in Endpoint : reader'[q] = "reading" => reader[q] = "reading"
      BY <2>1 DEF TypeOK
    <2> QED
      BY <2>1, <2>2, TimedQuiet
  <1>7. CASE ReaderExit(p)
    <2>1. Elsewhere(p) /\ closed'[p] = TRUE
      BY <1>7 DEF ReaderExit, Close, Elsewhere, taskVars, TypeOK, SeqType, CloseType, TmType
    <2> QED
      BY <2>1, TimedClose
  <1> QED
    BY <1>1, <1>2, <1>3, <1>4, <1>5, <1>6, <1>7 DEF ReaderThread

LEMMA TimedTimers ==
  ASSUME TypeOK, TimerInv, NEW p \in Endpoint,
         (\E t \in Timers : TakeTimer(p, t)) \/ TimerThread(p)
  PROVE  TimerInv'
  <1>1. ASSUME NEW t \in Timers, TakeTimer(p, t)
        PROVE  TimerInv'
    <2>1. /\ tm[p] = "idle" /\ t \in queued[p]
          /\ queued'[p] = queued[p] \ {t} /\ planned'[p] = planned[p]
          /\ dropped'[p] = dropped[p]
          /\ t \in Supervisors \cup {T1} => Running(p, t)'
          /\ UNCHANGED <<closed, reader, sent, acked>>
      BY <1>1 DEF TakeTimer, TypeOK, TaskType, TmType, taskVars, closeVars, seqVars,
                  Running, Supervisors, T1
    <2>2. Elsewhere(p)
      BY <1>1, <2>1 DEF TakeTimer, Elsewhere, TypeOK, TaskType, TmType
    <2>3. \A u \in Timers : ~Running(p, u)
      BY <2>1 DEF Running
    <2>4. TimedAt(p)' 
      BY <2>1, <2>3 DEF TimerInv, TimedAt, Supervising, Timers, Supervisors, T1
    <2> QED
      BY <2>2, <2>4, TimedElsewhere
  <1>2. CASE ExecuteNoAckReceived(p)
    <2>1. Elsewhere(p) /\ closed'[p] = TRUE
      BY <1>2, InHandReads DEF ExecuteNoAckReceived, Executes, Close, Elsewhere, taskVars, TypeOK,
                  SeqType, CloseType, TmType
    <2> QED
      BY <2>1, TimedClose
  <1>3. CASE TimerThread(p) /\ ~ExecuteNoAckReceived(p)
    <2>1. /\ UNCHANGED <<closed, reader, sent, acked>>
          /\ \A q \in Endpoint \ {p} : tm'[q] = tm[q] /\ task'[q] = task[q]
      BY <1>3 DEF TimerThread, ExecuteNoAckSent, ExecuteIdle, ExecuteStopDt,
                  TimerWriteFails, TimerInterrupted, TimerDone, Executes, seqVars,
                  closeVars, tmVars, TypeOK, TmType
    <2>2. /\ ~Running(p, T1) /\ ~Running(p, "maxTimeNoTestConReceived")
          /\ Running(p, "maxIdleTimeTimer") => ExecuteIdle(p)
      BY <1>3 DEF TimerThread, ExecuteNoAckSent, ExecuteIdle, ExecuteStopDt,
                  TimerWriteFails, TimerInterrupted, TimerDone, Executes, Running, T1
    <2>3. PICK c, a :
            /\ planned'[p] = (planned[p] \ c) \cup a
            /\ queued[p] \cup dropped[p] \subseteq queued'[p] \cup dropped'[p]
            /\ a \subseteq queued'[p]
            /\ \A q \in Endpoint \ {p} :
                 planned'[q] = planned[q] /\ queued'[q] = queued[q] /\ dropped'[q] = dropped[q]
            /\ ExecuteIdle(p) => "maxTimeNoTestConReceived" \in a
            /\ ~ExecuteIdle(p) => queued[p] \subseteq queued'[p]
      <3>1. CASE ExecuteNoAckSent(p)
        <4>1. Retime(p, {}, {"maxIdleTimeTimer"}) /\ ~ExecuteIdle(p)
          BY <3>1 DEF ExecuteNoAckSent, ExecuteIdle, Executes, resetMaxIdleTimeTimer
        <4>2. /\ planned'[p] = (planned[p] \ {}) \cup {"maxIdleTimeTimer"}
              /\ queued[p] \cup dropped[p] \subseteq queued'[p] \cup dropped'[p]
              /\ {"maxIdleTimeTimer"} \subseteq queued'[p]
              /\ \A q \in Endpoint \ {p} :
                   planned'[q] = planned[q] /\ queued'[q] = queued[q] /\ dropped'[q] = dropped[q]
          BY <4>1, RetimeAt
        <4>3. queued[p] \subseteq queued'[p]
          BY <4>1, RetimeAt DEF Alike
        <4> QED
          BY <4>1, <4>2, <4>3
      <3>2. CASE ExecuteIdle(p)
        <4>1. Retime(p, {}, {"maxTimeNoTestConReceived"})
          BY <3>2 DEF ExecuteIdle
        <4>2. /\ planned'[p] = (planned[p] \ {}) \cup {"maxTimeNoTestConReceived"}
              /\ queued[p] \cup dropped[p] \subseteq queued'[p] \cup dropped'[p]
              /\ {"maxTimeNoTestConReceived"} \subseteq queued'[p]
              /\ \A q \in Endpoint \ {p} :
                   planned'[q] = planned[q] /\ queued'[q] = queued[q] /\ dropped'[q] = dropped[q]
          BY <4>1, RetimeAt
        <4> QED
          BY <3>2, <4>2
      <3>3. CASE ExecuteStopDt(p) \/ TimerWriteFails(p) \/ TimerInterrupted(p)
        <4>1. UNCHANGED <<planned, queued, dropped>> /\ ~ExecuteIdle(p)
          BY <3>3 DEF ExecuteStopDt, TimerWriteFails, TimerInterrupted, ExecuteIdle,
                      Executes, taskVars
        <4>2. /\ planned'[p] = (planned[p] \ {}) \cup {}
              /\ queued[p] \cup dropped[p] \subseteq queued'[p] \cup dropped'[p]
              /\ queued[p] \subseteq queued'[p]
          BY <4>1
        <4> QED
          BY <4>1, <4>2
      <3>4. CASE TimerDone(p)
        <4>1. ~ExecuteIdle(p)
          BY <3>4 DEF TimerDone, ExecuteIdle, Executes
        <4>2. PICK c, a : c = {task[p]} /\ a = {}
          OBVIOUS
        <4>3. /\ planned'[p] = (planned[p] \ c) \cup a
              /\ a \subseteq queued'[p]
              /\ queued[p] \cup dropped[p] \subseteq queued'[p] \cup dropped'[p]
              /\ queued[p] \subseteq queued'[p]
              /\ \A q \in Endpoint \ {p} :
                   planned'[q] = planned[q] /\ queued'[q] = queued[q] /\ dropped'[q] = dropped[q]
          BY <3>4, <4>2 DEF TimerDone, TypeOK, TaskType
        <4> QED
          BY <4>1, <4>3
      <3> QED
        BY <1>3, <3>1, <3>2, <3>3, <3>4 DEF TimerThread
    <2>4. Elsewhere(p)
      BY <2>1, <2>3 DEF Elsewhere
    <2>5. \/ a \cap Supervisors # {}
          \/ /\ queued[p] \cap Supervisors \subseteq queued'[p]
             /\ \A t \in Supervisors : Running(p, t) => Running(p, t)'
      BY <2>2, <2>3 DEF Supervisors
    <2>6. Retimed(p, c, {}, a)
      BY <2>1, <2>2, <2>3, <2>5 DEF Retimed
    <2> QED
      BY <2>4, <2>6, TimedRetime
  <1> QED
    BY <1>1, <1>2, <1>3

LEMMA TimedControl ==
  ASSUME TypeOK, TimerInv, ControlCalls \/ ControlThread
  PROVE  TimerInv'
  <1>0. Client \in Endpoint
    BY ClientIsEndpoint
  <1>1. UNCHANGED <<closed, reader, sent, acked, tm, task>>
    BY DEF ControlCalls, ControlThread, StartDataTransfer, StopDataTransfer,
           StartConfirmed, StartTimesOut, StopReadsDiff, StopReadsNumber, StopWritesSFrame,
           StopRecordsSFrame, StopCancelsTimer, StopSendsAct, StopFails, StopReturns,
           seqVars, closeVars, tmVars
  <1>2. CASE StopRecordsSFrame
    BY <1>0, <1>1, <1>2, TimedReset
       DEF StopRecordsSFrame, resetMaxIdleTimeTimer, T1, Supervisors
  <1>3. CASE StopCancelsTimer
    <2> DEFINE c == cancelIfPlanned(Client, "maxTimeNoAckSentTimer")
    <2>1. /\ planned'[Client] = (planned[Client] \ c) \cup {}
          /\ queued[Client] \cup dropped[Client]
               \subseteq queued'[Client] \cup dropped'[Client] \cup c
          /\ {} \subseteq queued'[Client]
          /\ queued[Client] \ c \subseteq queued'[Client]
          /\ \A q \in Endpoint \ {Client} :
               planned'[q] = planned[q] /\ queued'[q] = queued[q] /\ dropped'[q] = dropped[q]
      BY <1>0, <1>3, RetimeAt DEF StopCancelsTimer
    <2>2. T1 \notin c /\ c \cap Supervisors = {}
      BY DEF cancelIfPlanned, T1, Supervisors
    <2>3. Elsewhere(Client)
      BY <1>1, <2>1 DEF Elsewhere
    <2>4. \A t \in Supervisors \cup {T1} : Running(Client, t) => Running(Client, t)'
      BY <1>1 DEF Running
    <2> HIDE DEF c
    <2>5. Retimed(Client, c, c, {})
      BY <1>1, <2>1, <2>2, <2>4 DEF Retimed
    <2> QED
      BY <1>0, <2>3, <2>5, TimedRetime
  <1>4. CASE UNCHANGED taskVars
    BY <1>1, <1>4, TimedQuiet DEF taskVars
  <1> QED
    BY <1>2, <1>3, <1>4
       DEF ControlCalls, ControlThread, StartDataTransfer, StopDataTransfer,
           StartConfirmed, StartTimesOut, StopReadsDiff, StopReadsNumber, StopWritesSFrame,
           StopSendsAct, StopFails, StopReturns

LEMMA TimedStep == TypeOK /\ NumberInv /\ TimerInv /\ [Next]_vars => TimerInv'
  <1> SUFFICES ASSUME TypeOK, NumberInv, TimerInv, [Next]_vars
               PROVE  TimerInv'
    OBVIOUS
  <1>1. CASE UNCHANGED vars
    BY <1>1, TimedQuiet DEF vars, taskVars, tmVars, closeVars, seqVars
  <1>2. ASSUME NEW p \in Endpoint, ReaderThread(p) \/ ReaderBroken(p)
        PROVE  TimerInv'
    BY <1>2, TimedReader
  <1>3. ASSUME NEW p \in Endpoint,
               setConnectionListener(p) \/ ForwardASdu(p) \/ SendWaits(p)
        PROVE  TimerInv'
    <2>1. UNCHANGED <<planned, queued, dropped, tm, task, closed, sent, acked, reader>>
      BY <1>3 DEF setConnectionListener, ForwardASdu, SendWaits, taskVars, tmVars,
                  closeVars, seqVars
    <2> QED
      BY <2>1, TimedQuiet
  <1>4. ASSUME NEW p \in Endpoint, AppClose(p)
        PROVE  TimerInv'
    <2>1. Elsewhere(p) /\ closed'[p] = TRUE
      BY <1>4, InHandReads DEF AppClose, Close, Elsewhere, taskVars, tmVars, TypeOK, SeqType, CloseType
    <2> QED
      BY <2>1, TimedClose
  <1>5. ASSUME NEW p \in Endpoint, Send(p) \/ SenderResumes(p)
        PROVE  TimerInv'
    <2>1. UNCHANGED <<closed, reader, tm, task>>
      BY <1>5 DEF Send, SenderResumes, closeVars, tmVars
    <2>2. CASE Transmit(p)
      BY <2>1, <2>2, TimedTransmit
    <2>3. CASE UNCHANGED <<seqVars, taskVars>>
      BY <2>1, <2>3, TimedQuiet DEF seqVars, taskVars
    <2> QED
      BY <1>5, <2>2, <2>3 DEF Send, SenderResumes
  <1>6. ASSUME NEW p \in Endpoint,
               (\E t \in Timers : TakeTimer(p, t)) \/ TimerThread(p)
        PROVE  TimerInv'
    BY <1>6, TimedTimers
  <1>7. CASE ControlCalls \/ ControlThread
    BY <1>7, TimedControl
  <1> QED
    BY <1>1, <1>2, <1>3, <1>4, <1>5, <1>6, <1>7 DEF Next

LEMMA TimedInit == Init => TimerInv
  BY DEF Init, TimerInv, TimedAt, Supervising, Supervisors, T1

(* On an open connection a planned t1 is always queued or running, so that  *)
(* send, which examines only isPlanned(), does not go without it, unless an *)
(* equal timer has taken its place in the queue.                            *)
THEOREM TimersCorrect == Spec => []TimerInv
  BY TypeCorrect, NumbersCorrect, TimedInit, TimedStep, PTL DEF Spec

(* Every unacknowledged I-frame of an open connection has t1 running, or    *)
(* had it and lost it to an equal timer: no other step ever loses it.       *)
THEOREM SentFramesAreTimed == Spec => []SentIsTimed
  <1>1. TimerInv => SentIsTimed
    BY DEF TimerInv, TimedAt, SentIsTimed, T1
  <1> QED
    BY <1>1, TimersCorrect, PTL

(* An open connection with a working reader always has t3 or the t1 of a    *)
(* test frame running.                                                      *)
THEOREM LinksAreSupervised == Spec => []LinkSupervised
  <1>1. TimerInv => LinkSupervised
    BY DEF TimerInv, TimedAt, Supervising, Supervisors, LinkSupervised
  <1> QED
    BY <1>1, TimersCorrect, PTL

----------------------------------------------------------------------------
(* Confirming, when stopDataTransfer is not called.  What is recorded as    *)
(* acknowledged is what was put on the wire, fewer than w I-frames are not  *)
(* acknowledged, and for those t2 runs.                                     *)

T2 == "maxTimeNoAckSentTimer"

ConfirmedAt(p) ==
  ~closed[p] =>
    /\ acknowledgedReceiveSequenceNumber[p] = confirmed[p] % SeqModulus
    /\ confirmed[p] <= received[p]
    /\ received[p] - confirmed[p] < W[p]
    /\ confirmed[p] < received[p] => T2 \in queued[p] \/ Running(p, T2)

NotStopping == control \in {"idle", "startAwait"} /\ ~overtaken

ConfirmInv ==
  /\ NotStopping
  /\ \A p \in Endpoint : ConfirmedAt(p)

ReceivedElsewhere(p) ==
  \A q \in Endpoint \ {p} :
    /\ acknowledgedReceiveSequenceNumber'[q] = acknowledgedReceiveSequenceNumber[q]
    /\ confirmed'[q] = confirmed[q] /\ received'[q] = received[q]
    /\ closed'[q] = closed[q] /\ queued'[q] = queued[q]
    /\ tm'[q] = tm[q] /\ task'[q] = task[q]

LEMMA ConfirmElsewhere ==
  ASSUME ConfirmInv, NEW p \in Endpoint, ReceivedElsewhere(p), ConfirmedAt(p)',
         NotStopping'
  PROVE  ConfirmInv'
  BY DEF ConfirmInv, ConfirmedAt, Running, ReceivedElsewhere

LEMMA ConfirmQuiet ==
  ASSUME TypeOK, ConfirmInv, NEW p \in Endpoint,
         UNCHANGED <<acknowledgedReceiveSequenceNumber, confirmed, received>>,
         \A q \in Endpoint \ {p} :
           closed'[q] = closed[q] /\ queued'[q] = queued[q]
             /\ tm'[q] = tm[q] /\ task'[q] = task[q],
         \/ closed'[p] = TRUE
         \/ /\ closed'[p] = closed[p]
            /\ \/ confirmed[p] = received[p]
               \/ T2 \in queued[p] \/ Running(p, T2) => T2 \in queued'[p] \/ Running(p, T2)',
         NotStopping'
  PROVE  ConfirmInv'
  <1>1. ReceivedElsewhere(p)
    BY DEF ReceivedElsewhere
  <1>2. ConfirmedAt(p) /\ confirmed[p] \in Nat /\ received[p] \in Nat
    BY DEF ConfirmInv, NotStopping, TypeOK, SeqType
  <1>3. ConfirmedAt(p)'
    BY <1>2 DEF ConfirmedAt
  <1> QED
    BY <1>1, <1>3, ConfirmElsewhere

LEMMA ConfirmClosed ==
  ASSUME ConfirmInv, NEW p \in Endpoint, ReceivedElsewhere(p), closed'[p] = TRUE,
         NotStopping'
  PROVE  ConfirmInv'
  BY ConfirmElsewhere DEF ConfirmedAt

(* Everything received has been acknowledged. *)
LEMMA ConfirmAll ==
  ASSUME ConfirmInv, NEW p \in Endpoint, ReceivedElsewhere(p), NEW n \in Nat,
         received'[p] = n, confirmed'[p] = n,
         acknowledgedReceiveSequenceNumber'[p] = n % SeqModulus,
         NotStopping'
  PROVE  ConfirmInv'
  <1>1. W[p] \in Nat /\ W[p] > 0
    BY WindowAssumption, SeqModulusAssumption
  <1>2. ConfirmedAt(p)'
    <2>1. n <= n /\ n - n < W[p] /\ ~(n < n)
      BY <1>1
    <2> QED
      BY <2>1 DEF ConfirmedAt
  <1> QED
    BY <1>2, ConfirmElsewhere

LEMMA ConfirmWrites ==
  ASSUME TypeOK, NumberInv, ConfirmInv, NEW p \in Endpoint,
         Confirm(p, receiveSequenceNumber[p], received[p]),
         \A q \in Endpoint \ {p} : queued'[q] = queued[q] /\ tm'[q] = tm[q] /\ task'[q] = task[q],
         UNCHANGED <<received, closed, control, overtaken>>
  PROVE  ConfirmInv'
  <1>1. received[p] \in Nat /\ receiveSequenceNumber[p] = received[p] % SeqModulus
    BY Counts, Facts DEF Counted
  <1>2. /\ confirmed'[p] = received[p]
        /\ acknowledgedReceiveSequenceNumber'[p] = received[p] % SeqModulus
        /\ \A q \in Endpoint \ {p} :
             /\ confirmed'[q] = confirmed[q]
             /\ acknowledgedReceiveSequenceNumber'[q] = acknowledgedReceiveSequenceNumber[q]
    BY <1>1 DEF Confirm, TypeOK, SeqType
  <1>3. ReceivedElsewhere(p)
    BY <1>2 DEF ReceivedElsewhere
  <1>4. received'[p] = received[p]
    OBVIOUS
  <1> QED
    BY <1>1, <1>2, <1>3, <1>4, ConfirmAll DEF ConfirmInv, NotStopping

LEMMA Distance ==
  ASSUME TypeOK, NumberInv, NEW p \in Endpoint, ~closed[p], ConfirmedAt(p)
  PROVE  numUnconfirmedIPdusReceived(p) = received[p] - confirmed[p]
  <1>1. received[p] \in Nat /\ confirmed[p] \in Nat /\ W[p] \in Nat /\ W[p] < SeqModulus
    BY WindowAssumption, SeqModulusAssumption DEF TypeOK, SeqType
  <1>2. receiveSequenceNumber[p] = received[p] % SeqModulus
    BY Facts DEF Counted
  <1>3. received[p] - confirmed[p] < SeqModulus
    BY <1>1, SeqModulusAssumption DEF ConfirmedAt
  <1> QED
    BY <1>1, <1>2, <1>3, DiffIsDistance DEF ConfirmedAt, numUnconfirmedIPdusReceived

LEMMA ConfirmIFrame ==
  ASSUME TypeOK, NumberInv, ConfirmInv, NEW p \in Endpoint, HandleIFrame(p)
  PROVE  ConfirmInv'
  <1> DEFINE f == Head(wire[p])
             n == NextSeq(f.ns)
             unconfirmed == IF Wraps(f.ns) THEN 0
                            ELSE sequenceNumberDiff(n, acknowledgedReceiveSequenceNumber[p])
             c == AckCancels(p, f.nr) \cup
                    (IF AckDue(p, unconfirmed) THEN cancelIfPlanned(p, T2) ELSE {})
             a == AckAdds(p, f.nr) \cup {"maxIdleTimeTimer"}
                    \cup (IF AckDelayStarts(p, unconfirmed) THEN {T2} ELSE {})
  <1>1. /\ Readable(p) /\ f.type = "I_FORMAT"
        /\ received' = [received EXCEPT ![p] = @ + 1]
        /\ IF Wraps(f.ns) \/ AckDue(p, unconfirmed)
           THEN Confirm(p, n, received[p] + 1)
           ELSE UNCHANGED <<acknowledgedReceiveSequenceNumber, confirmed>>
        /\ Retime(p, c, a) /\ ~closed[p]
        /\ UNCHANGED <<closed, tm, task, control, overtaken>>
    BY DEF HandleIFrame, Handles, Readable, closeVars, tmVars, controlVars, stopVars, T2
  <1>b. ~closed[p]
    BY <1>1
  <1>a. f.vs = received[p] + 1 /\ f.ns = (f.vs - 1) % SeqModulus
    BY <1>1, FirstFrame DEF Carries, Numbered
  <1>2. /\ received[p] \in Nat /\ confirmed[p] \in Nat /\ f.vs = received[p] + 1
        /\ f.ns = (f.vs - 1) % SeqModulus
        /\ W[p] \in Nat /\ W[p] > 0 /\ W[p] < SeqModulus
    BY <1>a, WindowAssumption, SeqModulusAssumption DEF TypeOK, SeqType
  <1> HIDE DEF f
  <1>3. f.ns = received[p] % SeqModulus
    BY <1>2
  <1>4. n = (received[p] + 1) % SeqModulus
    BY <1>2, <1>3, NextSeqCounts
  <1>5. /\ received'[p] = received[p] + 1 /\ received[p] + 1 \in Nat
        /\ \A q \in Endpoint \ {p} : received'[q] = received[q]
    BY <1>1, <1>2 DEF TypeOK, SeqType
  <1>6. /\ T2 \in queued'[p] <=> T2 \in (queued[p] \ c) \cup a
        /\ \A q \in Endpoint \ {p} : queued'[q] = queued[q]
    BY <1>1, RetimeAt DEF T2, Alike
  <1>7. ConfirmedAt(p)
    BY DEF ConfirmInv, NotStopping
  <1>8. ~Wraps(f.ns) => unconfirmed = received[p] + 1 - confirmed[p]
    <2>1. /\ received[p] + 1 - confirmed[p] < SeqModulus
          /\ confirmed[p] <= received[p] + 1
          /\ acknowledgedReceiveSequenceNumber[p] = confirmed[p] % SeqModulus
      BY <1>1, <1>2, <1>7, SeqModulusAssumption DEF ConfirmedAt
    <2> HIDE DEF n
    <2> QED
      BY <1>2, <1>4, <1>5, <2>1, DiffIsDistance
  <1> HIDE DEF unconfirmed, n
  <1>9. CASE Wraps(f.ns) \/ AckDue(p, unconfirmed)
    <2>1. /\ confirmed'[p] = received[p] + 1
          /\ acknowledgedReceiveSequenceNumber'[p] = (received[p] + 1) % SeqModulus
          /\ \A q \in Endpoint \ {p} :
               /\ confirmed'[q] = confirmed[q]
               /\ acknowledgedReceiveSequenceNumber'[q] = acknowledgedReceiveSequenceNumber[q]
      BY <1>1, <1>4, <1>9 DEF Confirm, TypeOK, SeqType
    <2>2. ReceivedElsewhere(p)
      BY <1>1, <1>5, <1>6, <2>1 DEF ReceivedElsewhere
    <2> QED
      BY <1>1, <1>5, <2>1, <2>2, ConfirmAll DEF ConfirmInv, NotStopping
  <1>10. CASE ~(Wraps(f.ns) \/ AckDue(p, unconfirmed))
    <2>1. /\ UNCHANGED <<acknowledgedReceiveSequenceNumber, confirmed>>
          /\ unconfirmed = received[p] + 1 - confirmed[p]
          /\ unconfirmed < W[p]
          /\ T2 \notin c
          /\ (T2 \notin planned[p] \/ unconfirmed = 1) => T2 \in a
      BY <1>1, <1>2, <1>8, <1>10
         DEF AckDue, AckDelayStarts, AckCancels, cancelIfPlanned, T2
    <2>2. ReceivedElsewhere(p)
      BY <1>1, <1>5, <1>6, <2>1 DEF ReceivedElsewhere
    <2> HIDE DEF c, a
    <2>3. T2 \in queued'[p] \/ (unconfirmed # 1 /\ (T2 \in queued[p] => T2 \in queued'[p]))
      BY <1>6, <2>1
    <2>4. unconfirmed # 1 => confirmed[p] < received[p]
      BY <1>1, <1>2, <1>7, <2>1 DEF ConfirmedAt
    <2>5. ~closed[p] => T2 \in queued'[p] \/ Running(p, T2)'
      BY <1>1, <1>7, <2>3, <2>4 DEF ConfirmedAt, Running
    <2>6. /\ confirmed'[p] <= received'[p]
          /\ received'[p] - confirmed'[p] < W[p]
      <3>1. confirmed[p] <= received[p] /\ confirmed'[p] = confirmed[p]
        BY <1>b, <1>7, <2>1 DEF ConfirmedAt
      <3> QED
        BY <1>2, <1>5, <2>1, <3>1
    <2>7. ConfirmedAt(p)'
      BY <1>1, <1>7, <2>1, <2>5, <2>6 DEF ConfirmedAt
    <2> QED
      BY <1>1, <2>2, <2>7, ConfirmElsewhere DEF ConfirmInv, NotStopping
  <1> QED
    BY <1>9, <1>10

LEMMA ConfirmReader ==
  ASSUME TypeOK, NumberInv, ConfirmInv, NEW p \in Endpoint, ReaderThread(p) \/ ReaderBroken(p)
  PROVE  ConfirmInv'
  <1>1. CASE HandleIFrame(p)
    BY <1>1, ConfirmIFrame
  <1>2. CASE HandleSFrame(p)
    <2>1. /\ UNCHANGED <<acknowledgedReceiveSequenceNumber, confirmed, received, closed,
                         tm, task, control, overtaken>>
          /\ Requeue(p, AckCancels(p, Head(wire[p]).nr),
                     AckAdds(p, Head(wire[p]).nr) \cup {"maxIdleTimeTimer"})
      BY <1>2 DEF HandleSFrame, closeVars, tmVars, controlVars, stopVars
    <2>2. T2 \notin AckCancels(p, Head(wire[p]).nr)
      BY DEF AckCancels, cancelIfPlanned, T2
    <2>3. /\ T2 \in queued[p] => T2 \in queued'[p]
          /\ \A q \in Endpoint \ {p} : queued'[q] = queued[q]
      BY <2>1, <2>2, RequeueAt DEF T2, Alike
    <2>4. Running(p, T2) => Running(p, T2)'
      BY <2>1 DEF Running
    <2> QED
      BY <2>1, <2>3, <2>4, ConfirmQuiet DEF ConfirmInv, NotStopping
  <1>3. CASE HandleStopDtAct(p)
    <2>1. /\ UNCHANGED <<received, closed, tm, task, control, overtaken>>
          /\ IF numUnconfirmedIPdusReceived(p) > 0
             THEN Confirm(p, receiveSequenceNumber[p], received[p])
             ELSE UNCHANGED <<acknowledgedReceiveSequenceNumber, confirmed>>
      BY <1>3 DEF HandleStopDtAct, closeVars, tmVars, controlVars, stopVars
    <2>2. \A q \in Endpoint \ {p} : queued'[q] = queued[q]
      <3>1. PICK c, a : Retime(p, c, a)
        BY <1>3 DEF HandleStopDtAct
      <3> QED
        BY <3>1, RetimeAt
    <2>3. CASE numUnconfirmedIPdusReceived(p) > 0
      BY <2>1, <2>2, <2>3, ConfirmWrites
    <2>4. CASE ~(numUnconfirmedIPdusReceived(p) > 0)
      <3>1. /\ received[p] \in Nat /\ confirmed[p] \in Nat /\ confirmed[p] <= received[p]
            /\ numUnconfirmedIPdusReceived(p) = received[p] - confirmed[p]
        BY <1>3, Distance DEF HandleStopDtAct, Handles, Readable, ConfirmInv, NotStopping, ConfirmedAt, TypeOK, SeqType
      <3>2. confirmed[p] = received[p]
        BY <2>4, <3>1
      <3> QED
        BY <2>1, <2>2, <2>4, <3>2, ConfirmQuiet DEF ConfirmInv, NotStopping
    <2> QED
      BY <2>3, <2>4
  <1>4. CASE HandleStartDtAct(p) \/ HandleStartDtCon(p) \/ HandleStopDtCon(p)
               \/ HandleTestFrAct(p) \/ HandleTestFrCon(p)
    <2>1. PICK c, a : Retime(p, c, a) /\ T2 \notin c
      BY <1>4 DEF HandleStartDtAct, HandleStartDtCon, HandleStopDtCon,
                  HandleTestFrAct, HandleTestFrCon, resetMaxIdleTimeTimer, T2
    <2>2. UNCHANGED <<acknowledgedReceiveSequenceNumber, confirmed, received, closed, tm,
                      task, control, overtaken>>
      BY <1>4 DEF HandleStartDtAct, HandleStartDtCon, HandleStopDtCon,
                  HandleTestFrAct, HandleTestFrCon, seqVars, closeVars, tmVars, controlVars, stopVars
    <2>3. /\ T2 \in queued[p] => T2 \in queued'[p]
          /\ \A q \in Endpoint \ {p} : queued'[q] = queued[q]
      BY <2>1, RetimeAt DEF T2, Alike
    <2>4. Running(p, T2) => Running(p, T2)'
      BY <2>2 DEF Running
    <2> QED
      BY <2>2, <2>3, <2>4, ConfirmQuiet DEF ConfirmInv, NotStopping
  <1>5. CASE RejectFrame(p)
    <2>1. StopRejects(p, Head(wire[p]))
      BY <1>5, NumbersAccepted DEF RejectFrame, ConfirmInv, NotStopping
    <2>2. /\ received' = [received EXCEPT ![p] = @]
          /\ UNCHANGED <<acknowledgedReceiveSequenceNumber, confirmed, closed, tm,
                         task, control, overtaken>>
      BY <1>5, <2>1 DEF RejectFrame, Count, tmVars, controlVars, stopVars
    <2>3. received' = received
      BY <2>2 DEF TypeOK, SeqType
    <2>4. PICK a : Retime(p, {}, a)
      BY <1>5, RejectTakesNothing
    <2>5. /\ T2 \in queued[p] => T2 \in queued'[p]
          /\ \A q \in Endpoint \ {p} : queued'[q] = queued[q]
      BY <2>4, RetimeAt DEF T2, Alike
    <2>6. Running(p, T2) => Running(p, T2)'
      BY <2>2 DEF Running
    <2> QED
      BY <2>2, <2>3, <2>5, <2>6, ConfirmQuiet DEF ConfirmInv, NotStopping
  <1>6. CASE ReaderStops(p) \/ ReaderBroken(p)
    <2>1. UNCHANGED <<acknowledgedReceiveSequenceNumber, confirmed, received, queued, closed,
                      tm, task, control, overtaken>>
      BY <1>6 DEF ReaderStops, ReaderBroken, seqVars, taskVars, tmVars, controlVars, stopVars
    <2>2. Running(p, T2) => Running(p, T2)'
      BY <2>1 DEF Running
    <2> QED
      BY <2>1, <2>2, ConfirmQuiet DEF ConfirmInv, NotStopping
  <1>7. CASE ReaderExit(p)
    <2>1. /\ UNCHANGED <<acknowledgedReceiveSequenceNumber, confirmed, received, queued, task,
                         control, overtaken>>
          /\ closed'[p] = TRUE
          /\ \A q \in Endpoint \ {p} : closed'[q] = closed[q] /\ tm'[q] = tm[q]
      BY <1>7 DEF ReaderExit, Close, taskVars, controlVars, stopVars, TypeOK, CloseType, TmType
    <2> QED
      BY <2>1, ConfirmQuiet DEF ConfirmInv, NotStopping
  <1>8. CASE LateIFrame(p) \/ LateSFrame(p) \/ LateAct(p) \/ LateCon(p)
    <2>1. /\ UNCHANGED <<acknowledgedReceiveSequenceNumber, confirmed, closed, tm, task,
                         control, overtaken>>
          /\ closed[p] /\ \A q \in Endpoint \ {p} : received'[q] = received[q]
      BY <1>8 DEF LateIFrame, LateSFrame, LateAct, LateCon, InHand, Count, seqVars,
                  closeVars, tmVars, controlVars, stopVars, TypeOK, SeqType
    <2>2. closed'[p] = TRUE
      BY <2>1 DEF TypeOK, CloseType
    <2>3. \A q \in Endpoint \ {p} : queued'[q] = queued[q]
      BY <1>8, LateTimers
    <2>4. ReceivedElsewhere(p)
      BY <2>1, <2>3 DEF ReceivedElsewhere
    <2> QED
      BY <2>1, <2>2, <2>4, ConfirmClosed DEF ConfirmInv, NotStopping
  <1> QED
    BY <1>1, <1>2, <1>3, <1>4, <1>5, <1>6, <1>7, <1>8 DEF ReaderThread

LEMMA ConfirmTimers ==
  ASSUME TypeOK, NumberInv, ConfirmInv, NEW p \in Endpoint,
         (\E t \in Timers : TakeTimer(p, t)) \/ TimerThread(p)
  PROVE  ConfirmInv'
  <1>1. ASSUME NEW t \in Timers, TakeTimer(p, t)
        PROVE  ConfirmInv'
    <2>1. /\ UNCHANGED <<acknowledgedReceiveSequenceNumber, confirmed, received, closed,
                         control, overtaken>>
          /\ tm[p] = "idle" /\ queued'[p] = queued[p] \ {t}
          /\ t = T2 => Running(p, T2)'
          /\ \A q \in Endpoint \ {p} :
               queued'[q] = queued[q] /\ tm'[q] = tm[q] /\ task'[q] = task[q]
      BY <1>1 DEF TakeTimer, TypeOK, TaskType, TmType, closeVars, seqVars, controlVars, stopVars,
                  Running, T2
    <2>2. T2 \in queued[p] \/ Running(p, T2) => T2 \in queued'[p] \/ Running(p, T2)'
      BY <2>1 DEF Running
    <2> QED
      BY <2>1, <2>2, ConfirmQuiet DEF ConfirmInv, NotStopping
  <1>2. CASE ExecuteNoAckReceived(p)
    <2>1. /\ UNCHANGED <<acknowledgedReceiveSequenceNumber, confirmed, received, queued, task,
                         control, overtaken>>
          /\ closed'[p] = TRUE
          /\ \A q \in Endpoint \ {p} : closed'[q] = closed[q] /\ tm'[q] = tm[q]
      BY <1>2 DEF ExecuteNoAckReceived, Executes, Close, taskVars, controlVars, stopVars, TypeOK,
                  CloseType, TmType
    <2> QED
      BY <2>1, ConfirmQuiet DEF ConfirmInv, NotStopping
  <1>3. CASE ExecuteNoAckSent(p)
    <2>1. /\ Confirm(p, receiveSequenceNumber[p], received[p])
          /\ Retime(p, {}, {"maxIdleTimeTimer"})
          /\ UNCHANGED <<received, closed, control, overtaken>>
          /\ \A q \in Endpoint \ {p} : tm'[q] = tm[q] /\ task'[q] = task[q]
      BY <1>3 DEF ExecuteNoAckSent, Executes, resetMaxIdleTimeTimer, closeVars, controlVars, stopVars,
                  TypeOK, TmType
    <2>2. \A q \in Endpoint \ {p} : queued'[q] = queued[q]
      BY <2>1, RetimeAt
    <2> QED
      BY <2>1, <2>2, ConfirmWrites
  <1>4. CASE ExecuteIdle(p) \/ ExecuteStopDt(p) \/ TimerWriteFails(p)
               \/ TimerInterrupted(p) \/ TimerDone(p)
    <2>1. /\ UNCHANGED <<acknowledgedReceiveSequenceNumber, confirmed, received, closed,
                         control, overtaken>>
          /\ \A q \in Endpoint \ {p} : tm'[q] = tm[q] /\ task'[q] = task[q]
          /\ closed[p] \/ ~Running(p, T2)
      BY <1>4 DEF ExecuteIdle, ExecuteStopDt, TimerWriteFails, TimerInterrupted, TimerDone,
                  Executes, seqVars, closeVars, controlVars, stopVars, TypeOK, TmType, Running, T2
    <2>2. closed[p] \in BOOLEAN
      BY DEF TypeOK, CloseType
    <2>3. /\ T2 \in queued[p] => T2 \in queued'[p]
          /\ \A q \in Endpoint \ {p} : queued'[q] = queued[q]
      <3>1. CASE ExecuteIdle(p)
        <4>1. Retime(p, {}, {"maxTimeNoTestConReceived"})
          BY <3>1 DEF ExecuteIdle
        <4> QED
          BY <4>1, RetimeAt DEF T2, Alike
      <3>2. CASE UNCHANGED queued
        BY <3>2
      <3> QED
        BY <1>4, <3>1, <3>2
           DEF ExecuteStopDt, TimerWriteFails, TimerInterrupted, TimerDone, taskVars
    <2> QED
      BY <2>1, <2>2, <2>3, ConfirmQuiet DEF ConfirmInv, NotStopping
  <1> QED
    BY <1>1, <1>2, <1>3, <1>4 DEF TimerThread

LEMMA ConfirmControl ==
  ASSUME TypeOK, ConfirmInv, MaxStops = 0, ControlCalls \/ ControlThread
  PROVE  ConfirmInv'
  <1>1. StartDataTransfer \/ StartConfirmed \/ StartTimesOut
    BY DEF ControlCalls, ControlThread, StopDataTransfer, StopReadsDiff, StopReadsNumber, StopWritesSFrame,
           StopRecordsSFrame, StopCancelsTimer, StopSendsAct, StopFails, StopReturns, At,
           ConfirmInv, NotStopping, TypeOK, ControlType
  <1>2. /\ UNCHANGED <<acknowledgedReceiveSequenceNumber, confirmed, received, closed, queued,
                       tm, task, overtaken>>
        /\ NotStopping'
    BY <1>1 DEF StartDataTransfer, StartConfirmed, StartTimesOut, At, seqVars, closeVars,
                taskVars, tmVars, stopVars, ConfirmInv, NotStopping
  <1>3. Client \in Endpoint /\ (Running(Client, T2) => Running(Client, T2)')
    BY <1>2, ClientIsEndpoint DEF Running
  <1> QED
    BY <1>2, <1>3, ConfirmQuiet

LEMMA ConfirmStep ==
  ASSUME MaxStops = 0
  PROVE  TypeOK /\ NumberInv /\ ConfirmInv /\ [Next]_vars => ConfirmInv'
  <1> SUFFICES ASSUME TypeOK, NumberInv, ConfirmInv, [Next]_vars
               PROVE  ConfirmInv'
    OBVIOUS
  <1>1. CASE UNCHANGED vars
    BY <1>1 DEF vars, seqVars, closeVars, taskVars, tmVars, controlVars, stopVars, ConfirmInv, NotStopping,
                ConfirmedAt, Running
  <1>2. ASSUME NEW p \in Endpoint, ReaderThread(p) \/ ReaderBroken(p)
        PROVE  ConfirmInv'
    BY <1>2, ConfirmReader
  <1>3. ASSUME NEW p \in Endpoint,
               setConnectionListener(p) \/ ForwardASdu(p) \/ SendWaits(p)
        PROVE  ConfirmInv'
    <2>1. UNCHANGED <<acknowledgedReceiveSequenceNumber, confirmed, received, closed, queued,
                      tm, task, control, overtaken>>
      BY <1>3 DEF setConnectionListener, ForwardASdu, SendWaits, seqVars, closeVars,
                  taskVars, tmVars, controlVars, stopVars
    <2> QED
      BY <2>1 DEF ConfirmInv, NotStopping, ConfirmedAt, Running
  <1>4. ASSUME NEW p \in Endpoint, AppClose(p)
        PROVE  ConfirmInv'
    <2>1. /\ UNCHANGED <<acknowledgedReceiveSequenceNumber, confirmed, received, queued, tm,
                         task, control, overtaken>>
          /\ closed'[p] = TRUE
          /\ \A q \in Endpoint \ {p} : closed'[q] = closed[q]
      BY <1>4 DEF AppClose, Close, taskVars, tmVars, controlVars, stopVars, TypeOK, CloseType
    <2> QED
      BY <2>1, ConfirmQuiet DEF ConfirmInv, NotStopping
  <1>5. ASSUME NEW p \in Endpoint, Send(p) \/ SenderResumes(p)
        PROVE  ConfirmInv'
    <2>1. UNCHANGED <<closed, tm, task, control, overtaken>>
      BY <1>5 DEF Send, SenderResumes, closeVars, tmVars, controlVars, stopVars
    <2>2. CASE Transmit(p)
      <3>1. /\ Confirm(p, receiveSequenceNumber[p], received[p])
            /\ UNCHANGED received
        BY <2>2 DEF Transmit
      <3>2. \A q \in Endpoint \ {p} : queued'[q] = queued[q]
        BY <2>2, RetimeAt DEF Transmit
      <3> QED
        BY <2>1, <3>1, <3>2, ConfirmWrites
    <2>3. CASE UNCHANGED <<seqVars, taskVars>>
      BY <2>1, <2>3 DEF seqVars, taskVars, ConfirmInv, NotStopping, ConfirmedAt, Running
    <2> QED
      BY <1>5, <2>2, <2>3 DEF Send, SenderResumes
  <1>6. ASSUME NEW p \in Endpoint,
               (\E t \in Timers : TakeTimer(p, t)) \/ TimerThread(p)
        PROVE  ConfirmInv'
    BY <1>6, ConfirmTimers
  <1>7. CASE ControlCalls \/ ControlThread
    BY <1>7, ConfirmControl
  <1> QED
    BY <1>1, <1>2, <1>3, <1>4, <1>5, <1>6, <1>7 DEF Next

LEMMA ConfirmInit == Init => ConfirmInv
  <1> SUFFICES ASSUME Init PROVE ConfirmInv
    OBVIOUS
  <1>1. ASSUME NEW p \in Endpoint PROVE ConfirmedAt(p)
    <2>1. W[p] \in Nat /\ W[p] > 0 /\ 0 % SeqModulus = 0
      BY WindowAssumption, SeqModulusAssumption
    <2> QED
      BY <2>1 DEF Init, ConfirmedAt
  <1> QED
    BY <1>1 DEF Init, ConfirmInv, NotStopping

(* Without stopDataTransfer, every I-frame that is received is acknowledged *)
(* or has t2 running, *)
THEOREM ReceivedFramesAreTimed ==
  ASSUME MaxStops = 0
  PROVE  Spec => []ReceivedIsTimed
  <1>1. ConfirmInv => ReceivedIsTimed
    BY DEF ConfirmInv, NotStopping, ConfirmedAt, ReceivedIsTimed, T2
  <1>2. TypeOK /\ NumberInv /\ ConfirmInv /\ [Next]_vars => ConfirmInv'
    BY ConfirmStep
  <1> QED
    BY <1>1, <1>2, TypeCorrect, NumbersCorrect, ConfirmInit, PTL DEF Spec

(* and what counts as acknowledged has been put on the wire. *)
THEOREM RecordIsTrue ==
  ASSUME MaxStops = 0
  PROVE  Spec => []ConfirmedIsRecorded
  <1>1. TypeOK /\ NumberInv /\ ConfirmInv => ConfirmedIsRecorded
    BY Distance DEF ConfirmInv, NotStopping, ConfirmedAt, ConfirmedIsRecorded
  <1>2. TypeOK /\ NumberInv /\ ConfirmInv /\ [Next]_vars => ConfirmInv'
    BY ConfirmStep
  <1> QED
    BY <1>1, <1>2, TypeCorrect, NumbersCorrect, ConfirmInit, PTL DEF Spec

----------------------------------------------------------------------------
(* The listener of the server *)

(* The listener is set, or kept for connectionClosed while data transfer is *)
(* stopped. *)
ListenerInv ==
  /\ aSduListener[Server] \/ (stopped[Server] /\ aSduListenerBack[Server])
  /\ ServerIsTold

LEMMA ListenerQuiet ==
  ASSUME ListenerInv,
         UNCHANGED <<aSduListener[Server], aSduListenerBack[Server], stopped[Server]>>,
         reader'[Server] = "done" => reader[Server] = "done",
         notified'[Server] = notified[Server]
  PROVE  ListenerInv'
  BY DEF ListenerInv, ServerIsTold

LEMMA ListenerReader ==
  ASSUME TypeOK, ListenerInv, NEW p \in Endpoint, ReaderThread(p) \/ ReaderBroken(p)
  PROVE  ListenerInv'
  <1>0. /\ Server \in Endpoint
        /\ aSduListener[Server] \in BOOLEAN /\ aSduListenerBack[Server] \in BOOLEAN
        /\ stopped[Server] \in BOOLEAN /\ notified[Server] \in Nat
    BY ClientIsEndpoint DEF TypeOK, TransferType, CloseType
  <1>1. CASE HandleStartDtAct(p) \/ HandleStopDtAct(p)
    <2>1. UNCHANGED <<reader, notified>>
      BY <1>1 DEF HandleStartDtAct, HandleStopDtAct, closeVars
    <2>2. CASE HandleStartDtAct(p)
      <3>1. /\ aSduListener' = [aSduListener EXCEPT ![p] = @ \/ aSduListenerBack[p]]
            /\ stopped' = [stopped EXCEPT ![p] = FALSE]
            /\ UNCHANGED aSduListenerBack
        BY <2>2 DEF HandleStartDtAct
      <3> QED
        BY <1>0, <2>1, <3>1 DEF ListenerInv, ServerIsTold, TypeOK, TransferType
    <2>3. CASE HandleStopDtAct(p)
      <3>1. /\ stopped' = [stopped EXCEPT ![p] = TRUE]
            /\ aSduListenerBack' = [aSduListenerBack EXCEPT ![p] = @ \/ aSduListener[p]]
            /\ aSduListener' = [aSduListener EXCEPT ![p] = FALSE]
        BY <2>3 DEF HandleStopDtAct
      <3> QED
        BY <1>0, <2>1, <3>1 DEF ListenerInv, ServerIsTold, TypeOK, TransferType
    <2> QED
      BY <1>1, <2>2, <2>3
  <1>2. CASE HandleIFrame(p) \/ HandleSFrame(p) \/ HandleStartDtCon(p)
               \/ HandleStopDtCon(p) \/ HandleTestFrAct(p) \/ HandleTestFrCon(p)
    <2>1. UNCHANGED <<aSduListener, aSduListenerBack, stopped, reader, notified>>
      BY <1>2 DEF HandleIFrame, HandleSFrame, HandleStartDtCon, HandleStopDtCon,
                  HandleTestFrAct, HandleTestFrCon, closeVars, transferVars
    <2> QED
      BY <2>1, ListenerQuiet
  <1>3. CASE RejectFrame(p) \/ LateIFrame(p) \/ LateSFrame(p) \/ LateCon(p)
               \/ ReaderStops(p) \/ ReaderBroken(p)
    <2>1. /\ UNCHANGED <<aSduListener, aSduListenerBack, stopped, notified>>
          /\ \E next \in {"reading", "failing"} : reader' = [reader EXCEPT ![p] = next]
      BY <1>3 DEF RejectFrame, LateIFrame, LateSFrame, LateCon, ReaderStops,
                  ReaderBroken, transferVars, closeVars
    <2>2. reader'[Server] = "done" => reader[Server] = "done"
      BY <1>0, <2>1 DEF TypeOK
    <2> QED
      BY <2>1, <2>2, ListenerQuiet
  <1>4. CASE LateAct(p)
    <2> DEFINE stop == Head(wire[p]).type = "STOPDT_ACT"
               start == Head(wire[p]).type = "STARTDT_ACT"
    <2>1. /\ reader' = [reader EXCEPT ![p] = "failing"]
          /\ UNCHANGED notified
          /\ stopped' = [stopped EXCEPT ![p] = stop \/ (@ /\ ~start)]
          /\ aSduListenerBack' =
               [aSduListenerBack EXCEPT ![p] = @ \/ (stop /\ aSduListener[p])]
          /\ aSduListener' = [aSduListener EXCEPT
               ![p] = ~stop /\ (@ \/ (start /\ aSduListenerBack[p]))]
      BY <1>4 DEF LateAct, closeVars
    <2>2. reader'[Server] = "done" => reader[Server] = "done"
      BY <1>0, <2>1 DEF TypeOK
    <2>3. start => ~stop
      OBVIOUS
    <2> HIDE DEF stop, start
    <2>4. CASE p = Server
      BY <1>0, <2>1, <2>2, <2>3, <2>4 DEF ListenerInv, ServerIsTold, TypeOK, TransferType
    <2>5. CASE p # Server
      <3>1. UNCHANGED <<aSduListener[Server], aSduListenerBack[Server], stopped[Server]>>
        BY <1>0, <2>1, <2>5 DEF TypeOK, TransferType
      <3> QED
        BY <2>1, <2>2, <3>1, ListenerQuiet
    <2> QED
      BY <2>4, <2>5
  <1>5. CASE ReaderExit(p)
    <2>1. /\ UNCHANGED <<aSduListener, aSduListenerBack, stopped>>
          /\ reader' = [reader EXCEPT ![p] = "done"]
          /\ notified' = [notified EXCEPT ![p] = @ + ClosedCalls(p)]
      BY <1>5 DEF ReaderExit, transferVars
    <2>2. CASE p = Server
      <3>1. ClosedCalls(p) \in Nat /\ ClosedCalls(p) >= 1
        BY <1>0, <2>2 DEF ListenerInv, ClosedCalls
      <3>2. notified'[Server] >= 1
        BY <1>0, <2>1, <2>2, <3>1 DEF TypeOK, CloseType
      <3> QED
        BY <2>1, <3>2 DEF ListenerInv, ServerIsTold
    <2>3. CASE p # Server
      <3>1. reader'[Server] = reader[Server] /\ notified'[Server] = notified[Server]
        BY <1>0, <2>1, <2>3 DEF TypeOK, CloseType
      <3> QED
        BY <2>1, <3>1, ListenerQuiet
    <2> QED
      BY <2>2, <2>3
  <1> QED
    BY <1>1, <1>2, <1>3, <1>4, <1>5 DEF ReaderThread

LEMMA ListenerStep == TypeOK /\ ListenerInv /\ [Next]_vars => ListenerInv'
  <1> SUFFICES ASSUME TypeOK, ListenerInv, [Next]_vars
               PROVE  ListenerInv'
    OBVIOUS
  <1>0. /\ Server \in Endpoint /\ Client \in Endpoint /\ Client # Server
        /\ notified[Server] \in Nat
    BY ClientIsEndpoint, EndpointAssumption DEF TypeOK, CloseType
  <1>1. CASE UNCHANGED vars
    BY <1>1, ListenerQuiet DEF vars, transferVars, closeVars
  <1>2. ASSUME NEW p \in Endpoint, ReaderThread(p) \/ ReaderBroken(p)
        PROVE  ListenerInv'
    BY <1>2, ListenerReader
  <1>3. ASSUME NEW p \in Endpoint, setConnectionListener(p)
        PROVE  ListenerInv'
    <2>1. /\ aSduListener' = [aSduListener EXCEPT ![p] = TRUE]
          /\ UNCHANGED <<aSduListenerBack, stopped, reader, notified>>
      BY <1>3 DEF setConnectionListener, closeVars
    <2> QED
      BY <1>0, <2>1 DEF ListenerInv, ServerIsTold, TypeOK, TransferType
  <1>4. ASSUME NEW p \in Endpoint, ExecuteNoAckReceived(p)
        PROVE  ListenerInv'
    <2>1. /\ UNCHANGED <<aSduListener, aSduListenerBack, stopped>>
          /\ reader'[Server] = "done" => reader[Server] = "done"
          /\ notified' = [notified EXCEPT ![p] = @ + IF aSduListener[p] THEN 1 ELSE 0]
      BY <1>0, <1>4 DEF ExecuteNoAckReceived, transferVars, FrameInHand, TypeOK
    <2>2. notified'[Server] >= notified[Server]
      BY <1>0, <2>1 DEF TypeOK, CloseType
    <2>3. notified[Server] >= 1 => notified'[Server] >= 1
      BY <1>0, <2>1, <2>2 DEF TypeOK, CloseType
    <2> QED
      BY <2>1, <2>3 DEF ListenerInv, ServerIsTold
  <1>5. ASSUME NEW p \in Endpoint,
               \/ Send(p) \/ SendWaits(p) \/ SenderResumes(p)
               \/ ForwardASdu(p) \/ \E t \in Timers : TakeTimer(p, t)
               \/ TimerThread(p) /\ ~ExecuteNoAckReceived(p)
        PROVE  ListenerInv'
    <2>1. UNCHANGED <<aSduListener, aSduListenerBack, stopped, reader, notified>>
      BY <1>5 DEF Send, SendWaits, SenderResumes, ForwardASdu, TakeTimer,
                  TimerThread, ExecuteNoAckSent, ExecuteIdle, ExecuteStopDt,
                  TimerWriteFails, TimerInterrupted, TimerDone, transferVars, closeVars
    <2> QED
      BY <2>1, ListenerQuiet
  <1>6. ASSUME NEW p \in Endpoint, AppClose(p)
        PROVE  ListenerInv'
    <2>1. /\ UNCHANGED <<aSduListener, aSduListenerBack, stopped, notified>>
          /\ reader'[Server] = "done" => reader[Server] = "done"
      BY <1>0, <1>6 DEF AppClose, transferVars, FrameInHand, TypeOK
    <2> QED
      BY <2>1, ListenerQuiet
  <1>7. CASE ControlCalls \/ ControlThread
    <2>1. UNCHANGED <<reader, notified>>
      BY <1>7 DEF ControlCalls, ControlThread, StartDataTransfer, StopDataTransfer,
             StartConfirmed, StartTimesOut, StopReadsDiff, StopReadsNumber, StopWritesSFrame,
             StopRecordsSFrame, StopCancelsTimer, StopSendsAct, StopFails, StopReturns,
             closeVars
    <2>2. UNCHANGED <<aSduListener[Server], aSduListenerBack[Server], stopped[Server]>>
      BY <1>0, <1>7
         DEF ControlCalls, ControlThread, StartDataTransfer, StopDataTransfer,
             StartConfirmed, StartTimesOut, StopReadsDiff, StopReadsNumber, StopWritesSFrame,
             StopRecordsSFrame, StopCancelsTimer, StopSendsAct, StopFails, StopReturns,
             transferVars, TypeOK, TransferType
    <2> QED
      BY <2>1, <2>2, ListenerQuiet
  <1> QED
    BY <1>1, <1>2, <1>3, <1>4, <1>5, <1>6, <1>7 DEF Next

(* The server's application is told of the end of its connection, whatever  *)
(* stops and starts went before.                                            *)
THEOREM ServerIsAlwaysTold == Spec => []ServerIsTold
  <1>1. Init => ListenerInv
    BY ClientIsEndpoint DEF Init, ListenerInv, ServerIsTold
  <1>2. ListenerInv => ServerIsTold
    BY DEF ListenerInv
  <1> QED
    BY <1>1, <1>2, TypeCorrect, ListenerStep, PTL DEF Spec

----------------------------------------------------------------------------
(* Forwarding.  d is with the listener, t with the executor. *)

InOrder(d, t, n) ==
  /\ \A i, j \in 1 .. Len(d \o t) : i < j => (d \o t)[i] < (d \o t)[j]
  /\ \A i \in 1 .. Len(d \o t) : (d \o t)[i] <= n

LEMMA OrderAppend ==
  ASSUME NEW d \in Seq(Nat), NEW t \in Seq(Nat), NEW n \in Nat, InOrder(d, t, n)
  PROVE  InOrder(d, Append(t, n + 1), n + 1)
  <1> DEFINE s == d \o t
             u == d \o Append(t, n + 1)
  <1>1. /\ s \in Seq(Nat) /\ Len(s) \in Nat /\ Len(u) = Len(s) + 1
        /\ \A i \in 1 .. Len(s) : u[i] = s[i] /\ s[i] \in Nat
        /\ u[Len(s) + 1] = n + 1
    OBVIOUS
  <1>2. /\ \A i, j \in 1 .. Len(s) : i < j => s[i] < s[j]
        /\ \A i \in 1 .. Len(s) : s[i] <= n
    BY DEF InOrder
  <1> HIDE DEF s, u
  <1>3. \A i \in 1 .. Len(u) : i \in 1 .. Len(s) \/ i = Len(s) + 1
    BY <1>1
  <1>4. ASSUME NEW i \in 1 .. Len(u), NEW j \in 1 .. Len(u), i < j
        PROVE  u[i] < u[j]
    <2>1. i \in 1 .. Len(s) /\ u[i] = s[i] /\ s[i] \in Nat /\ s[i] <= n
      BY <1>1, <1>2, <1>4
    <2>2. CASE j \in 1 .. Len(s)
      BY <1>1, <1>2, <1>4, <2>1, <2>2
    <2>3. CASE j = Len(s) + 1
      <3>1. u[j] = n + 1
        BY <1>1, <2>3
      <3> QED
        BY <2>1, <3>1
    <2> QED
      BY <1>3, <2>2, <2>3
  <1>5. ASSUME NEW i \in 1 .. Len(u)
        PROVE  u[i] <= n + 1
    <2>1. CASE i \in 1 .. Len(s)
      <3>1. u[i] = s[i] /\ s[i] \in Nat /\ s[i] <= n
        BY <1>1, <1>2, <2>1
      <3> QED
        BY <3>1
    <2>2. CASE i = Len(s) + 1
      <3>1. u[i] = n + 1
        BY <1>1, <2>2
      <3> QED
        BY <3>1
    <2> QED
      BY <1>3, <2>1, <2>2
  <1> QED
    BY <1>4, <1>5 DEF InOrder, u

LEMMA OrderGrows ==
  ASSUME NEW d \in Seq(Nat), NEW t \in Seq(Nat), NEW n \in Nat, InOrder(d, t, n)
  PROVE  InOrder(d, t, n + 1)
  <1> DEFINE s == d \o t
  <1>1. s \in Seq(Nat)
    OBVIOUS
  <1>2. /\ \A i, j \in 1 .. Len(s) : i < j => s[i] < s[j]
        /\ \A i \in 1 .. Len(s) : s[i] <= n
    BY DEF InOrder
  <1> HIDE DEF s
  <1>3. \A i \in 1 .. Len(s) : s[i] <= n + 1
    <2>1. \A i \in 1 .. Len(s) : s[i] \in Nat
      BY <1>1
    <2> QED
      BY <1>2, <2>1
  <1> QED
    BY <1>2, <1>3 DEF InOrder, s

LEMMA OrderForward ==
  ASSUME NEW d \in Seq(Nat), NEW t \in Seq(Nat), NEW n \in Nat, InOrder(d, t, n), t # <<>>
  PROVE  InOrder(Append(d, Head(t)), Tail(t), n)
  <1>1. Append(d, Head(t)) \o Tail(t) = d \o t
    OBVIOUS
  <1> QED
    BY <1>1 DEF InOrder

LEMMA OrderLose ==
  ASSUME NEW d \in Seq(Nat), NEW t \in Seq(Nat), NEW n \in Nat, InOrder(d, t, n), t # <<>>
  PROVE  InOrder(d, Tail(t), n)
  <1> DEFINE s == d \o t
             u == d \o Tail(t)
             g(i) == IF i <= Len(d) THEN i ELSE i + 1
  <1>1. /\ Len(d) \in Nat /\ Len(u) \in Nat /\ Len(s) \in Nat /\ Len(s) = Len(u) + 1
        /\ \A i \in 1 .. Len(u) : u[i] = s[g(i)] /\ g(i) \in 1 .. Len(s)
    OBVIOUS
  <1>2. \A i, j \in 1 .. Len(u) : i < j => g(i) < g(j)
    BY <1>1
  <1>3. /\ \A i, j \in 1 .. Len(s) : i < j => s[i] < s[j]
        /\ \A i \in 1 .. Len(s) : s[i] <= n
    BY DEF InOrder
  <1> HIDE DEF s, u, g
  <1> QED
    BY <1>1, <1>2, <1>3 DEF InOrder, u

LEMMA OrderCut ==
  ASSUME NEW d \in Seq(Nat), NEW t \in Seq(Nat), NEW n \in Nat, InOrder(d, t, n),
         NEW k \in 0 .. Len(t)
  PROVE  InOrder(d, SubSeq(t, 1, k), n) /\ Len(SubSeq(t, 1, k)) = k
  <1> DEFINE s == d \o t
             u == d \o SubSeq(t, 1, k)
  <1>1. /\ Len(u) \in Nat /\ Len(s) \in Nat /\ Len(u) <= Len(s)
        /\ \A i \in 1 .. Len(u) : u[i] = s[i]
        /\ Len(SubSeq(t, 1, k)) = k
    OBVIOUS
  <1>2. /\ \A i, j \in 1 .. Len(s) : i < j => s[i] < s[j]
        /\ \A i \in 1 .. Len(s) : s[i] <= n
    BY DEF InOrder
  <1>3. InOrder(d, SubSeq(t, 1, k), n)
    <2> HIDE DEF s
    <2>1. 1 .. Len(u) \subseteq 1 .. Len(s)
      BY <1>1
    <2>2. /\ \A i, j \in 1 .. Len(u) : i < j => u[i] < u[j]
          /\ \A i \in 1 .. Len(u) : u[i] <= n
      <3> HIDE DEF u
      <3> QED
        BY <1>1, <1>2, <2>1
    <2> QED
      BY <2>2 DEF InOrder
  <1> QED
    BY <1>1, <1>3

ForwardedAt(p) ==
  /\ InOrder(delivered[p], tasks[p], received[p])
  /\ Len(delivered[p]) + Len(tasks[p]) + lost[p] = received[p]

ForwardInv == \A p \in Endpoint : ForwardedAt(p)

LEMMA ForwardTypes ==
  ASSUME TypeOK, NEW p \in Endpoint
  PROVE  /\ delivered[p] \in Seq(Nat) /\ tasks[p] \in Seq(Nat)
         /\ lost[p] \in Nat /\ received[p] \in Nat
         /\ Len(delivered[p]) \in Nat /\ Len(tasks[p]) \in Nat
  BY DEF TypeOK, DeliveryType, SeqType

LEMMA ForwardAt ==
  ASSUME ForwardInv, NEW p \in Endpoint,
         \A q \in Endpoint \ {p} :
           /\ delivered'[q] = delivered[q] /\ tasks'[q] = tasks[q]
           /\ lost'[q] = lost[q] /\ received'[q] = received[q],
         InOrder(delivered'[p], tasks'[p], received'[p]),
         Len(delivered'[p]) + Len(tasks'[p]) + lost'[p] = received'[p]
  PROVE  ForwardInv'
  BY DEF ForwardInv, ForwardedAt

LEMMA ForwardQuiet ==
  ASSUME ForwardInv, UNCHANGED <<received, deliveryVars>>
  PROVE  ForwardInv'
  BY DEF ForwardInv, ForwardedAt, deliveryVars

(* An ASDU is received into the queue or lost, one leaves the queue for the *)
(* listener or is lost, or the queue is cut: the sum stays that received.   *)
LEMMA ForwardCount ==
  ASSUME TypeOK, TypeOK', NEW p \in Endpoint, ForwardedAt(p),
         \/ /\ delivered'[p] = delivered[p] /\ received'[p] = received[p] + 1
            /\ \/ Len(tasks'[p]) = Len(tasks[p]) + 1 /\ lost'[p] = lost[p]
               \/ tasks'[p] = tasks[p] /\ lost'[p] = lost[p] + 1
         \/ /\ received'[p] = received[p]
            /\ Len(tasks'[p]) = Len(tasks[p]) - 1
            /\ \/ Len(delivered'[p]) = Len(delivered[p]) + 1 /\ lost'[p] = lost[p]
               \/ delivered'[p] = delivered[p] /\ lost'[p] = lost[p] + 1
         \/ /\ received'[p] = received[p] /\ delivered'[p] = delivered[p]
            /\ lost'[p] = lost[p] + Len(tasks[p]) - Len(tasks'[p])
  PROVE  Len(delivered'[p]) + Len(tasks'[p]) + lost'[p] = received'[p]
  <1> DEFINE a == Len(delivered[p])
             b == Len(tasks[p])
             c == lost[p]
             n == received[p]
             b1 == Len(tasks'[p])
  <1>1. a \in Nat /\ b \in Nat /\ c \in Nat /\ n \in Nat /\ a + b + c = n
    BY ForwardTypes DEF ForwardedAt
  <1>2. b1 \in Nat
    BY DEF TypeOK, DeliveryType
  <1>3. /\ \/ Len(delivered'[p]) = a /\ b1 = b + 1 /\ lost'[p] = c /\ received'[p] = n + 1
           \/ Len(delivered'[p]) = a /\ b1 = b /\ lost'[p] = c + 1 /\ received'[p] = n + 1
           \/ Len(delivered'[p]) = a + 1 /\ b1 = b - 1 /\ lost'[p] = c /\ received'[p] = n
           \/ Len(delivered'[p]) = a /\ b1 = b - 1 /\ lost'[p] = c + 1 /\ received'[p] = n
           \/ Len(delivered'[p]) = a /\ lost'[p] = c + b - b1 /\ received'[p] = n
    OBVIOUS
  <1> SUFFICES Len(delivered'[p]) + b1 + lost'[p] = received'[p]
    OBVIOUS
  <1> HIDE DEF a, b, c, n, b1
  <1> QED
    BY <1>1, <1>2, <1>3

(* The reader counts an I-frame, and forwards or loses its ASDU. *)
CountsASdu(p) ==
  /\ Readable(p) \/ InHand(p)
  /\ Head(wire[p]).type = "I_FORMAT"
  /\ received' = [received EXCEPT ![p] = @ + 1] /\ UNCHANGED delivered
  /\ \/ tasks' = [tasks EXCEPT ![p] = Append(@, Head(wire[p]).vs)] /\ UNCHANGED lost
     \/ lost' = [lost EXCEPT ![p] = @ + 1] /\ UNCHANGED tasks

LEMMA ForwardIFrame ==
  ASSUME TypeOK, TypeOK', NumberInv, ForwardInv, NEW p \in Endpoint, CountsASdu(p)
  PROVE  ForwardInv'
  <1> DEFINE f == Head(wire[p])
  <1>1. /\ Readable(p) \/ InHand(p)
        /\ f.type = "I_FORMAT"
        /\ received' = [received EXCEPT ![p] = @ + 1] /\ UNCHANGED delivered
        /\ \/ tasks' = [tasks EXCEPT ![p] = Append(@, f.vs)] /\ UNCHANGED lost
           \/ lost' = [lost EXCEPT ![p] = @ + 1] /\ UNCHANGED tasks
    BY DEF CountsASdu
  <1>2. f.vs = received[p] + 1
    BY <1>1, FirstFrame DEF Carries
  <1> HIDE DEF f
  <1>3. ForwardedAt(p) /\ InOrder(delivered[p], tasks[p], received[p])
    BY DEF ForwardInv, ForwardedAt
  <1>4. received'[p] = received[p] + 1 /\ \A q \in Endpoint \ {p} : received'[q] = received[q]
    BY <1>1 DEF TypeOK, SeqType
  <1>5. CASE tasks' = [tasks EXCEPT ![p] = Append(@, f.vs)] /\ UNCHANGED lost
    <2>1. /\ tasks'[p] = Append(tasks[p], received[p] + 1)
          /\ \A q \in Endpoint \ {p} : tasks'[q] = tasks[q]
      BY <1>2, <1>5 DEF TypeOK, DeliveryType
    <2>2. Len(tasks'[p]) = Len(tasks[p]) + 1
      BY <2>1, ForwardTypes
    <2>3. InOrder(delivered'[p], tasks'[p], received'[p])
      BY <1>1, <1>3, <1>4, <2>1, ForwardTypes, OrderAppend
    <2>4. delivered'[p] = delivered[p] /\ lost'[p] = lost[p]
      BY <1>1, <1>5
    <2>5. Len(delivered'[p]) + Len(tasks'[p]) + lost'[p] = received'[p]
      BY <1>3, <1>4, <2>2, <2>4, ForwardCount
    <2> QED
      BY <1>1, <1>4, <1>5, <2>1, <2>3, <2>5, ForwardAt
  <1>6. CASE lost' = [lost EXCEPT ![p] = @ + 1] /\ UNCHANGED tasks
    <2>1. lost'[p] = lost[p] + 1 /\ \A q \in Endpoint \ {p} : lost'[q] = lost[q]
      BY <1>6 DEF TypeOK, DeliveryType
    <2>2. InOrder(delivered'[p], tasks'[p], received'[p])
      BY <1>1, <1>3, <1>4, <1>6, ForwardTypes, OrderGrows
    <2>3. delivered'[p] = delivered[p] /\ tasks'[p] = tasks[p]
      BY <1>1, <1>6
    <2>4. Len(delivered'[p]) + Len(tasks'[p]) + lost'[p] = received'[p]
      BY <1>3, <1>4, <2>1, <2>3, ForwardCount
    <2> QED
      BY <1>1, <1>4, <1>6, <2>1, <2>2, <2>4, ForwardAt
  <1> QED
    BY <1>1, <1>5, <1>6

LEMMA ForwardExecutor ==
  ASSUME TypeOK, TypeOK', ForwardInv, NEW p \in Endpoint, ForwardASdu(p)
  PROVE  ForwardInv'
  <1> DEFINE d == delivered[p]
             t == tasks[p]
  <1>1. /\ t # <<>> /\ tasks' = [tasks EXCEPT ![p] = Tail(@)] /\ UNCHANGED received
        /\ \/ delivered' = [delivered EXCEPT ![p] = Append(@, Head(t))] /\ UNCHANGED lost
           \/ lost' = [lost EXCEPT ![p] = @ + 1] /\ UNCHANGED delivered
    BY DEF ForwardASdu, seqVars
  <1>2. ForwardedAt(p) /\ InOrder(d, t, received[p])
    BY DEF ForwardInv, ForwardedAt
  <1>3. tasks'[p] = Tail(t) /\ \A q \in Endpoint \ {p} : tasks'[q] = tasks[q]
    BY <1>1 DEF TypeOK, DeliveryType
  <1>4. Len(tasks'[p]) = Len(t) - 1
    <2>1. t \in Seq(Nat) /\ t # <<>>
      BY <1>1, ForwardTypes
    <2> HIDE DEF t
    <2>2. Len(Tail(t)) = Len(t) - 1
      BY <2>1
    <2> QED
      BY <1>3, <2>2
  <1>5. CASE delivered' = [delivered EXCEPT ![p] = Append(@, Head(t))] /\ UNCHANGED lost
    <2>1. /\ delivered'[p] = Append(d, Head(t))
          /\ \A q \in Endpoint \ {p} : delivered'[q] = delivered[q]
      BY <1>5 DEF TypeOK, DeliveryType
    <2>2. InOrder(delivered'[p], tasks'[p], received'[p])
      BY <1>1, <1>2, <1>3, <2>1, ForwardTypes, OrderForward
    <2>3. Len(delivered'[p]) = Len(d) + 1
      BY <2>1, ForwardTypes
    <2>4. lost'[p] = lost[p] /\ received'[p] = received[p]
      BY <1>1, <1>5
    <2>5. Len(delivered'[p]) + Len(tasks'[p]) + lost'[p] = received'[p]
      BY <1>2, <1>4, <2>3, <2>4, ForwardCount
    <2> QED
      BY <1>1, <1>3, <1>5, <2>1, <2>2, <2>5, ForwardAt
  <1>6. CASE lost' = [lost EXCEPT ![p] = @ + 1] /\ UNCHANGED delivered
    <2>1. lost'[p] = lost[p] + 1 /\ \A q \in Endpoint \ {p} : lost'[q] = lost[q]
      BY <1>6 DEF TypeOK, DeliveryType
    <2>2. InOrder(delivered'[p], tasks'[p], received'[p])
      BY <1>1, <1>2, <1>3, <1>6, ForwardTypes, OrderLose
    <2>3. delivered'[p] = d /\ received'[p] = received[p]
      BY <1>1, <1>6
    <2>4. Len(delivered'[p]) + Len(tasks'[p]) + lost'[p] = received'[p]
      BY <1>2, <1>4, <2>1, <2>3, ForwardCount
    <2> QED
      BY <1>1, <1>3, <1>6, <2>1, <2>2, <2>4, ForwardAt
  <1> QED
    BY <1>1, <1>5, <1>6

LEMMA ForwardExit ==
  ASSUME TypeOK, TypeOK', ForwardInv, NEW p \in Endpoint, ReaderExit(p)
  PROVE  ForwardInv'
  <1>1. UNCHANGED <<received, delivered>>
    BY DEF ReaderExit
  <1>2. CASE UNCHANGED <<tasks, lost>>
    BY <1>1, <1>2, ForwardQuiet DEF deliveryVars
  <1>3. CASE /\ tasks' = [tasks EXCEPT ![p] = SubSeq(@, 1, IF @ = <<>> THEN 0 ELSE 1)]
             /\ lost' = [lost EXCEPT ![p] = @ + Len(tasks[p]) - Len(tasks'[p])]
    <2> DEFINE k == IF tasks[p] = <<>> THEN 0 ELSE 1
    <2>1. k \in 0 .. Len(tasks[p])
      BY ForwardTypes
    <2>2. /\ tasks'[p] = SubSeq(tasks[p], 1, k)
          /\ lost'[p] = lost[p] + Len(tasks[p]) - Len(tasks'[p])
          /\ \A q \in Endpoint \ {p} : tasks'[q] = tasks[q] /\ lost'[q] = lost[q]
      BY <1>3 DEF TypeOK, DeliveryType
    <2>3. ForwardedAt(p) /\ InOrder(delivered[p], tasks[p], received[p])
      BY DEF ForwardInv, ForwardedAt
    <2> HIDE DEF k
    <2>4. InOrder(delivered'[p], tasks'[p], received'[p])
      BY <1>1, <2>1, <2>2, <2>3, ForwardTypes, OrderCut
    <2>5. delivered'[p] = delivered[p] /\ received'[p] = received[p]
      BY <1>1
    <2>6. Len(delivered'[p]) + Len(tasks'[p]) + lost'[p] = received'[p]
      BY <2>2, <2>3, <2>5, ForwardCount
    <2> QED
      BY <1>1, <2>2, <2>4, <2>6, ForwardAt
  <1> QED
    BY <1>2, <1>3 DEF ReaderExit

LEMMA ForwardStep == TypeOK /\ NumberInv /\ ForwardInv /\ [Next]_vars => ForwardInv'
  <1> SUFFICES ASSUME TypeOK, NumberInv, ForwardInv, [Next]_vars
               PROVE  ForwardInv'
    OBVIOUS
  <1>0. TypeOK'
    BY TypeStep
  <1>1. CASE UNCHANGED vars
    BY <1>1, ForwardQuiet DEF vars, seqVars
  <1>2. ASSUME NEW p \in Endpoint, HandleIFrame(p) \/ ForwardASdu(p) \/ ReaderExit(p)
        PROVE  ForwardInv'
    <2>1. CASE HandleIFrame(p)
      <3>1. CountsASdu(p)
        BY <2>1 DEF HandleIFrame, Handles, CountsASdu
      <3> QED
        BY <1>0, <3>1, ForwardIFrame
    <2> QED
      BY <1>0, <1>2, <2>1, ForwardExecutor, ForwardExit
  <1>3. ASSUME NEW p \in Endpoint, RejectFrame(p) \/ LateIFrame(p)
        PROVE  ForwardInv'
    <2>1. CASE CountsASdu(p)
      BY <1>0, <2>1, ForwardIFrame
    <2>2. CASE ~CountsASdu(p)
      <3>1. CASE RejectFrame(p)
        <4> DEFINE f == Head(wire[p])
                   counted == /\ f.type = "I_FORMAT" /\ ~StopRejects(p, f)
                              /\ f.ns = receiveSequenceNumber[p]
        <4>1. /\ Readable(p) /\ counted \in BOOLEAN
              /\ counted => f.type = "I_FORMAT"
              /\ received' = [received EXCEPT ![p] = IF counted THEN @ + 1 ELSE @]
              /\ lost' = [lost EXCEPT ![p] = IF counted THEN @ + 1 ELSE @]
              /\ UNCHANGED <<tasks, delivered>>
          BY <3>1 DEF RejectFrame, Count
        <4> HIDE DEF counted
        <4>2. ~counted
          BY <2>2, <4>1 DEF CountsASdu
        <4> QED
          BY <4>1, <4>2, ForwardQuiet DEF TypeOK, SeqType, DeliveryType, deliveryVars
      <3>2. CASE LateIFrame(p)
        <4> DEFINE f == Head(wire[p])
                   counted == ~StopRejects(p, f) /\ f.ns = receiveSequenceNumber[p]
                   forwarded == counted /\ ~Wraps(f.ns) /\ ~AckRejected(p, f.nr)
                                  /\ aSduListener[p]
        <4>1. /\ InHand(p) /\ counted \in BOOLEAN /\ forwarded \in BOOLEAN
              /\ forwarded => counted
              /\ f.type = "I_FORMAT"
              /\ received' = [received EXCEPT ![p] = IF counted THEN @ + 1 ELSE @]
              /\ tasks' = [tasks EXCEPT ![p] = IF forwarded THEN Append(@, f.vs) ELSE @]
              /\ lost' = [lost EXCEPT ![p] = IF counted /\ ~forwarded THEN @ + 1 ELSE @]
              /\ UNCHANGED delivered
          BY <3>2 DEF LateIFrame, Count
        <4> HIDE DEF counted, forwarded
        <4>2. ~counted
          BY <2>2, <4>1 DEF CountsASdu, TypeOK, DeliveryType
        <4> QED
          BY <4>1, <4>2, ForwardQuiet DEF TypeOK, SeqType, DeliveryType, deliveryVars
      <3> QED
        BY <1>3, <3>1, <3>2
    <2> QED
      BY <2>1, <2>2
  <1>4. ASSUME NEW p \in Endpoint,
               \/ HandleSFrame(p) \/ HandleStartDtAct(p) \/ HandleStopDtAct(p)
               \/ HandleStartDtCon(p) \/ HandleStopDtCon(p) \/ HandleTestFrAct(p)
               \/ HandleTestFrCon(p) \/ ReaderStops(p) \/ ReaderBroken(p)
               \/ LateSFrame(p) \/ LateAct(p) \/ LateCon(p)
        PROVE  ForwardInv'
    <2>1. UNCHANGED <<received, deliveryVars>>
      BY <1>4 DEF HandleSFrame, HandleStartDtAct, HandleStopDtAct, HandleStartDtCon,
                  HandleStopDtCon, HandleTestFrAct, HandleTestFrCon, ReaderStops,
                  ReaderBroken, LateSFrame, LateAct, LateCon, seqVars
    <2> QED
      BY <2>1, ForwardQuiet
  <1>5. ASSUME NEW p \in Endpoint,
               \/ AppClose(p) \/ setConnectionListener(p)
               \/ Send(p) \/ SendWaits(p) \/ SenderResumes(p)
               \/ \E t \in Timers : TakeTimer(p, t)
               \/ TimerThread(p)
        PROVE  ForwardInv'
    <2>1. UNCHANGED <<received, deliveryVars>>
      BY <1>5 DEF AppClose, setConnectionListener, Send, SendWaits, SenderResumes,
                  Transmit, TakeTimer, TimerThread, ExecuteNoAckReceived,
                  ExecuteNoAckSent, ExecuteIdle, ExecuteStopDt, TimerWriteFails,
                  TimerInterrupted, TimerDone, seqVars, deliveryVars
    <2> QED
      BY <2>1, ForwardQuiet
  <1>6. CASE ControlCalls \/ ControlThread
    <2>1. UNCHANGED <<received, deliveryVars>>
      BY <1>6 DEF ControlCalls, ControlThread, StartDataTransfer, StopDataTransfer,
             StartConfirmed, StartTimesOut, StopReadsDiff, StopReadsNumber, StopWritesSFrame,
             StopRecordsSFrame, StopCancelsTimer, StopSendsAct, StopFails, StopReturns,
             seqVars
    <2> QED
      BY <2>1, ForwardQuiet
  <1> QED
    BY <1>1, <1>2, <1>3, <1>4, <1>5, <1>6 DEF Next, ReaderThread

(* ASDUs reach the listener in the order they were sent, none twice, and    *)
(* every one that was received is accounted for.                            *)
THEOREM ASdusForwardedInOrder == Spec => []ForwardedInOrder
  <1>1. Init => ForwardInv
    BY DEF Init, ForwardInv, ForwardedAt, InOrder
  <1>2. TypeOK /\ ForwardInv => ForwardedInOrder
    <2> SUFFICES ASSUME TypeOK, ForwardInv, NEW p \in Endpoint
                 PROVE  LET s == delivered[p] \o tasks[p]
                        IN  /\ \A i, j \in 1 .. Len(s) : i < j => s[i] < s[j]
                            /\ \A i \in 1 .. Len(s) : s[i] <= received[p]
                            /\ Len(s) + lost[p] = received[p]
      BY DEF ForwardedInOrder
    <2>1. Len(delivered[p] \o tasks[p]) = Len(delivered[p]) + Len(tasks[p])
      BY ForwardTypes
    <2> QED
      BY <2>1 DEF ForwardInv, ForwardedAt, InOrder
  <1> QED
    BY <1>1, <1>2, TypeCorrect, NumbersCorrect, ForwardStep, PTL DEF Spec

----------------------------------------------------------------------------
(* What a step does to the wires *)

Only(w, types) == \A i \in 1 .. Len(w) : w[i].type \in types

LEMMA WritesAt ==
  ASSUME TypeOK, NEW p \in Endpoint, NEW out, Writes(p, out)
  PROVE  wire'[Peer(p)] = wire[Peer(p)] \o out /\ wire'[p] = wire[p]
  BY Peers DEF TypeOK, Writes

LEMMA ReadsAt ==
  ASSUME TypeOK, NEW p \in Endpoint, NEW out, Reads(p, out)
  PROVE  wire'[Peer(p)] = wire[Peer(p)] \o out /\ wire'[p] = Tail(wire[p])
  BY Peers DEF TypeOK, Reads

LEMMA Concatenated ==
  ASSUME NEW v \in Seq(Frame), NEW w \in Seq(Frame)
  PROVE  /\ Len(v) \in Nat /\ Len(w) \in Nat /\ Len(v \o w) = Len(v) + Len(w)
         /\ \A i \in 1 .. Len(v) : (v \o w)[i] = v[i]
         /\ \A i \in 1 .. Len(v) + Len(w) :
              i > Len(v) => i - Len(v) \in 1 .. Len(w) /\ (v \o w)[i] = w[i - Len(v)]
  OBVIOUS

LEMMA TailElements ==
  ASSUME NEW w \in Seq(Frame), w # <<>>
  PROVE  /\ Len(w) \in Nat \ {0} /\ Len(Tail(w)) = Len(w) - 1
         /\ w[1] = Head(w)
         /\ \A i \in 1 .. Len(w) - 1 : Tail(w)[i] = w[i + 1]
  OBVIOUS

LEMMA OnlyConcat ==
  ASSUME NEW v \in Seq(Frame), NEW w \in Seq(Frame), NEW types,
         Only(v, types), Only(w, types)
  PROVE  Only(v \o w, types)
  <1> DEFINE x == v \o w
  <1>1. Len(x) = Len(v) + Len(w) /\ Len(v) \in Nat /\ Len(w) \in Nat
    BY Concatenated
  <1>2. ASSUME NEW i \in 1 .. Len(x) PROVE x[i].type \in types
    <2>1. CASE i <= Len(v)
      BY <1>1, <2>1, Concatenated DEF Only
    <2>2. CASE i > Len(v)
      BY <1>1, <2>2, Concatenated DEF Only
    <2> QED
      BY <1>1, <2>1, <2>2
  <1> QED
    BY <1>2 DEF Only

LEMMA OnlyTail ==
  ASSUME NEW w \in Seq(Frame), NEW types, w # <<>>, Only(w, types)
  PROVE  Only(Tail(w), types) /\ Head(w).type \in types
  BY TailElements DEF Only

LEMMA OnlyFrame ==
  ASSUME NEW f, NEW types, f.type \in types
  PROVE  Only(<<f>>, types) /\ Only(<<>>, types)
  BY DEF Only

----------------------------------------------------------------------------
(* Data and the two requests of the client.  down says that the server is   *)
(* stopped; behind n - 1 frames of w it will not be.                        *)

Requests == {"STARTDT_ACT", "STOPDT_ACT"}

Opened(w, n, down) ==
  /\ \A k \in 1 .. n - 1 :
       w[k].type = "STOPDT_ACT" => \E j \in k + 1 .. n - 1 : w[j].type = "STARTDT_ACT"
  /\ down => \E j \in 1 .. n - 1 : w[j].type = "STARTDT_ACT"

DataBehindStart(w, down, started) ==
  /\ \A i \in 1 .. Len(w) : w[i].type = "I_FORMAT" => Opened(w, i, down)
  /\ started => Opened(w, Len(w) + 1, down)

LEMMA OpenedPrefix ==
  ASSUME NEW v \in Seq(Frame), NEW w \in Seq(Frame), NEW down \in BOOLEAN,
         NEW n \in 1 .. Len(v) + 1, Opened(v, n, down)
  PROVE  Opened(v \o w, n, down)
  <1> DEFINE x == v \o w
  <1>1. Len(v) \in Nat /\ \A i \in 1 .. n - 1 : i \in 1 .. Len(v) /\ x[i] = v[i]
    BY Concatenated
  <1>2. ASSUME NEW k \in 1 .. n - 1, x[k].type = "STOPDT_ACT"
        PROVE  \E j \in k + 1 .. n - 1 : x[j].type = "STARTDT_ACT"
    <2>1. PICK j \in k + 1 .. n - 1 : v[j].type = "STARTDT_ACT"
      BY <1>1, <1>2 DEF Opened
    <2>2. j \in 1 .. n - 1
      BY <1>1, <2>1
    <2> QED
      BY <1>1, <2>1, <2>2
  <1>3. ASSUME down PROVE \E j \in 1 .. n - 1 : x[j].type = "STARTDT_ACT"
    BY <1>1, <1>3 DEF Opened
  <1> QED
    BY <1>2, <1>3 DEF Opened

(* The frames behind v are no requests. *)
LEMMA OpenedBehind ==
  ASSUME NEW v \in Seq(Frame), NEW w \in Seq(Frame), NEW down \in BOOLEAN,
         Opened(v, Len(v) + 1, down), Only(w, FrameType \ Requests),
         NEW n \in Nat, Len(v) < n, n <= Len(v) + Len(w) + 1
  PROVE  Opened(v \o w, n, down)
  <1> DEFINE x == v \o w
  <1>0. Len(v) \in Nat /\ Len(w) \in Nat /\ n \in Nat
    BY Concatenated
  <1>1. \A i \in 1 .. Len(v) : x[i] = v[i]
    BY Concatenated
  <1>2. ASSUME NEW k \in 1 .. n - 1, x[k].type = "STOPDT_ACT"
        PROVE  \E j \in k + 1 .. n - 1 : x[j].type = "STARTDT_ACT"
    <2>1. CASE k > Len(v)
      <3>1. k - Len(v) \in 1 .. Len(w) /\ x[k] = w[k - Len(v)]
        BY <1>0, <2>1, Concatenated
      <3> QED
        BY <1>2, <3>1 DEF Only, Requests
    <2>2. CASE k <= Len(v)
      <3>1. k \in 1 .. (Len(v) + 1) - 1 /\ v[k].type = "STOPDT_ACT"
        BY <1>0, <1>1, <1>2, <2>2
      <3>2. PICK j \in k + 1 .. (Len(v) + 1) - 1 : v[j].type = "STARTDT_ACT"
        BY <3>1 DEF Opened
      <3>3. j \in 1 .. Len(v) /\ j \in k + 1 .. n - 1
        BY <1>0, <3>1, <3>2
      <3> QED
        BY <1>1, <3>2, <3>3
    <2> QED
      BY <1>0, <2>1, <2>2
  <1>3. ASSUME down PROVE \E j \in 1 .. n - 1 : x[j].type = "STARTDT_ACT"
    <2>1. PICK j \in 1 .. (Len(v) + 1) - 1 : v[j].type = "STARTDT_ACT"
      BY <1>3 DEF Opened
    <2>2. j \in 1 .. Len(v) /\ j \in 1 .. n - 1
      BY <1>0, <2>1
    <2> QED
      BY <1>1, <2>1, <2>2
  <1> QED
    BY <1>2, <1>3 DEF Opened

(* Frames that are no requests are written behind v; data only by a client  *)
(* that has started. *)
LEMMA DataWritten ==
  ASSUME NEW v \in Seq(Frame), NEW w \in Seq(Frame), NEW down \in BOOLEAN,
         NEW started \in BOOLEAN,
         DataBehindStart(v, down, started), Only(w, FrameType \ Requests),
         started \/ Only(w, FrameType \ {"I_FORMAT"})
  PROVE  DataBehindStart(v \o w, down, started)
  <1> DEFINE x == v \o w
  <1>0. Len(v) \in Nat /\ Len(w) \in Nat /\ Len(x) = Len(v) + Len(w)
    BY Concatenated
  <1>1. ASSUME NEW i \in 1 .. Len(x), x[i].type = "I_FORMAT"
        PROVE  Opened(x, i, down)
    <2>1. CASE i <= Len(v)
      <3>1. i \in 1 .. Len(v) /\ i \in 1 .. Len(v) + 1 /\ x[i] = v[i]
        BY <1>0, <2>1, Concatenated
      <3>2. Opened(v, i, down)
        BY <1>1, <3>1 DEF DataBehindStart
      <3> QED
        BY <3>1, <3>2, OpenedPrefix
    <2>2. CASE i > Len(v)
      <3>1. i - Len(v) \in 1 .. Len(w) /\ x[i] = w[i - Len(v)]
        BY <1>0, <2>2, Concatenated
      <3>2. started
        BY <1>1, <3>1 DEF Only
      <3>3. Opened(v, Len(v) + 1, down)
        BY <3>2 DEF DataBehindStart
      <3>4. i \in Nat /\ Len(v) < i /\ i <= Len(v) + Len(w) + 1
        BY <1>0, <2>2
      <3> QED
        BY <3>3, <3>4, OpenedBehind
    <2> QED
      BY <1>0, <2>1, <2>2
  <1>2. ASSUME started PROVE Opened(x, Len(x) + 1, down)
    <2>1. Opened(v, Len(v) + 1, down)
      BY <1>2 DEF DataBehindStart
    <2>2. Len(x) + 1 \in Nat /\ Len(v) < Len(x) + 1 /\ Len(x) + 1 <= Len(v) + Len(w) + 1
      BY <1>0
    <2> QED
      BY <2>1, <2>2, OpenedBehind
  <1> QED
    BY <1>1, <1>2 DEF DataBehindStart

(* The server has read the head of w and done what it says. *)
LEMMA OpenedRead ==
  ASSUME NEW w \in Seq(Frame), w # <<>>, NEW down \in BOOLEAN, NEW after \in BOOLEAN,
         NEW n \in 2 .. Len(w) + 1, Opened(w, n, down),
         after => \/ Head(w).type = "STOPDT_ACT"
                  \/ down /\ Head(w).type # "STARTDT_ACT"
  PROVE  Opened(Tail(w), n - 1, after)
  <1> DEFINE x == Tail(w)
  <1>0. Len(w) \in Nat /\ w[1] = Head(w)
    BY TailElements
  <1>1. \A i \in 1 .. n - 2 : x[i] = w[i + 1]
    BY <1>0, TailElements
  <1>2. ASSUME NEW k \in 1 .. n - 1, w[k].type = "STOPDT_ACT"
        PROVE  \E j \in k .. (n - 1) - 1 : x[j].type = "STARTDT_ACT"
    <2>1. PICK j \in k + 1 .. n - 1 : w[j].type = "STARTDT_ACT"
      BY <1>2 DEF Opened
    <2>2. j - 1 \in k .. (n - 1) - 1 /\ j - 1 \in 1 .. n - 2 /\ (j - 1) + 1 = j
      BY <1>0, <2>1
    <2>3. x[j - 1] = w[j]
      BY <1>1, <2>2
    <2> QED
      BY <2>1, <2>2, <2>3
  <1>3. ASSUME NEW k \in 1 .. (n - 1) - 1, x[k].type = "STOPDT_ACT"
        PROVE  \E j \in k + 1 .. (n - 1) - 1 : x[j].type = "STARTDT_ACT"
    <2>1. k + 1 \in 1 .. n - 1 /\ x[k] = w[k + 1]
      BY <1>0, <1>1
    <2> QED
      BY <1>2, <1>3, <2>1
  <1>4. ASSUME after PROVE \E j \in 1 .. (n - 1) - 1 : x[j].type = "STARTDT_ACT"
    <2>1. CASE Head(w).type = "STOPDT_ACT"
      <3>1. 1 \in 1 .. n - 1 /\ w[1].type = "STOPDT_ACT"
        BY <1>0, <2>1
      <3> QED
        BY <1>2, <3>1
    <2>2. CASE down /\ Head(w).type # "STARTDT_ACT"
      <3>1. PICK j \in 1 .. n - 1 : w[j].type = "STARTDT_ACT"
        BY <2>2 DEF Opened
      <3>2. j # 1
        BY <1>0, <2>2, <3>1
      <3>3. j - 1 \in 1 .. (n - 1) - 1 /\ j - 1 \in 1 .. n - 2 /\ (j - 1) + 1 = j
        BY <1>0, <3>1, <3>2
      <3>4. x[j - 1] = w[j]
        BY <1>1, <3>3
      <3> QED
        BY <3>1, <3>3, <3>4
    <2> QED
      BY <1>4, <2>1, <2>2
  <1> QED
    BY <1>3, <1>4 DEF Opened

LEMMA DataRead ==
  ASSUME NEW w \in Seq(Frame), w # <<>>, NEW down \in BOOLEAN, NEW after \in BOOLEAN,
         NEW started \in BOOLEAN, DataBehindStart(w, down, started),
         after => \/ Head(w).type = "STOPDT_ACT"
                  \/ down /\ Head(w).type # "STARTDT_ACT"
  PROVE  DataBehindStart(Tail(w), after, started)
  <1> DEFINE x == Tail(w)
  <1>0. Len(w) \in Nat \ {0} /\ Len(x) = Len(w) - 1
    BY TailElements
  <1>1. ASSUME NEW i \in 1 .. Len(x), x[i].type = "I_FORMAT"
        PROVE  Opened(x, i, after)
    <2>1. i + 1 \in 1 .. Len(w) /\ i + 1 \in 2 .. Len(w) + 1 /\ (i + 1) - 1 = i
      BY <1>0
    <2>2. x[i] = w[i + 1]
      BY <1>0, TailElements
    <2>3. Opened(w, i + 1, down)
      BY <1>1, <2>1, <2>2 DEF DataBehindStart
    <2>4. Opened(x, (i + 1) - 1, after)
      BY <2>1, <2>3, OpenedRead
    <2> QED
      BY <2>1, <2>4
  <1>2. ASSUME started PROVE Opened(x, Len(x) + 1, after)
    <2>1. Len(w) + 1 \in 2 .. Len(w) + 1 /\ (Len(w) + 1) - 1 = Len(x) + 1
      BY <1>0
    <2>2. Opened(w, Len(w) + 1, down)
      BY <1>2 DEF DataBehindStart
    <2>3. Opened(x, (Len(w) + 1) - 1, after)
      BY <2>1, <2>2, OpenedRead
    <2> QED
      BY <2>1, <2>3
  <1> QED
    BY <1>1, <1>2 DEF DataBehindStart

(* The client writes a request. *)
LEMMA DataRequested ==
  ASSUME NEW w \in Seq(Frame), NEW f \in Frame, NEW down \in BOOLEAN,
         NEW started \in BOOLEAN, NEW after \in BOOLEAN,
         DataBehindStart(w, down, started),
         f.type = "STARTDT_ACT" \/ (f.type = "STOPDT_ACT" /\ ~after)
  PROVE  DataBehindStart(w \o <<f>>, down, after)
  <1> DEFINE x == w \o <<f>>
  <1>0. /\ Len(w) \in Nat /\ Len(x) = Len(w) + 1 /\ x[Len(w) + 1] = f
        /\ \A i \in 1 .. Len(w) : x[i] = w[i]
    OBVIOUS
  <1>1. ASSUME NEW i \in 1 .. Len(x), x[i].type = "I_FORMAT"
        PROVE  Opened(x, i, down)
    <2>1. i \in 1 .. Len(w) /\ i \in 1 .. Len(w) + 1
      BY <1>0, <1>1
    <2>2. Opened(w, i, down)
      BY <1>0, <1>1, <2>1 DEF DataBehindStart
    <2>3. <<f>> \in Seq(Frame)
      OBVIOUS
    <2> QED
      BY <2>1, <2>2, <2>3, OpenedPrefix
  <1>2. ASSUME after PROVE Opened(x, Len(x) + 1, down)
    <2>1. x[Len(x)].type = "STARTDT_ACT"
      BY <1>0, <1>2
    <2>2. Len(x) \in Nat \ {0}
      BY <1>0
    <2>3. ASSUME NEW k \in 1 .. (Len(x) + 1) - 1, x[k].type = "STOPDT_ACT"
          PROVE  \E j \in k + 1 .. (Len(x) + 1) - 1 : x[j].type = "STARTDT_ACT"
      <3>1. k # Len(x)
        BY <2>1, <2>3
      <3>2. Len(x) \in k + 1 .. (Len(x) + 1) - 1
        BY <2>2, <3>1
      <3> QED
        BY <2>1, <3>2
    <2>4. \E j \in 1 .. (Len(x) + 1) - 1 : x[j].type = "STARTDT_ACT"
      <3>1. Len(x) \in 1 .. (Len(x) + 1) - 1
        BY <2>2
      <3> QED
        BY <2>1, <3>1
    <2> QED
      BY <2>3, <2>4 DEF Opened
  <1> QED
    BY <1>1, <1>2 DEF DataBehindStart

----------------------------------------------------------------------------
(* What an endpoint writes: no requests, data only while it is started, and *)
(* STOPDT_CON, with the count of its I-frames, only where Confirming says.  *)

Confirming(p) ==
  \/ HandleSFrame(p) /\ p = Server /\ stopDtTimer /\ ~stopped[p]
  \/ HandleStopDtAct(p) /\ ~Outstanding(p)
  \/ ExecuteStopDt(p)

Plain(p, out) ==
  /\ Only(out, FrameType \ Requests)
  /\ stopped[p] => Only(out, FrameType \ {"I_FORMAT"})
  /\ \A i \in 1 .. Len(out) : out[i].type = "STOPDT_CON" =>
       out[i].vs = sent[p] /\ Confirming(p)

LEMMA PlainNothing ==
  ASSUME NEW p \in Endpoint
  PROVE  <<>> \in Seq(Frame) /\ Plain(p, <<>>)
  BY DEF Plain, Only

LEMMA PlainFrame ==
  ASSUME NEW p \in Endpoint, NEW f \in Frame, f.type \notin Requests,
         f.type = "I_FORMAT" => ~stopped[p],
         f.type = "STOPDT_CON" => f.vs = sent[p] /\ Confirming(p)
  PROVE  <<f>> \in Seq(Frame) /\ Plain(p, <<f>>)
  <1>1. f.type \in FrameType
    BY DEF Frame
  <1>2. Len(<<f>>) = 1 /\ <<f>>[1] = f /\ <<f>> \in Seq(Frame)
    OBVIOUS
  <1> QED
    BY <1>1, <1>2 DEF Plain, Only

LEMMA PlainConcat ==
  ASSUME NEW p \in Endpoint, NEW v \in Seq(Frame), NEW w \in Seq(Frame),
         Plain(p, v), Plain(p, w)
  PROVE  v \o w \in Seq(Frame) /\ Plain(p, v \o w)
  <1> DEFINE x == v \o w
  <1>1. Only(x, FrameType \ Requests) /\ (stopped[p] => Only(x, FrameType \ {"I_FORMAT"}))
    BY OnlyConcat DEF Plain
  <1>2. Len(x) = Len(v) + Len(w) /\ Len(v) \in Nat /\ Len(w) \in Nat
    BY Concatenated
  <1>3. ASSUME NEW i \in 1 .. Len(x), x[i].type = "STOPDT_CON"
        PROVE  x[i].vs = sent[p] /\ Confirming(p)
    <2>1. CASE i <= Len(v)
      <3>1. i \in 1 .. Len(v) /\ x[i] = v[i]
        BY <1>2, <2>1, Concatenated
      <3> QED
        BY <1>3, <3>1 DEF Plain
    <2>2. CASE i > Len(v)
      <3>1. i - Len(v) \in 1 .. Len(w) /\ x[i] = w[i - Len(v)]
        BY <1>2, <2>2, Concatenated
      <3> QED
        BY <1>3, <3>1 DEF Plain
    <2> QED
      BY <1>2, <2>1, <2>2
  <1>4. x \in Seq(Frame)
    OBVIOUS
  <1> QED
    BY <1>1, <1>3, <1>4 DEF Plain

LEMMA PlainSFrame ==
  ASSUME TypeOK, NEW p \in Endpoint, NEW r \in SeqNumber, NEW n \in Nat
  PROVE  LET w == <<SFrame(r, sent[p], n)>> IN w \in Seq(Frame) /\ Plain(p, w)
  <1> DEFINE f == SFrame(r, sent[p], n)
  <1>1. f \in Frame
    BY FrameTypes DEF TypeOK, SeqType
  <1>2. f.type = "S_FORMAT"
    BY DEF SFrame
  <1> HIDE DEF f
  <1>3. <<f>> \in Seq(Frame) /\ Plain(p, <<f>>)
    BY <1>1, <1>2, PlainFrame DEF Requests
  <1> QED
    BY <1>3 DEF f

LEMMA PlainUFrame ==
  ASSUME TypeOK, NEW p \in Endpoint,
         NEW type \in FrameType \ (Requests \cup {"I_FORMAT"}),
         type = "STOPDT_CON" => Confirming(p)
  PROVE  LET w == <<UFrame(p, type)>> IN w \in Seq(Frame) /\ Plain(p, w)
  <1> DEFINE f == UFrame(p, type)
  <1>1. f \in Frame
    BY UFrameTypes DEF TypeOK
  <1>2. f.type = type /\ f.vs = sent[p]
    BY DEF UFrame
  <1> HIDE DEF f
  <1>3. <<f>> \in Seq(Frame) /\ Plain(p, <<f>>)
    BY <1>1, <1>2, PlainFrame
  <1> QED
    BY <1>3 DEF f

LEMMA PlainTransmit ==
  ASSUME TypeOK, NEW p \in Endpoint, Transmit(p), ~stopped[p]
  PROVE  \E out \in Seq(Frame) : Plain(p, out) /\ Writes(p, out)
  <1> DEFINE r == receiveSequenceNumber[p]
             s == sendSequenceNumber[p]
             ack == IF Wraps(s) THEN <<SFrame(r, sent[p], received[p])>> ELSE <<>>
             f == IFrame(s, r, sent[p] + 1, received[p])
  <1>1. r \in SeqNumber /\ s \in SeqNumber /\ sent[p] \in Nat /\ received[p] \in Nat
    BY DEF TypeOK, SeqType
  <1>2. ack \in Seq(Frame) /\ Plain(p, ack)
    BY <1>1, PlainSFrame, PlainNothing
  <1>3. <<f>> \in Seq(Frame) /\ Plain(p, <<f>>)
    <2>1. f \in Frame /\ f.type = "I_FORMAT"
      BY <1>1, FrameTypes DEF IFrame
    <2> HIDE DEF f
    <2> QED
      BY <2>1, PlainFrame DEF Requests
  <1>4. Writes(p, ack \o <<f>>)
    BY DEF Transmit
  <1> HIDE DEF ack, f
  <1> QED
    BY <1>2, <1>3, <1>4, PlainConcat

(* The steps of an endpoint that write or leave the wire alone *)
LEMMA PlainWriters ==
  ASSUME TypeOK, NEW p \in Endpoint,
         \/ AppClose(p) \/ setConnectionListener(p)
         \/ Send(p) \/ SendWaits(p) \/ SenderResumes(p)
         \/ ReaderStops(p) \/ ReaderBroken(p) \/ ReaderExit(p)
         \/ \E t \in Timers : TakeTimer(p, t)
         \/ TimerThread(p) \/ ForwardASdu(p)
  PROVE  \/ UNCHANGED wire
         \/ \E out \in Seq(Frame) : Plain(p, out) /\ Writes(p, out)
  <1>1. CASE \/ AppClose(p) \/ setConnectionListener(p) \/ SendWaits(p)
             \/ ReaderStops(p) \/ ReaderBroken(p) \/ ReaderExit(p)
             \/ \E t \in Timers : TakeTimer(p, t)
             \/ ForwardASdu(p)
    BY <1>1 DEF AppClose, setConnectionListener, SendWaits, ReaderStops,
                ReaderBroken, ReaderExit, TakeTimer, ForwardASdu
  <1>2. CASE Send(p) \/ SenderResumes(p)
    <2>1. UNCHANGED wire \/ (Transmit(p) /\ ~stopped[p])
      BY <1>2 DEF Send, SenderResumes, MaySend
    <2> QED
      BY <2>1, PlainTransmit
  <1>3. CASE \/ ExecuteNoAckReceived(p) \/ TimerWriteFails(p)
             \/ TimerInterrupted(p) \/ TimerDone(p)
    BY <1>3 DEF ExecuteNoAckReceived, TimerWriteFails, TimerInterrupted, TimerDone
  <1>4. CASE ExecuteNoAckSent(p)
    <2>1. Writes(p, <<SFrame(receiveSequenceNumber[p], sent[p], received[p])>>)
      BY <1>4 DEF ExecuteNoAckSent
    <2>2. receiveSequenceNumber[p] \in SeqNumber /\ received[p] \in Nat
      BY DEF TypeOK, SeqType
    <2> QED
      BY <2>1, <2>2, PlainSFrame
  <1>5. CASE ExecuteIdle(p)
    <2>1. UNCHANGED wire \/ Writes(p, <<UFrame(p, "TESTFR_ACT")>>)
      BY <1>5 DEF ExecuteIdle
    <2> QED
      BY <2>1, PlainUFrame DEF FrameType, Requests
  <1>6. CASE ExecuteStopDt(p)
    <2>1. Writes(p, <<UFrame(p, "STOPDT_CON")>>) /\ Confirming(p)
      BY <1>6 DEF ExecuteStopDt, Confirming
    <2> QED
      BY <2>1, PlainUFrame DEF FrameType, Requests
  <1> QED
    BY <1>1, <1>2, <1>3, <1>4, <1>5, <1>6 DEF TimerThread

(* The handlers *)
Late(p) == LateIFrame(p) \/ LateSFrame(p) \/ LateAct(p) \/ LateCon(p)

Handling(p) ==
  \/ HandleIFrame(p) \/ HandleSFrame(p) \/ HandleStartDtAct(p)
  \/ HandleStopDtAct(p) \/ HandleStartDtCon(p) \/ HandleStopDtCon(p)
  \/ HandleTestFrAct(p) \/ HandleTestFrCon(p) \/ RejectFrame(p) \/ Late(p)

LEMMA PlainHandlers ==
  ASSUME TypeOK, NEW p \in Endpoint, Handling(p)
  PROVE  /\ wire[p] # <<>>
         /\ \E out \in Seq(Frame) : Plain(p, out) /\ Reads(p, out)
  <1> DEFINE f == Head(wire[p])
             n == NextSeq(f.ns)
             ack == <<SFrame(n, sent[p], received[p] + 1)>>
  <1>0. wire[p] # <<>>
    BY DEF Handling, HandleIFrame, HandleSFrame, HandleStartDtAct, HandleStopDtAct,
           HandleStartDtCon, HandleStopDtCon, HandleTestFrAct, HandleTestFrCon,
           RejectFrame, Handles, Readable, Late, LateIFrame, LateSFrame, LateAct,
           LateCon, InHand
  <1>7. CASE Late(p)
    <2>1. Reads(p, <<>>)
      BY <1>7 DEF Late, LateIFrame, LateSFrame, LateAct, LateCon
    <2> QED
      BY <1>0, <2>1, PlainNothing
  <1>1. CASE HandleIFrame(p) \/ RejectFrame(p)
    <2>1. Reads(p, <<>>) \/ Reads(p, ack)
      BY <1>1 DEF HandleIFrame, RejectFrame
    <2>2. f \in Frame
      BY <1>0, HeadType DEF TypeOK, WireType
    <2>3. f.ns \in SeqNumber /\ received[p] + 1 \in Nat
      BY <2>2 DEF Frame, TypeOK, SeqType
    <2>4. n \in SeqNumber
      BY <2>3, NextSeqType
    <2> QED
      BY <1>0, <2>1, <2>3, <2>4, PlainSFrame, PlainNothing
  <1>2. CASE HandleSFrame(p)
    <2>1. \/ Reads(p, <<>>)
          \/ Reads(p, <<UFrame(p, "STOPDT_CON")>>) /\ Confirming(p)
      BY <1>2 DEF HandleSFrame, Confirming
    <2> QED
      BY <1>0, <2>1, PlainUFrame, PlainNothing DEF FrameType, Requests
  <1>3. CASE HandleStartDtAct(p)
    <2>1. Reads(p, <<UFrame(p, "STARTDT_CON")>>)
      BY <1>3 DEF HandleStartDtAct
    <2> QED
      BY <1>0, <2>1, PlainUFrame DEF FrameType, Requests
  <1>4. CASE HandleTestFrAct(p)
    <2>1. Reads(p, <<UFrame(p, "TESTFR_CON")>>)
      BY <1>4 DEF HandleTestFrAct
    <2> QED
      BY <1>0, <2>1, PlainUFrame DEF FrameType, Requests
  <1>5. CASE HandleStartDtCon(p) \/ HandleStopDtCon(p) \/ HandleTestFrCon(p)
    <2>1. Reads(p, <<>>)
      BY <1>5 DEF HandleStartDtCon, HandleStopDtCon, HandleTestFrCon
    <2> QED
      BY <1>0, <2>1, PlainNothing
  <1>6. CASE HandleStopDtAct(p)
    <2> DEFINE r == receiveSequenceNumber[p]
               v == IF numUnconfirmedIPdusReceived(p) > 0
                    THEN <<SFrame(r, sent[p], received[p])>> ELSE <<>>
               w == IF Outstanding(p) THEN <<>> ELSE <<UFrame(p, "STOPDT_CON")>>
    <2>1. Reads(p, v \o w)
      BY <1>6 DEF HandleStopDtAct
    <2>2. v \in Seq(Frame) /\ Plain(p, v)
      <3>1. r \in SeqNumber /\ received[p] \in Nat
        BY DEF TypeOK, SeqType
      <3> QED
        BY <3>1, PlainSFrame, PlainNothing
    <2>3. w \in Seq(Frame) /\ Plain(p, w)
      <3>1. CASE Outstanding(p)
        BY <3>1, PlainNothing
      <3>2. CASE ~Outstanding(p)
        <4>1. Confirming(p)
          BY <1>6, <3>2 DEF Confirming
        <4> QED
          BY <3>2, <4>1, PlainUFrame DEF FrameType, Requests
      <3> QED
        BY <3>1, <3>2
    <2> HIDE DEF v, w
    <2> QED
      BY <1>0, <2>1, <2>2, <2>3, PlainConcat
  <1> QED
    BY <1>1, <1>2, <1>3, <1>4, <1>5, <1>6, <1>7 DEF Handling

----------------------------------------------------------------------------
(* No data while stopped *)

Started == ~stopped[Client] \/ control = "startAwait"

DataInv ==
  /\ DataBehindStart(wire[Server], stopped[Server], Started)
  /\ control \notin {"idle", "startAwait"} => stopped[Client]
  /\ Only(wire[Client], FrameType \ Requests)

LEMMA Ends ==
  /\ Client \in Endpoint /\ Server \in Endpoint /\ Client # Server
  /\ Peer(Client) = Server /\ Peer(Server) = Client
  /\ \A p \in Endpoint : p = Client \/ p = Server
  BY EndpointAssumption DEF Endpoint, Peer

LEMMA DataTypes ==
  ASSUME TypeOK
  PROVE  /\ wire[Client] \in Seq(Frame) /\ wire[Server] \in Seq(Frame)
         /\ stopped[Client] \in BOOLEAN /\ stopped[Server] \in BOOLEAN
         /\ Started \in BOOLEAN
  BY Ends DEF TypeOK, TransferType, Started

LEMMA DataQuiet ==
  ASSUME DataInv, UNCHANGED <<wire, stopped, control>>
  PROVE  DataInv'
  <1>1. Started' = Started
    BY DEF Started
  <1> QED
    BY <1>1 DEF DataInv

LEMMA DataWrites ==
  ASSUME TypeOK, DataInv, NEW p \in Endpoint, NEW out \in Seq(Frame),
         Plain(p, out), Writes(p, out), UNCHANGED <<stopped, control>>
  PROVE  DataInv'
  <1>0. Started' = Started
    BY DEF Started
  <1>1. CASE p = Client
    <2>1. wire'[Server] = wire[Server] \o out /\ wire'[Client] = wire[Client]
      BY <1>1, WritesAt, Ends
    <2>2. Started \/ Only(out, FrameType \ {"I_FORMAT"})
      BY <1>1, DataTypes DEF Plain, Started
    <2>3. DataBehindStart(wire[Server] \o out, stopped[Server], Started)
      BY <2>2, DataTypes, DataWritten DEF DataInv, Plain
    <2> QED
      BY <1>0, <2>1, <2>3 DEF DataInv
  <1>2. CASE p = Server
    <2>0. Peer(p) = Client
      BY <1>2, Ends
    <2>1. wire'[Client] = wire[Client] \o out /\ wire'[Server] = wire[Server]
      BY <1>2, <2>0, WritesAt
    <2>2. Only(wire[Client] \o out, FrameType \ Requests)
      BY DataTypes, OnlyConcat DEF DataInv, Plain
    <2> QED
      BY <1>0, <2>1, <2>2 DEF DataInv
  <1> QED
    BY <1>1, <1>2, Ends

(* Only the server receives requests, and does what they say. *)
LEMMA DataReads ==
  ASSUME TypeOK, DataInv, NEW p \in Endpoint, NEW out \in Seq(Frame),
         Plain(p, out), wire[p] # <<>>, Reads(p, out), UNCHANGED control,
         IF Head(wire[p]).type \in Requests
         THEN stopped' = [stopped EXCEPT ![p] = Head(wire[p]).type = "STOPDT_ACT"]
         ELSE UNCHANGED stopped
  PROVE  DataInv'
  <1>1. CASE p = Client
    <2>1. wire'[Server] = wire[Server] \o out /\ wire'[Client] = Tail(wire[Client])
      BY <1>1, ReadsAt, Ends
    <2>2. /\ Only(Tail(wire[Client]), FrameType \ Requests)
          /\ Head(wire[Client]).type \notin Requests
      BY <1>1, DataTypes, OnlyTail DEF DataInv
    <2>3. UNCHANGED stopped /\ Started' = Started
      BY <1>1, <2>2 DEF Started
    <2>4. Started \/ Only(out, FrameType \ {"I_FORMAT"})
      BY <1>1, DataTypes DEF Plain, Started
    <2>5. DataBehindStart(wire[Server] \o out, stopped[Server], Started)
      BY <2>4, DataTypes, DataWritten DEF DataInv, Plain
    <2> QED
      BY <2>1, <2>2, <2>3, <2>5 DEF DataInv
  <1>2. CASE p = Server
    <2> DEFINE f == Head(wire[Server])
    <2>1. wire'[Client] = wire[Client] \o out /\ wire'[Server] = Tail(wire[Server])
      BY <1>2, ReadsAt, Ends
    <2>2. Only(wire[Client] \o out, FrameType \ Requests)
      BY DataTypes, OnlyConcat DEF DataInv, Plain
    <2>3. stopped'[Client] = stopped[Client] /\ Started' = Started
      BY <1>2, Ends DEF Started, TypeOK, TransferType
    <2>4. stopped'[Server] = IF f.type \in Requests THEN f.type = "STOPDT_ACT"
                                                    ELSE stopped[Server]
      BY <1>2, Ends DEF TypeOK, TransferType
    <2> HIDE DEF f
    <2>5. /\ stopped'[Server] \in BOOLEAN
          /\ stopped'[Server] => \/ f.type = "STOPDT_ACT"
                                 \/ stopped[Server] /\ f.type # "STARTDT_ACT"
      BY <2>4, DataTypes DEF Requests
    <2>6. DataBehindStart(Tail(wire[Server]), stopped'[Server], Started)
      BY <1>2, <2>5, DataTypes, DataRead DEF DataInv, f
    <2> QED
      BY <2>1, <2>2, <2>3, <2>6 DEF DataInv
  <1> QED
    BY <1>1, <1>2, Ends

LEMMA DataReader ==
  ASSUME TypeOK, DataInv, NEW p \in Endpoint, Handling(p)
  PROVE  DataInv'
  <1> DEFINE f == Head(wire[p])
  <1>1. PICK out \in Seq(Frame) : Plain(p, out) /\ Reads(p, out)
    BY PlainHandlers
  <1>2. wire[p] # <<>>
    BY PlainHandlers
  <1>3. UNCHANGED control
    BY DEF Handling, HandleIFrame, HandleSFrame, HandleStartDtAct, HandleStopDtAct,
           HandleStartDtCon, HandleStopDtCon, HandleTestFrAct, HandleTestFrCon,
           RejectFrame, Late, LateIFrame, LateSFrame, LateAct, LateCon, controlVars
  <1>4. IF f.type \in Requests
        THEN stopped' = [stopped EXCEPT ![p] = f.type = "STOPDT_ACT"]
        ELSE UNCHANGED stopped
    <2>1. CASE HandleStartDtAct(p) \/ HandleStopDtAct(p)
      BY <2>1 DEF HandleStartDtAct, HandleStopDtAct, Handles, Requests
    <2>3. CASE LateAct(p)
      <3> DEFINE stop == f.type = "STOPDT_ACT"
                 start == f.type = "STARTDT_ACT"
      <3>1. stopped' = [stopped EXCEPT ![p] = stop \/ (@ /\ ~start)]
        BY <2>3 DEF LateAct
      <3>2. stopped \in [Endpoint -> BOOLEAN]
        BY DEF TypeOK, TransferType
      <3>3. CASE stop
        <4>1. stop \/ (stopped[p] /\ ~start) <=> TRUE
          BY <3>3
        <4> QED
          BY <3>1, <3>2, <3>3, <4>1 DEF Requests
      <3>4. CASE start
        <4>1. ~stop
          BY <3>4
        <4> QED
          BY <3>1, <3>2, <3>4, <4>1 DEF Requests
      <3>5. CASE ~stop /\ ~start
        BY <3>1, <3>2, <3>5 DEF Requests
      <3> QED
        BY <3>3, <3>4, <3>5
    <2>2. CASE ~HandleStartDtAct(p) /\ ~HandleStopDtAct(p) /\ ~LateAct(p)
      <3>1. UNCHANGED stopped /\ f.type \notin Requests
        BY <2>2 DEF Handling, HandleIFrame, HandleSFrame, HandleStartDtCon,
             HandleStopDtCon, HandleTestFrAct, HandleTestFrCon, RejectFrame, Handles,
             Late, LateIFrame, LateSFrame, LateCon,
             transferVars, Requests, StopRejects, NumberRejects
      <3> QED
        BY <3>1
    <2> QED
      BY <2>1, <2>2, <2>3
  <1> QED
    BY <1>1, <1>2, <1>3, <1>4, DataReads

LEMMA DataControl ==
  ASSUME TypeOK, DataInv, ControlCalls \/ ControlThread
  PROVE  DataInv'
  <1>0. stopped'[Server] = stopped[Server]
    BY Ends DEF ControlCalls, ControlThread, StartDataTransfer, StopDataTransfer,
         StartConfirmed, StartTimesOut, StopReadsDiff, StopReadsNumber, StopWritesSFrame,
         StopRecordsSFrame, StopCancelsTimer, StopSendsAct, StopFails, StopReturns,
         transferVars, TypeOK, TransferType
  (* a step that may end the start but never begins one *)
  <1>1. ASSUME Started' => Started, control' \notin {"idle", "startAwait"} => stopped'[Client],
               UNCHANGED wire
        PROVE  DataInv'
    BY <1>0, <1>1 DEF DataInv, DataBehindStart
  (* a request is written *)
  <1>2. ASSUME NEW type \in Requests, Writes(Client, <<UFrame(Client, type)>>),
               type = "STOPDT_ACT" => ~Started',
               control' \notin {"idle", "startAwait"} => stopped'[Client]
        PROVE  DataInv'
    <2> DEFINE f == UFrame(Client, type)
    <2>1. f \in Frame /\ f.type = type
      BY UFrameTypes, Ends DEF TypeOK, Requests, FrameType, UFrame
    <2>2. wire'[Server] = wire[Server] \o <<f>> /\ wire'[Client] = wire[Client]
      BY <1>2, WritesAt, Ends
    <2> HIDE DEF f
    <2>3. Started' \in BOOLEAN
      BY DEF Started
    <2>4. DataBehindStart(wire[Server], stopped[Server], Started)
      BY DEF DataInv
    <2>5. f.type = "STARTDT_ACT" \/ (f.type = "STOPDT_ACT" /\ ~Started')
      BY <1>2, <2>1 DEF Requests
    <2>6. DataBehindStart(wire[Server] \o <<f>>, stopped[Server], Started')
      BY <2>1, <2>3, <2>4, <2>5, DataTypes, DataRequested
    <2> QED
      BY <1>0, <1>2, <2>2, <2>6 DEF DataInv
  <1>3. CASE StartDataTransfer
    <2>1. /\ Writes(Client, <<UFrame(Client, "STARTDT_ACT")>>)
          /\ control' = "startAwait"
      BY <1>3 DEF StartDataTransfer, At
    <2> QED
      BY <1>2, <2>1 DEF Requests
  <1>4. CASE StopDataTransfer
    <2>1. stopped'[Client] = TRUE /\ control' = "stopDiff" /\ UNCHANGED wire
      BY <1>4, Ends DEF StopDataTransfer, At, TypeOK, TransferType
    <2> QED
      BY <1>1, <2>1 DEF Started
  <1>5. CASE StartConfirmed \/ StartTimesOut
    <2>1. control = "startAwait" /\ control' = "idle" /\ UNCHANGED wire
      BY <1>5 DEF StartConfirmed, StartTimesOut, At
    <2> QED
      BY <1>1, <2>1 DEF Started
  <1>6. CASE \/ StopReadsDiff \/ StopReadsNumber \/ StopRecordsSFrame
             \/ StopCancelsTimer \/ StopFails \/ StopReturns
    <2>1. /\ control \notin {"idle", "startAwait"} /\ control' # "startAwait"
          /\ UNCHANGED <<stopped, wire>>
      BY <1>6 DEF StopReadsDiff, StopReadsNumber, StopRecordsSFrame, StopCancelsTimer, StopFails,
                  StopReturns, At, transferVars
    <2> QED
      BY <1>1, <2>1 DEF Started, DataInv
  <1>7. CASE StopWritesSFrame
    <2> DEFINE out == <<SFrame(stopNr, sent[Client], stopCount)>>
    <2>1. /\ control = "stopWrite" /\ control' = "stopRecord" /\ UNCHANGED stopped
          /\ Writes(Client, out)
      BY <1>7 DEF StopWritesSFrame, At, transferVars
    <2>2. stopNr \in SeqNumber /\ stopCount \in Nat
      BY DEF TypeOK, ControlType
    <2>3. out \in Seq(Frame) /\ Plain(Client, out)
      BY <2>2, Ends, PlainSFrame
    <2> HIDE DEF out
    <2>4. wire'[Server] = wire[Server] \o out /\ wire'[Client] = wire[Client]
      BY <2>1, WritesAt, Ends
    <2>5. stopped[Client] /\ Started' = Started
      BY <2>1 DEF DataInv, Started
    <2>6. DataBehindStart(wire[Server] \o out, stopped[Server], Started)
      BY <2>3, <2>5, DataTypes, DataWritten DEF DataInv, Plain
    <2> QED
      BY <1>0, <2>1, <2>4, <2>5, <2>6 DEF DataInv
  <1>8. CASE StopSendsAct
    <2>1. /\ Writes(Client, <<UFrame(Client, "STOPDT_ACT")>>) /\ UNCHANGED stopped
          /\ control = "stopSend" /\ control' = "stopAwait"
      BY <1>8 DEF StopSendsAct, At, transferVars
    <2>2. stopped'[Client] /\ ~Started'
      BY <2>1 DEF DataInv, Started
    <2> QED
      BY <1>2, <2>1, <2>2 DEF Requests
  <1> QED
    BY <1>3, <1>4, <1>5, <1>6, <1>7, <1>8 DEF ControlCalls, ControlThread

LEMMA DataStep == TypeOK /\ DataInv /\ [Next]_vars => DataInv'
  <1> SUFFICES ASSUME TypeOK, DataInv, [Next]_vars
               PROVE  DataInv'
    OBVIOUS
  <1>1. CASE UNCHANGED vars
    BY <1>1, DataQuiet DEF vars, transferVars, controlVars
  <1>2. ASSUME NEW p \in Endpoint,
               \/ AppClose(p) \/ setConnectionListener(p)
               \/ Send(p) \/ SendWaits(p) \/ SenderResumes(p)
               \/ ReaderStops(p) \/ ReaderBroken(p) \/ ReaderExit(p)
               \/ \E t \in Timers : TakeTimer(p, t)
               \/ TimerThread(p) \/ ForwardASdu(p)
        PROVE  DataInv'
    <2>1. UNCHANGED <<stopped, control>>
      BY <1>2 DEF AppClose, setConnectionListener, Send, SendWaits, SenderResumes,
             ReaderStops, ReaderBroken, ReaderExit, TakeTimer, TimerThread,
             ExecuteNoAckReceived, ExecuteNoAckSent, ExecuteIdle, ExecuteStopDt,
             TimerWriteFails, TimerInterrupted, TimerDone, ForwardASdu,
             transferVars, controlVars
    <2>2. \/ UNCHANGED wire
          \/ \E out \in Seq(Frame) : Plain(p, out) /\ Writes(p, out)
      BY <1>2, PlainWriters
    <2> QED
      BY <2>1, <2>2, DataQuiet, DataWrites
  <1>3. ASSUME NEW p \in Endpoint, Handling(p)
        PROVE  DataInv'
    BY <1>3, DataReader
  <1>4. CASE ControlCalls \/ ControlThread
    BY <1>4, DataControl
  <1> QED
    BY <1>1, <1>2, <1>3, <1>4 DEF Next, ReaderThread, Handling, Late

LEMMA DataInit == Init => DataInv
  BY Ends DEF Init, DataInv, DataBehindStart, Started, Only

(* No I-frame ever reaches a server in state STOPDT: whatever calls of      *)
(* startDataTransfer and stopDataTransfer have timed out and been repeated, *)
(* the client sends data only behind a STARTDT_ACT that no STOPDT_ACT has   *)
(* followed, so closeIfStopped never throws for it.                         *)
THEOREM DataOnlyWhileStarted == Spec => []NoDataWhileStopped
  <1>1. TypeOK /\ DataInv => NoDataWhileStopped
    <2> SUFFICES ASSUME TypeOK, DataInv, Readable(Server) \/ InHand(Server),
                        Head(wire[Server]).type = "I_FORMAT"
                 PROVE  ~stopped[Server]
      BY DEF NoDataWhileStopped, StopRejects
    <2>1. wire[Server] # <<>>
      BY DEF Readable, InHand
    <2>2. Len(wire[Server]) \in Nat \ {0} /\ wire[Server][1] = Head(wire[Server])
      BY <2>1, DataTypes, TailElements
    <2>3. Opened(wire[Server], 1, stopped[Server])
      BY <2>2 DEF DataInv, DataBehindStart
    <2> QED
      BY <2>3 DEF Opened
  <1> QED
    BY <1>1, TypeInit, TypeStep, DataInit, DataStep, PTL DEF Spec

----------------------------------------------------------------------------
(* The listener of the client *)

HasListened == delivered[Client] # <<>> \/ tasks[Client] # <<>>

(* Until the second stop a listener that has had an ASDU is set, or kept    *)
(* for connectionClosed while data transfer is stopped. *)
ToldInv ==
  /\ stops = 0 => ~aSduListenerBack[Client]
  /\ HasListened /\ stops <= 1 =>
       /\ aSduListener[Client] \/ (stopped[Client] /\ aSduListenerBack[Client])
       /\ reader[Client] = "done" => notified[Client] >= 1

ClientListening == <<aSduListener[Client], aSduListenerBack[Client], stopped[Client]>>

LEMMA ToldQuiet ==
  ASSUME ToldInv, UNCHANGED ClientListening, UNCHANGED stops,
         HasListened' => HasListened,
         reader'[Client] = "done" => reader[Client] = "done",
         notified[Client] >= 1 => notified'[Client] >= 1
  PROVE  ToldInv'
  BY DEF ToldInv, ClientListening

LEMMA ToldElsewhere ==
  ASSUME TypeOK, ToldInv, NEW p \in Endpoint, p # Client,
         AppClose(p) \/ setConnectionListener(p) \/ ForwardASdu(p) \/ Handling(p)
           \/ ReaderStops(p) \/ ReaderBroken(p) \/ ReaderExit(p) \/ TimerThread(p)
  PROVE  ToldInv'
  <1>0. Client \in Endpoint
    BY Ends
  <1>1. UNCHANGED ClientListening
    BY <1>0 DEF AppClose, setConnectionListener, ForwardASdu, Handling,
         HandleIFrame, HandleSFrame, HandleStartDtAct, HandleStopDtAct,
         HandleStartDtCon, HandleStopDtCon, HandleTestFrAct, HandleTestFrCon,
         RejectFrame, Late, LateIFrame, LateSFrame, LateAct, LateCon, FrameInHand,
         ReaderStops, ReaderBroken, ReaderExit, TimerThread, ExecuteNoAckReceived, ExecuteNoAckSent, ExecuteIdle, ExecuteStopDt,
         TimerWriteFails, TimerInterrupted, TimerDone, transferVars,
         ClientListening, TypeOK, TransferType
  <1>2. UNCHANGED stops
    BY DEF AppClose, setConnectionListener, ForwardASdu, Handling,
         HandleIFrame, HandleSFrame, HandleStartDtAct, HandleStopDtAct,
         HandleStartDtCon, HandleStopDtCon, HandleTestFrAct, HandleTestFrCon,
         RejectFrame, Late, LateIFrame, LateSFrame, LateAct, LateCon, FrameInHand,
         ReaderStops, ReaderBroken, ReaderExit, TimerThread, ExecuteNoAckReceived, ExecuteNoAckSent, ExecuteIdle, ExecuteStopDt,
         TimerWriteFails, TimerInterrupted, TimerDone, controlVars
  <1>3. delivered'[Client] = delivered[Client] /\ tasks'[Client] = tasks[Client]
    BY <1>0 DEF AppClose, setConnectionListener, ForwardASdu, Handling,
         HandleIFrame, HandleSFrame, HandleStartDtAct, HandleStopDtAct,
         HandleStartDtCon, HandleStopDtCon, HandleTestFrAct, HandleTestFrCon,
         RejectFrame, Late, LateIFrame, LateSFrame, LateAct, LateCon, FrameInHand,
         ReaderStops, ReaderBroken, ReaderExit, TimerThread, ExecuteNoAckReceived, ExecuteNoAckSent, ExecuteIdle, ExecuteStopDt,
         TimerWriteFails, TimerInterrupted, TimerDone, deliveryVars,
         TypeOK, DeliveryType
  <1>4. reader'[Client] = reader[Client] /\ notified'[Client] = notified[Client]
    BY <1>0 DEF AppClose, setConnectionListener, ForwardASdu, Handling,
         HandleIFrame, HandleSFrame, HandleStartDtAct, HandleStopDtAct,
         HandleStartDtCon, HandleStopDtCon, HandleTestFrAct, HandleTestFrCon,
         RejectFrame, Late, LateIFrame, LateSFrame, LateAct, LateCon, FrameInHand,
         ReaderStops, ReaderBroken, ReaderExit, TimerThread, ExecuteNoAckReceived, ExecuteNoAckSent, ExecuteIdle, ExecuteStopDt,
         TimerWriteFails, TimerInterrupted, TimerDone, closeVars, TypeOK, CloseType
  <1> QED
    BY <1>1, <1>2, <1>3, <1>4, ToldQuiet DEF HasListened

(* The client receives no request, which would take its listener away. *)
LEMMA NoRequestAtClient ==
  ASSUME TypeOK, DataInv
  PROVE  /\ ~HandleStartDtAct(Client) /\ ~HandleStopDtAct(Client)
         /\ LateAct(Client) => UNCHANGED <<stopped, aSduListener, aSduListenerBack>>
  <1> DEFINE stop == Head(wire[Client]).type = "STOPDT_ACT"
             start == Head(wire[Client]).type = "STARTDT_ACT"
  <1>1. wire[Client] # <<>> => ~stop /\ ~start
    BY DataTypes, OnlyTail DEF DataInv, Requests
  <1>2. ~HandleStartDtAct(Client) /\ ~HandleStopDtAct(Client)
    BY <1>1 DEF HandleStartDtAct, HandleStopDtAct, Handles, Readable
  <1>3. ASSUME LateAct(Client)
        PROVE  UNCHANGED <<stopped, aSduListener, aSduListenerBack>>
    <2>1. /\ wire[Client] # <<>>
          /\ stopped' = [stopped EXCEPT ![Client] = stop \/ (@ /\ ~start)]
          /\ aSduListenerBack' =
               [aSduListenerBack EXCEPT ![Client] = @ \/ (stop /\ aSduListener[Client])]
          /\ aSduListener' = [aSduListener EXCEPT
               ![Client] = ~stop /\ (@ \/ (start /\ aSduListenerBack[Client]))]
      BY <1>3 DEF LateAct, InHand
    <2>2. ~stop /\ ~start
      BY <1>1, <2>1
    <2>3. Client \in Endpoint /\ stopped \in [Endpoint -> BOOLEAN]
          /\ aSduListener \in [Endpoint -> BOOLEAN]
          /\ aSduListenerBack \in [Endpoint -> BOOLEAN]
      BY Ends DEF TypeOK, TransferType
    <2> HIDE DEF stop, start
    <2>4. /\ (stop \/ (stopped[Client] /\ ~start)) = stopped[Client]
          /\ (aSduListenerBack[Client] \/ (stop /\ aSduListener[Client]))
               = aSduListenerBack[Client]
          /\ (~stop /\ (aSduListener[Client] \/ (start /\ aSduListenerBack[Client])))
               = aSduListener[Client]
      BY <2>2, <2>3
    <2> QED
      BY <2>1, <2>3, <2>4
  <1> QED
    BY <1>2, <1>3

LEMMA ToldHandler ==
  ASSUME TypeOK, DataInv, ToldInv, Handling(Client)
  PROVE  ToldInv'
  <1>0. Client \in Endpoint /\ aSduListener[Client] \in BOOLEAN
    BY Ends DEF TypeOK, TransferType
  <1>1. /\ ~HandleStartDtAct(Client) /\ ~HandleStopDtAct(Client)
        /\ LateAct(Client) => UNCHANGED <<stopped, aSduListener, aSduListenerBack>>
    BY NoRequestAtClient
  <1>2. UNCHANGED ClientListening
    BY <1>1 DEF Handling, HandleIFrame, HandleSFrame, HandleStartDtCon,
         HandleStopDtCon, HandleTestFrAct, HandleTestFrCon, RejectFrame,
         Late, LateIFrame, LateSFrame, LateCon, transferVars, ClientListening
  <1>3. UNCHANGED <<stops, notified>>
    BY <1>1 DEF Handling, HandleIFrame, HandleSFrame, HandleStartDtCon,
         HandleStopDtCon, HandleTestFrAct, HandleTestFrCon, RejectFrame,
         Late, LateIFrame, LateSFrame, LateAct, LateCon, controlVars, closeVars
  <1>4. reader'[Client] # "done"
    <2>1. reader[Client] \in {"reading", "late"}
      BY <1>1 DEF Handling, HandleIFrame, HandleSFrame, HandleStartDtCon,
           HandleStopDtCon, HandleTestFrAct, HandleTestFrCon, RejectFrame,
           Handles, Readable, Late, LateIFrame, LateSFrame, LateAct, LateCon, InHand
    <2>2. \/ UNCHANGED reader
          \/ \E to \in {"reading", "failing"} : reader' = [reader EXCEPT ![Client] = to]
      BY <1>1 DEF Handling, HandleIFrame, HandleSFrame, HandleStartDtCon,
           HandleStopDtCon, HandleTestFrAct, HandleTestFrCon, RejectFrame,
           Late, LateIFrame, LateSFrame, LateAct, LateCon
    <2> QED
      BY <1>0, <2>1, <2>2 DEF TypeOK
  <1>5. CASE HandleIFrame(Client) \/ LateIFrame(Client)
    <2>1. CASE aSduListener[Client]
      BY <1>2, <1>3, <1>4, <2>1 DEF ToldInv, ClientListening
    <2>2. CASE ~aSduListener[Client]
      <3>1. UNCHANGED <<delivered, tasks>>
        <4>1. CASE HandleIFrame(Client)
          BY <2>2, <4>1 DEF HandleIFrame
        <4>2. CASE LateIFrame(Client)
          <5>1. UNCHANGED delivered /\ tasks' = [tasks EXCEPT ![Client] = @]
            BY <2>2, <4>2 DEF LateIFrame
          <5> QED
            BY <5>1 DEF TypeOK, DeliveryType
        <4> QED
          BY <1>5, <4>1, <4>2
      <3> QED
        BY <1>2, <1>3, <1>4, <3>1, ToldQuiet DEF HasListened
    <2> QED
      BY <1>0, <2>1, <2>2
  <1>6. CASE ~HandleIFrame(Client) /\ ~LateIFrame(Client)
    <2>1. UNCHANGED <<delivered, tasks>>
      BY <1>1, <1>6 DEF Handling, HandleSFrame, HandleStartDtCon,
           HandleStopDtCon, HandleTestFrAct, HandleTestFrCon, RejectFrame,
           Late, LateSFrame, LateAct, LateCon, deliveryVars
    <2> QED
      BY <1>2, <1>3, <1>4, <2>1, ToldQuiet DEF HasListened
  <1> QED
    BY <1>5, <1>6

LEMMA ToldExit ==
  ASSUME TypeOK, ToldInv, ReaderExit(Client)
  PROVE  ToldInv'
  <1>0. Client \in Endpoint /\ notified[Client] \in Nat /\ tasks[Client] \in Seq(Nat)
    BY Ends DEF TypeOK, CloseType, DeliveryType
  <1>1. /\ UNCHANGED <<aSduListener, aSduListenerBack, stopped, delivered, stops>>
        /\ notified' = [notified EXCEPT ![Client] = @ + ClosedCalls(Client)]
    BY DEF ReaderExit, transferVars, controlVars
  <1>2. HasListened' => HasListened
    <2>1. \/ UNCHANGED tasks
          \/ tasks' = [tasks EXCEPT ![Client] =
                         SubSeq(@, 1, IF @ = <<>> THEN 0 ELSE 1)]
      BY DEF ReaderExit
    <2>2. SubSeq(<<>>, 1, 0) = <<>>
      OBVIOUS
    <2>3. tasks[Client] = <<>> => tasks'[Client] = <<>>
      BY <1>0, <2>1, <2>2 DEF TypeOK, DeliveryType
    <2> QED
      BY <1>1, <2>3 DEF HasListened
  <1>3. ASSUME aSduListener[Client] \/ (stopped[Client] /\ aSduListenerBack[Client])
        PROVE  notified'[Client] >= 1
    <2>1. ClosedCalls(Client) \in Nat /\ ClosedCalls(Client) >= 1
      BY <1>3 DEF ClosedCalls
    <2> QED
      BY <1>0, <1>1, <2>1 DEF TypeOK, CloseType
  <1> QED
    BY <1>1, <1>2, <1>3 DEF ToldInv, HasListened

LEMMA ToldClient ==
  ASSUME TypeOK, ToldInv,
         AppClose(Client) \/ setConnectionListener(Client) \/ ForwardASdu(Client)
           \/ ReaderStops(Client) \/ ReaderBroken(Client) \/ TimerThread(Client)
  PROVE  ToldInv'
  <1>0. Client \in Endpoint /\ notified[Client] \in Nat
    BY Ends DEF TypeOK, CloseType
  <1>1. CASE setConnectionListener(Client)
    <2>1. aSduListener'[Client] = TRUE
      BY <1>0, <1>1 DEF setConnectionListener, TypeOK, TransferType
    <2>2. UNCHANGED <<aSduListenerBack, stopped, stops, delivered, tasks, reader, notified>>
      BY <1>1 DEF setConnectionListener, deliveryVars, controlVars, closeVars
    <2> QED
      BY <2>1, <2>2 DEF ToldInv, HasListened
  <1>2. CASE ForwardASdu(Client)
    <2>1. UNCHANGED <<ClientListening, stops, reader, notified>> /\ HasListened
      BY <1>2 DEF ForwardASdu, transferVars, controlVars, closeVars,
           ClientListening, HasListened
    <2> QED
      BY <2>1, ToldQuiet
  <1>3. CASE AppClose(Client) \/ ReaderStops(Client) \/ ReaderBroken(Client)
    <2>1. UNCHANGED <<ClientListening, stops, delivered, tasks, notified>>
      BY <1>3 DEF AppClose, ReaderStops, ReaderBroken, transferVars, controlVars,
           deliveryVars, ClientListening
    <2>2. reader'[Client] = "done" => reader[Client] = "done"
      BY <1>0, <1>3 DEF AppClose, FrameInHand, ReaderStops, ReaderBroken, TypeOK
    <2> QED
      BY <2>1, <2>2, ToldQuiet DEF HasListened
  <1>4. CASE TimerThread(Client)
    <2>1. UNCHANGED <<ClientListening, stops, delivered, tasks>>
      BY <1>4 DEF TimerThread, ExecuteNoAckReceived, ExecuteNoAckSent, ExecuteIdle,
           ExecuteStopDt, TimerWriteFails, TimerInterrupted, TimerDone,
           transferVars, controlVars, deliveryVars, ClientListening
    <2>4. reader'[Client] = "done" => reader[Client] = "done"
      BY <1>0, <1>4 DEF TimerThread, ExecuteNoAckReceived, FrameInHand,
           ExecuteNoAckSent, ExecuteIdle, ExecuteStopDt, TimerWriteFails,
           TimerInterrupted, TimerDone, TypeOK
    <2>2. \/ UNCHANGED notified
          \/ notified' = [notified EXCEPT
               ![Client] = @ + IF aSduListener[Client] THEN 1 ELSE 0]
      BY <1>4 DEF TimerThread, ExecuteNoAckReceived, ExecuteNoAckSent, ExecuteIdle,
           ExecuteStopDt, TimerWriteFails, TimerInterrupted, TimerDone, closeVars
    <2>3. notified[Client] >= 1 => notified'[Client] >= 1
      BY <1>0, <2>2 DEF TypeOK, CloseType
    <2> QED
      BY <2>1, <2>3, <2>4, ToldQuiet DEF HasListened
  <1> QED
    BY <1>1, <1>2, <1>3, <1>4

LEMMA ToldControl ==
  ASSUME TypeOK, ToldInv, ControlCalls \/ ControlThread
  PROVE  ToldInv'
  <1>0. Client \in Endpoint /\ stops \in Nat
    BY Ends DEF TypeOK, ControlType
  <1>1. UNCHANGED <<delivered, tasks, reader, notified>>
    BY DEF ControlCalls, ControlThread, StartDataTransfer, StopDataTransfer,
         StartConfirmed, StartTimesOut, StopReadsDiff, StopReadsNumber, StopWritesSFrame,
         StopRecordsSFrame, StopCancelsTimer, StopSendsAct, StopFails, StopReturns,
         deliveryVars, closeVars
  <1>2. CASE StopDataTransfer
    <2>1. /\ stops' = stops + 1 /\ stopped'[Client] = TRUE
          /\ aSduListenerBack'[Client] = aSduListener[Client]
      BY <1>0, <1>2 DEF StopDataTransfer, TypeOK, TransferType
    <2>2. stops' # 0 /\ (stops' <= 1 => stops = 0 /\ stops <= 1)
      BY <1>0, <2>1
    <2> QED
      BY <1>1, <2>1, <2>2 DEF ToldInv, HasListened
  <1>3. CASE StartConfirmed
    <2>1. aSduListener'[Client] = TRUE /\ UNCHANGED <<aSduListenerBack, stops>>
      BY <1>0, <1>3 DEF StartConfirmed, TypeOK, TransferType
    <2> QED
      BY <1>1, <2>1 DEF ToldInv, HasListened
  <1>4. CASE ~StopDataTransfer /\ ~StartConfirmed
    <2>1. UNCHANGED <<ClientListening, stops>>
      BY <1>4 DEF ControlCalls, ControlThread, StartDataTransfer,
         StartTimesOut, StopReadsDiff, StopReadsNumber, StopWritesSFrame,
         StopRecordsSFrame, StopCancelsTimer, StopSendsAct, StopFails, StopReturns,
         transferVars, ClientListening
    <2> QED
      BY <1>1, <2>1, ToldQuiet DEF HasListened
  <1> QED
    BY <1>2, <1>3, <1>4

LEMMA ToldStep == TypeOK /\ DataInv /\ ToldInv /\ [Next]_vars => ToldInv'
  <1> SUFFICES ASSUME TypeOK, DataInv, ToldInv, [Next]_vars
               PROVE  ToldInv'
    OBVIOUS
  <1>1. CASE UNCHANGED vars
    BY <1>1, ToldQuiet DEF vars, transferVars, controlVars, deliveryVars, closeVars,
         ClientListening, HasListened
  <1>2. ASSUME NEW p \in Endpoint,
               \/ Send(p) \/ SendWaits(p) \/ SenderResumes(p)
               \/ \E t \in Timers : TakeTimer(p, t)
        PROVE  ToldInv'
    <2>1. UNCHANGED <<ClientListening, stops, delivered, tasks, reader, notified>>
      BY <1>2 DEF Send, SendWaits, SenderResumes, TakeTimer, transferVars,
           controlVars, deliveryVars, closeVars, ClientListening
    <2> QED
      BY <2>1, ToldQuiet DEF HasListened
  <1>3. ASSUME NEW p \in Endpoint,
               AppClose(p) \/ setConnectionListener(p) \/ ForwardASdu(p) \/ Handling(p)
                 \/ ReaderStops(p) \/ ReaderBroken(p) \/ ReaderExit(p) \/ TimerThread(p)
        PROVE  ToldInv'
    <2>1. CASE p # Client
      BY <1>3, <2>1, ToldElsewhere
    <2>2. CASE p = Client
      BY <1>3, <2>2, ToldHandler, ToldExit, ToldClient
    <2> QED
      BY <2>1, <2>2
  <1>4. CASE ControlCalls \/ ControlThread
    BY <1>4, ToldControl
  <1> QED
    BY <1>1, <1>2, <1>3, <1>4 DEF Next, ReaderThread, Handling, Late

(* A client whose listener has had an ASDU is told of the end of the        *)
(* connection, although stopDataTransfer has taken the listener away once.  *)
THEOREM ClientIsAlwaysTold == Spec => []ClientIsTold
  <1>1. Init => ToldInv
    BY Ends DEF Init, ToldInv, HasListened
  <1>2. ToldInv => ClientIsTold
    BY DEF ToldInv, ClientIsTold, HasListened
  <1> QED
    BY <1>1, <1>2, TypeInit, TypeStep, DataInit, DataStep, ToldStep, PTL DEF Spec

----------------------------------------------------------------------------
(* What isPlanned() says of t1: where an I-frame is unacknowledged it says  *)
(* true, for the manager sets done of t1 only on a closed connection.       *)

PlannedAt(p) ==
  /\ ~closed[p] /\ acked[p] < sent[p] => T1 \in planned[p]
  /\ tm[p] \in {"ran", "interrupted"} /\ task[p] = T1 => closed[p]

PlannedInv == \A p \in Endpoint : PlannedAt(p)

PlannedElsewhere(p) ==
  \A q \in Endpoint \ {p} :
    /\ planned'[q] = planned[q] /\ tm'[q] = tm[q] /\ task'[q] = task[q]
    /\ closed'[q] = closed[q] /\ sent'[q] = sent[q] /\ acked'[q] = acked[q]

LEMMA PlannedOthers ==
  ASSUME PlannedInv, NEW p \in Endpoint, PlannedElsewhere(p), PlannedAt(p)'
  PROVE  PlannedInv'
  BY DEF PlannedInv, PlannedAt, PlannedElsewhere

LEMMA PlannedQuiet ==
  ASSUME PlannedInv, UNCHANGED <<planned, tm, task, closed, sent, acked>>
  PROVE  PlannedInv'
  BY DEF PlannedInv, PlannedAt

LEMMA PlannedClose ==
  ASSUME PlannedInv, NEW p \in Endpoint, PlannedElsewhere(p), closed'[p] = TRUE
  PROVE  PlannedInv'
  BY PlannedOthers DEF PlannedAt

LEMMA PlannedReset ==
  ASSUME TypeOK, PlannedInv, NEW p \in Endpoint, NEW c, NEW a, Retime(p, c, a),
         T1 \notin c, UNCHANGED <<closed, sent, acked>>,
         \A q \in Endpoint \ {p} : tm'[q] = tm[q] /\ task'[q] = task[q],
         tm'[p] \in {"ran", "interrupted"} /\ task'[p] = T1 =>
           tm[p] \in {"ran", "interrupted"} /\ task[p] = T1
  PROVE  PlannedInv'
  <1>1. planned'[p] = (planned[p] \ c) \cup a
    BY RetimeAt
  <1>2. PlannedElsewhere(p)
    BY RetimeAt DEF PlannedElsewhere
  <1>3. PlannedAt(p)'
    BY <1>1 DEF PlannedInv, PlannedAt
  <1> QED
    BY <1>2, <1>3, PlannedOthers

LEMMA PlannedFrames ==
  ASSUME TypeOK, NumberInv, PlannedInv, NEW p \in Endpoint,
         HandleIFrame(p) \/ HandleSFrame(p)
  PROVE  PlannedInv'
  <1> DEFINE nr == Head(wire[p]).nr
             out == AckCancels(p, nr)
             in == AckAdds(p, nr)
  <1>1. /\ Readable(p) /\ Head(wire[p]).type \in {"I_FORMAT", "S_FORMAT"}
        /\ ~NumberRejects(p, Head(wire[p])) /\ Acknowledge(p, nr)
    BY DEF HandleIFrame, HandleSFrame, Handles
  <1>2. UNCHANGED <<sent, closed, tm, task>>
    BY DEF HandleIFrame, HandleSFrame, closeVars, tmVars
  <1>3. /\ \A q \in Endpoint \ {p} : planned'[q] = planned[q]
        /\ T1 \in in \/ (T1 \in planned[p] /\ T1 \notin out) => T1 \in planned'[p]
    <2>1. CASE HandleIFrame(p)
      <3> DEFINE t2 == "maxTimeNoAckSentTimer"
                 unconfirmed == IF Wraps(Head(wire[p]).ns) THEN 0
                                ELSE sequenceNumberDiff(NextSeq(Head(wire[p]).ns),
                                       acknowledgedReceiveSequenceNumber[p])
                 c == IF AckDue(p, unconfirmed) THEN cancelIfPlanned(p, t2) ELSE {}
                 a == IF AckDelayStarts(p, unconfirmed) THEN {t2} ELSE {}
      <3>1. Retime(p, out \cup c, in \cup {"maxIdleTimeTimer"} \cup a)
        BY <2>1 DEF HandleIFrame
      <3>2. T1 \notin c
        BY DEF cancelIfPlanned, T1
      <3> HIDE DEF c, a, out, in
      <3>3. /\ planned'[p] = (planned[p] \ (out \cup c))
                               \cup (in \cup {"maxIdleTimeTimer"} \cup a)
            /\ \A q \in Endpoint \ {p} : planned'[q] = planned[q]
        BY <3>1, RetimeAt
      <3> QED
        BY <3>2, <3>3
    <2>2. CASE HandleSFrame(p)
      <3> DEFINE c == IF p = Server /\ stopDtTimer
                      THEN {"stopDtOutstandingSFormatTimer"} ELSE {}
      <3>1. planned' = [planned EXCEPT ![p] =
              (@ \ (out \cup c)) \cup (in \cup {"maxIdleTimeTimer"})]
        BY <2>2 DEF HandleSFrame
      <3>2. T1 \notin c
        BY DEF T1
      <3> HIDE DEF c, out, in
      <3> QED
        BY <3>1, <3>2 DEF TypeOK, TaskType
    <2> QED
      BY <2>1, <2>2
  <1>4. \A q \in Endpoint \ {p} : acked'[q] = acked[q]
    BY <1>1 DEF Acknowledge, TakeAck, TypeOK, SeqType
  <1>5. ASSUME ~closed[p], acked'[p] < sent'[p] PROVE T1 \in planned'[p]
    <2>1. T1 \in in \/ (out = {} /\ acked[p] < sent[p])
      BY <1>1, <1>2, <1>5, AckWindow
    <2>2. acked[p] < sent[p] => T1 \in planned[p]
      BY <1>5 DEF PlannedInv, PlannedAt
    <2> HIDE DEF out, in
    <2> QED
      BY <1>3, <2>1, <2>2
  <1>6. PlannedElsewhere(p)
    BY <1>2, <1>3, <1>4 DEF PlannedElsewhere
  <1>7. PlannedAt(p)'
    BY <1>2, <1>5 DEF PlannedInv, PlannedAt
  <1> QED
    BY <1>6, <1>7, PlannedOthers

LEMMA PlannedReader ==
  ASSUME TypeOK, NumberInv, PlannedInv, NEW p \in Endpoint,
         ReaderThread(p) \/ ReaderBroken(p)
  PROVE  PlannedInv'
  <1>1. CASE HandleIFrame(p) \/ HandleSFrame(p)
    BY <1>1, PlannedFrames
  <1>2. CASE HandleStartDtAct(p) \/ HandleStartDtCon(p) \/ HandleStopDtCon(p)
               \/ HandleTestFrAct(p) \/ HandleTestFrCon(p)
    <2>1. PICK c, a : Retime(p, c, a) /\ T1 \notin c
      BY <1>2 DEF HandleStartDtAct, HandleStartDtCon, HandleStopDtCon,
                  HandleTestFrAct, HandleTestFrCon, resetMaxIdleTimeTimer, T1
    <2>2. UNCHANGED <<closed, sent, acked, tm, task>>
      BY <1>2 DEF HandleStartDtAct, HandleStartDtCon, HandleStopDtCon,
                  HandleTestFrAct, HandleTestFrCon, seqVars, closeVars, tmVars
    <2> QED
      BY <2>1, <2>2, PlannedReset
  <1>3. CASE HandleStopDtAct(p)
    <2>1. PICK c, a : Retime(p, c, a) /\ T1 \notin c
      BY <1>3 DEF HandleStopDtAct, cancelIfPlanned, T1
    <2>2. UNCHANGED <<closed, sent, acked, tm, task>>
      BY <1>3 DEF HandleStopDtAct, closeVars, tmVars
    <2> QED
      BY <2>1, <2>2, PlannedReset
  <1>4. CASE RejectFrame(p)
    <2>1. UNCHANGED <<closed, sent, tm, task>>
      BY <1>4 DEF RejectFrame, tmVars
    <2>2. UNCHANGED acked /\ \E a : Retime(p, {}, a)
      BY <1>4, RejectTakesNothing
    <2> QED
      BY <2>1, <2>2, PlannedReset
  <1>7. CASE Late(p)
    <2>1. UNCHANGED <<closed, sent, acked, tm, task>> /\ closed[p]
      BY <1>7 DEF Late, LateIFrame, LateSFrame, LateAct, LateCon, InHand, seqVars,
                  closeVars, tmVars
    <2>2. \A q \in Endpoint \ {p} : planned'[q] = planned[q]
      BY <1>7, LateTimers DEF Late
    <2>3. PlannedElsewhere(p)
      BY <2>1, <2>2 DEF PlannedElsewhere
    <2>4. closed'[p] = TRUE
      BY <2>1 DEF TypeOK, CloseType
    <2> QED
      BY <2>3, <2>4, PlannedClose
  <1>5. CASE ReaderStops(p) \/ ReaderBroken(p)
    <2>1. UNCHANGED <<planned, tm, task, closed, sent, acked>>
      BY <1>5 DEF ReaderStops, ReaderBroken, seqVars, taskVars, tmVars
    <2> QED
      BY <2>1, PlannedQuiet
  <1>6. CASE ReaderExit(p)
    <2>1. PlannedElsewhere(p) /\ closed'[p] = TRUE
      BY <1>6 DEF ReaderExit, Close, PlannedElsewhere, taskVars, TypeOK, SeqType,
                  CloseType, TmType
    <2> QED
      BY <2>1, PlannedClose
  <1> QED
    BY <1>1, <1>2, <1>3, <1>4, <1>5, <1>6, <1>7 DEF ReaderThread, Late

LEMMA PlannedTimers ==
  ASSUME TypeOK, PlannedInv, NEW p \in Endpoint,
         (\E t \in Timers : TakeTimer(p, t)) \/ TimerThread(p)
  PROVE  PlannedInv'
  <1>1. ASSUME NEW t \in Timers, TakeTimer(p, t)
        PROVE  PlannedInv'
    <2>1. /\ UNCHANGED <<planned, closed, sent, acked>>
          /\ tm'[p] \in {"ran", "interrupted"} => task'[p] # T1
      BY <1>1 DEF TakeTimer, TypeOK, TmType, taskVars, closeVars, seqVars, T1
    <2>2. PlannedElsewhere(p)
      BY <1>1, <2>1 DEF TakeTimer, PlannedElsewhere, TypeOK, TmType
    <2>3. PlannedAt(p)'
      BY <2>1 DEF PlannedInv, PlannedAt
    <2> QED
      BY <2>2, <2>3, PlannedOthers
  <1>2. CASE ExecuteNoAckReceived(p)
    <2>1. PlannedElsewhere(p) /\ closed'[p] = TRUE
      BY <1>2 DEF ExecuteNoAckReceived, Executes, Close, PlannedElsewhere, taskVars,
                  TypeOK, SeqType, CloseType, TmType
    <2> QED
      BY <2>1, PlannedClose
  <1>3. CASE ExecuteNoAckSent(p) \/ ExecuteIdle(p)
    <2>1. /\ UNCHANGED <<closed, sent, acked, task>> /\ task[p] # T1
          /\ \A q \in Endpoint \ {p} : tm'[q] = tm[q]
          /\ \E a : Retime(p, {}, a)
      BY <1>3 DEF ExecuteNoAckSent, ExecuteIdle, Executes, resetMaxIdleTimeTimer,
                  closeVars, seqVars, T1, TypeOK, TmType
    <2> QED
      BY <2>1, PlannedReset
  <1>4. CASE ExecuteStopDt(p) \/ TimerWriteFails(p) \/ TimerInterrupted(p)
    <2>1. /\ UNCHANGED <<planned, closed, sent, acked, task>>
          /\ task[p] # T1 \/ tm[p] = "interrupted"
          /\ \A q \in Endpoint \ {p} : tm'[q] = tm[q]
      BY <1>4 DEF ExecuteStopDt, TimerWriteFails, TimerInterrupted, Executes,
                  closeVars, seqVars, taskVars, T1, TypeOK, TmType
    <2>2. PlannedElsewhere(p)
      BY <2>1 DEF PlannedElsewhere
    <2>3. PlannedAt(p)'
      BY <2>1 DEF PlannedInv, PlannedAt
    <2> QED
      BY <2>2, <2>3, PlannedOthers
  <1>5. CASE TimerDone(p)
    <2>1. /\ UNCHANGED <<closed, sent, acked, task>> /\ tm[p] = "ran"
          /\ tm'[p] = "idle" /\ \A q \in Endpoint \ {p} : tm'[q] = tm[q]
          /\ planned'[p] = planned[p] \ {task[p]}
          /\ \A q \in Endpoint \ {p} : planned'[q] = planned[q]
      BY <1>5 DEF TimerDone, closeVars, seqVars, TypeOK, TmType, TaskType
    <2>2. PlannedElsewhere(p)
      BY <2>1 DEF PlannedElsewhere
    <2>3. PlannedAt(p)'
      BY <2>1 DEF PlannedInv, PlannedAt
    <2> QED
      BY <2>2, <2>3, PlannedOthers
  <1> QED
    BY <1>1, <1>2, <1>3, <1>4, <1>5 DEF TimerThread

LEMMA PlannedStep == TypeOK /\ NumberInv /\ PlannedInv /\ [Next]_vars => PlannedInv'
  <1> SUFFICES ASSUME TypeOK, NumberInv, PlannedInv, [Next]_vars
               PROVE  PlannedInv'
    OBVIOUS
  <1>1. CASE UNCHANGED vars
    BY <1>1, PlannedQuiet DEF vars, taskVars, tmVars, closeVars, seqVars
  <1>2. ASSUME NEW p \in Endpoint, ReaderThread(p) \/ ReaderBroken(p)
        PROVE  PlannedInv'
    BY <1>2, PlannedReader
  <1>3. ASSUME NEW p \in Endpoint,
               setConnectionListener(p) \/ ForwardASdu(p) \/ SendWaits(p)
        PROVE  PlannedInv'
    <2>1. UNCHANGED <<planned, tm, task, closed, sent, acked>>
      BY <1>3 DEF setConnectionListener, ForwardASdu, SendWaits, taskVars, tmVars,
                  closeVars, seqVars
    <2> QED
      BY <2>1, PlannedQuiet
  <1>4. ASSUME NEW p \in Endpoint, AppClose(p)
        PROVE  PlannedInv'
    <2>1. PlannedElsewhere(p) /\ closed'[p] = TRUE
      BY <1>4 DEF AppClose, Close, PlannedElsewhere, taskVars, tmVars, TypeOK,
                  SeqType, CloseType
    <2> QED
      BY <2>1, PlannedClose
  <1>5. ASSUME NEW p \in Endpoint, Send(p) \/ SenderResumes(p)
        PROVE  PlannedInv'
    <2>1. UNCHANGED <<closed, tm, task>>
      BY <1>5 DEF Send, SenderResumes, closeVars, tmVars
    <2>2. CASE Transmit(p)
      <3>1. PICK c : /\ T1 \notin c
                     /\ Retime(p, c, {"maxIdleTimeTimer"} \cup ({T1} \ planned[p]))
        BY <2>2 DEF Transmit, cancelIfPlanned, T1
      <3>2. /\ planned'[p] = (planned[p] \ c)
                               \cup ({"maxIdleTimeTimer"} \cup ({T1} \ planned[p]))
            /\ \A q \in Endpoint \ {p} : planned'[q] = planned[q]
        BY <3>1, RetimeAt
      <3>3. T1 \in planned'[p]
        BY <3>1, <3>2
      <3>4. \A q \in Endpoint \ {p} : sent'[q] = sent[q] /\ acked'[q] = acked[q]
        BY <2>2 DEF Transmit, TypeOK, SeqType
      <3>5. PlannedElsewhere(p)
        BY <2>1, <3>2, <3>4 DEF PlannedElsewhere
      <3>6. PlannedAt(p)'
        BY <2>1, <3>3 DEF PlannedInv, PlannedAt
      <3> QED
        BY <3>5, <3>6, PlannedOthers
    <2>3. CASE UNCHANGED <<seqVars, taskVars>>
      BY <2>1, <2>3, PlannedQuiet DEF seqVars, taskVars
    <2> QED
      BY <1>5, <2>2, <2>3 DEF Send, SenderResumes
  <1>6. ASSUME NEW p \in Endpoint,
               (\E t \in Timers : TakeTimer(p, t)) \/ TimerThread(p)
        PROVE  PlannedInv'
    BY <1>6, PlannedTimers
  <1>7. CASE ControlCalls \/ ControlThread
    <2>1. UNCHANGED <<closed, sent, acked, tm, task>>
      BY <1>7 DEF ControlCalls, ControlThread, StartDataTransfer, StopDataTransfer,
           StartConfirmed, StartTimesOut, StopReadsDiff, StopReadsNumber, StopWritesSFrame,
           StopRecordsSFrame, StopCancelsTimer, StopSendsAct, StopFails, StopReturns,
           seqVars, closeVars, tmVars
    <2>2. \/ UNCHANGED planned
          \/ \E c, a : Retime(Client, c, a) /\ T1 \notin c
      BY <1>7 DEF ControlCalls, ControlThread, StartDataTransfer, StopDataTransfer,
           StartConfirmed, StartTimesOut, StopReadsDiff, StopReadsNumber, StopWritesSFrame,
           StopRecordsSFrame, StopCancelsTimer, StopSendsAct, StopFails, StopReturns,
           taskVars, resetMaxIdleTimeTimer, cancelIfPlanned, T1
    <2> QED
      BY <2>1, <2>2, Ends, PlannedQuiet, PlannedReset
  <1> QED
    BY <1>1, <1>2, <1>3, <1>4, <1>5, <1>6, <1>7 DEF Next

LEMMA PlannedInit == Init => PlannedInv
  BY DEF Init, PlannedInv, PlannedAt, T1

----------------------------------------------------------------------------
(* STOPDT_CON after the first start *)

(* An acknowledgement is never taken back. *)
LEMMA AckedGrows ==
  ASSUME TypeOK, NumberInv, [Next]_vars, NEW p \in Endpoint
  PROVE  acked'[p] >= acked[p]
  <1>0. acked[p] \in Nat /\ sent[p] \in Nat /\ acked[p] <= sent[p]
    BY Counts, Facts
  <1>1. CASE UNCHANGED acked
    BY <1>0, <1>1
  <1>2. ASSUME NEW q \in Endpoint, NEW n \in Nat, acked[q] <= n,
               acked' = [acked EXCEPT ![q] = n]
        PROVE  acked'[p] >= acked[p]
    BY <1>0, <1>2 DEF TypeOK, SeqType
  <1>3. ASSUME NEW q \in Endpoint, HandleIFrame(q) \/ HandleSFrame(q)
        PROVE  acked'[p] >= acked[p]
    <2>1. /\ Readable(q) /\ Head(wire[q]).type \in {"I_FORMAT", "S_FORMAT"}
          /\ ~NumberRejects(q, Head(wire[q])) /\ Acknowledge(q, Head(wire[q]).nr)
      BY <1>3 DEF HandleIFrame, HandleSFrame, Handles
    <2> QED
      BY <1>2, <2>1, AcknowledgeCounts
  <1>4. ASSUME NEW q \in Endpoint,
               AppClose(q) \/ ReaderExit(q) \/ ExecuteNoAckReceived(q)
        PROVE  acked'[p] >= acked[p]
    <2>1. acked' = [acked EXCEPT ![q] = sent[q]]
      BY <1>4 DEF AppClose, ReaderExit, ExecuteNoAckReceived, Close
    <2> QED
      BY <1>2, <2>1, Counts, Facts
  <1>5. ASSUME NEW q \in Endpoint,
               \/ setConnectionListener(q) \/ Send(q) \/ SendWaits(q)
               \/ SenderResumes(q) \/ ReaderBroken(q) \/ ForwardASdu(q)
               \/ \E t \in Timers : TakeTimer(q, t)
        PROVE  UNCHANGED acked
    BY <1>5 DEF setConnectionListener, Send, SendWaits, SenderResumes, Transmit,
         ReaderBroken, ForwardASdu, TakeTimer, seqVars
  <1>6. ASSUME NEW q \in Endpoint, ReaderThread(q), ~HandleIFrame(q),
               ~HandleSFrame(q), ~ReaderExit(q)
        PROVE  UNCHANGED acked
    BY <1>6, RejectTakesNothing
       DEF ReaderThread, HandleStartDtAct, HandleStopDtAct, HandleStartDtCon,
         HandleStopDtCon, HandleTestFrAct, HandleTestFrCon, LateIFrame, LateSFrame,
         LateAct, LateCon, ReaderStops, seqVars
  <1>7. ASSUME NEW q \in Endpoint, TimerThread(q), ~ExecuteNoAckReceived(q)
        PROVE  UNCHANGED acked
    BY <1>7 DEF TimerThread, ExecuteNoAckSent, ExecuteIdle, ExecuteStopDt,
         TimerWriteFails, TimerInterrupted, TimerDone, seqVars
  <1>8. CASE ControlCalls \/ ControlThread
    BY <1>1, <1>8 DEF ControlCalls, ControlThread, StartDataTransfer,
         StopDataTransfer, StartConfirmed, StartTimesOut, StopReadsDiff,
         StopReadsNumber, StopWritesSFrame, StopRecordsSFrame, StopCancelsTimer,
         StopSendsAct, StopFails, StopReturns, seqVars
  <1> QED
    BY <1>1, <1>3, <1>4, <1>5, <1>6, <1>7, <1>8 DEF Next, vars, seqVars

Fifth == "stopDtOutstandingSFormatTimer"
NoStart(w) == Only(w, FrameType \ {"STARTDT_ACT"})
OneStart(w) ==
  \A i, j \in 1 .. Len(w) :
    w[i].type = "STARTDT_ACT" /\ w[j].type = "STARTDT_ACT" => i = j
Covers(w, n) == \A i \in 1 .. Len(w) : w[i].type = "STOPDT_CON" => n >= w[i].vs

(* Until a second start the server's fifth timer, which would confirm       *)
(* without an acknowledgement, is queued only while it does nothing.        *)
FirstStopInv ==
  starts <= 1 =>
    /\ OneStart(wire[Server])
    /\ starts = 0 => NoStart(wire[Server])
    /\ starts = 0 \/ ~NoStart(wire[Server]) =>
         stopped[Server] /\ sent[Server] = 0 /\ ~stopDtTimer
    /\ stopDtTimer => stopped[Server]
    /\ Fifth \in queued[Server] => stopDtTimer
    /\ ~Running(Server, Fifth)
    /\ Covers(wire[Client], acked[Server])

LEMMA OneStartWritten ==
  ASSUME NEW v \in Seq(Frame), NEW w \in Seq(Frame), NoStart(w)
  PROVE  (NoStart(v) => NoStart(v \o w)) /\ (OneStart(v) => OneStart(v \o w))
  <1> DEFINE x == v \o w
  <1>1. /\ Len(v) \in Nat /\ Len(w) \in Nat /\ Len(x) = Len(v) + Len(w)
        /\ \A i \in 1 .. Len(v) : x[i] = v[i]
    BY Concatenated
  <1>2. ASSUME NEW i \in 1 .. Len(x), x[i].type = "STARTDT_ACT"
        PROVE  i \in 1 .. Len(v)
    <2>1. CASE i > Len(v)
      <3>1. i - Len(v) \in 1 .. Len(w) /\ x[i] = w[i - Len(v)]
        BY <1>1, <2>1, Concatenated
      <3> QED
        BY <1>2, <3>1 DEF NoStart, Only
    <2> QED
      BY <1>1, <2>1
  <1> QED
    BY <1>1, <1>2, OnlyConcat DEF OneStart, NoStart

LEMMA OneStartTail ==
  ASSUME NEW w \in Seq(Frame), w # <<>>
  PROVE  /\ NoStart(w) => NoStart(Tail(w))
         /\ OneStart(w) => OneStart(Tail(w))
         /\ Head(w).type = "STARTDT_ACT" => ~NoStart(w)
         /\ OneStart(w) /\ Head(w).type = "STARTDT_ACT" => NoStart(Tail(w))
  <1> DEFINE x == Tail(w)
  <1>1. /\ Len(w) \in Nat \ {0} /\ Len(x) = Len(w) - 1 /\ w[1] = Head(w)
        /\ \A i \in 1 .. Len(w) - 1 : x[i] = w[i + 1]
    BY TailElements
  <1>2. \A i \in 1 .. Len(x) : x[i] = w[i + 1] /\ i + 1 \in 1 .. Len(w) /\ i + 1 # 1
    BY <1>1
  <1>3. NoStart(w) => NoStart(x)
    BY OnlyTail DEF NoStart
  <1>4. OneStart(w) => OneStart(x)
    BY <1>1, <1>2 DEF OneStart
  <1>5. Head(w).type = "STARTDT_ACT" => ~NoStart(w)
    BY <1>1 DEF NoStart, Only
  <1>6. ASSUME OneStart(w), Head(w).type = "STARTDT_ACT" PROVE NoStart(x)
    <2>1. \A i \in 1 .. Len(x) : x[i].type # "STARTDT_ACT"
      BY <1>1, <1>2, <1>6 DEF OneStart
    <2>2. \A i \in 1 .. Len(x) : x[i] \in Frame
      <3>1. x \in Seq(Frame)
        OBVIOUS
      <3> HIDE DEF x
      <3> QED
        BY <3>1, ElementTypes
    <2> QED
      BY <2>1, <2>2 DEF NoStart, Only, Frame
  <1> QED
    BY <1>3, <1>4, <1>5, <1>6

LEMMA OneStartNew ==
  ASSUME NEW w \in Seq(Frame), NEW f \in Frame, NoStart(w)
  PROVE  OneStart(w \o <<f>>)
  <1> DEFINE x == w \o <<f>>
  <1>1. Len(w) \in Nat /\ Len(x) = Len(w) + 1 /\ \A i \in 1 .. Len(w) : x[i] = w[i]
    OBVIOUS
  <1>2. \A i \in 1 .. Len(x) : x[i].type = "STARTDT_ACT" => i = Len(w) + 1
    BY <1>1 DEF NoStart, Only
  <1> QED
    BY <1>2 DEF OneStart

LEMMA CoversGrows ==
  ASSUME NEW w \in Seq(Frame), NEW m \in Nat, NEW n \in Nat, m <= n, Covers(w, m)
  PROVE  Covers(w, n)
  <1>1. \A i \in 1 .. Len(w) : w[i].vs \in Nat
    BY ElementTypes
  <1> QED
    BY <1>1 DEF Covers

LEMMA CoversTail ==
  ASSUME NEW w \in Seq(Frame), NEW n, w # <<>>, Covers(w, n)
  PROVE  Covers(Tail(w), n)
  BY TailElements DEF Covers

LEMMA CoversConcat ==
  ASSUME NEW v \in Seq(Frame), NEW w \in Seq(Frame), NEW n, Covers(v, n), Covers(w, n)
  PROVE  Covers(v \o w, n)
  <1> DEFINE x == v \o w
  <1>1. Len(x) = Len(v) + Len(w) /\ Len(v) \in Nat /\ Len(w) \in Nat
    BY Concatenated
  <1>2. ASSUME NEW i \in 1 .. Len(x), x[i].type = "STOPDT_CON" PROVE n >= x[i].vs
    <2>1. CASE i <= Len(v)
      <3>1. i \in 1 .. Len(v) /\ x[i] = v[i]
        BY <1>1, <2>1, Concatenated
      <3> QED
        BY <1>2, <3>1 DEF Covers
    <2>2. CASE i > Len(v)
      <3>1. i - Len(v) \in 1 .. Len(w) /\ x[i] = w[i - Len(v)]
        BY <1>1, <2>2, Concatenated
      <3> QED
        BY <1>2, <3>1 DEF Covers
    <2> QED
      BY <1>1, <2>1, <2>2
  <1> QED
    BY <1>2 DEF Covers

(* A step that leaves the server's side of the start and the stop as it is *)
TransferKept ==
  /\ UNCHANGED <<starts, stopDtTimer, stopped[Server]>>
  /\ sent'[Server] = sent[Server] \/ ~stopped[Server]
  /\ Fifth \in queued'[Server] => Fifth \in queued[Server]
  /\ starts <= 1 => ~Running(Server, Fifth)'

LEMMA FirstStopKept ==
  ASSUME FirstStopInv, TransferKept,
         NoStart(wire[Server]) => NoStart(wire'[Server]),
         OneStart(wire[Server]) => OneStart(wire'[Server]),
         starts <= 1 => Covers(wire'[Client], acked'[Server])
  PROVE  FirstStopInv'
  BY DEF FirstStopInv, TransferKept

LEMMA FirstStopQuiet ==
  ASSUME TypeOK, FirstStopInv, TransferKept, UNCHANGED wire,
         acked'[Server] \in Nat, acked'[Server] >= acked[Server]
  PROVE  FirstStopInv'
  <1>1. starts <= 1 => Covers(wire[Client], acked'[Server])
    BY Ends, Counts, DataTypes, CoversGrows DEF FirstStopInv
  <1> QED
    BY <1>1, FirstStopKept

(* A STOPDT_ACT apart, no step confirms before the second start. *)
LEMMA NothingConfirmed ==
  ASSUME FirstStopInv, starts <= 1, ~HandleStopDtAct(Server), NEW n,
         NEW out, Plain(Server, out)
  PROVE  Covers(out, n)
  <1>1. ~Confirming(Server)
    BY DEF Confirming, FirstStopInv, ExecuteStopDt, Executes, Running, Fifth
  <1> QED
    BY <1>1 DEF Plain, Covers

LEMMA PlainNoStart ==
  ASSUME NEW p, NEW out, Plain(p, out)
  PROVE  NoStart(out)
  BY DEF Plain, Only, NoStart, Requests

LEMMA FirstStopWire ==
  ASSUME TypeOK, FirstStopInv, TransferKept, ~HandleStopDtAct(Server),
         acked'[Server] \in Nat, acked'[Server] >= acked[Server],
         NEW p \in Endpoint, NEW out \in Seq(Frame), Plain(p, out),
         Writes(p, out) \/ (wire[p] # <<>> /\ Reads(p, out))
  PROVE  FirstStopInv'
  <1>0. /\ wire'[Peer(p)] = wire[Peer(p)] \o out
        /\ wire'[p] = wire[p] \/ (wire[p] # <<>> /\ wire'[p] = Tail(wire[p]))
    BY WritesAt, ReadsAt
  <1>1. starts <= 1 => Covers(wire[Client], acked'[Server])
    BY Ends, Counts, DataTypes, CoversGrows DEF FirstStopInv
  <1>2. CASE p = Client
    <2>1. wire'[Server] = wire[Server] \o out
      BY <1>0, <1>2, Ends
    <2>2. /\ NoStart(wire[Server]) => NoStart(wire'[Server])
          /\ OneStart(wire[Server]) => OneStart(wire'[Server])
      BY <2>1, DataTypes, PlainNoStart, OneStartWritten
    <2>3. starts <= 1 => Covers(wire'[Client], acked'[Server])
      BY <1>0, <1>1, <1>2, DataTypes, CoversTail
    <2> QED
      BY <2>2, <2>3, FirstStopKept
  <1>3. CASE p = Server
    <2>0. Peer(p) = Client
      BY <1>3, Ends
    <2>1. wire'[Client] = wire[Client] \o out
      BY <1>0, <2>0
    <2>2. /\ NoStart(wire[Server]) => NoStart(wire'[Server])
          /\ OneStart(wire[Server]) => OneStart(wire'[Server])
      BY <1>0, <1>3, DataTypes, OneStartTail
    <2>3. starts <= 1 => Covers(out, acked'[Server])
      BY <1>3, NothingConfirmed
    <2>4. starts <= 1 => Covers(wire'[Client], acked'[Server])
      BY <1>1, <2>1, <2>3, DataTypes, CoversConcat
    <2> QED
      BY <2>2, <2>4, FirstStopKept
  <1> QED
    BY <1>2, <1>3, Ends

(* STOPDT_CON is sent at once only when nothing is outstanding, and         *)
(* otherwise left to a timer that waits for the second start. *)
LEMMA FirstStopDtAct ==
  ASSUME TypeOK, NumberInv, PlannedInv, FirstStopInv, HandleStopDtAct(Server)
  PROVE  FirstStopInv'
  <1> DEFINE w == wire[Server]
             outstanding == Outstanding(Server)
  <1>0. /\ Readable(Server) /\ w # <<>> /\ Head(w).type = "STOPDT_ACT"
        /\ w \in Seq(Frame) /\ wire[Client] \in Seq(Frame)
        /\ sent[Server] \in Nat /\ acked[Server] \in Nat
    BY DataTypes, Counts, Ends DEF HandleStopDtAct, Handles, Readable
  <1>1. PICK out \in Seq(Frame) : Plain(Server, out) /\ Reads(Server, out)
    BY Ends, PlainHandlers DEF Handling
  <1>2. wire'[Client] = wire[Client] \o out /\ wire'[Server] = Tail(w)
    BY <1>1, ReadsAt, Ends
  <1>3. /\ UNCHANGED <<sent, acked, starts, tm, task>>
        /\ stopDtTimer' = (stopDtTimer \/ outstanding)
    BY DEF HandleStopDtAct, tmVars, controlVars
  <1>4. stopped'[Server] = TRUE
    BY Ends DEF HandleStopDtAct, TypeOK, TransferType
  <1>5. Fifth \in queued'[Server] => Fifth \in queued[Server] \/ outstanding
    <2> DEFINE c == cancelIfPlanned(Server, "maxTimeNoAckSentTimer")
               a == {"maxIdleTimeTimer"} \cup
                      (IF outstanding THEN {"stopDtOutstandingSFormatTimer"} ELSE {})
    <2>1. Retime(Server, c, a)
      BY DEF HandleStopDtAct
    <2>2. Fifth \in a => outstanding
      BY DEF Fifth
    <2> HIDE DEF c, a
    <2> QED
      BY <2>1, <2>2, Ends, RetimeAt
  <1>6. outstanding => sent[Server] # 0
    <2>1. getNumUnconfirmedAPdusSent(Server) = sent[Server] - acked[Server]
      BY Unconfirmed, Ends
    <2> QED
      BY <1>0, <2>1 DEF Outstanding
  <1>7. ~outstanding => acked[Server] >= sent[Server]
    <2>1. getNumUnconfirmedAPdusSent(Server) = sent[Server] - acked[Server]
      BY Unconfirmed, Ends
    <2>2. acked[Server] < sent[Server] => T1 \in planned[Server]
      BY <1>0, Ends DEF PlannedInv, PlannedAt, Readable
    <2> QED
      BY <1>0, <2>1, <2>2 DEF Outstanding, T1
  <1>8. /\ NoStart(w) => NoStart(wire'[Server])
        /\ OneStart(w) => OneStart(wire'[Server])
    BY <1>0, <1>2, OneStartTail
  <1>9. ASSUME starts <= 1 PROVE Covers(wire'[Client], acked'[Server])
    <2>1. Covers(wire[Client], acked[Server])
      BY <1>9 DEF FirstStopInv
    <2>2. Covers(out, acked[Server])
      <3> SUFFICES ASSUME NEW i \in 1 .. Len(out), out[i].type = "STOPDT_CON"
                   PROVE  acked[Server] >= out[i].vs
        BY DEF Covers
      <3>1. out[i].vs = sent[Server] /\ Confirming(Server)
        BY <1>1 DEF Plain
      <3>2. ~outstanding
        <4>1. ~HandleSFrame(Server)
          BY <1>0 DEF HandleSFrame, Handles
        <4>2. ~ExecuteStopDt(Server)
          BY <1>9 DEF FirstStopInv, ExecuteStopDt, Executes, Running, Fifth
        <4> QED
          BY <3>1, <4>1, <4>2 DEF Confirming
      <3> QED
        BY <1>7, <3>1, <3>2
    <2> QED
      BY <1>0, <1>2, <1>3, <2>1, <2>2, CoversConcat
  <1> HIDE DEF w, outstanding
  <1> QED
    BY <1>3, <1>4, <1>5, <1>6, <1>8, <1>9 DEF FirstStopInv, Running, w

(* The first STARTDT_ACT finds no fifth timer. *)
LEMMA FirstStartDtAct ==
  ASSUME TypeOK, FirstStopInv, HandleStartDtAct(Server)
  PROVE  FirstStopInv'
  <1> DEFINE w == wire[Server]
  <1>0. /\ w # <<>> /\ Head(w).type = "STARTDT_ACT"
        /\ w \in Seq(Frame) /\ wire[Client] \in Seq(Frame)
    BY DataTypes DEF HandleStartDtAct, Handles, Readable
  <1>1. PICK out \in Seq(Frame) : Plain(Server, out) /\ Reads(Server, out)
    BY Ends, PlainHandlers DEF Handling
  <1>2. wire'[Client] = wire[Client] \o out /\ wire'[Server] = Tail(w)
    BY <1>1, ReadsAt, Ends
  <1>3. UNCHANGED <<sent, acked, starts, tm, task, stopDtTimer>>
    BY DEF HandleStartDtAct, seqVars, tmVars, controlVars
  <1>4. Fifth \in queued'[Server] => Fifth \in queued[Server]
    <2>1. Retime(Server, {}, {"maxIdleTimeTimer"})
      BY DEF HandleStartDtAct, resetMaxIdleTimeTimer
    <2> QED
      BY <2>1, Ends, RetimeAt DEF Fifth
  <1>5. ~NoStart(w) /\ (OneStart(w) => NoStart(wire'[Server]) /\ OneStart(wire'[Server]))
    BY <1>0, <1>2, OneStartTail
  <1>6. ~HandleStopDtAct(Server)
    BY <1>0 DEF HandleStopDtAct, Handles
  <1>7. ASSUME starts <= 1 PROVE Covers(wire'[Client], acked'[Server])
    <2>1. Covers(wire[Client], acked[Server])
      BY <1>7 DEF FirstStopInv
    <2>2. Covers(out, acked[Server])
      BY <1>1, <1>6, <1>7, NothingConfirmed
    <2> QED
      BY <1>0, <1>2, <1>3, <2>1, <2>2, CoversConcat
  <1> HIDE DEF w
  <1> QED
    BY <1>3, <1>4, <1>5, <1>7 DEF FirstStopInv, Running, w

(* What is left of an ACT that a closed server has in hand *)
LEMMA FirstStopLate ==
  ASSUME TypeOK, FirstStopInv, LateAct(Server)
  PROVE  FirstStopInv'
  <1> DEFINE w == wire[Server]
             stop == Head(w).type = "STOPDT_ACT"
             start == Head(w).type = "STARTDT_ACT"
  <1>0. /\ w # <<>> /\ w \in Seq(Frame) /\ wire[Client] \in Seq(Frame)
        /\ stopped[Server] \in BOOLEAN
    BY DataTypes DEF LateAct, InHand
  <1>1. Reads(Server, <<>>) /\ <<>> \in Seq(Frame)
    BY DEF LateAct
  <1>2. wire'[Client] = wire[Client] \o <<>> /\ wire'[Server] = Tail(w)
    BY <1>1, ReadsAt, Ends
  <1>3. wire'[Client] = wire[Client]
    BY <1>0, <1>2
  <1>4. UNCHANGED <<sent, acked, starts, tm, task, stopDtTimer>>
    BY DEF LateAct, seqVars, tmVars, controlVars
  <1>5. Fifth \in queued'[Server] => Fifth \in queued[Server]
    <2>1. PICK c : Retime(Server, c, {})
      BY DEF LateAct
    <2> QED
      BY <2>1, Ends, RetimeAt
  <1>6. stopped'[Server] = (stop \/ (stopped[Server] /\ ~start))
    BY Ends DEF LateAct, TypeOK, TransferType
  <1>7. /\ NoStart(w) => NoStart(wire'[Server])
        /\ OneStart(w) => OneStart(wire'[Server])
        /\ start => ~NoStart(w)
        /\ OneStart(w) /\ start => NoStart(wire'[Server])
    BY <1>0, <1>2, OneStartTail
  <1> HIDE DEF w, start, stop
  <1> QED
    BY <1>0, <1>3, <1>4, <1>5, <1>6, <1>7 DEF FirstStopInv, Running, w

(* The other handlers *)
LEMMA FirstStopHandlers ==
  ASSUME TypeOK, DataInv, FirstStopInv, NEW p \in Endpoint, Handling(p),
         ~HandleStartDtAct(Server), ~HandleStopDtAct(Server), ~LateAct(Server),
         acked'[Server] \in Nat, acked'[Server] >= acked[Server]
  PROVE  FirstStopInv'
  <1>0. wire[p] # <<>> /\ \E out \in Seq(Frame) : Plain(p, out) /\ Reads(p, out)
    BY PlainHandlers
  <1>1. ~HandleStartDtAct(p) /\ ~HandleStopDtAct(p) /\ (LateAct(p) => UNCHANGED stopped)
    BY Ends, NoRequestAtClient
  <1>2. UNCHANGED <<starts, stopDtTimer, stopped, sent, tm, task>>
    BY <1>1 DEF Handling, HandleIFrame, HandleSFrame, HandleStartDtCon,
         HandleStopDtCon, HandleTestFrAct, HandleTestFrCon, RejectFrame,
         Late, LateIFrame, LateSFrame, LateAct, LateCon,
         transferVars, seqVars, tmVars, controlVars
  <1>3. Fifth \in queued'[Server] => Fifth \in queued[Server]
    <2>1. CASE HandleSFrame(p) \/ LateSFrame(p)
      <3>1. PICK c, a : Requeue(p, c, a) /\ Fifth \notin a
        BY <2>1 DEF HandleSFrame, LateSFrame, AckAdds, Fifth
      <3> QED
        BY <3>1, Ends, RequeueAt
    <2>2. CASE HandleIFrame(p) \/ LateIFrame(p)
      <3>1. PICK c, a : Retime(p, c, a) /\ Fifth \notin a
        BY <2>2 DEF HandleIFrame, LateIFrame, AckAdds, Fifth
      <3> QED
        BY <3>1, Ends, RetimeAt
    <2>3. CASE ~HandleSFrame(p) /\ ~HandleIFrame(p) /\ ~LateSFrame(p) /\ ~LateIFrame(p)
      <3>1. CASE HandleStartDtCon(p) \/ HandleStopDtCon(p) \/ HandleTestFrAct(p)
                   \/ HandleTestFrCon(p) \/ LateCon(p)
        <4>1. \E c : Retime(p, c, {"maxIdleTimeTimer"})
          BY <3>1 DEF HandleStartDtCon, HandleStopDtCon, HandleTestFrAct,
               HandleTestFrCon, LateCon, resetMaxIdleTimeTimer
        <4> QED
          BY <4>1, Ends, RetimeAt DEF Fifth
      <3>2. CASE RejectFrame(p)
        <4>1. \E c, a : Retime(p, c, a) /\ a \subseteq {"maxIdleTimeTimer"}
          BY <3>2 DEF RejectFrame
        <4> QED
          BY <4>1, Ends, RetimeAt DEF Fifth
      <3>3. CASE LateAct(p)
        <4>1. \E c : Retime(p, c, {})
          BY <3>3 DEF LateAct
        <4> QED
          BY <4>1, Ends, RetimeAt
      <3> QED
        BY <1>1, <2>3, <3>1, <3>2, <3>3 DEF Handling, Late
    <2> QED
      BY <2>1, <2>2, <2>3
  <1>4. TransferKept
    BY <1>2, <1>3 DEF TransferKept, FirstStopInv, Running
  <1> QED
    BY <1>0, <1>4, FirstStopWire

(* The steps of an endpoint that handle no frame *)
LEMMA FirstStopWriters ==
  ASSUME TypeOK, FirstStopInv, NEW p \in Endpoint,
         \/ AppClose(p) \/ setConnectionListener(p)
         \/ Send(p) \/ SendWaits(p) \/ SenderResumes(p)
         \/ ReaderStops(p) \/ ReaderBroken(p) \/ ReaderExit(p)
         \/ \E t \in Timers : TakeTimer(p, t)
         \/ TimerThread(p) \/ ForwardASdu(p),
         ~HandleStopDtAct(Server),
         acked'[Server] \in Nat, acked'[Server] >= acked[Server]
  PROVE  FirstStopInv'
  <1>0. Server \in Endpoint
    BY Ends
  <1>1. UNCHANGED <<starts, stopDtTimer, stopped>>
    BY DEF AppClose, setConnectionListener, Send, SendWaits, SenderResumes, Transmit,
         ReaderStops, ReaderBroken, ReaderExit, TakeTimer, TimerThread,
         ExecuteNoAckReceived, ExecuteNoAckSent, ExecuteIdle, ExecuteStopDt,
         TimerWriteFails, TimerInterrupted, TimerDone, ForwardASdu,
         transferVars, taskVars, controlVars, resetMaxIdleTimeTimer
  <1>2. sent'[Server] = sent[Server] \/ ~stopped[Server]
    <2>1. CASE Send(p) \/ SenderResumes(p)
      <3>1. UNCHANGED sent \/ (sent' = [sent EXCEPT ![p] = @ + 1] /\ ~stopped[p])
        BY <2>1 DEF Send, SenderResumes, Transmit, MaySend, seqVars
      <3> QED
        BY <1>0, <3>1 DEF TypeOK, SeqType
    <2>2. CASE ~Send(p) /\ ~SenderResumes(p)
      <3>1. UNCHANGED sent
        BY <2>2 DEF AppClose, setConnectionListener, SendWaits,
             ReaderStops, ReaderBroken, ReaderExit, TakeTimer, TimerThread,
             ExecuteNoAckReceived, ExecuteNoAckSent, ExecuteIdle, ExecuteStopDt,
             TimerWriteFails, TimerInterrupted, TimerDone, ForwardASdu, seqVars
      <3> QED
        BY <3>1
    <2> QED
      BY <2>1, <2>2
  <1>3. Fifth \in queued'[Server] => Fifth \in queued[Server]
    <2>1. ASSUME NEW t \in Timers, TakeTimer(p, t)
          PROVE  queued'[Server] \subseteq queued[Server]
      BY <1>0, <2>1 DEF TakeTimer, TypeOK, TaskType
    <2>2. CASE ~\E t \in Timers : TakeTimer(p, t)
      <3>0. CASE Transmit(p)
        <4>1. \E c, a : Retime(p, c, a) /\ Fifth \notin a
          BY <3>0 DEF Transmit, Fifth
        <4> QED
          BY <1>0, <4>1, RetimeAt
      <3>1. CASE ExecuteNoAckSent(p) \/ ExecuteIdle(p)
        <4>1. \E a : Retime(p, {}, a) /\ Fifth \notin a
          BY <3>1 DEF ExecuteNoAckSent, ExecuteIdle, resetMaxIdleTimeTimer, Fifth
        <4> QED
          BY <1>0, <4>1, RetimeAt
      <3>2. CASE ~Transmit(p) /\ ~ExecuteNoAckSent(p) /\ ~ExecuteIdle(p)
        BY <2>2, <3>2 DEF AppClose, setConnectionListener, Send, SendWaits,
           SenderResumes, ReaderStops, ReaderBroken, ReaderExit, TimerThread,
           ExecuteNoAckReceived, ExecuteStopDt, TimerWriteFails, TimerInterrupted,
           TimerDone, ForwardASdu, taskVars
      <3> QED
        BY <3>0, <3>1, <3>2
    <2> QED
      BY <2>1, <2>2
  <1>4. ASSUME starts <= 1 PROVE ~Running(Server, Fifth)'
    <2>0. ~Running(Server, Fifth) /\ (Fifth \in queued[Server] => stopped[Server])
      BY <1>4 DEF FirstStopInv
    <2>1. ASSUME NEW t \in Timers, TakeTimer(p, t)
          PROVE  ~Running(Server, Fifth)'
      BY <1>0, <2>0, <2>1 DEF TakeTimer, Running, Fifth, TypeOK, TmType
    <2>2. CASE ~\E t \in Timers : TakeTimer(p, t)
      <3>1. UNCHANGED task /\ (tm'[Server] = "ready" => tm[Server] = "ready")
        BY <1>0, <2>2 DEF AppClose, setConnectionListener, Send, SendWaits,
             SenderResumes, ReaderStops, ReaderBroken, ReaderExit, TimerThread,
             ExecuteNoAckReceived, ExecuteNoAckSent, ExecuteIdle, ExecuteStopDt,
             TimerWriteFails, TimerInterrupted, TimerDone, Executes, ForwardASdu,
             tmVars, TypeOK, TmType
      <3> QED
        BY <2>0, <3>1 DEF Running
    <2> QED
      BY <2>1, <2>2
  <1>5. TransferKept
    BY <1>1, <1>2, <1>3, <1>4 DEF TransferKept
  <1>6. \/ UNCHANGED wire
        \/ \E out \in Seq(Frame) : Plain(p, out) /\ Writes(p, out)
    BY PlainWriters
  <1> QED
    BY <1>5, <1>6, FirstStopQuiet, FirstStopWire

LEMMA FirstStopControl ==
  ASSUME TypeOK, DataInv, FirstStopInv, ControlCalls \/ ControlThread
  PROVE  FirstStopInv'
  <1>0. Client \in Endpoint /\ Server \in Endpoint /\ Client # Server /\ starts \in Nat
    BY Ends DEF TypeOK, ControlType
  <1>1. /\ UNCHANGED <<sent, acked, tm, task, stopDtTimer>>
        /\ stopped'[Server] = stopped[Server]
    BY <1>0 DEF ControlCalls, ControlThread, StartDataTransfer, StopDataTransfer,
         StartConfirmed, StartTimesOut, StopReadsDiff, StopReadsNumber, StopWritesSFrame,
         StopRecordsSFrame, StopCancelsTimer, StopSendsAct, StopFails, StopReturns,
         seqVars, taskVars, tmVars, transferVars, TypeOK, TransferType
  <1>2. queued'[Server] = queued[Server]
    <2>1. UNCHANGED queued \/ \E c, a : Retime(Client, c, a)
      BY DEF ControlCalls, ControlThread, StartDataTransfer, StopDataTransfer,
           StartConfirmed, StartTimesOut, StopReadsDiff, StopReadsNumber, StopWritesSFrame,
           StopRecordsSFrame, StopCancelsTimer, StopSendsAct, StopFails, StopReturns,
           taskVars, resetMaxIdleTimeTimer
    <2> QED
      BY <1>0, <2>1, RetimeAt
  <1>3. CASE StartDataTransfer
    <2> DEFINE f == UFrame(Client, "STARTDT_ACT")
    <2>1. Writes(Client, <<f>>) /\ starts' = starts + 1
      BY <1>3 DEF StartDataTransfer
    <2>2. f \in Frame
      BY <1>0, UFrameTypes DEF TypeOK, FrameType
    <2> HIDE DEF f
    <2>3. wire'[Server] = wire[Server] \o <<f>> /\ wire'[Client] = wire[Client]
      BY <2>1, WritesAt, Ends
    <2>4. NoStart(wire[Server]) => OneStart(wire'[Server])
      BY <2>2, <2>3, DataTypes, OneStartNew
    <2>5. starts' <= 1 => starts = 0 /\ starts <= 1
      BY <1>0, <2>1
    <2>6. starts' # 0
      BY <1>0, <2>1
    <2> QED
      BY <1>1, <1>2, <2>3, <2>4, <2>5, <2>6 DEF FirstStopInv, Running
  <1>4. ASSUME NEW f \in Frame, f.type # "STARTDT_ACT", Writes(Client, <<f>>),
               UNCHANGED starts
        PROVE  FirstStopInv'
    <2>1. wire'[Server] = wire[Server] \o <<f>> /\ wire'[Client] = wire[Client]
      BY <1>4, WritesAt, Ends
    <2>2. NoStart(<<f>>) /\ <<f>> \in Seq(Frame)
      BY <1>4 DEF NoStart, Only, Frame
    <2>3. /\ NoStart(wire[Server]) => NoStart(wire'[Server])
          /\ OneStart(wire[Server]) => OneStart(wire'[Server])
      BY <2>1, <2>2, DataTypes, OneStartWritten
    <2> QED
      BY <1>1, <1>2, <1>4, <2>1, <2>3 DEF FirstStopInv, Running
  <1>5. CASE StopSendsAct
    <2> DEFINE f == UFrame(Client, "STOPDT_ACT")
    <2>1. Writes(Client, <<f>>) /\ UNCHANGED starts
      BY <1>5 DEF StopSendsAct
    <2>2. f \in Frame /\ f.type # "STARTDT_ACT"
      BY <1>0, UFrameTypes DEF TypeOK, FrameType, UFrame
    <2> HIDE DEF f
    <2> QED
      BY <1>4, <2>1, <2>2
  <1>6. CASE StopWritesSFrame
    <2> DEFINE f == SFrame(stopNr, sent[Client], stopCount)
    <2>1. Writes(Client, <<f>>) /\ UNCHANGED starts
      BY <1>6 DEF StopWritesSFrame
    <2>2. f \in Frame /\ f.type # "STARTDT_ACT"
      BY <1>0, FrameTypes DEF TypeOK, SeqType, ControlType, SFrame
    <2> HIDE DEF f
    <2> QED
      BY <1>4, <2>1, <2>2
  <1>7. CASE ~StartDataTransfer /\ ~StopSendsAct /\ ~StopWritesSFrame
    <2>1. UNCHANGED <<wire, starts>>
      BY <1>7 DEF ControlCalls, ControlThread, StopDataTransfer, StartConfirmed,
           StartTimesOut, StopReadsDiff, StopReadsNumber, StopRecordsSFrame,
           StopCancelsTimer, StopFails, StopReturns
    <2> QED
      BY <1>1, <1>2, <2>1 DEF FirstStopInv, Running
  <1> QED
    BY <1>3, <1>5, <1>6, <1>7

LEMMA FirstStopStep ==
  TypeOK /\ NumberInv /\ DataInv /\ PlannedInv /\ FirstStopInv /\ [Next]_vars
    => FirstStopInv'
  <1> SUFFICES ASSUME TypeOK, NumberInv, DataInv, PlannedInv, FirstStopInv, [Next]_vars
               PROVE  FirstStopInv'
    OBVIOUS
  <1>0. acked'[Server] \in Nat /\ acked'[Server] >= acked[Server]
    <2>1. TypeOK'
      BY TypeStep
    <2> QED
      BY <2>1, Ends, AckedGrows DEF TypeOK, SeqType
  <1>1. CASE UNCHANGED vars
    <2>1. UNCHANGED <<wire, acked, starts, stopDtTimer, stopped, sent, queued, tm, task>>
      BY <1>1 DEF vars, seqVars, transferVars, taskVars, tmVars, controlVars
    <2> QED
      BY <2>1 DEF FirstStopInv, Running
  <1>2. CASE HandleStopDtAct(Server) \/ HandleStartDtAct(Server)
    BY <1>2, FirstStopDtAct, FirstStartDtAct
  <1>3. ASSUME NEW p \in Endpoint,
               \/ AppClose(p) \/ setConnectionListener(p)
               \/ Send(p) \/ SendWaits(p) \/ SenderResumes(p)
               \/ ReaderStops(p) \/ ReaderBroken(p) \/ ReaderExit(p)
               \/ \E t \in Timers : TakeTimer(p, t)
               \/ TimerThread(p) \/ ForwardASdu(p),
               ~HandleStopDtAct(Server)
        PROVE  FirstStopInv'
    BY <1>0, <1>3, FirstStopWriters
  <1>4. ASSUME NEW p \in Endpoint, Handling(p), ~LateAct(Server),
               ~HandleStopDtAct(Server), ~HandleStartDtAct(Server)
        PROVE  FirstStopInv'
    BY <1>0, <1>4, FirstStopHandlers
  <1>5. CASE ControlCalls \/ ControlThread
    BY <1>5, FirstStopControl
  <1>6. CASE LateAct(Server)
    BY <1>6, FirstStopLate
  <1> QED
    BY <1>1, <1>2, <1>3, <1>4, <1>5, <1>6 DEF Next, ReaderThread, Handling, Late

(* As long as data transfer has been started at most once, a STOPDT_CON on  *)
(* its way to the client says that the server holds every I-frame it sent   *)
(* for acknowledged, however often the client stops.                        *)
THEOREM FirstStopIsHonest == Spec => []FirstStopConfirmsAll
  <1>1. Init => FirstStopInv
    BY Ends DEF Init, FirstStopInv, OneStart, NoStart, Only, Covers, Running, Fifth
  <1>2. FirstStopInv => FirstStopConfirmsAll
    BY DEF FirstStopInv, FirstStopConfirmsAll, StopConfirmsAll, Covers
  <1> QED
    BY <1>1, <1>2, TypeCorrect, NumbersCorrect, DataInit, DataStep,
       PlannedInit, PlannedStep, FirstStopStep, PTL DEF Spec
=============================================================================
