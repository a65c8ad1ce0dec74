---------------------------- MODULE ApciProofs ----------------------------
(* Decoding undoes encoding, for all 2^15 values of both counters: this is  *)
(* what lets Connection carry a frame's type and counters on the wire       *)
(* instead of its octets.                                                   *)
EXTENDS Apci, TLAPS

(* A counter split over two octets is put together again. *)
LEMMA CounterRoundTrip ==
  ASSUME NEW n \in Counter
  PROVE  seqNumFrom(LowOctet(n), HighOctet(n)) = n
  BY SMT DEF Counter, seqNumFrom, LowOctet, HighOctet

(* The first octet of an I-frame is even, which is what marks an I-frame. *)
LEMMA LowOctetEven ==
  ASSUME NEW n \in Counter
  PROVE  LowOctet(n) % 2 = 0
  BY SMT DEF Counter, LowOctet

(* The first octets of all other frames are told apart. *)
LEMMA TypeRoundTrip ==
  ASSUME NEW type \in ApciType \ {"I_FORMAT"}
  PROVE  apciTypeFor(FormatOctet[type]) = type
  BY SMT DEF ApciType, FormatOctet, apciTypeFor, unnumberedFormatFor

(* Every I-frame is decoded as it was encoded. *)
THEOREM IFrameRoundTrip ==
  ASSUME NEW ns \in Counter, NEW nr \in Counter
  PROVE  decode(encode(apdu("I_FORMAT", ns, nr))) = apdu("I_FORMAT", ns, nr)
  <1>1. encode(apdu("I_FORMAT", ns, nr))
          = <<LowOctet(ns), HighOctet(ns), LowOctet(nr), HighOctet(nr)>>
    BY DEF encode, apdu
  <1>2. apciTypeFor(LowOctet(ns)) = "I_FORMAT"
    BY LowOctetEven DEF apciTypeFor
  <1> QED
    BY <1>1, <1>2, CounterRoundTrip DEF decode

(* So is every S-frame, ... *)
THEOREM SFrameRoundTrip ==
  ASSUME NEW nr \in Counter
  PROVE  decode(encode(apdu("S_FORMAT", 0, nr))) = apdu("S_FORMAT", 0, nr)
  <1>1. encode(apdu("S_FORMAT", 0, nr)) = <<1, 0, LowOctet(nr), HighOctet(nr)>>
    BY DEF encode, apdu
  <1>2. apciTypeFor(1) = "S_FORMAT"
    BY DEF apciTypeFor
  <1> QED
    BY <1>1, <1>2, CounterRoundTrip DEF decode

(* ... and every frame that has no counter. *)
THEOREM UFrameRoundTrip ==
  ASSUME NEW type \in ApciType \ {"I_FORMAT", "S_FORMAT"}
  PROVE  decode(encode(apdu(type, 0, 0))) = apdu(type, 0, 0)
  <1>1. encode(apdu(type, 0, 0)) = <<FormatOctet[type], 0, 0, 0>>
    BY DEF encode, apdu
  <1>2. apciTypeFor(FormatOctet[type]) = type
    BY TypeRoundTrip
  <1>3. type # "I_FORMAT" /\ type # "S_FORMAT"
    OBVIOUS
  <1> QED
    BY <1>1, <1>2, <1>3 DEF decode
===========================================================================
