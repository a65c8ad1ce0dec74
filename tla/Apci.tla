------------------------------- MODULE Apci -------------------------------
(* The four octets of control fields that open every APDU, as APdu.java     *)
(* encodes and decodes them; the frames without data besides TESTFR are     *)
(* encoded there too, but Connection.java writes all six from constants.    *)
(* An octet is the unsigned value of Java's byte.                           *)
EXTENDS Integers

ApciType == {"I_FORMAT", "S_FORMAT", "STARTDT_ACT", "STARTDT_CON",
             "STOPDT_ACT", "STOPDT_CON", "TESTFR_ACT", "TESTFR_CON"}

Counter == 0 .. 2^15 - 1

(* A counter occupies two octets: seven bits above the format bit, then the *)
(* eight high ones.                                                         *)
LowOctet(n) == (2 * n) % 256           \* (byte) (n << 1)
HighOctet(n) == (n \div 128) % 256     \* (byte) (n >> 7)
seqNumFrom(b1, b2) == (b1 \div 2) + 128 * b2

(* The first octet of a frame without I_FORMAT's counter *)
FormatOctet ==
  [type \in ApciType \ {"I_FORMAT"} |->
     CASE type = "S_FORMAT" -> 1
       [] type = "STARTDT_ACT" -> 7
       [] type = "STARTDT_CON" -> 11
       [] type = "STOPDT_ACT" -> 19
       [] type = "STOPDT_CON" -> 35
       [] type = "TESTFR_ACT" -> 67
       [] type = "TESTFR_CON" -> 131]

(* Frames as APdu holds them; a counter the type does not carry is 0. *)
apdu(type, ns, nr) == [type |-> type, sendSeqNum |-> ns, receiveSeqNum |-> nr]

encode(f) ==
  LET nr1 == LowOctet(f.receiveSeqNum)
      nr2 == HighOctet(f.receiveSeqNum)
  IN  IF f.type = "I_FORMAT"
      THEN <<LowOctet(f.sendSeqNum), HighOctet(f.sendSeqNum), nr1, nr2>>
      ELSE IF f.type = "S_FORMAT" THEN <<1, 0, nr1, nr2>>
      ELSE <<FormatOctet[f.type], 0, 0, 0>>

(* Whatever is not recognized is taken for STARTDT_ACT. *)
unnumberedFormatFor(b) ==
  IF b >= 128 THEN "TESTFR_CON"
  ELSE IF b = 67 THEN "TESTFR_ACT"
  ELSE IF b = 35 THEN "STOPDT_CON"
  ELSE IF b = 19 THEN "STOPDT_ACT"
  ELSE IF b = 11 THEN "STARTDT_CON"
  ELSE "STARTDT_ACT"

apciTypeFor(b) ==
  IF b % 2 = 0 THEN "I_FORMAT"
  ELSE IF b % 4 = 1 THEN "S_FORMAT"
  ELSE unnumberedFormatFor(b)

decode(o) ==
  LET type == apciTypeFor(o[1])
  IN  IF type = "I_FORMAT"
      THEN apdu(type, seqNumFrom(o[1], o[2]), seqNumFrom(o[3], o[4]))
      ELSE IF type = "S_FORMAT" THEN apdu(type, 0, seqNumFrom(o[3], o[4]))
      ELSE apdu(type, 0, 0)
===========================================================================
