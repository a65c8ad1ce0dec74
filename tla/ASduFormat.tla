----------------------------- MODULE ASduFormat -----------------------------
(* How long an ASDU is and how a reader finds its end.  ASdu.encode writes  *)
(* what the ASdu object holds; ASdu.decode is led by the type, the variable *)
(* structure qualifier and its own settings, and uses the length of the     *)
(* APDU for private types only.  What an element holds is left out, but for *)
(* the length of a file segment.                                            *)
EXTENDS Integers, Sequences, SequencesExt

(* The octets encode writes and the decoding constructor reads of each      *)
(* class of element, a file segment's contents not counted.                 *)
ElementOctets == [
  SinglePoint |-> 1, DoublePoint |-> 1, Quality |-> 1, TransientValue |-> 1,
  BinaryState |-> 4, NormalizedValue |-> 2, ScaledValue |-> 2, ShortFloat |-> 4,
  BinaryCounterReading |-> 5, StatusAndStatusChanges |-> 4,
  SingleProtectionEvent |-> 1, ProtectionStartEvent |-> 1,
  ProtectionOutput |-> 1, ProtectionQuality |-> 1,
  Time16 |-> 2, Time24 |-> 3, Time56 |-> 7,
  SingleCommand |-> 1, DoubleCommand |-> 1, RegulatingStepCommand |-> 1,
  SetPointQualifier |-> 1, CauseOfInitialization |-> 1, Interrogation |-> 1,
  CounterInterrogation |-> 1, TestBitPattern |-> 2, ResetProcess |-> 1,
  TestSequenceCounter |-> 2, ParameterOfMeasured |-> 1, ParameterActivation |-> 1,
  NameOfFile |-> 2, NameOfSection |-> 1, LengthOfFile |-> 3, FileReady |-> 1,
  SectionReady |-> 1, SelectAndCall |-> 1, LastSection |-> 1, Checksum |-> 1,
  AckFile |-> 1, FileSegment |-> 1, StatusOfFile |-> 1]

(* One set of the elements that InformationObject.decode reads for a type;  *)
(* the types it does not know it leaves to a ReservedASduTypeDecoder.       *)
Elements == [
  M_SP_NA_1 |-> <<"SinglePoint">>,
  M_SP_TA_1 |-> <<"SinglePoint", "Time24">>,
  M_DP_NA_1 |-> <<"DoublePoint">>,
  M_DP_TA_1 |-> <<"DoublePoint", "Time24">>,
  M_ST_NA_1 |-> <<"TransientValue", "Quality">>,
  M_ST_TA_1 |-> <<"TransientValue", "Quality", "Time24">>,
  M_BO_NA_1 |-> <<"BinaryState", "Quality">>,
  M_BO_TA_1 |-> <<"BinaryState", "Quality", "Time24">>,
  M_ME_NA_1 |-> <<"NormalizedValue", "Quality">>,
  M_ME_TA_1 |-> <<"NormalizedValue", "Quality", "Time24">>,
  M_ME_NB_1 |-> <<"ScaledValue", "Quality">>,
  M_ME_TB_1 |-> <<"ScaledValue", "Quality", "Time24">>,
  M_ME_NC_1 |-> <<"ShortFloat", "Quality">>,
  M_ME_TC_1 |-> <<"ShortFloat", "Quality", "Time24">>,
  M_IT_NA_1 |-> <<"BinaryCounterReading">>,
  M_IT_TA_1 |-> <<"BinaryCounterReading", "Time24">>,
  M_EP_TA_1 |-> <<"SingleProtectionEvent", "Time16", "Time24">>,
  M_EP_TB_1 |-> <<"ProtectionStartEvent", "ProtectionQuality", "Time16", "Time24">>,
  M_EP_TC_1 |-> <<"ProtectionOutput", "ProtectionQuality", "Time16", "Time24">>,
  M_PS_NA_1 |-> <<"StatusAndStatusChanges", "Quality">>,
  M_ME_ND_1 |-> <<"NormalizedValue">>,
  M_SP_TB_1 |-> <<"SinglePoint", "Time56">>,
  M_DP_TB_1 |-> <<"DoublePoint", "Time56">>,
  M_ST_TB_1 |-> <<"TransientValue", "Quality", "Time56">>,
  M_BO_TB_1 |-> <<"BinaryState", "Quality", "Time56">>,
  M_ME_TD_1 |-> <<"NormalizedValue", "Quality", "Time56">>,
  M_ME_TE_1 |-> <<"ScaledValue", "Quality", "Time56">>,
  M_ME_TF_1 |-> <<"ShortFloat", "Quality", "Time56">>,
  M_IT_TB_1 |-> <<"BinaryCounterReading", "Time56">>,
  M_EP_TD_1 |-> <<"SingleProtectionEvent", "Time16", "Time56">>,
  M_EP_TE_1 |-> <<"ProtectionStartEvent", "ProtectionQuality", "Time16", "Time56">>,
  M_EP_TF_1 |-> <<"ProtectionOutput", "ProtectionQuality", "Time16", "Time56">>,
  C_SC_NA_1 |-> <<"SingleCommand">>,
  C_DC_NA_1 |-> <<"DoubleCommand">>,
  C_RC_NA_1 |-> <<"RegulatingStepCommand">>,
  C_SE_NA_1 |-> <<"NormalizedValue", "SetPointQualifier">>,
  C_SE_NB_1 |-> <<"ScaledValue", "SetPointQualifier">>,
  C_SE_NC_1 |-> <<"ShortFloat", "SetPointQualifier">>,
  C_BO_NA_1 |-> <<"BinaryState">>,
  C_SC_TA_1 |-> <<"SingleCommand", "Time56">>,
  C_DC_TA_1 |-> <<"DoubleCommand", "Time56">>,
  C_RC_TA_1 |-> <<"RegulatingStepCommand", "Time56">>,
  C_SE_TA_1 |-> <<"NormalizedValue", "SetPointQualifier", "Time56">>,
  C_SE_TB_1 |-> <<"ScaledValue", "SetPointQualifier", "Time56">>,
  C_SE_TC_1 |-> <<"ShortFloat", "SetPointQualifier", "Time56">>,
  C_BO_TA_1 |-> <<"BinaryState", "Time56">>,
  M_EI_NA_1 |-> <<"CauseOfInitialization">>,
  C_IC_NA_1 |-> <<"Interrogation">>,
  C_CI_NA_1 |-> <<"CounterInterrogation">>,
  C_RD_NA_1 |-> <<>>,
  C_CS_NA_1 |-> <<"Time56">>,
  C_TS_NA_1 |-> <<"TestBitPattern">>,
  C_RP_NA_1 |-> <<"ResetProcess">>,
  C_CD_NA_1 |-> <<"Time16">>,
  C_TS_TA_1 |-> <<"TestSequenceCounter", "Time56">>,
  P_ME_NA_1 |-> <<"NormalizedValue", "ParameterOfMeasured">>,
  P_ME_NB_1 |-> <<"ScaledValue", "ParameterOfMeasured">>,
  P_ME_NC_1 |-> <<"ShortFloat", "ParameterOfMeasured">>,
  P_AC_NA_1 |-> <<"ParameterActivation">>,
  F_FR_NA_1 |-> <<"NameOfFile", "LengthOfFile", "FileReady">>,
  F_SR_NA_1 |-> <<"NameOfFile", "NameOfSection", "LengthOfFile", "SectionReady">>,
  F_SC_NA_1 |-> <<"NameOfFile", "NameOfSection", "SelectAndCall">>,
  F_LS_NA_1 |-> <<"NameOfFile", "NameOfSection", "LastSection", "Checksum">>,
  F_AF_NA_1 |-> <<"NameOfFile", "NameOfSection", "AckFile">>,
  F_SG_NA_1 |-> <<"NameOfFile", "NameOfSection", "FileSegment">>,
  F_DR_TA_1 |-> <<"NameOfFile", "LengthOfFile", "StatusOfFile", "Time56">>,
  F_SC_NB_1 |-> <<"NameOfFile", "Time56", "Time56">>]

(* The types of which it reads numberOfSequenceElements sets.  Of the       *)
(* others it reads one, whatever the qualifier says, of C_RD_NA_1 none.     *)
Sequenced ==
  {"M_SP_NA_1", "M_DP_NA_1", "M_ST_NA_1", "M_BO_NA_1", "M_ME_NA_1", "M_ME_NB_1",
   "M_ME_NC_1", "M_IT_NA_1", "M_PS_NA_1", "M_ME_ND_1", "F_DR_TA_1"}

(* An ASdu object: so many information objects, each with so many sets of   *)
(* elements.  One of a private type has instead privateInformation, and a   *)
(* sequence length of the application's choice (objects).  The octets are   *)
(* those of privateInformation or of a file segment.                        *)
ASdu == [type : STRING, isSequenceOfElements : BOOLEAN, objects : Nat, sets : Nat,
         elements : Seq(DOMAIN ElementOctets), octets : Nat]

----------------------------------------------------------------------------
(* ASdu.encode *)

DataUnitIdentifierOctets(s) == 2 + s.cotFieldLength + s.commonAddressFieldLength

SetOctets(elements, octets) ==
  FoldSeq(LAMBDA e, n : n + ElementOctets[e] + (IF e = "FileSegment" THEN octets ELSE 0),
          0, elements)

PayloadOctets(a, s) ==
  IF a.type = "private" THEN a.octets
  ELSE a.objects * (s.ioaFieldLength + a.sets * SetOctets(a.elements, a.octets))

ASduOctets(a, s) == DataUnitIdentifierOctets(s) + PayloadOctets(a, s)

SequenceLength(a) ==
  IF a.isSequenceOfElements /\ a.type # "private" THEN a.sets ELSE a.objects

VsqMutant(a) == SequenceLength(a) % 256
(* (byte) (sequenceLength | 0x80), or without the bit *)
Vsq(a) ==
  IF a.isSequenceOfElements THEN 128 + (SequenceLength(a) % 128)
                            ELSE SequenceLength(a) % 256

----------------------------------------------------------------------------
(* ASdu.decode: what it takes from the stream after the identifier, given   *)
(* the type and the qualifier, aSduLength and, as far as it meets one, the  *)
(* length octet of a file segment.                                          *)

IsSequence(vsq) == vsq >= 128
ObjectsReadMutant(vsq) == vsq % 128
ObjectsRead(vsq) == IF IsSequence(vsq) THEN 1 ELSE vsq % 128
SetsRead(type, vsq) ==
  IF type = "C_RD_NA_1" THEN 0
  ELSE IF type \in Sequenced /\ IsSequence(vsq) THEN vsq % 128 ELSE 1

PrivateOctetsMutant(aSduLength, s) == aSduLength - 4
PrivateOctets(aSduLength, s) ==
  aSduLength - (IF s.cotFieldLength = 2 THEN 1 ELSE 0)
             - (IF s.commonAddressFieldLength = 1 THEN 0 ELSE 1) - 4

OctetsRead(type, vsq, aSduLength, segment, s) ==
  IF type = "private" THEN PrivateOctets(aSduLength, s)
  ELSE IF ObjectsRead(vsq) = 0 THEN 0      \* of whatever type
  ELSE ObjectsRead(vsq) *
         (s.ioaFieldLength + SetsRead(type, vsq) * SetOctets(Elements[type], segment))

(* The ASdu it returns.  The sequence length of a private one is kept.  One *)
(* without objects has neither sets nor elements.                           *)
Decoded(type, vsq, aSduLength, segment, s) ==
  LET none == type = "private" \/ ObjectsRead(vsq) = 0
  IN  [type |-> type, isSequenceOfElements |-> IsSequence(vsq),
       objects |-> IF type = "private" THEN vsq % 128 ELSE ObjectsRead(vsq),
       sets |-> IF none THEN 0 ELSE SetsRead(type, vsq),
       elements |-> IF none THEN <<>> ELSE Elements[type],
       octets |-> IF type = "private" THEN PrivateOctets(aSduLength, s) ELSE segment]

(* What of an ASdu can arrive: a set that is empty leaves no trace, nor     *)
(* does anything of an ASdu without objects.                                *)
Content(a) ==
  LET elements == IF a.objects = 0 THEN <<>> ELSE a.elements
  IN  [type |-> a.type, isSequenceOfElements |-> a.isSequenceOfElements,
       objects |-> a.objects, sets |-> IF elements = <<>> THEN 0 ELSE a.sets,
       elements |-> elements, octets |-> a.octets]

----------------------------------------------------------------------------
(* The ASDUs that the methods of Connection build: one object with one set  *)
(* of the elements they are given, but for a directory.                     *)

Command(type, elements) ==
  [type |-> type, isSequenceOfElements |-> FALSE, objects |-> 1, sets |-> 1,
   elements |-> elements, octets |-> 0]

Commands ==
  {Command("C_SC_NA_1", <<"SingleCommand">>),
   Command("C_SC_TA_1", <<"SingleCommand", "Time56">>),
   Command("C_DC_NA_1", <<"DoubleCommand">>),
   Command("C_DC_TA_1", <<"DoubleCommand", "Time56">>),
   Command("C_RC_NA_1", <<"RegulatingStepCommand">>),
   Command("C_RC_TA_1", <<"RegulatingStepCommand", "Time56">>),
   Command("C_SE_NA_1", <<"NormalizedValue", "SetPointQualifier">>),
   Command("C_SE_TA_1", <<"NormalizedValue", "SetPointQualifier", "Time56">>),
   Command("C_SE_NB_1", <<"ScaledValue", "SetPointQualifier">>),
   Command("C_SE_TB_1", <<"ScaledValue", "SetPointQualifier", "Time56">>),
   Command("C_SE_NC_1", <<"ShortFloat", "SetPointQualifier">>),
   Command("C_SE_TC_1", <<"ShortFloat", "SetPointQualifier", "Time56">>),
   Command("C_BO_NA_1", <<"BinaryState">>),
   Command("C_BO_TA_1", <<"BinaryState", "Time56">>),
   Command("C_IC_NA_1", <<"Interrogation">>),
   Command("C_CI_NA_1", <<"CounterInterrogation">>),
   Command("C_RD_NA_1", <<>>),
   Command("C_CS_NA_1", <<"Time56">>),
   Command("C_TS_NA_1", <<"TestBitPattern">>),
   Command("C_RP_NA_1", <<"ResetProcess">>),
   Command("C_CD_NA_1", <<"Time16">>),
   Command("C_TS_TA_1", <<"TestSequenceCounter", "Time56">>),
   Command("P_ME_NA_1", <<"NormalizedValue", "ParameterOfMeasured">>),
   Command("P_ME_NB_1", <<"ScaledValue", "ParameterOfMeasured">>),
   Command("P_ME_NC_1", <<"ShortFloat", "ParameterOfMeasured">>),
   Command("P_AC_NA_1", <<"ParameterActivation">>),
   Command("F_FR_NA_1", <<"NameOfFile", "LengthOfFile", "FileReady">>),
   Command("F_SR_NA_1", <<"NameOfFile", "NameOfSection", "LengthOfFile", "SectionReady">>),
   Command("F_SC_NA_1", <<"NameOfFile", "NameOfSection", "SelectAndCall">>),
   Command("F_LS_NA_1", <<"NameOfFile", "NameOfSection", "LastSection", "Checksum">>),
   Command("F_AF_NA_1", <<"NameOfFile", "NameOfSection", "AckFile">>),
   Command("F_SC_NB_1", <<"NameOfFile", "Time56", "Time56">>)}

SendSegmentMutant(octets) ==
  [Command("F_SG_NA_1", <<"NameOfFile", "FileSegment">>) EXCEPT !.octets = octets]
SendSegment(octets) ==
  [Command("F_SG_NA_1", <<"NameOfFile", "NameOfSection", "FileSegment">>)
     EXCEPT !.octets = octets]

(* sendDirectory: one object with all entries, and no sequence. *)
SendDirectory(entries) ==
  [Command("F_DR_TA_1", <<"NameOfFile", "LengthOfFile", "StatusOfFile", "Time56">>)
     EXCEPT !.sets = entries]

(* sendConfirmation and sendActivationTermination send back what was        *)
(* received; of a private type they send nothing (NullPointerException).    *)
Confirmable(a) == a.type # "private"

----------------------------------------------------------------------------
(* What an ASdu must be for a reader to find its end: the elements of its   *)
(* type, at most 127 of what is counted, and one set of elements in each    *)
(* object, or several in a single one as a sequence if the type allows it.  *)
(* Sets do not matter where there are no elements, nor does the type where  *)
(* there is no object.                                                      *)
Regular(a) ==
  /\ SequenceLength(a) <= 127
  /\ \/ a.type = "private"
     \/ a.objects = 0 /\ ~a.isSequenceOfElements
     \/ /\ a.type \in DOMAIN Elements
        /\ a.elements = Elements[a.type]
        /\ a.isSequenceOfElements => a.objects = 1
        /\ \/ a.sets = 1 \/ a.elements = <<>>
           \/ a.isSequenceOfElements /\ a.type \in Sequenced
============================================================================
