----------------------------- MODULE MCFraming -----------------------------
(* ASDUs at the limits of the counter and of the buffer, of each kind of    *)
(* type, regular and not.                                                   *)
EXTENDS Framing

Of(type, sequence, objects, sets) ==
  [type |-> type, isSequenceOfElements |-> sequence, objects |-> objects,
   sets |-> sets, elements |-> Elements[type], octets |-> 0]

Private(count, sequence, octets) ==
  [type |-> "private", isSequenceOfElements |-> sequence, objects |-> count,
   sets |-> 0, elements |-> <<>>, octets |-> octets]

SentASdus ==
  {Of("M_SP_NA_1", TRUE, 1, n) : n \in {127, 128, 240, 241}}
    \cup {Of("M_ME_TF_1", FALSE, n, 1) : n \in {1, 16, 17}}
    \cup {Of("M_SP_TB_1", TRUE, 1, n) : n \in {1, 2}}
    \cup {Of("C_RD_NA_1", FALSE, n, 1) : n \in {1, 128}}
    \cup {Of("F_DR_TA_1", TRUE, 1, 3), SendDirectory(3), SendSegment(236)}
    \cup {Private(5, TRUE, 0), Private(127, FALSE, 244), Private(130, FALSE, 9)}
    \cup {[Of("C_SC_NA_1", FALSE, n, 1) EXCEPT !.type = "RESERVED_22"] : n \in 0 .. 1}

FieldLengths ==
  {[cotFieldLength |-> 1, commonAddressFieldLength |-> 1, ioaFieldLength |-> 1],
   [cotFieldLength |-> 2, commonAddressFieldLength |-> 2, ioaFieldLength |-> 3],
   [cotFieldLength |-> 1, commonAddressFieldLength |-> 2, ioaFieldLength |-> 2],
   [cotFieldLength |-> 2, commonAddressFieldLength |-> 1, ioaFieldLength |-> 3]}
============================================================================
