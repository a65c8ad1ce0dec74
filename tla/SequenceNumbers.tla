------------------------- MODULE SequenceNumbers -------------------------
(* The 15-bit counters N(S) and N(R) of IEC 60870-5-104 as Connection.java  *)
(* computes with them: every counter is kept modulo 2^15 and two counters   *)
(* are compared only through sequenceNumberDiff.                            *)
EXTENDS Integers

CONSTANT SeqModulus     \* 2^15 in the code; small in the runs

ASSUME SeqModulusAssumption == SeqModulus \in Nat /\ SeqModulus > 1

SeqNumber == 0 .. SeqModulus - 1

DiffMutant(number, ackNumber) == number - ackNumber      \* blind to the wrap
(* How far number is ahead of ackNumber on the circle of counters. *)
sequenceNumberDiff(number, ackNumber) ==
  IF ackNumber > number THEN (SeqModulus - ackNumber) + number
                        ELSE number - ackNumber

NextSeqMutant(number) == number + 1
NextSeq(number) == (number + 1) % SeqModulus

(* The test "old > new" by which send and updateReceiveSeqNum see that the  *)
(* counter they have just advanced has wrapped.                             *)
Wraps(number) == number > NextSeq(number)
==========================================================================
