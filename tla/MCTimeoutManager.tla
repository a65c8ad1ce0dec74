------------------------- MODULE MCTimeoutManager -------------------------
(* Instances of TimeoutManager for TLC: the tasks of a Connection by their timeouts. *)
EXTENDS TimeoutManager

CONSTANTS t1NoAck, t1NoTestCon, t2, t3, T1, T2, T3

Timeouts ==
  [t \in Task |-> CASE t = t2 -> T2
                    [] t = t3 -> T3
                    [] OTHER -> T1]
===========================================================================
