-------------------------- MODULE WindowProtocol --------------------------
(* What the I-frame machinery of a connection promises, with nothing of how *)
(* it is done: no frames, no modular counters, no timers.  Each endpoint    *)
(* numbers the ASDUs it sends; the other one takes them in that order, each *)
(* once; at most K[p] of them are unacknowledged; and an endpoint holds an  *)
(* ASDU for acknowledged only when the other one has really taken it,       *)
(* unless it has itself closed the connection, which writes off the rest.   *)
(* What arrives after that is not taken, but for one ASDU at the most that  *)
(* was in hand at that moment.                                              *)
EXTENDS Integers

CONSTANTS Endpoint, K

VARIABLES sent,      \* ASDUs the endpoint has sent
          received,  \* ASDUs of the other endpoint it has taken
          acked,     \* ASDUs it has sent and holds for acknowledged
          state      \* "open", "closing" with a frame in hand, or "closed"

windowVars == <<sent, received, acked, state>>

Init ==
  /\ sent = [p \in Endpoint |-> 0]
  /\ received = [p \in Endpoint |-> 0]
  /\ acked = [p \in Endpoint |-> 0]
  /\ state = [p \in Endpoint |-> "open"]

Send(p) ==
  /\ state[p] = "open"
  /\ sent[p] - acked[p] < K[p]
  /\ sent' = [sent EXCEPT ![p] = @ + 1]
  /\ UNCHANGED <<received, acked, state>>

Take(p, q) ==
  \/ received' = received
  \/ received[p] < sent[q] /\ received' = [received EXCEPT ![p] = @ + 1]

(* One frame of q arrives: it may carry the next ASDU, an acknowledgement,  *)
(* or both.                                                                 *)
Receive(p, q) ==
  /\ state[p] = "open"
  /\ Take(p, q)
  /\ \E a \in acked[p] .. received[q] : acked' = [acked EXCEPT ![p] = a]
  /\ UNCHANGED <<sent, state>>

Close(p) ==
  /\ state[p] = "open"
  /\ \E end \in {"closing", "closed"} : state' = [state EXCEPT ![p] = end]
  /\ acked' = [acked EXCEPT ![p] = sent[p]]
  /\ UNCHANGED <<sent, received>>

(* The frame in hand: only its ASDU still counts. *)
ReceiveLate(p, q) ==
  /\ state[p] = "closing"
  /\ state' = [state EXCEPT ![p] = "closed"]
  /\ Take(p, q)
  /\ UNCHANGED <<sent, acked>>

Next ==
  \E p \in Endpoint :
    \/ Send(p)
    \/ \E q \in Endpoint \ {p} : Receive(p, q) \/ ReceiveLate(p, q)
    \/ Close(p)

Spec == Init /\ [][Next]_windowVars
==========================================================================
