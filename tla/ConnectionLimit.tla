-------------------------- MODULE ConnectionLimit --------------------------
(* What a server promises of its number of connections: each one holds at   *)
(* most one place, taken once and given back once, and no more than         *)
(* MaxConnections are held at a time.                                       *)
EXTENDS Naturals, FiniteSets

CONSTANTS Connection, MaxConnections

VARIABLE holding

Init == holding = {}

Take(c) ==
  /\ c \notin holding
  /\ Cardinality(holding) < MaxConnections
  /\ holding' = holding \cup {c}

GiveBack(c) == c \in holding /\ holding' = holding \ {c}

Next == \E c \in Connection : Take(c) \/ GiveBack(c)

Spec == Init /\ [][Next]_holding
=============================================================================
