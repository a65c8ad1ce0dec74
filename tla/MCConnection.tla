--------------------------- MODULE MCConnection ---------------------------
(* Instances of Connection for TLC: what differs between the endpoints      *)
(* comes from two constants that a cfg can give.                            *)
EXTENDS Connection

CONSTANTS ClientK, ServerK, ClientW, ServerW, ClientSharesPool, ServerSharesPool,
          ClientExpiring, ServerExpiring, ClientSends, ServerSends

PerEndpoint(atClient, atServer) ==
  [p \in Endpoint |-> IF p = Client THEN atClient ELSE atServer]

Ks == PerEndpoint(ClientK, ServerK)
Ws == PerEndpoint(ClientW, ServerW)
SharesPool == PerEndpoint(ClientSharesPool, ServerSharesPool)
ExpiringTimers == PerEndpoint(ClientExpiring, ServerExpiring)
SendBounds == PerEndpoint(ClientSends, ServerSends)
==========================================================================
