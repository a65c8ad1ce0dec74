\* t3, the test frame and t1 against handled frames, a stop and every way to close.
SPECIFICATION Spec
CONSTANTS
  Client = client
  Server = server
  SeqModulus = 2
  ClientK = 1
  ServerK = 1
  K <- Ks
  ClientW = 1
  ServerW = 1
  W <- Ws
  ClientSharesPool = FALSE
  ServerSharesPool = TRUE
  UseSharedThreadPool <- SharesPool
  ClientExpiring = {"maxTimeNoAckReceived"}
  ServerExpiring = {"maxTimeNoAckReceived","maxIdleTimeTimer","maxTimeNoTestConReceived"}
  Expiring <- ExpiringTimers
  MaxInFlight = 1
  ClientSends = 0
  ServerSends = 1
  MaxSends <- SendBounds
  MaxStarts = 1
  MaxStops = 1
  Closers = {client}
  Attachers = {}
  LinkMayFail = TRUE
CHECK_DEADLOCK FALSE
INVARIANTS
  LinkSupervised
  SentIsTimed
  ServerIsTold
  ClientIsTold
