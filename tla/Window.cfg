\* Liveness: more callers of send than the window has room for, and a close.
SPECIFICATION FairSpec
CONSTANTS
  Client = client
  Server = server
  SeqModulus = 3
  ClientK = 1
  ServerK = 2
  K <- Ks
  ClientW = 2
  ServerW = 1
  W <- Ws
  ClientSharesPool = FALSE
  ServerSharesPool = FALSE
  UseSharedThreadPool <- SharesPool
  ClientExpiring = {"maxTimeNoAckSentTimer"}
  ServerExpiring = {"maxTimeNoAckSentTimer"}
  Expiring <- ExpiringTimers
  MaxInFlight = 1
  ClientSends = 0
  ServerSends = 4
  MaxSends <- SendBounds
  MaxStarts = 1
  MaxStops = 0
  Closers = {client}
  Attachers = {}
  LinkMayFail = FALSE
CHECK_DEADLOCK FALSE
PROPERTIES
  EveryIFrameAcknowledged
  BlockedSendsReturn
  CloseCompletes
  ImplementsWindowProtocol
