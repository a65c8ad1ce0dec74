\* An ASDU received between STARTDT_CON and the setting of the listener.
SPECIFICATION Spec
CONSTANTS
  Client = client
  Server = server
  SeqModulus = 3
  ClientK = 1
  ServerK = 1
  K <- Ks
  ClientW = 2
  ServerW = 2
  W <- Ws
  ClientSharesPool = FALSE
  ServerSharesPool = FALSE
  UseSharedThreadPool <- SharesPool
  ClientExpiring = {"maxTimeNoAckSentTimer"}
  ServerExpiring = {"maxTimeNoAckSentTimer","stopDtOutstandingSFormatTimer"}
  Expiring <- ExpiringTimers
  MaxInFlight = 1
  ClientSends = 0
  ServerSends = 2
  MaxSends <- SendBounds
  MaxStarts = 1
  MaxStops = 0
  Closers = {}
  Attachers = {}
  LinkMayFail = FALSE
CHECK_DEADLOCK FALSE
INVARIANTS
  StartLosesNoASdu
