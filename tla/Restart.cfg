\* Start, stop and start again, with calls that time out and data on its way.
SPECIFICATION Spec
CONSTANTS
  Client = client
  Server = server
  SeqModulus = 3
  ClientK = 1
  ServerK = 1
  K <- Ks
  ClientW = 2
  ServerW = 2
  W <- Ws
  ClientSharesPool = FALSE
  ServerSharesPool = FALSE
  UseSharedThreadPool <- SharesPool
  ClientExpiring = {"maxTimeNoAckSentTimer"}
  ServerExpiring = {"maxTimeNoAckSentTimer","stopDtOutstandingSFormatTimer"}
  Expiring <- ExpiringTimers
  MaxInFlight = 1
  ClientSends = 1
  ServerSends = 2
  MaxSends <- SendBounds
  MaxStarts = 2
  MaxStops = 1
  Closers = {}
  Attachers = {client}
  LinkMayFail = FALSE
CHECK_DEADLOCK FALSE
INVARIANTS
  NoSequenceError
  AckedWasReceived
  NoDataWhileStopped
  FirstStopConfirmsAll
