\* Both ends send: windows of two, counters modulo 3 that wrap, t2 may expire.
SPECIFICATION Spec
CONSTANTS
  Client = client
  Server = server
  SeqModulus = 3
  ClientK = 2
  ServerK = 2
  K <- Ks
  ClientW = 2
  ServerW = 2
  W <- Ws
  ClientSharesPool = FALSE
  ServerSharesPool = FALSE
  UseSharedThreadPool <- SharesPool
  ClientExpiring = {"maxTimeNoAckSentTimer"}
  ServerExpiring = {"maxTimeNoAckSentTimer"}
  Expiring <- ExpiringTimers
  MaxInFlight = 1
  ClientSends = 2
  ServerSends = 4
  MaxSends <- SendBounds
  MaxStarts = 1
  MaxStops = 0
  Closers = {}
  Attachers = {}
  LinkMayFail = FALSE
CHECK_DEADLOCK FALSE
INVARIANTS
  TypeOK
  NoSequenceError
  AckedWasReceived
  WindowRespected
  NoLostWakeup
  SentIsTimed
  ReceivedIsTimed
  ConfirmedIsRecorded
  ForwardedInOrder
PROPERTIES
  ImplementsWindowProtocol
