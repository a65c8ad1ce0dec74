\* One place for two peers, with a client of the same program.
SPECIFICATION FairSpec
CONSTANTS
  Inbound = {in1, in2}
  Outbound = {out}
  Allowed = {in1, in2}
  MaxConnections = 1
  MaxStarts = 1
  Sharings = {{}, {"server", out}}
  Throwing = {in1}
CHECK_DEADLOCK FALSE
INVARIANTS
  TypeOK
  SlotsCounted
  NobodyCutOff
  NoSilentEnd
PROPERTIES
  ImplementsConnectionLimit
  SlotReturns
  AttemptIsSettled
