\* Two tasks of different timeouts and two threads that add.
SPECIFICATION FairSpec
CONSTANTS
  t1NoAck = t1NoAck
  t1NoTestCon = t1NoTestCon
  t2 = t2
  t3 = t3
  T1 = 2
  T2 = 2
  T3 = 3
  Task = {t2, t3}
  timeout <- Timeouts
  Caller = {holder, stopper}
  Holder = holder
  ManuallyRun = {t2}
  CallsPerTick = 2
CHECK_DEADLOCK FALSE
INVARIANTS
  UniqueIsQueued
  DuplicatesBounded
  DelayBounded
PROPERTIES
  PlannedComesDue
