\* The two tasks of timeout t1, added in the same millisecond.
SPECIFICATION Spec
CONSTANTS
  t1NoAck = t1NoAck
  t1NoTestCon = t1NoTestCon
  t2 = t2
  t3 = t3
  T1 = 2
  T2 = 2
  T3 = 3
  Task = {t1NoAck, t1NoTestCon}
  timeout <- Timeouts
  Caller = {holder}
  Holder = holder
  ManuallyRun = {}
  CallsPerTick = 2
CHECK_DEADLOCK FALSE
INVARIANTS
  PlannedIsQueued
