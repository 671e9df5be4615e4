CONSTANTS
  Workers = {w1, w2}
  Callers = {c1, c2, c3, c4}
  MaxQueue = 2
  MaxCalls = 1
SPECIFICATION FairSpec
INVARIANTS WakeupsSuffice OneLastTask
PROPERTIES Implements StopReturns RunReturns
CHECK_DEADLOCK FALSE
