CONSTANTS
  Backends = {b1}
  NoThread = NoThread
  Null = Null
  Capacity = 3
  Lens = {1, 2}
  MaxBuffers = 3
  MaxAppends = 6
SPECIFICATION FairSpec
PROPERTIES EveryLineSettles StopReturns
CHECK_DEADLOCK FALSE
