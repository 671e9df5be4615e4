CONSTANTS
  Backends = {b1, b2}
  NoThread = NoThread
  Null = Null
  Capacity = 3
  Lens = {1, 2}
  MaxBuffers = 2
  MaxAppends = 5
SPECIFICATION Spec
INVARIANTS TypeOK AssertsHold FIFO Conservation
SYMMETRY Symmetry
CHECK_DEADLOCK FALSE
