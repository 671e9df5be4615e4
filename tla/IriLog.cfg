CONSTANTS
  Writers = {w1, w2}
  Names = {a, b}
  NoWriter = NoWriter
  NoName = NoName
  Dates = {d1, d2}
  NoFile = NoFile
  Confs <- ManyConfs
  WriteTimes = 1
  MaxLen = 2
  NodeIds = {1, 2, 3}
  Fds = {1, 2, 3}
  DirFails = FALSE
  OpenFails = FALSE
  MaxCalls = 2
SPECIFICATION Spec
SYMMETRY Symmetry
INVARIANTS TypeOK InitOnce InitComplete WriterKeepsDescriptor RotationBounds
CHECK_DEADLOCK FALSE
