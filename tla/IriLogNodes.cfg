CONSTANTS
  Writers = {w1, w2}
  Names = {a}
  NoWriter = NoWriter
  NoName = NoName
  Dates = {d1, d2}
  NoFile = NoFile
  Confs <- OneConf
  WriteTimes = 1
  MaxLen = 2
  NodeIds = {1, 2}
  Fds = {1, 2, 3}
  DirFails = FALSE
  OpenFails = FALSE
  MaxCalls = 2
SPECIFICATION Spec
INVARIANTS HeldNodesLive
CHECK_DEADLOCK FALSE
