CONSTANTS
  Writers = {w1, w2}
  Names = {a}
  NoWriter = NoWriter
  NoName = NoName
  Dates = {d1, d2}
  NoFile = NoFile
  Confs <- OneConf
  WriteTimes = 1
  MaxLen = 2
  NodeIds = {1, 2}
  Fds = {1, 2, 3}
  DirFails = TRUE
  OpenFails = TRUE
  MaxCalls = 2
SPECIFICATION FairSpec
PROPERTIES EveryCallReturns
CHECK_DEADLOCK FALSE
