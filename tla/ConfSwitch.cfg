CONSTANTS
  UtilsLines <- AppLines
  LogLines <- FewLogLines
  MaxNodeNum = 2
  IntSpan = 1048576
  LongSpan = 268435456
  MaxUtilsLines = 1
  MaxLogLines = 3
  FilesMem = 3
  Growth = 1
SPECIFICATION Spec
INVARIANTS LogSwitchZeroCloses
CHECK_DEADLOCK FALSE
