CONSTANTS
  UtilsLines <- AppLines
  LogLines <- ManyLogLines
  MaxNodeNum = 2
  IntSpan = 1048576
  LongSpan = 268435456
  MaxUtilsLines = 5
  MaxLogLines = 6
  FilesMem = 3
  Growth = 1
SPECIFICATION Spec
INVARIANTS ValuesAsWritten UndefinedOnlyByFile EntriesAsWritten
CHECK_DEADLOCK FALSE
