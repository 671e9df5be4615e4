CONSTANTS
  Pids = {1, 2, 3, 4, 5, 6}
  NoPid = 0
  MaxStarts = 2
  InitialMax = 2
  Chars = {"a", "A", "b", "B", "."}
  Exts <- TheExts
  FileNames <- TheNames
  MaxAdds = 2
  CommandLine <- TheCommandLine
  MaxArgs = 5
  Readers = {r1, r2}
  NoReader = NoReader
  Updater = Updater
  MaxMoment = 3
  MaxReads = 2
  Keys = {1, 2, 3}
  MaxArray = 6
  Callers = {t1, t2}
  Channels = {x}
  NoCaller = NoCaller
  FuncMaxCount = 2
  MaxMessages = 2
  MaxCalls = 2
SPECIFICATION FairSpec
INVARIANTS SingleInstanceInv FileExtInv OptEntryInv LocalTimeInv CsortInv RedisInv
PROPERTIES NoOlderReading NothingWaitsForEver
CHECK_DEADLOCK FALSE
