CONSTANTS
  RollSize = 3
  FlushInterval = 1
  CheckEveryN = 3
  RollPerSeconds = 3
  Lens = {1, 3}
  MaxTime = 7
  UtcOffset <- TheUtcOffset
  MaxAppends = 6
  ZoneFiles <- TheZoneFiles
  FixedOffsets = {0, 28800}
  Instants <- TheInstants
  UtcInstants <- TheUtcInstants
  JulianDays <- TheDays
  SystemOffsets = {0, 28800}
  kSmallBuffer = 4000
  kMaxNumericSize = 32
  digits10 = 18
  kLargeBuffer = 8000000
  ConfFiles <- TheConfFiles
  NewLevels = {0}
  TextLens = {1, 3930, 3931, 3958, 3960, 32767}
  Numbers <- TheNumbers
  LogZones = {z1}
  NoLogZone = NoLogZone
  MaxNow = 2
  MaxEvents = 5
  MaxThreads = 2
  LineLens = {1, 3}
  MaxAppended = 2
  FileSizes = {0, 2, 5}
  MaxSizes = {0, 3, 4}
  kBufferSize = 3
SPECIFICATION BaseSpec
INVARIANTS TypeOK RollsSoonAfterPeriod NamesComeBackOnlyWithLocalTime OversizeOnlyInOpeningSecond
  TimeZoneInv LoggingInv ThreadsInv FileUtilInv
PROPERTIES ThreadStartReturns
CHECK_DEADLOCK FALSE
