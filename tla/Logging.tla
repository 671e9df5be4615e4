-------------------------------- MODULE Logging --------------------------------
(***************************************************************************)
(* muduo/base Logging and LogStream, and the C functions of muduo_clog on  *)
(* top: how a line is put together before it goes to the back end.  The    *)
(* logger's constructor writes time, thread, level and errno or function   *)
(* into a buffer of fixed size, the caller inserts texts and numbers, and  *)
(* the destructor adds the place and the end of line.                      *)
(*                                                                         *)
(* Of a text only its length counts, and a line is the sequence of the     *)
(* pieces that found room.  One thread is enough: the buffer, the text of  *)
(* the time and its second are the thread's own.                           *)
(***************************************************************************)
EXTENDS Integers, SequencesExt, CArith

CONSTANTS
  kSmallBuffer,    \* size of the buffer of a line
  kMaxNumericSize, \* room that a number must find
  digits10,        \* decimal digits that every number of the widest type has room for
  kLargeBuffer,    \* size of a buffer of the back end
  ConfFiles,       \* sequences of lines of iridiumlog_muduo.conf, see ConfLine
  NewLevels,       \* arguments of setLogLevel()
  TextLens,        \* lengths of the texts that callers insert
  Numbers,         \* the integers that they insert
  LogZones,        \* zones that setTimeZone() may be given
  NoLogZone,       \* g_logTimeZone before that
  MaxNow,          \* bound on the clock
  MaxEvents        \* bound on the lines, insertions and changes together

\* In bytes: a size for log files must be above the one, the other is the default.
LimitOfSizes == 8000000
DefaultSize == 524288000

ASSUME LoggingAssumption ==
  /\ NewLevels \subseteq 0 .. 5
  /\ ConfFiles \subseteq Seq([key : STRING, equals : BOOLEAN, value : Int])
  /\ TextLens \subseteq Nat /\ Numbers \subseteq Int
  /\ kSmallBuffer \in Nat \ {0} /\ kMaxNumericSize \in Nat /\ NoLogZone \notin LogZones
  /\ kLargeBuffer \in Nat /\ kLargeBuffer <= LimitOfSizes
  /\ MaxNow \in Nat \ {0} /\ MaxEvents \in Nat

VARIABLES
  lgLevel,      \* g_logLevel
  lgClogLevel,  \* muduo_clog_level
  lgRollSize,   \* what muduo_clog_init() gives the back end
  lgZone,       \* g_logTimeZone
  lgNow,        \* gettimeofday(), in seconds
  lgTime,       \* t_lastSecond and t_time: the second, and the second and zone of the text
  lgStream,     \* the stream of the line being written, or of the last one
  lgOpen,       \* level of the line that is being written, or NoLevel
  lgStamp,      \* history: second, zone and shown time of the line, and since when
                \* the zone was set
  lgDigits,     \* history: the number converted last, and what became of it
  lgZoneSet,    \* history: the second of the last setTimeZone()
  lgBack,       \* history: the clock was set back
  lgEvents      \* history: lines, insertions and changes so far

zoneVars == <<lgZone, lgZoneSet>>
clockVars == <<lgNow, lgBack>>
levelVars == <<lgLevel, lgClogLevel, lgRollSize>>
lgVars == <<levelVars, zoneVars, clockVars, lgTime, lgStream, lgOpen, lgStamp, lgDigits, lgEvents>>

TRACE == 0
INFO == 2
WARN == 3
FATAL == 5
LogLevels == 0 .. 5
NoLevel == -1

-----------------------------------------------------------------------------
\* A line of the file: its key, whether a '=' follows, and atoi() of the rest.
ConfLine(key, equals, value) == [key |-> key, equals |-> equals, value |-> value]

\* Without a '=' the position wraps from npos to 0: the value is read from the
\* start of the line, where atoi() finds the key, and gives 0.
AtoiOf(line) == IF line.equals THEN line.value ELSE 0

\* "only 0,1,2,3 is legal", and any other becomes 3.
LegalLevel(n) == IF n < 0 \/ n > 2 THEN 3 ELSE n

\* A file may not be as small as a buffer.
LegalSize(n) == IF n <= LimitOfSizes THEN DefaultSize ELSE n

\* ConfFileRead: every line is looked at, so the last one with a key counts.
ReadLine(conf, line) ==
  CASE line.key = "LOG_LEVEL" -> [conf EXCEPT !.level_ = LegalLevel(AtoiOf(line))]
    [] line.key = "FILE_SIZE" -> [conf EXCEPT !.LogFileSize_ = LegalSize(AtoiOf(line))]
    [] OTHER -> conf
ConfFileRead(lines) ==
  LET conf[n \in 0 .. Len(lines)] ==
        IF n = 0 THEN [level_ |-> 2, LogFileSize_ |-> DefaultSize]
                 ELSE ReadLine(conf[n - 1], lines[n])
  IN  conf[Len(lines)]

initLogLevel(lines) ==
  LET level == ConfFileRead(lines).level_ IN IF level \in TRACE .. INFO THEN level ELSE WARN

-----------------------------------------------------------------------------
\* const char digits[] = "9876543210123456789", and zero in its middle, so that
\* zero[lsd] is right on both sides of 0.
digits == <<9, 8, 7, 6, 5, 4, 3, 2, 1, 0, 1, 2, 3, 4, 5, 6, 7, 8, 9>>
zero(lsd) == digits[10 + lsd]

\* The last digit of i.
LastDigit(i) == zero(Remainder(i, 10))

\* The digits of a number, and its sign; the terminating NUL is written after
\* them but not counted.
convert(value) ==
  LET text[i \in Int] == IF Quot(i, 10) = 0 THEN <<LastDigit(i)>>
                         ELSE Append(text[Quot(i, 10)], LastDigit(i))
  IN  [negative |-> value < 0, digits |-> text[value]]

\* What a pointer prints after "0x".
convertHex(value) ==
  LET text[i \in Nat] == IF i \div 16 = 0 THEN <<i % 16>> ELSE Append(text[i \div 16], i % 16)
  IN  [negative |-> FALSE, digits |-> text[value]]

\* LogStream::staticCheck(); and numeric_limits<T>::digits10, 9 at least for a long:
\* a number of type T has at most one digit more.
ASSUME staticCheck ==
  /\ digits10 \in Nat /\ digits10 >= 9 /\ kMaxNumericSize - 10 > digits10
  /\ \A v \in Numbers : Len(convert(v).digits) <= digits10 + 1

-----------------------------------------------------------------------------
\* FixedBuffer: cur_ as an index, the highest byte written, and what is in it.
EmptyStream == [cur |-> 0, high |-> 0, pieces |-> << >>]

avail(s) == kSmallBuffer - s.cur

HasRoom(s, len) == avail(s) > len

Written(s, piece, len, bytes) ==
  [cur |-> s.cur + len, high |-> Max({s.high, s.cur + bytes}), pieces |-> Append(s.pieces, piece)]

\* FixedBuffer::append(): all or nothing.
append(s, piece, len) == IF HasRoom(s, len) THEN Written(s, piece, len, len) ELSE s

\* (Mutant: any room will do.)
NumberFitsAny(s) == avail(s) > 0
NumberFits(s) == avail(s) >= kMaxNumericSize

\* formatInteger(), and the operators << of the integer types: the number and a
\* NUL go straight into the buffer.
LengthOf(text) == Len(text.digits) + IF text.negative THEN 1 ELSE 0
formatInteger(s, piece, v) ==
  IF NumberFits(s) THEN Written(s, piece, LengthOf(convert(v)), LengthOf(convert(v)) + 1) ELSE s

formatPointer(s, v) ==
  IF NumberFits(s) THEN Written(s, "pointer", LengthOf(convertHex(v)) + 2, LengthOf(convertHex(v)) + 3)
  ELSE s

\* "%.12g" through snprintf() with kMaxNumericSize: sign, 12 digits, point and
\* exponent are 19 characters at most.
formatDouble(s, len) == IF NumberFits(s) THEN Written(s, "double", len, len + 1) ELSE s

-----------------------------------------------------------------------------
LoggingInit ==
  /\ \E lines \in ConfFiles :
       lgLevel = initLogLevel(lines) /\ lgRollSize = ConfFileRead(lines).LogFileSize_
  /\ lgClogLevel = TRACE
  /\ lgZone = NoLogZone /\ lgZoneSet = 0
  /\ lgNow \in 1 .. MaxNow /\ lgBack = FALSE
  /\ lgTime = [lastSecond |-> 0, shown |-> 0, zone |-> NoLogZone]
  /\ lgStream = EmptyStream /\ lgOpen = NoLevel
  /\ lgStamp = [second |-> 0, zone |-> NoLogZone, zoneSet |-> 0, shown |-> 0, shownZone |-> NoLogZone]
  /\ lgDigits = [value |-> 0, text |-> convert(0), base |-> 10]
  /\ lgEvents = 0

Counted == lgEvents < MaxEvents /\ lgEvents' = lgEvents + 1

\* The end of muduo_clog_init(), which reads the level once.
ClogInit ==
  /\ Counted /\ lgClogLevel' = lgLevel
  /\ UNCHANGED <<lgLevel, lgRollSize, zoneVars, clockVars, lgTime, lgStream, lgOpen, lgStamp, lgDigits>>

setLogLevel(level) ==
  /\ Counted /\ lgLevel' = level
  /\ UNCHANGED <<lgClogLevel, lgRollSize, zoneVars, clockVars, lgTime, lgStream, lgOpen, lgStamp, lgDigits>>

\* Between two lines: the assignment is not protected against a line that is
\* just being formatted.
setTimeZone(z) ==
  /\ Counted /\ lgOpen = NoLevel
  /\ lgZone' = z /\ lgZoneSet' = lgNow
  /\ UNCHANGED <<levelVars, clockVars, lgTime, lgStream, lgOpen, lgStamp, lgDigits>>

\* The system's clock goes on, or is set back.
ClockMoves ==
  /\ Counted /\ lgNow' \in (1 .. MaxNow) \ {lgNow}
  /\ lgBack' = (lgBack \/ lgNow' < lgNow)
  /\ UNCHANGED <<levelVars, zoneVars, lgTime, lgStream, lgOpen, lgStamp, lgDigits>>

\* The text of the time is made once for each second.
SameSecond(second) == second = lgTime.lastSecond

formatTime ==
  IF SameSecond(lgNow) THEN lgTime ELSE [lastSecond |-> lgNow, shown |-> lgNow, zone |-> lgZone]

\* The macros of muduo_clog.h and of Logging.h.
Passes(level) == level >= WARN \/ (lgClogLevel <= level /\ lgLevel <= level)

\* "%4d%02d%02d %02d:%02d:%02d" and ".%06d " or ".%06dZ "; thread; level; for
\* LOG_SYSERR and LOG_SYSFATAL the text of errno and " (errno=N) "; for LOG_TRACE
\* and LOG_DEBUG the function, of funcLen characters, and a space.
Header(level, errno, funcLen) ==
  LET time == append(append(EmptyStream, "time", 17), "micro", IF lgZone = NoLogZone THEN 9 ELSE 8)
      place == append(append(time, "tid", 6), "level", 6)
      error == IF errno = 0 THEN place
               ELSE append(formatInteger(append(append(place, "strerror", 20), " (errno=", 8),
                                         "errno", errno), ") ", 2)
  IN  IF level < INFO THEN append(append(error, "func", funcLen), " ", 1) ELSE error

\* Logger::Logger(); errno only matters for the levels that print it.
NewLogger(level, errno, funcLen) ==
  /\ Counted /\ lgOpen = NoLevel /\ Passes(level)
  /\ errno # 0 => level > WARN
  /\ lgTime' = formatTime
  /\ lgStamp' = [second |-> lgNow, zone |-> lgZone, zoneSet |-> lgZoneSet,
                 shown |-> formatTime.shown, shownZone |-> formatTime.zone]
  /\ lgStream' = Header(level, errno, funcLen)
  /\ lgOpen' = level
  /\ UNCHANGED <<levelVars, zoneVars, clockVars, lgDigits>>

Inserting ==
  /\ Counted /\ lgOpen # NoLevel
  /\ UNCHANGED <<levelVars, zoneVars, clockVars, lgTime, lgOpen, lgStamp>>

\* The operators << of texts, characters and truth values, and muduo_clog's
\* vaArgsBuf, which may be eight times as long as the buffer.
InsertText(len) ==
  Inserting /\ lgStream' = append(lgStream, "text", len) /\ UNCHANGED lgDigits

InsertNumber(v) ==
  /\ Inserting
  /\ lgStream' = formatInteger(lgStream, "number", v)
  /\ lgDigits' = [value |-> v, text |-> convert(v), base |-> 10]

InsertPointer(v) ==
  /\ Inserting /\ v >= 0
  /\ lgStream' = formatPointer(lgStream, v)
  /\ lgDigits' = [value |-> v, text |-> convertHex(v), base |-> 16]

InsertDouble ==
  Inserting /\ lgStream' \in {formatDouble(lgStream, len) : len \in {1, 19}} /\ UNCHANGED lgDigits

\* " - ", file, ':', line number, end of line.
finish(s, line) ==
  append(formatInteger(append(append(append(s, " - ", 3), "file", 10), ":", 1), "line", line), "\n", 1)

\* Logger::~Logger(): the line goes to g_output; after a FATAL one the process
\* ends (AsyncLogging models both).
EndLogger(line) ==
  /\ lgOpen # NoLevel
  /\ lgStream' = finish(lgStream, line)
  /\ lgOpen' = NoLevel
  /\ lgEvents' = IF lgOpen = FATAL THEN MaxEvents ELSE lgEvents
  /\ UNCHANGED <<levelVars, zoneVars, clockVars, lgTime, lgStamp, lgDigits>>

LoggingNext ==
  \/ ClogInit \/ ClockMoves \/ InsertDouble
  \/ \E level \in NewLevels : setLogLevel(level)
  \/ \E z \in LogZones : setTimeZone(z)
  \/ \E level \in LogLevels, errno \in {0, 11}, funcLen \in {4} : NewLogger(level, errno, funcLen)
  \/ \E len \in TextLens : InsertText(len)
  \/ \E v \in Numbers : InsertNumber(v) \/ InsertPointer(v)
  \/ \E line \in {1234} : EndLogger(line)

LoggingSpec == LoggingInit /\ [][LoggingNext]_lgVars

-----------------------------------------------------------------------------
\* The types; the level read from the file is one of four, and a log file is
\* larger than one buffer of the back end, whatever the file says.
LoggingTypeOK ==
  /\ lgLevel \in LogLevels /\ lgClogLevel \in LogLevels /\ lgOpen \in LogLevels \cup {NoLevel}
  /\ lgRollSize > kLargeBuffer
  /\ lgZone \in LogZones \cup {NoLogZone} /\ lgNow \in 1 .. MaxNow /\ lgBack \in BOOLEAN
  /\ lgTime.lastSecond \in 0 .. MaxNow /\ lgEvents \in 0 .. MaxEvents
  /\ lgStream.cur \in Nat /\ lgStream.high >= lgStream.cur

\* The value that digits stand for.
ValueOf(text, base) ==
  LET value[n \in 0 .. Len(text.digits)] ==
        IF n = 0 THEN 0 ELSE value[n - 1] * base + text.digits[n]
      size == value[Len(text.digits)]
  IN  IF text.negative THEN - size ELSE size

\* LogStream.cc:33, "Efficient Integer to String Conversions": what is printed of
\* a number reads back as that number, negative ones included, without a leading
\* zero.
NumbersReadBack ==
  /\ ValueOf(lgDigits.text, lgDigits.base) = lgDigits.value
  /\ lgDigits.text.digits[1] = 0 => Len(lgDigits.text.digits) = 1

\* Numbers go into the buffer without a check of their own length, and a NUL after
\* them: kMaxNumericSize is enough for every one, whatever came before.
StaysInBuffer == lgStream.high <= kSmallBuffer

\* A line ends with '\n' unless exactly one byte is left (the byte that append()
\* never fills): also when the message itself was too long and is left out.
EndsUnlessFull ==
  lgOpen = NoLevel /\ lgStream # EmptyStream => Last(lgStream.pieces) = "\n" \/ avail(lgStream) = 1

\* The text of the time is kept from one line of a thread to the next, but a line
\* always shows its own second, also after the clock was set back.
TimeIsTheLines == lgStamp.shown = lgStamp.second

\* A new zone takes effect at the next second: a line shows the time of the former
\* zone only in the second of the last setTimeZone() before it.
ZoneShowsNextSecond ==
  lgStamp.shownZone # lgStamp.zone /\ ~ lgBack => lgStamp.second = lgStamp.zoneSet

\* Over every sequence of lines and insertions, whatever the clock and the zone do:
\* nothing is written beyond the buffer of a line, the line has its end, its numbers
\* and its own second.
LoggingInv ==
  /\ LoggingTypeOK
  /\ NumbersReadBack /\ StaysInBuffer /\ EndsUnlessFull
  /\ TimeIsTheLines /\ ZoneShowsNextSecond
=============================================================================
