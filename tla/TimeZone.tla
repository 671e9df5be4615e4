------------------------------- MODULE TimeZone -------------------------------
(***************************************************************************)
(* muduo/base Date and TimeZone: the Julian day number of a date and back, *)
(* broken-down UTC time of an instant and back, and the local time of an   *)
(* instant in a zone read from a tzfile(5), and back.                      *)
(*                                                                         *)
(* An instant is a time_t within 32 bits, and Undefined is what a read     *)
(* past the end of a vector gives.  The names in a zone are left out but   *)
(* for their length, which decides whether tm_zone points into them.       *)
(***************************************************************************)
EXTENDS Integers, Sequences, CArith

CONSTANTS
  ZoneFiles,     \* the contents of zone files, see File
  FixedOffsets,  \* arguments of the constructor of a fixed zone
  Instants(_),   \* the instants asked about in a zone
  UtcInstants,   \* the instants asked about without a zone
  JulianDays,    \* the days asked about
  SystemOffsets  \* offsets that the process' own zone may have

VARIABLES
  tzData,     \* data_, of the zone in use
  tzComplete, \* history: the zone is fixed, or its whole file was read
  tzSystem,   \* the offset of the process' own zone, which localtime_r() adds
  tzLast      \* the last call and its result

tzVars == <<tzData, tzComplete, tzSystem, tzLast>>

NoZone == [transitions |-> << >>, localtimes |-> << >>, abbreviation |-> -1]
Undefined == [undefined |-> TRUE]

-----------------------------------------------------------------------------
getJulianDayNumber(year, month, day) ==
  LET a == (14 - month) \div 12
      y == year + 4800 - a
      m == month + 12 * a - 3
  IN  day + (153 * m + 2) \div 5 + y * 365 + y \div 4 - y \div 100 + y \div 400 - 32045

\* The year of the four-year cycle that day c of a century falls in.
YearOfCentury(c) == (4 * c + 3) \div 1461

getYearMonthDay(julianDayNumber) ==
  LET a == julianDayNumber + 32044
      b == (4 * a + 3) \div 146097
      c == a - (b * 146097) \div 4
      d == YearOfCentury(c)
      e == c - (1461 * d) \div 4
      m == (5 * e + 2) \div 153
  IN  [day |-> e - (153 * m + 2) \div 5 + 1,
       month |-> m + 3 - 12 * (m \div 10),
       year |-> b * 100 + d - 4800 + m \div 10]

kJulianDayOf1970 == getJulianDayNumber(1970, 1, 1)
kSecondsPerDay == 24 * 60 * 60

weekDay(julianDayNumber) == (julianDayNumber + 1) % 7

fillHMS(seconds) ==
  LET minutes == seconds \div 60
  IN  [tm_sec |-> seconds % 60, tm_min |-> minutes % 60, tm_hour |-> minutes \div 60]

\* The day and the second in it.  Before 1970 the division has rounded up.
DayAndSecond(t) ==
  LET s == Remainder(t, kSecondsPerDay) d == Quot(t, kSecondsPerDay)
  IN  IF s < 0 THEN <<d - 1, s + kSecondsPerDay>> ELSE <<d, s>>

\* With yday = true.
toUtcTime(t) ==
  LET date == DayAndSecond(t)[1] + kJulianDayOf1970
      hms == fillHMS(DayAndSecond(t)[2])
      ymd == getYearMonthDay(date)
  IN  [tm_year |-> ymd.year - 1900, tm_mon |-> ymd.month - 1, tm_mday |-> ymd.day,
       tm_hour |-> hms.tm_hour, tm_min |-> hms.tm_min, tm_sec |-> hms.tm_sec,
       tm_wday |-> weekDay(date),
       tm_yday |-> date - getJulianDayNumber(ymd.year, 1, 1),
       tm_isdst |-> FALSE, tm_gmtoff |-> 0, named |-> TRUE]

fromUtcTime(tm) ==
  LET days == getJulianDayNumber(tm.tm_year + 1900, tm.tm_mon + 1, tm.tm_mday)
              - kJulianDayOf1970
  IN  days * kSecondsPerDay + tm.tm_hour * 3600 + tm.tm_min * 60 + tm.tm_sec

-----------------------------------------------------------------------------
\* A zone file, as class File reads it item by item, until readBytes(), readInt32()
\* or readUInt8() throws because it ends: whether its head is "TZif", the instants
\* of its transitions and the types they change to, the types, and the length of
\* the names.
File(head, trans, locals, types, charcnt) ==
  [head |-> head, trans |-> trans, locals |-> locals, types |-> types, charcnt |-> charcnt]

Localtime(gmtOffset, isDst, arrbIdx) ==
  [gmtOffset |-> gmtOffset, isDst |-> isDst, arrbIdx |-> arrbIdx]

\* What is read of the types when the file ends after `upto` of them, the
\* transitions being read before them.
TypesRead(file, upto) == SubSeq(file.types, 1, upto)

Transitions(file) ==
  [i \in DOMAIN file.trans |->
     [gmttime |-> file.trans[i],
      localtime |-> file.trans[i] + file.types[file.locals[i] + 1].gmtOffset,
      localtimeIdx |-> file.locals[i] + 1]]

\* readTimeZoneFile() catches the exception of a short read and returns true
\* whatever happened: the zone is valid, and holds what was read before.  The
\* transitions are entered after the types, the names after both.
Unread == [transitions |-> << >>, localtimes |-> << >>, abbreviation |-> 0]
readTimeZoneFile(file, upto, names) ==
  CASE ~ file.head -> Unread
    [] file.head /\ upto < Len(file.types) ->
         [Unread EXCEPT !.localtimes = TypesRead(file, upto)]
    [] file.head /\ upto = Len(file.types) ->
         [transitions |-> Transitions(file), localtimes |-> TypesRead(file, upto),
          abbreviation |-> IF names THEN file.charcnt ELSE 0]

\* TimeZone(int eastOfUtc, const char* name), with a name of three letters.
FixedZone(eastOfUtc) ==
  [transitions |-> << >>, localtimes |-> <<Localtime(eastOfUtc, FALSE, 0)>>, abbreviation |-> 3]

\* lower_bound(): the first transition not before the sentry, or one past the last.
\* (Local times of transitions that are closer than their offsets are out of order,
\* and the binary search may stop at another one: such a zone is not Regular.)
lower_bound(keys, sentry) ==
  CHOOSE i \in 1 .. Len(keys) + 1 :
    /\ i <= Len(keys) => keys[i] >= sentry
    /\ \A j \in 1 .. i - 1 : keys[j] < sentry

\* The index of the type in force, 0 for the front of an empty vector or an
\* index past the end.
findLocaltime(data, sentry, compareGmt) ==
  LET keys == [i \in DOMAIN data.transitions |->
                 IF compareGmt THEN data.transitions[i].gmttime
                               ELSE data.transitions[i].localtime]
      first == lower_bound(keys, sentry)
      index == IF keys = << >> \/ sentry < keys[1] THEN 1
               ELSE IF first = Len(keys) + 1 THEN data.transitions[Len(keys)].localtimeIdx
               ELSE data.transitions[IF keys[first] = sentry THEN first ELSE first - 1].localtimeIdx
  IN  IF index <= Len(data.localtimes) THEN index ELSE 0

\* localtime_r(), which adds the offset of the process' own zone once more.
localtime_r(t) == toUtcTime(t + tzSystem)

toLocalTime(data, t) ==
  LET idx == findLocaltime(data, t, TRUE)
      local == data.localtimes[idx]
  IN  IF idx = 0 THEN Undefined
      ELSE [localtime_r(t + local.gmtOffset) EXCEPT
              !.tm_isdst = local.isDst, !.tm_gmtoff = local.gmtOffset,
              !.named = local.arrbIdx <= data.abbreviation]

\* In the hour that is passed through twice, a time that says it is summer time
\* is an hour earlier than its twin.  (Mutant: it is taken for its twin.)
RepeatedHourOnce(data, tm, seconds, offset) == seconds
RepeatedHour(data, tm, seconds, offset) ==
  LET tryTm == toLocalTime(data, seconds - offset)
  IN  IF tm.tm_isdst /\ ~ tryTm.tm_isdst /\ tryTm.tm_hour = tm.tm_hour /\ tryTm.tm_min = tm.tm_min
      THEN seconds - 3600 ELSE seconds

\* timegm() is fromUtcTime().
fromLocalTime(data, tm) ==
  LET seconds == fromUtcTime(tm)
      offset == data.localtimes[findLocaltime(data, seconds, FALSE)].gmtOffset
  IN  RepeatedHour(data, tm, seconds, offset) - offset

-----------------------------------------------------------------------------
\* The zones that the constructors make.
Zones ==
  {NoZone, Unread} \cup {FixedZone(east) : east \in FixedOffsets}
  \cup UNION {{readTimeZoneFile(file, upto, names) : upto \in 0 .. Len(file.types), names \in BOOLEAN} :
               file \in ZoneFiles}

\* tzfile(5): each transition has a type, and each type a name; transitions are in
\* ascending order.
WellFormed(file) ==
  /\ file = File(file.head, file.trans, file.locals, file.types, file.charcnt)
  /\ file.head \in BOOLEAN /\ file.charcnt \in Nat
  /\ file.trans \in Seq(Int) /\ file.locals \in Seq(Nat) /\ Len(file.locals) = Len(file.trans)
  /\ file.types \in Seq([gmtOffset : Int, isDst : BOOLEAN, arrbIdx : Nat])
  /\ \A i \in DOMAIN file.locals : file.locals[i] < Len(file.types)
  /\ \A k \in DOMAIN file.types : file.types[k].arrbIdx <= file.charcnt
  /\ file.types # << >>
  /\ \A i, j \in DOMAIN file.trans : i < j => file.trans[i] < file.trans[j]

\* The type in force from transition i on, and before all of them.
TypeFrom(data, i) == data.localtimes[IF i = 0 THEN 1 ELSE data.transitions[i].localtimeIdx]

\* A zone that HACK in fromLocalTime() is made for: transitions are further apart
\* than any two offsets, clocks are set back at the end of summer time by one hour,
\* and never at its beginning.
Regular(data) ==
  /\ \A i, j \in DOMAIN data.transitions : i < j =>
       \A k, l \in DOMAIN data.localtimes :
         data.transitions[j].gmttime - data.transitions[i].gmttime
           > data.localtimes[k].gmtOffset - data.localtimes[l].gmtOffset
  /\ \A i \in DOMAIN data.transitions :
       LET before == TypeFrom(data, i - 1) after == TypeFrom(data, i)
       IN  after.gmtOffset < before.gmtOffset /\ after.isDst # before.isDst =>
             before.isDst /\ before.gmtOffset - after.gmtOffset = 3600

\* A time_t within 32 bits.
INT32_MAX == 2147483647
Int32 == (- INT32_MAX - 1) .. INT32_MAX

ASSUME TimeZoneAssumption ==
  /\ \A file \in ZoneFiles : WellFormed(file)
  /\ FixedOffsets \subseteq Int /\ SystemOffsets \subseteq Int
  /\ \A data \in Zones : Instants(data) \subseteq Int32
  /\ UtcInstants \subseteq Int32 /\ JulianDays \subseteq Nat

\* The functions keep no state: each is asked in the first call, or in the call
\* after the one whose result it takes.
NoCallYet == [op |-> "none"]
Called(op, instant, tm) == tzLast' = [op |-> op, instant |-> instant, tm |-> tm]

TimeZoneInit ==
  tzData = NoZone /\ tzComplete = FALSE /\ tzSystem \in SystemOffsets /\ tzLast = NoCallYet

\* TimeZone(zonefile): the file is there or not, and may end anywhere.
NewZone(file) ==
  /\ tzData = NoZone /\ tzLast = NoCallYet
  /\ \/ tzData' = Unread /\ tzComplete' = FALSE
     \/ \E upto \in 0 .. Len(file.types) : \E names \in BOOLEAN :
          /\ tzData' = readTimeZoneFile(file, upto, names)
          /\ tzComplete' = (file.head /\ upto = Len(file.types) /\ names)
  /\ UNCHANGED <<tzSystem, tzLast>>

NewFixedZone(eastOfUtc) ==
  /\ tzData = NoZone /\ tzLast = NoCallYet
  /\ tzData' = FixedZone(eastOfUtc)
  /\ tzComplete' = TRUE /\ UNCHANGED <<tzSystem, tzLast>>

\* assert(data_ != NULL)
ToLocalTime(t) ==
  /\ tzData # NoZone /\ tzLast = NoCallYet
  /\ Called("toLocalTime", t, toLocalTime(tzData, t))
  /\ UNCHANGED <<tzData, tzComplete, tzSystem>>

\* Of a time that toLocalTime() gave.
FromLocalTime ==
  /\ tzLast.op = "toLocalTime" /\ tzLast.tm # Undefined
  /\ Called("fromLocalTime", fromLocalTime(tzData, tzLast.tm), tzLast.tm)
  /\ UNCHANGED <<tzData, tzComplete, tzSystem>>

ToUtcTime(t) ==
  /\ tzData = NoZone /\ tzLast = NoCallYet
  /\ Called("toUtcTime", t, toUtcTime(t))
  /\ UNCHANGED <<tzData, tzComplete, tzSystem>>

YearMonthDay(julianDay) ==
  /\ tzData = NoZone /\ tzLast = NoCallYet
  /\ tzLast' = [op |-> "yearMonthDay", day |-> julianDay, date |-> getYearMonthDay(julianDay)]
  /\ UNCHANGED <<tzData, tzComplete, tzSystem>>

TimeZoneNext ==
  \/ \E file \in ZoneFiles : NewZone(file)
  \/ \E east \in FixedOffsets : NewFixedZone(east)
  \/ \E t \in Instants(tzData) : ToLocalTime(t)
  \/ FromLocalTime
  \/ \E t \in UtcInstants : ToUtcTime(t)
  \/ \E julianDay \in JulianDays : YearMonthDay(julianDay)

TimeZoneSpec == TimeZoneInit /\ [][TimeZoneNext]_tzVars

-----------------------------------------------------------------------------
\* The types; the fields of a broken-down time are within the bounds that
\* struct tm gives them.
TimeZoneTypeOK ==
  /\ tzComplete \in BOOLEAN /\ tzSystem \in SystemOffsets
  /\ DOMAIN tzData = {"transitions", "localtimes", "abbreviation"}
  /\ tzLast.op \in {"none", "toLocalTime", "fromLocalTime", "toUtcTime", "yearMonthDay"}
  /\ tzLast.op \in {"toLocalTime", "toUtcTime"} /\ tzLast.tm # Undefined =>
       LET tm == tzLast.tm
       IN  /\ tm.tm_sec \in 0 .. 59 /\ tm.tm_min \in 0 .. 59 /\ tm.tm_hour \in 0 .. 23
           /\ tm.tm_mday \in 1 .. 31 /\ tm.tm_mon \in 0 .. 11
           /\ tm.tm_wday \in 0 .. 6 /\ tm.tm_yday \in 0 .. 365

IsLeap(y) == y % 4 = 0 /\ (y % 100 = 0 => y % 400 = 0)
MonthLength(y, m) ==
  CASE m \in {4, 6, 9, 11} -> 30
    [] m = 2 -> IF IsLeap(y) THEN 29 ELSE 28
    [] OTHER -> 31
\* The date after d in the Gregorian calendar.
DayAfter(d) ==
  CASE d.day < MonthLength(d.year, d.month) -> [d EXCEPT !.day = @ + 1]
    [] d.day = MonthLength(d.year, d.month) /\ d.month < 12 ->
         [d EXCEPT !.day = 1, !.month = @ + 1]
    [] OTHER -> [day |-> 1, month |-> 1, year |-> d.year + 1]

\* Day numbers follow the Gregorian calendar, over leap days and the centuries
\* that have none: the number of the date of a day is that day again, and the
\* next day has the next date.
CalendarIsGregorian ==
  tzLast.op = "yearMonthDay" =>
    LET d == tzLast.date
    IN  /\ getJulianDayNumber(d.year, d.month, d.day) = tzLast.day
        /\ getYearMonthDay(tzLast.day + 1) = DayAfter(d)

\* Broken-down UTC time names its instant, on both sides of 1970, and days of
\* the week follow each other from the Thursday that 1970 began with.
UtcNamesItsInstant ==
  tzLast.op = "toUtcTime" =>
    /\ fromUtcTime(tzLast.tm) = tzLast.instant
    /\ tzLast.tm.tm_wday = (4 + tzLast.instant \div kSecondsPerDay) % 7

\* What a clock shows, and whether it is summer time.
ClockOf(tm) == <<tm.tm_year, tm.tm_mon, tm.tm_mday, tm.tm_hour, tm.tm_min, tm.tm_sec, tm.tm_isdst>>

\* The instant that fromLocalTime() gives for a local time shows that local time,
\* in the hour that clocks pass through twice too, if the zone is regular and the
\* process runs in UTC.  It does not if summer time is not one hour, which HACK
\* takes for granted, nor in a process with an offset of its own, which
\* toLocalTime() adds to the zone's and fromLocalTime() does not take off.
SameLocalTimeAgain ==
  tzLast.op = "fromLocalTime" /\ Regular(tzData) /\ tzSystem = 0 =>
    ClockOf(toLocalTime(tzData, tzLast.instant)) = ClockOf(tzLast.tm)

\* A zone is always valid(), but can be used, with the names that tm_zone points
\* to, if its file was read to the end: an answer comes from outside the vectors,
\* or points beyond the names, only after a missing or short file.
WholeZonesAnswer ==
  tzComplete /\ tzLast.op = "toLocalTime" => tzLast.tm # Undefined /\ tzLast.tm.named

\* Dates and UTC times name the day and the instant they were made of, local times
\* do so in a regular zone and a process in UTC, and only a missing or short zone
\* file makes a conversion read what is not there.
TimeZoneInv ==
  /\ TimeZoneTypeOK
  /\ CalendarIsGregorian /\ UtcNamesItsInstant /\ SameLocalTimeAgain
  /\ WholeZonesAnswer
=============================================================================
