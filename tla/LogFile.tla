------------------------------- MODULE LogFile -------------------------------
(***************************************************************************)
(* The rolling log file of muduo-clog (muduo/base/LogFile.{h,cc} on top of *)
(* FileUtil::AppendFile).  append() and flush() run under mutex_ when the  *)
(* file is shared, and belong to one back end of AsyncLogging when it is   *)
(* not, so each call is one step.  time() is the wall clock: it advances   *)
(* between calls, and may be set back.  A file is named after the local    *)
(* time of its roll, so a name can come back when summer time ends.        *)
(***************************************************************************)
EXTENDS Integers, Sequences

CONSTANTS
  RollSize,      \* rollSize_
  FlushInterval, \* flushInterval_, 3
  CheckEveryN,   \* checkEveryN_, 1024
  RollPerSeconds,\* kRollPerSeconds_, a day
  Lens,          \* the lengths of one append()
  UtcOffset,     \* tm_gmtoff of localtime_r(), for every instant
  MaxTime,       \* bound on the clock
  MaxAppends     \* bound on the number of append() calls

ASSUME LogFileAssumption ==
  /\ RollSize \in Nat /\ FlushInterval \in Nat
  /\ CheckEveryN \in Nat \ {0}
  /\ RollPerSeconds \in Nat \ {0}
  /\ Lens \subseteq Nat
  /\ MaxTime \in Nat \ {0} /\ MaxAppends \in Nat
  /\ UtcOffset \in [1 .. MaxTime -> Int]

VARIABLES
  now,           \* time(NULL)
  count,         \* count_
  startOfPeriod, \* startOfPeriod_
  lastRoll,      \* lastRoll_
  lastFlush,     \* lastFlush_
  written,       \* file_->writtenBytes()
  unflushed,     \* whether stdio holds bytes of file_ back
  files,         \* history: instant and name of each file, in order of opening
  done,          \* history: the file closed last, as it was left
  appends,       \* history: number of append() calls
  early,         \* history: size of the open file when it last was appended to
                 \* before its opening second was over
  late,          \* history: append() calls that went to the open file after
                 \* its period was over
  skewed         \* history: whether the clock was set back

fileVars == <<count, startOfPeriod, lastRoll, lastFlush, written, unflushed, files>>
vars == <<now, fileVars, done, appends, early, late, skewed>>

\* now / kRollPerSeconds_ * kRollPerSeconds_
Period(t) == (t \div RollPerSeconds) * RollPerSeconds

\* getLogFileName(): the local time, down to the second, is all that tells the
\* files of a process apart.
LogFileName(t) == t + UtcOffset[t]

\* The file opened at t, and a file as it is left: its size, the length of the
\* last append() to it, and the history above.
Opened(t) == [at |-> t, name |-> LogFileName(t)]
Closed(bytes, last, e, l) == [bytes |-> bytes, last |-> last, early |-> e, late |-> l]

\* The constructor opens the first file.
Init ==
  /\ now = 1
  /\ count = 0
  /\ startOfPeriod = Period(1)
  /\ lastRoll = 1 /\ lastFlush = 1
  /\ written = 0 /\ unflushed = FALSE
  /\ files = <<Opened(1)>> /\ done = Closed(0, 0, 0, 0)
  /\ appends = 0 /\ early = 0 /\ late = 0 /\ skewed = FALSE

\* if (now > lastRoll_).  (Mutant: the comparison lets the same second pass.)
MayRollTwice == now >= lastRoll
MayRoll == now > lastRoll

\* The history of the open file with an append() that makes it size bytes long.
Early(size) == IF MayRoll THEN early ELSE size
Late == IF Period(now) > startOfPeriod THEN late + 1 ELSE late

\* The append() stays in the open file, which is size bytes long with it.
Stays(size) ==
  /\ written' = size
  /\ early' = Early(size) /\ late' = Late
  /\ UNCHANGED <<lastRoll, startOfPeriod, files, done>>

\* rollFile(): a new file, unless this second already has one.  Replacing
\* file_ closes, and so flushes, the old file, which has the append() in it.
RollFile(size, len) ==
  \/ /\ MayRoll
     /\ lastRoll' = now /\ lastFlush' = now
     /\ startOfPeriod' = Period(now)
     /\ written' = 0 /\ unflushed' = FALSE
     /\ files' = Append(files, Opened(now))
     /\ done' = Closed(size, len, Early(size), Late)
     /\ early' = 0 /\ late' = 0
  \/ /\ ~ MayRoll
     /\ unflushed' = TRUE
     /\ Stays(size)
     /\ UNCHANGED lastFlush

\* The file is kept, and flushed if the last flush is old.
KeepFile(size, check) ==
  /\ Stays(size)
  /\ IF check /\ now - lastFlush > FlushInterval
     THEN lastFlush' = now /\ unflushed' = FALSE
     ELSE lastFlush' = lastFlush /\ unflushed' = TRUE

\* file_->writtenBytes() > rollSize_.  (Mutant: roll only at twice the size.)
TooLargeLax(size) == size > 2 * RollSize
TooLarge(size) == size > RollSize

\* thisPeriod_ != startOfPeriod_.  (Mutant: never.)
NewPeriodNever == FALSE
NewPeriod == Period(now) # startOfPeriod

\* ++count_, and 0 when the clock is looked at.  (Mutant: it is not reset.)
NextCountForever == count + 1
NextCount == IF count + 1 < CheckEveryN THEN count + 1 ELSE 0

\* append_unlocked(): write first, then see whether to roll.  Every
\* CheckEveryN-th call that does not find the file too large looks at the clock.
AppendUnlocked(len) ==
  /\ appends < MaxAppends
  /\ appends' = appends + 1
  /\ UNCHANGED <<now, skewed>>
  /\ \/ /\ TooLarge(written + len)
        /\ RollFile(written + len, len)
        /\ UNCHANGED count
     \/ /\ ~ TooLarge(written + len) /\ count + 1 < CheckEveryN
        /\ count' = NextCount
        /\ KeepFile(written + len, FALSE)
     \/ /\ ~ TooLarge(written + len) /\ count + 1 >= CheckEveryN
        /\ count' = NextCount
        /\ \/ NewPeriod /\ RollFile(written + len, len)
           \/ ~ NewPeriod /\ KeepFile(written + len, TRUE)

\* flush(), called by the back end after every batch.
Flush ==
  /\ unflushed' = FALSE
  /\ UNCHANGED <<now, count, startOfPeriod, lastRoll, lastFlush, written, files,
                 done, appends, early, late, skewed>>

ClockAdvances ==
  /\ now < MaxTime
  /\ now' = now + 1
  /\ UNCHANGED <<fileVars, done, appends, early, late, skewed>>

\* The administrator or NTP sets the clock back.
ClockSetBack ==
  /\ now > 1
  /\ now' \in 1 .. (now - 1)
  /\ skewed' = TRUE
  /\ UNCHANGED <<fileVars, done, appends, early, late>>

Next ==
  (\E len \in Lens : AppendUnlocked(len)) \/ Flush \/ ClockAdvances \/ ClockSetBack

Spec == Init /\ [][Next]_vars

-----------------------------------------------------------------------------
\* The types; and startOfPeriod_ is always the period of lastRoll_, as rollFile()
\* sets both or neither.
TypeOK ==
  /\ now \in 1 .. MaxTime /\ lastRoll \in 1 .. MaxTime /\ lastFlush \in 1 .. MaxTime
  /\ startOfPeriod = Period(lastRoll)
  /\ count \in 0 .. (CheckEveryN - 1)
  /\ written \in Nat /\ unflushed \in BOOLEAN
  /\ files \in Seq([at : 1 .. MaxTime, name : Int])
  /\ done \in [bytes : Nat, last : Nat, early : Nat, late : Nat]
  /\ appends \in 0 .. MaxAppends /\ early \in Nat /\ late \in Nat
  /\ skewed \in BOOLEAN

\* No second sees two rolls, and two rolls give one name only across a change
\* that puts local time back, however the wall clock is set: only then a file
\* that was rolled away is appended to again.
NamesComeBackOnlyWithLocalTime ==
  \A i, j \in DOMAIN files :
    i < j => /\ files[i].at < files[j].at
             /\ files[i].name = files[j].name
                  => UtcOffset[files[j].at] < UtcOffset[files[i].at]

\* Without the append() that rolled it away a file is no larger than rollSize_,
\* or than what was logged until the second in which it was opened was over (or
\* until the clock, set back, had caught up with it).
OversizeOnlyInOpeningSecond ==
  /\ written <= RollSize \/ written <= early
  /\ done.bytes - done.last <= RollSize \/ done.bytes - done.last <= done.early

\* With a clock that is not set back, at most CheckEveryN append() calls go to a
\* file after the end of its period, the one that rolls it included: the counter
\* that is only looked at in some branches still bounds how late a daily roll is.
RollsSoonAfterPeriod ==
  ~ skewed => late < CheckEveryN /\ done.late <= CheckEveryN
=============================================================================
