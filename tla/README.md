# lctools in TLA+

TLA+ models of the parts of lctools that keep state and run concurrently, the
TLC runs that check them on small instances, and TLAPS proofs of the properties
that matter most.

## Inventory

| component | state | operations | hard because |
|---|---|---|---|
| asynchronous logger, `log/muduo-clog/muduo/base/AsyncLogging`, driven by `clog/muduo_clog.cc` | two front-end buffers and a queue, two spares and a batch per back-end thread, `running_`, a latch | `append`, `start`, `stop`, `threadFunc` | application threads, control thread and back end interleave; `running_` and the notify of `stop` are not under the mutex; overload drops buffers; FATAL aborts; `muduo_clog_init` may be called twice |
| rolling file, `LogFile` over `FileUtil::AppendFile` | bytes written, call counter, times of last roll, flush and period | `append`, `flush`, `rollFile` | wall clock with one-second resolution that may be set back; names in local time; the size is looked at after the write, the day only every 1024 calls |
| synchronous log library, `log/iridiumSysLog/iridiumlog.c` | init flag, configuration, hash table of file nodes, per node a lock, a descriptor, a write count and a size | `iridium_init_log`, `iridium_write_log`, `iridium_destroy_log` | concurrent first use; table read without lock; descriptors closed and reopened; failing `mkdir`, `open`, `write`; locks of other processes |
| its configuration, `iridiumlog_conf/` | array of entries, name table | read, fill, look up, destroy | special sections, growth of the array while a hash table is visited, error results |
| its time cache, `get_localtime/` | cached `struct tm`, a copy, a mutex | update, read | trylock on both sides, unlocked fallback |
| thread primitives, pool, queues, `muduo/base` | queues, wait sets, running flag, thread object and latch | `put`, `take`, `run`, `start`, `stop`, `join`, destruction | waiting on full and on empty while stopping; an object destroyed while its thread starts |
| lines, `muduo/base/Logging`, `LogStream`, `muduo/utils/ConfFileRead` | buffer of a line, text of the last second, level, zone, roll size | open a line, insert, end it; read the file | fixed buffer, cached time against clock and zone |
| dates and zones, `muduo/base/Date`, `TimeZone` | transitions and types of a zone | conversions both ways | negative times, repeated hour, short files |
| files, `muduo/base/FileUtil` | bytes written, bytes read | append, read | short and failing writes and reads |
| configuration reader, `utils/config` | section table, init flag | parse, look up, convert, destroy | error paths that leave the flag set or the table freed |
| redis helper, `utils/redis` | connection, table of subscriptions, a thread each | connect, subscribe, set with time to live, destroy | callbacks read without lock, threads against destruction, two commands that should be one |
| `utils/single_instance`, `utils/daemon` | lock file | lock, daemonize | fork and closing of descriptors drop the lock |
| `utils/file_ext`, `utils/opt_entry` | extension table with a buffer; options | add, clear, match; check combinations | long sequences of calls |
| `csort` | none | six sorting functions | correctness over all inputs, stability |
| `network`, `template`, `trash`, `utils/write_packet`, `get_proc_name`, `get_trace`, clock and process wrappers of `muduo/base` | none of their own | I/O | not modelled |

The two log libraries do not call each other. Inside muduo-clog, `Logger` calls
`asyncOutput`, which calls `AsyncLogging::append`; each back-end thread owns a
`LogFile`. Inside iridiumSysLog everything happens in the thread of the caller.
The properties that make each component correct are listed with its module
below; the hazards they answer to are in PROJECT.json.

## Plan

1. `AsyncLogging`, `LogFile`: the asynchronous path. Done, with proofs.
2. `IriLog`: the synchronous path. Done, with proofs.
3. `ConfCore`, `IriConf`: reading the configuration; `LocalTime`: the time cache.
   Done, with proofs.
4. `Redis`, `SingleInstance`, `FileExt`, `OptEntry`: the utilities. Done, with proofs.
5. `FifoChannel` as abstract specification, `BlockingQueues` and `ThreadPool`
   shown to implement it. Done, with proofs.
6. `TimeZone`, `Logging`, `Threads`, `FileUtil`: the base of muduo-clog. Done, with
   proofs. `Csort`: the sorting functions. Done, with proofs.
7. A composition of `AsyncLogging` with `LogFile`, and an abstract log (a sequence
   of accepted lines, a settled prefix per file) that `AsyncLogging` refines.

## How the properties are named

The modules of the base of muduo-clog, of the configuration and of the utilities state
their properties under names of their own, which the sections below use, and gather
them for the configurations of TLC in one conjunction per module:

| checked | contains |
|---|---|
| `FileUtilInv` | `FileUtilTypeOK`, `LinesAreBeginnings`, `CountCoversFile`, `ReadsAllItMay` |
| `LoggingInv` | `LoggingTypeOK`, `NumbersReadBack`, `StaysInBuffer`, `EndsUnlessFull`, `TimeIsTheLines`, `ZoneShowsNextSecond` |
| `TimeZoneInv` | `TimeZoneTypeOK`, `CalendarIsGregorian`, `UtcNamesItsInstant`, `SameLocalTimeAgain`, `WholeZonesAnswer` |
| `ThreadsInv` | `ThreadsTypeOK`, `ObjectOutlivesLatch`, `TidKnownAfterStart`, `NoThreadLeaks` |
| `ValuesAsWritten` | `ReadsWhatIsWritten`, `ConversionsWrap` |
| `EntriesAsWritten` | `TypeOK` of `IriConf` with `ArrayHasRoom`, `SectionRulesItsLog`, `TotalSwitchAsWritten` |
| `LocalTimeInv` | `LocalTimeTypeOK`, `WholeUnderLock` |
| `RedisInv` | `RedisTypeOK`, `CallbacksReady`, `EveryCallbackCalled`, `OneThreadPerChannel`, `OrderlyUseIsSafe`, `NoEternalKey` |
| `NothingWaitsForEver` | `TimeArrives`; `LockComesBack`, `EveryMessageHandled` |
| `SingleInstanceInv` | `SingleInstanceTypeOK`, `OneInstance` |
| `FileExtInv` | `FileExtTypeOK`, `AnswersBySuffix`, `BufferHoldsName` |
| `OptEntryInv` | `OptEntryTypeOK`, `FilterRunsAreChecked`, `PcapRunsAreChecked` |
| `CsortInv` | `AscendingSorts`, `StableSorts`, `MergesortReversesTies`, `ShellsortOrders`, `QuicksortStaysInside` |

## AsyncLogging

`append()` holds `mutex_` from beginning to end, so it is one action (`LogLine`,
or `LogFatal` for a FATAL call, which also aborts). `threadFunc()` gives the mutex
up only inside the timed wait, so the program counter of a back end has a value at
the test of `running_`, before the critical section, in the wait, after it, after
the swap, and in the write loop; each action is the code between two of them.
`stop()` is three actions because `running_`, the notify and the join are
observable separately. A line is the number of the `append()` that delivered it.
Variables carry the names of the members; `appended` and `dropped` are history.

`Backends` has one thread per `start()`. With `-DNDEBUG`, which the default build
passes, a second `muduo_clog_init()` starts a second thread on the same buffers.

A `pthread_create()` that fails aborts (`FirstStartFails`, `StartFails`).

* `AssertsHold`: the asserts the Release build leaves out. The first one, `running_ ==
  true` (`AsyncLogging.cc:55`), is claimed for the first back end only: after a second
  `start()` the latch is open already, `start()` returns at once, and `stop()` may clear
  `running_` before the second back end begins.
* `FIFO`: every `LogFile` is given its lines in the order of `append()`, no line is doubled.
* `Conservation`: every accepted line is in memory, in a file, or was dropped by
  the overload branch.
* `EveryLineSettles`, `StopReturns`: liveness.

Run `async_safety` has two back ends, a buffer of three bytes, lines of one or two,
a limit of two buffers instead of 25 and five lines: enough for a switch of
buffers with and without spare, an overload of either back end, the second start,
a stop and an abort in every position. The back ends are symmetric. `async_liveness`
has one back end and six lines. Both stop at the bound on lines, and the process may
end, so deadlock is not checked.

Fairness: weak for each back end (threads are scheduled, a timed wait ends, the
mutex is held only for one `append()` at a time) and for the control thread once it
is inside `start()` or `stop()`. Nothing obliges the application to log or to stop.

What is not promised, and not claimed: lines appended after the last swap before
`stop()`, and lines in memory when FATAL aborts, are lost.

### Proofs

`AsyncLoggingProofs`, for any set of back ends and any sizes with room for a line
in an empty buffer and a limit of at least two buffers:

* `TypeAndSpares`: types are not inductive alone, since the swap puts `newBuffer1`
  into `currentBuffer_`. `SpareInv` adds that between the recycling and the swap
  both spares are there and empty, and after the swap the batch has a buffer for
  each spare that is missing.
* `AssertsAlwaysHold` follows from it, and from `FirstInv`: before any back end has
  begun no `start()` has returned, so nobody can have called `stop()`.
* `ConservationAlways`: one lemma per moving action states which lines go where.
* `FIFOAlways`: `OrderInv` adds that lines in a file precede those in the batch,
  which precede those of the front end, and that all of these are disjoint.

## LogFile

Each call is one action: it is under a mutex, or belongs to one back end. The clock
advances between calls and may be set back. `KeepFile` and `RollFile` are the two outcomes
of `append_unlocked()`, which writes before it looks at the size: the `append()` that rolls
is in the old file. A name is the local time of the roll (`LogFileName`), with an offset
that may change. `files`, `done` (the file closed last), `early`, `late` and `skewed` are
history.

* `NamesComeBackOnlyWithLocalTime`: no second sees two rolls, and two rolls give one name
  only across a change that puts local time back, as at the end of summer time; the second
  file then continues the first one. The clock may be set as it likes.
* `OversizeOnlyInOpeningSecond`: without the `append()` that rolled it, a file is no larger
  than `rollSize_` or than what was logged in its opening second.
* `RollsSoonAfterPeriod`: as long as the clock was not set back, at most `checkEveryN` calls
  go to a file after its period, the one that rolls it included, although calls that find
  the file too large do not count.

Bounds: seven seconds in periods of three, six appends, a roll size of three, a check
every three calls and local time that goes back by two seconds and forward again, so that
both kinds of roll, a refused roll, a period boundary and a name that comes back occur in
every order.

`MuduoBaseProofs` proves the four for every value of the constants. `NameInv` adds
that the files were opened at rising instants, the last at `lastRoll_`; `LateInv` adds that
late calls are counted by `count_`, which is why resetting the counter only where the clock
is looked at matters.

## The base of muduo-clog

`MCMuduoBase` puts `LogFile`, `FileUtil`, `Logging`, `TimeZone` and `Threads` side by
side: `part` says which one a behaviour uses, and the others keep their initial state.
They share no variables, so one run (`muduo_base`) answers for all of them without
interleaving what cannot interfere. Deadlock is not checked, since every part ends at
its bounds.

`FileUtil`: an `fwrite()` takes any part of the rest of a line, or nothing; a `read()`
any part of what is asked for. `LinesAreBeginnings`, `CountCoversFile` (a failed write
still counts, so a file may be rolled early and never late), `ReadsAllItMay`.
Two lines of one or three bytes, files of 0, 2 and 5 bytes, a buffer of three.

`Logging`: a line is the sequence of the pieces that found room, a text is its length.
Sizes are the real ones (4000 for a line, 32 for a number, 8000000 for a buffer of the
back end); the lengths of texts surround the point where the line is full, and 32767
is the longest message of the C functions. Numbers are converted digit by digit as
the code does it, with a remainder that is negative for negative numbers (`CArith`).
`StaysInBuffer`, `EndsUnlessFull`, `NumbersReadBack`, `TimeIsTheLines`,
`ZoneShowsNextSecond`. A zone is set between two lines only: at another moment the
global is a data race. At most five events, two seconds: `setTimeZone()`, a line, the same
zone again and a second line are the least with which a remembered zone and the moment it
was set come apart.

`TimeZone`: `getYearMonthDay()` and its inverse, UTC time both ways, and local time both
ways over zone files: no zone file, a zone with one type, the rules of New York, a zone
that moved east and west, a zone with a summer time of two hours. Instants are half hours up to three hours around the transitions
and 1970; days surround the turns of years and the ends of February from 1900 to 2400.
`CalendarIsGregorian` compares with the calendar's own rule for the next day.
`SameLocalTimeAgain` is claimed in a process that runs in UTC and for a `Regular` zone,
with a summer time of one hour: `toLocalTime()` calls `localtime_r()`, which adds the zone
of the process again, and `fromLocalTime()` takes the hour for granted (`HACK`).
`WholeZonesAnswer` says that only a missing or short file, after which the zone is
`valid()` all the same, leads to reads outside the vectors.

`Threads`: one owner makes, starts, joins and destroys a `Thread`, twice, while the new
thread runs `runInThread()`. Each access of the new thread to the object is an action,
down to the two halves of `MutexLock::unlock()`. `ObjectOutlivesLatch`: destroying the
object as soon as `start()` is back is safe, because `start()` can return only after the
mutex of the latch was given up. `TidKnownAfterStart`, `NoThreadLeaks`. That a thread is
started and joined once is left to the owner, as the asserts of a Debug build ask;
`AsyncLogging` has an owner that starts twice. `ThreadStartReturns`
is liveness: weak fairness of the owner inside `start()`, strong fairness of the new
thread, since an owner that wakes again and again for no reason takes the mutex each time.

### Proofs

`MuduoBaseProofs` proves the invariants of these modules for every value of the
constants (for `LogFile` see above).

* `ObjectMayGoAfterStart` (`ThreadsInv`). `ThInv` adds who holds the mutex of the latch
  (`MutexInv`), and that while the new thread is before `func_()` the owner is inside
  `start()` (`StartInv`): this is what keeps the object alive, since past the decrement
  the owner cannot have the mutex until the thread gives it up.
* `ShortWritesLoseNothing` (`FileUtilInv`). The loop of `append()` is described by where
  the file may go on: with the next byte of the line that is being written (`GoesOn`);
  the count lags behind the file by the bytes of this line only.
* `TimesAreRight` (`TimeZoneInv`). The calendar is proved for every day number: the
  formulas of `getYearMonthDay()` count years from March, in which every leap day is a
  last day, so that the months' lengths are one linear formula and the centuries one
  division; both directions and the calendar's rule for the next day follow. `ZoneOK` says
  of what was read that its transitions are in order and its types exist, which is enough
  for `lower_bound()` to find the one in force. Local times come back in a zone that is also
  `Regular`: its transitions are further apart than its offsets differ, so that they are in
  order by local time too, and a clock put back for the end of summer time goes back one
  hour, so that the two readings of a repeated hour are told apart. `TzInv` adds that every zone comes from one of the constructors and that what the
  last call returned was computed from it. Instants are 32-bit numbers, as in the files.
* `LinesAreWhole` (`LoggingInv`). That a number reads back needs an induction over its
  digits, which the library states over an operator. `FirstOrderInduction` proves complete
  induction, the existence of a function defined by recursion and induction over lists
  in a first-order form, over sets and functions, from the least element of a set of
  numbers; the digits are defined with it, and then `Decimal` and `Hexadecimal` have the
  number as their value. `staticCheck` is the code's `BOOST_STATIC_ASSERT`
  (`kMaxNumericSize - 10 > digits10`) with what `digits10` means: no number
  has more than `digits10 + 1` digits. `LgInv` adds that the text of the time is of
  the second it was made in and, unless the clock was set back, of the zone in use or
  from a second not after the one in which that was set.

## IriLog

A call is a sequence of actions that end where another thread may see the effect:
`Call` reads `init_flag`; `InitLocks`, `InitWorks`, `InitExits`, `InitPublishes` are
`iridium_init_log()`; `Gate` the early returns; `Lookup` and `Insert` the table;
`Check`, `Locks`, `ProcLocks` the way to the node's lock, the process lock and the
decision to rotate; `CreateCloses` and `CreateOpens` are `create_log_file_fd()`,
reached from a rotation and from the reopening in `get_log_file_node()`; then
`Write` and `Unlocks`. Descriptors are small numbers that the kernel gives out
lowest first, so a closed number can come back for another log. A file is a log and the
second it was opened in, as its name says: any second, also one that was there before, so
an `open()` with `O_APPEND` may go on with a file. `disk` is the size of each file,
`opens` how often it was opened. A configuration is one of a set of records; levels are
debug and the rest; content is left out.

Undefined behaviour (a NULL or freed configuration, a freed node) and the `exit()` for a
path that begins with `/` lead to `over`, where the model stops: properties are claimed
up to there, and the run `irilog_node_live` shows how it is reached.
The race on the hash table's own memory during an unlocked lookup is undefined as
well and not modelled further. `iridium_destroy_log()` runs while no call is under
way.

* `InitOnce`: the configuration is read once.
* `InitComplete`: whoever finds `init_flag` set finds the configuration.
* `WriterKeepsDescriptor`: a writer writes under the lock, to an open descriptor of
  its own log.
* `RotationBounds`: each time a file is opened it grows by `single_max_size` plus one line,
  or by its first `WRITE_TIMES + 1` lines, whichever is more (`Growth`). A file that was
  opened once keeps within that. A rotation in the second of the last one, or two threads
  that both make the node of a new name, open the same file again, and it grows by as much
  again, since the node counts from 0 (`iridiumlog.c:206-225`, `565-567`).
* `EveryCallReturns`: liveness, with failing `mkdir`, `open`, `write` and locks of
  other processes.

Run `irilog_safety` has two threads, two names, two seconds, two calls each, four
configurations, lines of up to two bytes and `WRITE_TIMES` 1, so that a file can rotate
after its second write and the two terms of the bound both decide; `mkdir()` and `open()`
succeed.
With `DirFails = TRUE` `InitComplete` fails: a failed `mkdir()` jumps to the exit that
sets `init_flag` (`iridiumlog.c:145`) while `infos` is NULL. With `OpenFails = TRUE`
`WriterKeepsDescriptor` fails: a node whose `open()` failed is reopened without its lock
(`iridiumlog.c:319`), and the slower of two threads closes the descriptor the other is
about to write to. After a failed `write()` the call returns 0, where `readme.md:233`
promises -1. `irilog_node_live` shows that two threads that use a new name at once both
insert a node, and the second insertion frees the first.

Fairness: strong for each writer, since locks are granted to a thread that waits for
them again and again, and weak for the release of a file lock by another process.

`IriLogProofs` proves the five for every number of threads and names and every
configuration, but for liveness:

* `InitHappensOnce`, whatever fails. `InitInv` adds that the holder of `init_lock` is inside
  the initialisation, and that nobody has read the configuration while the flag is unset
  and the lock free.
* `LogTypes`, whatever fails. `CallInv` adds that a call past the initialisation has a name
  and, past the table, a node.
* `DescriptorIsKept`, as long as `open()` succeeds and there are as many descriptors as
  nodes (`OpenWorks`). `UserInv`: a live node is the one its user's name has in the
  table; `LockInv`: the lock of a node is held by the writer between its two ends; `FdInv`:
  the open descriptors belong one each to the nodes that do not rotate. The last is why a
  descriptor number that another log gets after a close is never written to.
* `InitIsComplete`, as long as `mkdir()` succeeds: already before the flag is set the
  configuration is there (`DoneInv`).
* `FilesStayBounded`, under `OpenWorks`. `LinesInv` bounds the size a node has counted by
  its count of writes, `WriteInv` says that a writer past the test for a rotation finds the
  file within one of the limits. `BoundInv` carries this past the
  write: what a node has counted is within the growth of one opening. `DiskInv` adds the
  files: one that a node is open on and not about to rotate has, besides what this node has
  counted, no more than its earlier openings may have left.

The two hypotheses are those the run has, and without them the properties fail as said
above.

## ConfCore and IriConf

The reader exists twice, with small differences; `ConfCore` models both, and `lib` says
which one runs. One action reads one line: the file is chosen line by line, so that a run
covers all files up to a length. A line is one of the kinds the reader tells apart
(comment, switch, section, pair, text without `=`, three ways of being too long). `IriConf` turns the sections
into the array that `IriLog` takes as its configuration: `FillLogConfInfos` visits the
table in any order, `AddInfo` grows the array.

* `ReadsWhatIsWritten` compares every look-up after a successful call with what the file
  says, defined over the whole file instead of line by line. The sections behind a misplaced
  `-` read as missing: the reader stops there (`iridium_conf_core.c:229-231`) and returns 0,
  although its comment has "fail : < 0" (142-143). The lines it does not read stay part of
  the history (`RestOfFile`), so the statement is about whole files.
* `ConversionsWrap`: every integer type takes the number of the file modulo its range.
* `UndefinedOnlyByFile`: reading, look-ups and `destroy_global_config()` in any order use
  freed memory or overrun an array for three reasons only, all in the file: a zero switch,
  which destroys the table and keeps its pointer; two sections of one name, since the table
  keeps the key that lies in the section it frees (`iridium_conf_core.c:52`); a title of 256
  to 1023 characters, which `get_string()` copies into 256 (`372-378`).
* `SectionRulesItsLog`, `TotalSwitchAsWritten`: the entry used for a name comes from the
  section of that name, or is the default one. Sections of the same name are excluded:
  `FillFreedKey` would read a freed name.

Run `config` has files of up to five lines out of twelve for the application and six out of
nine for the log, at most two pairs in a section (64 in the code), an array of three that
grows by one (50 and 10). TLC's integers have 32 bits, so the ranges of `int` and `long` are
2^20 and 2^28 there; the proofs are for every even range. Run
`config_log_switch` shows that `@LOG_SWITCH=0` does not close the log.

`ConfProofs`, for files of any lines and any length, and any number of pairs in a section:

* `OnlyTheFileUndoes` (`UndefinedOnlyByFile`). `CloseInv` adds that the table is destroyed
  with its pointer kept only after a zero switch; that a key in freed memory means two
  sections of one name, and a wide title in the block a wide title of a section, follows
  from what `FileInv` and `EntryInv`, below, say of the table.
* `CallersGetWhatIsWritten` (`ValuesAsWritten`). `FileInv` says at every line what the
  reader has made of the lines so far: as long as a file is read no dash was out of turn
  (what follows a dash out of turn adds no section, and leaves the table as it is),
  and the block is what follows the dash that opened it (`BlockOK`); every entry of the
  table is named after a section, and a well-formed section whose name no other has is
  ruled by one entry, with its pairs in their order (`TableOK`). A line changes neither
  the earlier sections nor their titles (`SectionsOld`, `TitlesStay`, `BodiesStay`), and
  adds a section exactly when it is the `-end` of an open block (`SectionsSame`, `EndLine`);
  that `handle_conf_block()` finds the title and the body of this section is an induction
  over the lines of the block (`NoCommentsSelects`, `SectionIsRead`). Assumed of the lines
  (`ConfCoreAssumption`): one that begins with `@` is a switch and no pair, the
  application's values are numbers, and the switch of the log library is a digit or -1,
  which is all that `transfer_char_to_int()` returns.
* `IdsStayValid` (`ArrayHasRoom`). `ArrayInv` adds that from the opening of the file on the
  three special entries are there, so that a special section replaces an entry and never
  makes a gap.
* `EntriesAreTheSections` (`EntriesAsWritten`), the types of the reader included
  (`ReaderTypes`). `EntryInv` says what the array has between two visits: an entry for each
  section that was visited, made of its pairs and with an id of its own, the default entry
  unchanged, and `is_valid` of the total switch (`Filled`). Ids do not collide since, with
  unique names of sections, no two entries of the table have a name in common and none has
  a key in freed memory (`NamesOK`). That the entry made of the pairs holds what the last
  line with each key says is an induction over the pairs (`LastPairRules`, `InfoSays`). Of
  a section that is not well-formed only the first lines may have been read; the value of
  `IS_VALID` that rules is still the first of the section (`StartOfBody`, `FirstIsFirst`).

## The utilities

`MCUtilities` puts six modules side by side in the same way (run `utilities`).

`LocalTime`: a `struct tm` is two halves, since every copy takes several stores. A read
under the lock is whole and leaves the copy whole (`WholeUnderLock`); a read without it
may be torn, but each of its fields was read from the clock no earlier than the caller's
last one (`NoOlderReading`); the clock itself may be set back, so the model keeps of a time
the moment it was read and not what it showed. The present arrives (`TimeArrives`), under strong fairness of the updater, which tries the lock every
half second. Two readers with two calls each, three moments.

`Redis`: each step of `init_subscribe()` that another thread can see is an action, and each
call of a callback by the subscriber. `OneThreadPerChannel`, `CallbacksReady`,
`EveryCallbackCalled`, and under weak fairness of callers and subscribers `LockComesBack` and
`EveryMessageHandled`, which ends with a broken connection: the thread goes round its loop
every 30 seconds over a context that stays in error (`redis_opt.c:66-84`). Every function may
be called at any time. `OrderlyUseIsSafe` says which calls lead to freed memory or a null
pointer: `init_subscribe()`, `set_ttl_key()` or `destory_redis_conn()` without an open
connection (the last one after a failed `init_redis_conn()` frees `redis_conn_hd` twice, 179
and 317), and a destroy while somebody subscribes or a subscriber is not blocked. `NoEternalKey`:
a key is without time to live only between the two commands, or when the last EXPIRE failed,
which `set_ttl_key()` does not report (`288-293`). Two callers with two calls each, one
channel, two messages, room for two callbacks (50). Stores are visible in program order.

`SingleInstance`: processes that start, take the lock file and become daemons, in either
order of the two calls. `fcntl()` locks belong to a process, are not inherited by `fork()`
and are lost when any descriptor of the file is closed. `OneInstance` holds for programs
that become a daemon first; the others lose the lock, against the comment at
`single_instance.c:26`. A failed `ftruncate()` or `write()` is ignored by the code: then
the pid file is empty or has an old number. Two starts, six process numbers, since
a start takes three.

`FileExt`: names are sequences of letters and dots; `AnswersBySuffix` compares with the
definition of having an added extension, `BufferHoldsName` with the state of the buffer;
after `clear_file_ext()` the buffer is gone and a look-up writes through NULL
(`file_ext.c:94`), which the property names as the exception.
Two additions, extensions of up to three letters, a first buffer of two (5).

`OptEntry`: command lines of up to five options out of nineteen, in any order.
`FilterRunsAreChecked`, `PcapRunsAreChecked`: no order of options evades the checks that
`Verdict` makes for the part that runs. Two holes of the checks themselves are stated with
them: `--mac` with `--dmac` is accepted, since line 73 tests `smac` twice, and with `-o` the
deep analysis runs with options nobody checked (`opt_entry_inner.c:187`, `309-312`).

`Csort`: the six functions as operators, over all arrays of up to six elements with three
keys (the cutoff of `Quicksort()` is three, so it recurses). A counting loop is `ForUp` or
`ForDown` over a body that gives the array after each round; a loop without a counter is given
as many rounds as it can need, and a round after its end changes nothing. `tmp` out of the
array, while others move, is a hole (`MoveFrom`, `FillHole`). `Msort()` and `Qsort()` are
recursive functions of the segment they work on. `AscendingSorts`,
`StableSorts`, `QuicksortStaysInside` are what the sources promise of these functions. Two
disagree with the sources, always and in one way: `MergesortReversesTies` (`Merge()` takes the
right one of two equal elements, `Mergesort.c:27-31`, while `Mergesort.c:73` and
`csort/readme.md:25` call the sort stable), and `ShellsortOrders` (descending, while
`Shellsort.c:10` says ascending). Run `csort_quicksort` shows that `Quicksort()` does not sort.

### Proofs

`UtilitiesProofs`, for every value of the constants:

* `TimeIsWhole` and `NobodySeesTimeGoBack`. `CopyInv` says which copy is complete, and of
  what, at each place between trylock and unlock; `AgeInv` orders what a reader has seen,
  the copy and the time of the updater, half by half.
* `OneProcessRuns`. `SiInv` adds that in a program that becomes a daemon first a process
  keeps the lock from `fcntl()` on.
* `AcceptedLinesAreChecked`, with the two holes above. `OeInv` adds that `is_only_filter_lib` says whether the filter is
  used; the tables of options are shown to set different fields.
* `LookUpsAreRight`, for names and extensions that are any sequences of characters. `FeInv`
  adds that every extension fits the buffer, so giving up after
  `max_str_len` characters loses no match.
* `SubscribersAreServed`. `RdInv` adds what a caller inside `init_subscribe()` knows of the
  table (`CallerOk`), that a channel with a thread is in the table or about to be
  (`ChannelOk`), and that what `size` counts is there (`SubOk`). Once something is
  undefined, nothing is claimed of callers, channels and connection.
* `SortsKeepTheirPromises`, for arrays of any length over any integer keys. The invariant of
  the specification only says that a result is the function of the array; the argument is one
  loop invariant per loop, put through `ForUpRule` and `ForDownRule`, which take the invariant
  as a set of pairs of counter and state. `Sunk` says what the inner loop of `Insertsort()`
  and, for the last increment, of `Shellsort()` does; `SettledFrom` that a bubble pass leaves
  the largest at the end; `HeapHole` that the hole is the only place where a heap may be out
  of order, which the forgotten last child of the mutant breaks; `TakenInOrder` that `tmpA` is
  in order and before all that is left. The scans of `Qsort()` stay inside because
  `median3()`, wrong as it is, leaves no larger key at `left` than at `right - 1`
  (`Median3Bounds`): these two keys stop the scans (`ScansStop`), and no exchange before the
  break touches them (`PartitionEnds`).
  `TwoRecursion` of `FirstOrderInduction` shows that the two recursive functions exist, on the
  length of the segment, so that their definitions can be used (`MsortIs`, `QsortIs`).

## BlockingQueues and ThreadPool

`FifoChannel` is what a queue between threads promises: items are delivered once
each, in the order of acceptance, with at most `slots` under way. Both queue
classes and the queue inside `ThreadPool` implement it (`Implements`).

In both modules code under `mutex_` is one action up to `Condition::wait()`. A
condition variable is the set of threads in its wait: sets in `BlockingQueues`, the
place `"waits"` of the program counters in `ThreadPool`, where `"task"` is the
application's code, a task or `threadInitCallback_`. A signal moves one of them,
any one, to where it wants the mutex back; a wait may also end without a signal. In
`ThreadPool`, `threads_` at the head of `run()` and `running_` at the head of a
worker's loop are read without the mutex and have actions of their own.

* `WakeupsSuffice`: the reason one `notify()` per operation is enough. Whoever
  waits, as many others of its kind are on their way as there are items, or room, for
  them; in the pool nobody waits for tasks once `stop()` has signalled.
* `EveryItemTaken`, `StopReturns`, `RunReturns`: liveness. `RunReturns` ends with
  `stop()`, which does not wake callers that wait for room; and it supposes
  finitely many calls, since nothing orders the threads that want the mutex.
* `OneLastTask`: queued tasks are discarded by `stop()`, but each worker may
  execute one more.

Bounds: `queues` has three producers, three consumers, four items and capacities of
one, two and no limit. `pool` has two workers, two slots and four callers with one call
each: two callers can wait while two are served, the least with which a missing signal
shows. The runs end at the bound on calls, when consumers and workers wait for ever,
so deadlock is not checked.

Fairness: weak for consumers and workers, and for a caller inside `run()`; tasks
return or throw; `start()` and `stop()`, once called, go on. Nobody is obliged to put,
to call `run()` or to call `stop()`.

`BlockingQueuesProofs` and `ThreadPoolProofs` prove all but liveness, and type
correctness, which the runs leave to them, for finitely many threads and any capacity. `Backlog` adds that the queue is the part of the
history that was accepted and not delivered, which gives the refinement.
`WakeupsSuffice` is inductive once threads that are signalled are known to wait no
more; the pool also needs `NotYetCreated`, and `OneLastTask` needs `LateInv`: a
worker that can still reach `take()` has taken nothing since `stop()`.

## What is only model-checked

Liveness (`EveryLineSettles`, `StopReturns`, `EveryItemTaken`, `RunReturns`,
`EveryCallReturns`, `ThreadStartReturns`, `NothingWaitsForEver`): fairness is out of reach of
the prover used.

## Known and not claimed

No property speaks of these steps, since nothing in the
repository promises more:

* a FATAL line aborts after a flush of stdout only (`Logging.cc:219`), and `stop()` does
  not drain (`AsyncLogging.cc:64`): lines in memory are lost;
* a rotation closes the locked descriptor, which drops the process lock
  (`iridiumlog.c:565`); the file name holds the process id, so only a forked child shares
  the file;
* `iridium_destroy_log()` leaves `infos`, the table and `init_flag` as they are
  (`iridiumlog.c:156`): a later call uses freed memory. `destory_redis_conn()` leaves
  `redis_conn_info` (`redis_opt.c:318`), so `init_redis_conn()` never connects again;
* a task that itself calls `run()` on a full pool may wait for ever (`ThreadPool.cc:82`);
  callers and workers are different threads in the model.

## What is not modelled

* `network`, `template`, `trash`: samples, templates and files kept after deletion.
* `utils/write_packet`, `get_proc_name`, `get_trace`, and `Timestamp`, `ProcessInfo`,
  `Exception`, `Singleton`, `ThreadLocal`, `Atomic` of `muduo/base`: wrappers of
  system calls and templates without logic of their own.
* `csort/Bucketsort.c`, which is not built; `Basesort.c`, `HalfInsertSort.c` and
  `Selectsort.c` are empty.
* In `FileUtil`, the buffering of stdio (it is `unflushed` in `LogFile`); in `Logging`, the
  text of a `double`; in `ConfCore`, failing `malloc()` and `fread()`; in `Redis`, the
  messages of the log.
