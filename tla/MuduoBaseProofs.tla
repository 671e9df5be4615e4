---------------------------- MODULE MuduoBaseProofs ----------------------------
(***************************************************************************)
(* Proofs about the parts of muduo/base below the asynchronous logger:     *)
(* LogFile, Threads, FileUtil, TimeZone, Logging.                          *)
(***************************************************************************)
EXTENDS LogFile, Threads, FileUtil, TimeZone, Logging, FirstOrderInduction, SequenceTheorems, TLAPS

-----------------------------------------------------------------------------
(* LogFile, for every roll size, check interval, period and set of lengths *)


\* The start of the period does not go back while the clock does not: what
\* now / kRollPerSeconds_ * kRollPerSeconds_ computes.
LEMMA PeriodMonotone ==
  ASSUME NEW a \in Nat, NEW b \in Nat, a <= b
  PROVE  Period(a) \in Int /\ Period(b) \in Int /\ Period(a) <= Period(b)
<1>1. ASSUME NEW d \in Nat \ {0}
      PROVE  /\ a \div d \in Int /\ b \div d \in Int
             /\ (a \div d) * d <= (b \div d) * d
  <2>1. a \div d \in Int /\ b \div d \in Int
    OBVIOUS
  <2>2. (a \div d) <= (b \div d)
    OBVIOUS
  <2>3. (a \div d) * d <= (b \div d) * d
    BY <2>1, <2>2
  <2> QED BY <2>1, <2>3
<1> QED BY <1>1, LogFileAssumption DEF Period

\* The steps of append_unlocked(), seen as one of two outcomes: the file, with this
\* append() in it, was rolled away, or it stays and its size is within the limit, or
\* the clock is not past the second of the last roll.
LEMMA AppendCases ==
  ASSUME TypeOK, NEW len \in Lens, AppendUnlocked(len)
  PROVE  /\ now' = now /\ appends' = appends + 1 /\ skewed' = skewed
         /\ count' \in 0 .. (CheckEveryN - 1)
         /\ \/ /\ now > lastRoll /\ lastRoll' = now /\ lastFlush' = now
               /\ startOfPeriod' = Period(now) /\ written' = 0 /\ unflushed' = FALSE
               /\ files' = Append(files, Opened(now)) /\ early' = 0 /\ late' = 0
               /\ done' = Closed(written + len, len, early, Late)
            \/ /\ lastRoll' = lastRoll /\ startOfPeriod' = startOfPeriod
               /\ lastFlush' \in {lastFlush, now} /\ files' = files /\ done' = done
               /\ written' \in Nat /\ unflushed' \in BOOLEAN
               /\ early' = IF now > lastRoll THEN early ELSE written'
               /\ written' > RollSize => ~ (now > lastRoll)
               /\ late' = Late
<1>1. written + len \in Nat /\ count + 1 \in Nat
  BY LogFileAssumption DEF TypeOK
<1>2. now' = now /\ appends' = appends + 1 /\ skewed' = skewed
  BY DEF AppendUnlocked
<1>3. count' \in 0 .. (CheckEveryN - 1)
  <2>1. count' = count \/ (count + 1 < CheckEveryN /\ count' = count + 1) \/ count' = 0
    BY DEF AppendUnlocked, NextCount
  <2>2. count \in 0 .. (CheckEveryN - 1) /\ CheckEveryN \in Nat \ {0}
    BY LogFileAssumption DEF TypeOK
  <2> QED BY <2>1, <2>2
<1>4. CASE RollFile(written + len, len)
  <2>1. CASE MayRoll
    <3>1. Early(written + len) = early
      BY <2>1 DEF Early
    <3> QED BY <1>1, <1>2, <1>3, <1>4, <2>1, <3>1 DEF RollFile, MayRoll
  <2>2. CASE ~ MayRoll
    BY <1>1, <1>2, <1>3, <1>4, <2>2 DEF RollFile, MayRoll, Stays, Early
  <2> QED BY <2>1, <2>2
<1>5. ASSUME NEW check \in BOOLEAN, KeepFile(written + len, check), ~ TooLarge(written + len)
      PROVE  /\ lastRoll' = lastRoll /\ startOfPeriod' = startOfPeriod
             /\ lastFlush' \in {lastFlush, now} /\ files' = files /\ done' = done
             /\ written' \in Nat /\ unflushed' \in BOOLEAN
             /\ early' = IF now > lastRoll THEN early ELSE written'
             /\ written' > RollSize => ~ (now > lastRoll)
             /\ late' = Late
  BY <1>1, <1>5 DEF KeepFile, Stays, Early, MayRoll, TooLarge
<1> QED BY <1>2, <1>3, <1>4, <1>5 DEF AppendUnlocked

\* Only append() touches the file's bookkeeping; flush() and the clock do not.
LEMMA OtherSteps ==
  ASSUME Flush \/ ClockAdvances \/ ClockSetBack \/ UNCHANGED vars
  PROVE  UNCHANGED <<count, startOfPeriod, lastRoll, lastFlush, written, files, done, appends,
                     early, late>>
  BY DEF Flush, ClockAdvances, ClockSetBack, vars, fileVars

\* What is recorded of a file that is opened and of one that is closed.
LEMMA FileRecords ==
  ASSUME TypeOK, NEW len \in Nat
  PROVE  /\ Opened(now) \in [at : 1 .. MaxTime, name : Int]
         /\ Late \in Nat
         /\ Closed(written + len, len, early, Late) \in [bytes : Nat, last : Nat, early : Nat, late : Nat]
<1>1. now \in 1 .. MaxTime /\ now \in Int /\ UtcOffset[now] \in Int
  BY LogFileAssumption DEF TypeOK
<1>2. now + UtcOffset[now] \in Int
  BY <1>1
<1>3. Opened(now) \in [at : 1 .. MaxTime, name : Int]
  BY <1>1, <1>2 DEF Opened, LogFileName
<1>4. Late \in Nat
  BY DEF Late, TypeOK
<1>5. written + len \in Nat /\ early \in Nat
  BY DEF TypeOK
<1> QED BY <1>3, <1>4, <1>5 DEF Closed

\* The state is well typed, with a clock that may be set back.
THEOREM TypeCorrect == Spec => []TypeOK
<1>1. Init => TypeOK
  <2> SUFFICES ASSUME Init PROVE TypeOK
    OBVIOUS
  <2>0. 1 \in 1 .. MaxTime /\ UtcOffset[1] \in Int /\ 1 + UtcOffset[1] \in Int
    BY LogFileAssumption
  <2>1. files \in Seq([at : 1 .. MaxTime, name : Int])
    BY <2>0 DEF Init, Opened, LogFileName
  <2>2. unflushed \in BOOLEAN /\ skewed \in BOOLEAN
    BY DEF Init
  <2>3. /\ now \in 1 .. MaxTime /\ lastRoll \in 1 .. MaxTime /\ lastFlush \in 1 .. MaxTime
        /\ count \in 0 .. (CheckEveryN - 1) /\ written \in Nat
        /\ appends \in 0 .. MaxAppends /\ early \in Nat /\ late \in Nat
    BY LogFileAssumption DEF Init
  <2>4. startOfPeriod = Period(lastRoll)
    BY DEF Init
  <2>5. done \in [bytes : Nat, last : Nat, early : Nat, late : Nat]
    BY DEF Init, Closed
  <2> QED BY <2>1, <2>2, <2>3, <2>4, <2>5 DEF TypeOK
<1>2. TypeOK /\ [Next]_vars => TypeOK'
  <2> SUFFICES ASSUME TypeOK, [Next]_vars PROVE TypeOK'
    OBVIOUS
  <2>1. ASSUME NEW len \in Lens, AppendUnlocked(len) PROVE TypeOK'
    <3>0. len \in Nat
      BY LogFileAssumption
    <3>1. appends' \in 0 .. MaxAppends
      <4>1. appends < MaxAppends /\ appends' = appends + 1
        BY <2>1 DEF AppendUnlocked
      <4> QED BY <4>1, LogFileAssumption DEF TypeOK
    <3>2. files' = files \/ files' = Append(files, Opened(now))
      BY <2>1, AppendCases
    <3>3. files' \in Seq([at : 1 .. MaxTime, name : Int])
      <4>1. files \in Seq([at : 1 .. MaxTime, name : Int])
        BY DEF TypeOK
      <4>2. Opened(now) \in [at : 1 .. MaxTime, name : Int]
        BY <3>0, FileRecords
      <4>3. Append(files, Opened(now)) \in Seq([at : 1 .. MaxTime, name : Int])
        BY <4>1, <4>2, AppendProperties
      <4> QED BY <3>2, <4>1, <4>3
    <3>4. late' = 0 \/ late' = Late
      BY <2>1, AppendCases
    <3>5. late' \in Nat
      <4>1. Late \in Nat
        BY <3>0, FileRecords
      <4> QED BY <3>4, <4>1
    <3>6. early' \in Nat
      <4>1. early' = 0 \/ early' = early \/ (early' = written' /\ written' \in Nat)
        BY <2>1, AppendCases
      <4> QED BY <4>1 DEF TypeOK
    <3>7. done' \in [bytes : Nat, last : Nat, early : Nat, late : Nat]
      <4>1. done' = done \/ done' = Closed(written + len, len, early, Late)
        BY <2>1, AppendCases
      <4> QED BY <3>0, <4>1, FileRecords DEF TypeOK
    <3>8. skewed' \in BOOLEAN
      BY <2>1 DEF AppendUnlocked, TypeOK
    <3>9. /\ now' \in 1 .. MaxTime /\ lastRoll' \in 1 .. MaxTime /\ lastFlush' \in 1 .. MaxTime
          /\ written' \in Nat /\ unflushed' \in BOOLEAN /\ count' \in 0 .. (CheckEveryN - 1)
          /\ startOfPeriod' = Period(lastRoll')
      <4>1. /\ now \in 1 .. MaxTime /\ lastRoll \in 1 .. MaxTime /\ lastFlush \in 1 .. MaxTime
            /\ startOfPeriod = Period(lastRoll)
        BY DEF TypeOK
      <4>2. /\ now' = now /\ count' \in 0 .. (CheckEveryN - 1)
            /\ \/ /\ lastRoll' = now /\ lastFlush' = now /\ startOfPeriod' = Period(now)
                  /\ written' = 0 /\ unflushed' = FALSE
               \/ /\ lastRoll' = lastRoll /\ startOfPeriod' = startOfPeriod
                  /\ lastFlush' \in {lastFlush, now}
                  /\ written' \in Nat /\ unflushed' \in BOOLEAN
        BY <2>1, AppendCases, Zenon
      <4>3. startOfPeriod' = Period(lastRoll')
        BY <4>1, <4>2, Zenon
      <4>4. unflushed' \in BOOLEAN
        BY <4>2, Zenon
      <4>5. now' \in 1 .. MaxTime /\ lastRoll' \in 1 .. MaxTime /\ lastFlush' \in 1 .. MaxTime
        BY <4>1, <4>2, Zenon
      <4>6. written' \in Nat
        BY <4>2
      <4> QED BY <4>2, <4>3, <4>4, <4>5, <4>6
    <3> QED BY <3>1, <3>3, <3>5, <3>6, <3>7, <3>8, <3>9 DEF TypeOK, Period
  <2>2. CASE Flush
    BY <2>2 DEF Flush, TypeOK
  <2>3. CASE ClockAdvances
    BY <2>3, LogFileAssumption DEF ClockAdvances, TypeOK, fileVars
  <2>4. CASE ClockSetBack
    BY <2>4, LogFileAssumption DEF ClockSetBack, TypeOK, fileVars
  <2>5. CASE UNCHANGED vars
    BY <2>5 DEF vars, TypeOK, fileVars
  <2> QED BY <2>1, <2>2, <2>3, <2>4, <2>5 DEF Next
<1> QED BY <1>1, <1>2, PTL DEF Spec

\* Strengthening: files are opened at increasing instants, each with the name of
\* its instant, and lastRoll_ is the instant of the last.
NameInv ==
  /\ \A i, j \in DOMAIN files : i < j => files[i].at < files[j].at
  /\ \A i \in DOMAIN files : files[i].name = LogFileName(files[i].at)
  /\ Len(files) >= 1 /\ files[Len(files)].at = lastRoll

\* No second sees two rolls, and a name comes back only across a change that puts
\* local time back, however the wall clock is set.
THEOREM NamesFresh == Spec => []NamesComeBackOnlyWithLocalTime
<1>1. Init => NameInv
  BY DEF Init, NameInv, Opened
<1>2. TypeOK /\ NameInv /\ [Next]_vars => NameInv'
  <2> SUFFICES ASSUME TypeOK, NameInv, [Next]_vars PROVE NameInv'
    OBVIOUS
  <2>1. CASE files' = Append(files, Opened(now)) /\ now > lastRoll /\ lastRoll' = now
    <3>1. /\ files \in Seq([at : 1 .. MaxTime, name : Int]) /\ now \in Nat /\ lastRoll \in Nat
          /\ Opened(now) \in [at : 1 .. MaxTime, name : Int]
      BY LogFileAssumption, FileRecords, 0 \in Nat DEF TypeOK
    <3>2. /\ Len(files') = Len(files) + 1 /\ files'[Len(files) + 1] = Opened(now)
          /\ \A i \in 1 .. Len(files) : files'[i] = files[i]
          /\ DOMAIN files' = 1 .. (Len(files) + 1) /\ DOMAIN files = 1 .. Len(files)
      BY <2>1, <3>1
    <3>3. Opened(now).at = now /\ Opened(now).name = LogFileName(now)
      BY DEF Opened
    <3>4. \A i \in 1 .. Len(files) : files[i].at \in Nat /\ files[i].at <= lastRoll
      <4> SUFFICES ASSUME NEW i \in 1 .. Len(files)
                   PROVE  files[i].at \in Nat /\ files[i].at <= lastRoll
        OBVIOUS
      <4>0. files[i].at \in Nat /\ Len(files) \in Nat
        <5>1. files[i] \in [at : 1 .. MaxTime, name : Int]
          BY <3>1, ElementOfSeq
        <5> QED BY <3>1, <5>1, LogFileAssumption
      <4>1. files[Len(files)].at = lastRoll
        BY DEF NameInv
      <4>2. i < Len(files) => files[i].at < files[Len(files)].at
        <5>1. i \in DOMAIN files /\ Len(files) \in DOMAIN files
          BY <3>2, <4>0
        <5> QED BY <5>1 DEF NameInv
      <4>3. i <= Len(files) /\ i \in Nat
        BY <4>0
      <4> QED BY <3>1, <4>0, <4>1, <4>2, <4>3
    <3>5. Len(files) \in Nat
      BY <3>1
    <3>6. \A i, j \in DOMAIN files' : i < j => files'[i].at < files'[j].at
      <4> SUFFICES ASSUME NEW i \in 1 .. (Len(files) + 1), NEW j \in 1 .. (Len(files) + 1), i < j
                   PROVE  files'[i].at < files'[j].at
        BY <3>2
      <4>1. i \in 1 .. Len(files)
        BY <3>5
      <4>2. CASE j = Len(files) + 1
        BY <2>1, <3>1, <3>2, <3>3, <3>4, <4>1, <4>2
      <4>3. CASE j # Len(files) + 1
        <5>1. j \in 1 .. Len(files)
          BY <3>5, <4>3
        <5> QED BY <3>2, <4>1, <5>1 DEF NameInv
      <4> QED BY <4>2, <4>3
    <3>7. \A i \in DOMAIN files' : files'[i].name = LogFileName(files'[i].at)
      <4> SUFFICES ASSUME NEW i \in 1 .. (Len(files) + 1)
                   PROVE  files'[i].name = LogFileName(files'[i].at)
        BY <3>2
      <4>1. CASE i = Len(files) + 1
        BY <3>2, <3>3, <4>1
      <4>2. CASE i # Len(files) + 1
        <5>1. i \in 1 .. Len(files)
          BY <3>5, <4>2
        <5> QED BY <3>2, <5>1 DEF NameInv
      <4> QED BY <4>1, <4>2
    <3>8. Len(files') >= 1 /\ files'[Len(files')].at = lastRoll'
      BY <2>1, <3>2, <3>3, <3>5
    <3> QED BY <3>6, <3>7, <3>8 DEF NameInv, LogFileName
  <2>2. CASE files' = files /\ lastRoll' = lastRoll
    BY <2>2 DEF NameInv, LogFileName
  <2> QED BY <2>1, <2>2, AppendCases, OtherSteps DEF Next
<1>3. TypeOK /\ NameInv => NamesComeBackOnlyWithLocalTime
  <2> SUFFICES ASSUME TypeOK, NameInv, NEW i \in DOMAIN files, NEW j \in DOMAIN files, i < j
               PROVE  /\ files[i].at < files[j].at
                      /\ files[i].name = files[j].name
                           => UtcOffset[files[j].at] < UtcOffset[files[i].at]
    BY DEF NamesComeBackOnlyWithLocalTime
  <2>1. files[i] \in [at : 1 .. MaxTime, name : Int] /\ files[j] \in [at : 1 .. MaxTime, name : Int]
    <3>1. files \in Seq([at : 1 .. MaxTime, name : Int])
      BY DEF TypeOK
    <3>2. i \in 1 .. Len(files) /\ j \in 1 .. Len(files)
      BY <3>1
    <3> QED BY <3>1, <3>2, ElementOfSeq
  <2>2. /\ files[i].at \in 1 .. MaxTime /\ files[j].at \in 1 .. MaxTime
        /\ UtcOffset[files[i].at] \in Int /\ UtcOffset[files[j].at] \in Int
    BY <2>1, LogFileAssumption
  <2>3. files[i].at < files[j].at
    BY DEF NameInv
  <2>4. /\ files[i].name = files[i].at + UtcOffset[files[i].at]
        /\ files[j].name = files[j].at + UtcOffset[files[j].at]
    BY DEF NameInv, LogFileName
  <2> QED BY <2>2, <2>3, <2>4
<1> QED BY <1>1, <1>2, <1>3, TypeCorrect, PTL DEF Spec

\* Without the append() that rolled it away, a file exceeds rollSize_ only by what
\* was logged until its opening second was over.
THEOREM OversizeBounded == Spec => []OversizeOnlyInOpeningSecond
<1>1. Init => OversizeOnlyInOpeningSecond
  BY LogFileAssumption DEF Init, Closed, OversizeOnlyInOpeningSecond
<1>2. TypeOK /\ OversizeOnlyInOpeningSecond /\ [Next]_vars
        => OversizeOnlyInOpeningSecond'
  <2> SUFFICES ASSUME TypeOK, OversizeOnlyInOpeningSecond, [Next]_vars
               PROVE  OversizeOnlyInOpeningSecond'
    OBVIOUS
  <2>1. ASSUME NEW len \in Lens, AppendUnlocked(len) PROVE OversizeOnlyInOpeningSecond'
    <3>0. len \in Nat /\ written \in Nat /\ early \in Nat /\ RollSize \in Nat
      BY LogFileAssumption DEF TypeOK
    <3>1. CASE written' = 0 /\ early' = 0 /\ done' = Closed(written + len, len, early, Late)
      <4>1. done'.bytes = written + len /\ done'.last = len /\ done'.early = early
        BY <3>1 DEF Closed
      <4>2. done'.bytes - done'.last = written
        BY <3>0, <4>1
      <4> QED BY <3>0, <3>1, <4>1, <4>2 DEF OversizeOnlyInOpeningSecond
    <3>2. CASE /\ done' = done /\ written' \in Nat
               /\ early' = IF now > lastRoll THEN early ELSE written'
               /\ written' > RollSize => ~ (now > lastRoll)
      BY <3>0, <3>2 DEF OversizeOnlyInOpeningSecond
    <3> QED BY <2>1, <3>1, <3>2, AppendCases
  <2> QED BY <2>1, OtherSteps DEF Next, OversizeOnlyInOpeningSecond
<1> QED BY <1>1, <1>2, TypeCorrect, PTL DEF Spec

\* Strengthening: late calls are counted by count_ too, because the counter is
\* reset only where the period is looked at; and once a call was late the
\* clock, unless it is set back, stays past the period.
LateInv ==
  ~ skewed => /\ late <= count
              /\ late > 0 => Period(now) > startOfPeriod
              /\ done.late <= CheckEveryN

\* At most CheckEveryN calls, the one that rolls included, go to a file after its
\* period is over, as long as the clock is not set back.
THEOREM RollsSoon == Spec => []RollsSoonAfterPeriod
<1>1. Init => LateInv
  BY LogFileAssumption DEF Init, LateInv, Closed
<1>2. TypeOK /\ LateInv /\ [Next]_vars => LateInv'
  <2> SUFFICES ASSUME TypeOK, LateInv, [Next]_vars PROVE LateInv'
    OBVIOUS
  <2>a. skewed' = skewed \/ skewed' = TRUE
    BY DEF Next, AppendUnlocked, Flush, ClockAdvances, ClockSetBack, vars
  <2> SUFFICES ASSUME ~ skewed, ~ skewed' PROVE LateInv'
    BY <2>a, Zenon DEF LateInv
  <2>0. /\ now \in Nat /\ lastRoll \in Nat /\ Period(now) \in Int /\ startOfPeriod \in Int
        /\ ~ (now > lastRoll) => ~ (Period(now) > startOfPeriod)
        /\ count \in Nat /\ late \in Nat
    <3>1. /\ now \in Nat /\ lastRoll \in Nat /\ startOfPeriod = Period(lastRoll)
          /\ count \in Nat /\ late \in Nat
      BY LogFileAssumption DEF TypeOK
    <3>2. Period(now) \in Int /\ Period(lastRoll) \in Int
      BY <3>1, PeriodMonotone
    <3>3. ~ (now > lastRoll) => Period(now) <= Period(lastRoll)
      BY <3>1, PeriodMonotone
    <3> QED BY <3>1, <3>2, <3>3
  <2>1. ASSUME NEW len \in Lens, AppendUnlocked(len) PROVE LateInv'
    <3>1. late' <= count' /\ (late' > 0 => Period(now') > startOfPeriod')
      <4>1. CASE late' = 0
        <5>1. count' \in 0 .. (CheckEveryN - 1)
          BY <2>1, AppendCases
        <5> QED BY <4>1, <5>1, LogFileAssumption
      <4>2. CASE late' # 0
        <5>1. startOfPeriod' = startOfPeriod /\ now' = now /\ late' = Late
          BY <2>1, <4>2, AppendCases
        <5>2. Period(now) > startOfPeriod /\ late' = late + 1
          BY <2>0, <4>2, <5>1 DEF LateInv, Late
        <5>3. now > lastRoll
          BY <2>0, <5>2
        <5>4. ~ RollFile(written + len, len)
          BY <4>2, <5>3 DEF RollFile, MayRoll
        <5>5. count' = count + 1
          <6>1. NewPeriod
            BY <2>0, <5>2 DEF NewPeriod
          <6> QED BY <2>1, <5>4, <6>1 DEF AppendUnlocked, NextCount
        <5> QED BY <2>0, <5>1, <5>2, <5>5 DEF LateInv
      <4> QED BY <4>1, <4>2
    <3>2. done'.late <= CheckEveryN
      <4>1. CASE done' = done
        BY <4>1 DEF LateInv
      <4>2. CASE done' = Closed(written + len, len, early, Late)
        <5>1. done'.late = Late
          BY <4>2 DEF Closed
        <5>2. Late = late + 1 \/ Late = late
          BY DEF Late
        <5>3. late <= count /\ count \in 0 .. (CheckEveryN - 1) /\ CheckEveryN \in Nat
          BY LogFileAssumption DEF LateInv, TypeOK
        <5> QED BY <2>0, <5>1, <5>2, <5>3
      <4> QED BY <2>1, <4>1, <4>2, AppendCases
    <3> QED BY <3>1, <3>2 DEF LateInv, Period
  <2>2. CASE Flush
    BY <2>2 DEF Flush, LateInv
  <2>3. CASE ClockAdvances
    <3>1. Period(now + 1) >= Period(now) /\ Period(now + 1) \in Int
      BY <2>0, PeriodMonotone
    <3>2. Period(now)' = Period(now + 1)
      BY <2>3 DEF ClockAdvances, Period
    <3> QED BY <2>0, <2>3, <3>1, <3>2 DEF ClockAdvances, LateInv, fileVars
  <2>4. CASE ClockSetBack
    BY <2>4 DEF ClockSetBack
  <2>5. CASE UNCHANGED vars
    BY <2>5 DEF vars, fileVars, LateInv, Period
  <2> QED BY <2>1, <2>2, <2>3, <2>4, <2>5 DEF Next
<1>3. TypeOK /\ LateInv => RollsSoonAfterPeriod
  BY LogFileAssumption DEF TypeOK, LateInv, RollsSoonAfterPeriod
<1> QED BY <1>1, <1>2, <1>3, TypeCorrect, PTL DEF Spec

-----------------------------------------------------------------------------
(* Threads *)

ThObject == [exists : BOOLEAN, started : BOOLEAN, joined : BOOLEAN, tid : {0, NewTid}, count : {0, 1}]

ThTypes ==
  /\ thObject \in ThObject
  /\ thLatch \in {"none", "owner", "thread"} /\ thHolder \in {0, OwnerTid, NewTid}
  /\ thOwner \in {"idle", "wait", "test", "asleep", "joining"}
  /\ thNew \in {"none", "begins", "countDown", "counting", "unlocking", "unlock", "func", "ended"}
  /\ thProcess \in {"running", "aborted"} /\ thMade \in 0 .. MaxThreads
  /\ thSignal \in BOOLEAN /\ thReleased \in BOOLEAN

\* The mutex of the latch belongs to the owner while it tests the count, and to the
\* thread from the lock to the unlock in countDown().
MutexInv ==
  /\ thLatch = "owner" <=> thOwner = "test"
  /\ thLatch = "thread" <=> thNew \in {"counting", "unlocking", "unlock"}
  /\ thHolder = OwnerTid => thLatch = "owner"
  /\ thHolder = NewTid => thLatch = "thread"

\* While the thread is inside runInThread() before func_(), the owner is inside
\* start(); past the decrement it is not past its test.
StartInv ==
  /\ thNew \in {"begins", "countDown", "counting"} =>
       thOwner \in {"wait", "test", "asleep"} /\ thObject.count = 1
  /\ thNew \in {"unlocking", "unlock"} => thOwner \in {"wait", "asleep"} /\ thObject.count = 0
  /\ thOwner # "idle" => thObject.exists /\ thObject.started
  /\ thOwner \in {"wait", "test", "asleep"} => ~ thObject.joined
  /\ thNew \notin {"none", "begins"} /\ thObject.exists => thObject.tid = NewTid

\* The object and the system's thread.
ObjectInv ==
  /\ ~ thObject.exists => thObject = NoObject /\ thReleased
  /\ thObject.exists /\ ~ thObject.started =>
       thNew = "none" /\ thObject.count = 1 /\ ~ thObject.joined /\ thReleased
  /\ thObject.exists /\ thObject.started => thNew # "none"
  /\ thObject.joined /\ thOwner # "joining" => thReleased

\* Strengthening of ThreadsInv.
ThInv == ThTypes /\ MutexInv /\ StartInv /\ ObjectInv

LEMMA ThInitially == ThreadsInit => ThInv
<1> SUFFICES ASSUME ThreadsInit PROVE ThInv
  OBVIOUS
<1> USE DEF ThreadsInit, NoObject, OwnerTid, NewTid
<1>1. ThTypes
  <2>1. NoObject \in ThObject
    BY DEF ThObject
  <2>2. 0 \in 0 .. MaxThreads
    BY ThreadsAssumption
  <2> HIDE DEF NoObject
  <2> QED BY <2>1, <2>2 DEF ThTypes
<1>2. MutexInv
  BY DEF MutexInv
<1>3. StartInv
  BY DEF StartInv
<1>4. ObjectInv
  BY DEF ObjectInv
<1> QED BY <1>1, <1>2, <1>3, <1>4 DEF ThInv

LEMMA ThStep == ThInv /\ [ThreadsNext]_thVars => ThInv'
<1> SUFFICES ASSUME ThInv, [ThreadsNext]_thVars PROVE ThInv'
  OBVIOUS
<1> USE DEF ThInv, ThTypes, MutexInv, StartInv, ObjectInv, ThObject, NoObject, OwnerTid, NewTid, Running
<1>1. CASE MakeThread
  <2>1. ThTypes'
    <3>1. thObject' \in ThObject
      BY <1>1 DEF MakeThread
    <3>2. thMade' \in 0 .. MaxThreads
      BY <1>1, ThreadsAssumption DEF MakeThread
    <3> HIDE DEF ThObject, NoObject
    <3> QED BY <1>1, <3>1, <3>2 DEF MakeThread
  <2>2. MutexInv'
    BY <1>1 DEF MakeThread
  <2>3. StartInv'
    BY <1>1 DEF MakeThread
  <2>4. ObjectInv'
    BY <1>1 DEF MakeThread
  <2> QED BY <2>1, <2>2, <2>3, <2>4 DEF ThInv
<1>2. CASE StartThread
  <2>1. CASE thProcess' = "aborted" /\ UNCHANGED <<thObject, thNew, thReleased, thOwner>>
    BY <1>2, <2>1 DEF StartThread
  <2>2. CASE /\ thObject' = [thObject EXCEPT !.started = TRUE]
             /\ thNew' = "begins" /\ thReleased' = FALSE /\ thOwner' = "wait" /\ UNCHANGED thProcess
    <3>1. /\ thObject' \in ThObject /\ thObject'.exists = thObject.exists /\ thObject'.started = TRUE
          /\ thObject'.joined = thObject.joined /\ thObject'.tid = thObject.tid
          /\ thObject'.count = thObject.count
      BY <2>2
    <3>2. /\ thOwner = "idle" /\ thObject.exists /\ ~ thObject.started
          /\ UNCHANGED <<thLatch, thHolder, thSignal, thMade>>
      BY <1>2 DEF StartThread
    <3>3. thNew = "none" /\ thObject.count = 1 /\ ~ thObject.joined
      BY <3>2
    <3>4. ThTypes'
      BY <2>2, <3>1, <3>2
    <3>5. MutexInv'
      BY <2>2, <3>2, <3>3
    <3>6. StartInv'
      BY <2>2, <3>1, <3>2, <3>3
    <3>7. ObjectInv'
      BY <2>2, <3>1, <3>2, <3>3
    <3> QED BY <3>4, <3>5, <3>6, <3>7 DEF ThInv
  <2> QED BY <1>2, <2>1, <2>2 DEF StartThread
<1>3. CASE LatchWaitLocks
  BY <1>3, ThreadsAssumption DEF LatchWaitLocks, OwnerLocks
<1>4. CASE LatchTests
  <2>1. ThTypes'
    BY <1>4, ThreadsAssumption DEF LatchTests
  <2>2. MutexInv'
    BY <1>4 DEF LatchTests
  <2>3. StartInv'
    BY <1>4 DEF LatchTests
  <2>4. ObjectInv'
    BY <1>4 DEF LatchTests
  <2> QED BY <2>1, <2>2, <2>3, <2>4 DEF ThInv
<1>5. CASE LatchWakes
  <2>1. ThTypes'
    BY <1>5, ThreadsAssumption DEF LatchWakes, OwnerLocks
  <2>2. MutexInv'
    BY <1>5 DEF LatchWakes, OwnerLocks
  <2>3. StartInv'
    BY <1>5 DEF LatchWakes, OwnerLocks
  <2>4. ObjectInv'
    BY <1>5 DEF LatchWakes, OwnerLocks
  <2> QED BY <2>1, <2>2, <2>3, <2>4 DEF ThInv
<1>6. CASE LatchWakesForNothing
  BY <1>6, ThreadsAssumption DEF LatchWakesForNothing, OwnerLocks
<1>7. CASE JoinCalls
  BY <1>7, ThreadsAssumption DEF JoinCalls
<1>8. CASE JoinReturns
  BY <1>8, ThreadsAssumption DEF JoinReturns
<1>9. CASE DestroyThread
  BY <1>9, ThreadsAssumption DEF DestroyThread, MustDetach
<1>10. CASE StoresTid
  BY <1>10, ThreadsAssumption DEF StoresTid, Touches
<1>11. CASE CountDownLocks
  BY <1>11, ThreadsAssumption DEF CountDownLocks, Touches
<1>12. CASE CountsDown
  BY <1>12, ThreadsAssumption DEF CountsDown, Touches
<1>13. CASE CountDownUnassigns
  BY <1>13, ThreadsAssumption DEF CountDownUnassigns, Touches
<1>14. CASE CountDownUnlocks
  BY <1>14, ThreadsAssumption DEF CountDownUnlocks, Touches
<1>15. CASE FuncReturns
  BY <1>15, ThreadsAssumption DEF FuncReturns
<1>16. CASE FuncThrows
  BY <1>16, ThreadsAssumption DEF FuncThrows
<1>17. CASE UNCHANGED thVars
  BY <1>17 DEF thVars
<1> QED BY <1>1, <1>2, <1>3, <1>4, <1>5, <1>6, <1>7, <1>8, <1>9, <1>10, <1>11, <1>12, <1>13, <1>14, <1>15, <1>16, <1>17
        DEF ThreadsNext, StartGoesOn, NewThreadStep

\* Thread.cc: over every order of start(), join() and destruction, with any number
\* of objects one after the other, an owner that is back from start() may drop the
\* Thread object: the thread no longer touches it, tid() is known, and every thread
\* is joined or detached.
THEOREM ObjectMayGoAfterStart == ThreadsSpec => []ThreadsInv
<1>1. ThInv => ThreadsInv
  BY ThreadsAssumption
  DEF ThInv, ThTypes, MutexInv, StartInv, ObjectInv, ThObject, NoObject, OwnerTid, NewTid, ThreadsInv,
      ThreadsTypeOK, ObjectOutlivesLatch, TidKnownAfterStart, NoThreadLeaks
<1>2. ThreadsSpec => []ThInv
  BY ThInitially, ThStep, PTL DEF ThreadsSpec
<1> QED BY <1>1, <1>2, PTL

-----------------------------------------------------------------------------
(* FileUtil *)

FuTypes ==
  /\ fuFile \in Seq(Nat \X Nat)
  /\ fuLine \in [len : Nat, n : Nat, busy : BOOLEAN] /\ fuLine.n <= fuLine.len
  /\ fuLines \in 0 .. MaxAppended /\ fuWritten \in Nat

\* A file f of the beginnings of lines, as LinesAreBeginnings says of fuFile.
Beginnings(f) ==
  \A i \in DOMAIN f :
    \/ f[i][2] = 1 /\ (i > 1 => f[i][1] > f[i - 1][1])
    \/ i > 1 /\ f[i] = <<f[i - 1][1], f[i - 1][2] + 1>>

\* f, with lines up to number l, may go on with byte m + 1 of line l.
GoesOn(f, l, m) ==
  /\ \A i \in DOMAIN f : f[i][1] <= l
  /\ m = 0 => \A i \in DOMAIN f : f[i][1] < l
  /\ m > 0 => Len(f) > 0 /\ f[Len(f)] = <<l, m>>

\* Where the loop of append() is, and what writtenBytes_ will be.
AppendInv ==
  /\ Beginnings(fuFile)
  /\ fuLine.busy => GoesOn(fuFile, fuLines, fuLine.n)
  /\ ~ fuLine.busy => fuLine.n = 0 /\ \A i \in DOMAIN fuFile : fuFile[i][1] <= fuLines
  /\ Len(fuFile) <= fuWritten + fuLine.n

\* The loop of readToString().
ReadInv ==
  /\ fuRead \in [state : {"none", "open", "done", "buffer"}, size : Nat, max : Nat, got : Nat,
                 err : BOOLEAN, nul : Nat]
  /\ fuRead.got <= fuRead.max /\ fuRead.got <= fuRead.size /\ fuRead.nul < kBufferSize
  /\ fuRead.state = "done" /\ ~ fuRead.err => fuRead.got = fuRead.max \/ fuRead.got = fuRead.size

\* Strengthening of FileUtilInv.
FuInv == FuTypes /\ AppendInv /\ ReadInv

LEMMA MinOfTwo ==
  ASSUME NEW a \in Int, NEW b \in Int
  PROVE  Min({a, b}) = IF a <= b THEN a ELSE b
<1> DEFINE m == IF a <= b THEN a ELSE b
<1>1. m \in {a, b} /\ \A y \in {a, b} : m <= y
  OBVIOUS
<1>2. \A x \in {a, b} : (\A y \in {a, b} : x <= y) => x = m
  OBVIOUS
<1> HIDE DEF m
<1>3. Min({a, b}) = m
  BY <1>1, <1>2 DEF Min
<1> QED BY <1>3 DEF m

\* One fwrite(): x more bytes of line l behind its first m.
LEMMA WriteGoesOn ==
  ASSUME NEW f \in Seq(Nat \X Nat), NEW l \in Nat, NEW m \in Nat, NEW x \in Nat,
         Beginnings(f), GoesOn(f, l, m)
  PROVE  LET g == f \o [k \in 1 .. x |-> <<l, m + k>>]
         IN  g \in Seq(Nat \X Nat) /\ Beginnings(g) /\ GoesOn(g, l, m + x) /\ Len(g) = Len(f) + x
<1> DEFINE b == [k \in 1 .. x |-> <<l, m + k>>]
           g == f \o b
<1>1. b \in Seq(Nat \X Nat) /\ Len(b) = x
  <2>1. \A k \in 1 .. x : <<l, m + k>> \in Nat \X Nat
    OBVIOUS
  <2>2. b \in [1 .. x -> Nat \X Nat]
    BY <2>1
  <2>3. b \in Seq(Nat \X Nat)
    BY <2>2, IsASeq
  <2> QED BY <2>3, LenProperties
<1>2. Len(f) \in Nat /\ DOMAIN f = 1 .. Len(f)
  BY LenProperties
<1>3. /\ g \in Seq(Nat \X Nat) /\ Len(g) = Len(f) + x /\ DOMAIN g = 1 .. (Len(f) + x)
      /\ \A i \in 1 .. Len(f) : g[i] = f[i]
      /\ \A k \in 1 .. x : g[Len(f) + k] = <<l, m + k>>
  <2>1. g \in Seq(Nat \X Nat) /\ Len(g) = Len(f) + x
        /\ \A i \in 1 .. (Len(f) + x) : g[i] = IF i <= Len(f) THEN f[i] ELSE b[i - Len(f)]
    BY <1>1, ConcatProperties
  <2>2. DOMAIN g = 1 .. (Len(f) + x)
    BY <2>1, LenProperties
  <2> HIDE DEF g
  <2>3. \A k \in 1 .. x : g[Len(f) + k] = b[k]
    <3> SUFFICES ASSUME NEW k \in 1 .. x PROVE g[Len(f) + k] = b[k]
      OBVIOUS
    <3>1. Len(f) + k \in 1 .. (Len(f) + x) /\ ~ (Len(f) + k <= Len(f)) /\ Len(f) + k - Len(f) = k
      BY <1>2
    <3> HIDE DEF b
    <3>2. PICK j \in 1 .. (Len(f) + x) : j = Len(f) + k
      BY <3>1
    <3>3. g[j] = IF j <= Len(f) THEN f[j] ELSE b[j - Len(f)]
      BY <2>1
    <3>4. ~ (j <= Len(f)) /\ j - Len(f) = k
      BY <3>1, <3>2
    <3>5. g[j] = b[k]
      BY <3>3, <3>4, Zenon
    <3> QED BY <3>2, <3>5, Zenon
  <2>4. \A i \in 1 .. Len(f) : i \in 1 .. (Len(f) + x) /\ i <= Len(f)
    BY <1>2
  <2>5. \A i \in 1 .. Len(f) : g[i] = f[i]
    <3> HIDE DEF b
    <3> QED BY <2>1, <2>4
  <2> QED BY <2>1, <2>2, <2>3, <2>5
<1> HIDE DEF g, b
<1>4. \A i \in 1 .. (Len(f) + x) : i \in 1 .. Len(f) \/ \E k \in 1 .. x : i = Len(f) + k
  <2> SUFFICES ASSUME NEW i \in 1 .. (Len(f) + x), i \notin 1 .. Len(f)
               PROVE  \E k \in 1 .. x : i = Len(f) + k
    OBVIOUS
  <2>1. i - Len(f) \in 1 .. x /\ i = Len(f) + (i - Len(f))
    BY <1>2
  <2> QED BY <2>1
<1>5. ASSUME NEW k \in 1 .. x
      PROVE  LET i == Len(f) + k
             IN  \/ g[i][2] = 1 /\ (i > 1 => g[i][1] > g[i - 1][1])
                 \/ i > 1 /\ g[i] = <<g[i - 1][1], g[i - 1][2] + 1>>
  <2>1. g[Len(f) + k] = <<l, m + k>>
    BY <1>3
  <2>2. CASE k > 1
    <3>1. k - 1 \in 1 .. x /\ Len(f) + (k - 1) = Len(f) + k - 1 /\ Len(f) + k > 1
      BY <1>2, <2>2
    <3>2. g[Len(f) + k - 1] = <<l, m + (k - 1)>>
      BY <1>3, <3>1
    <3>3. m + k = m + (k - 1) + 1
      OBVIOUS
    <3> QED BY <2>1, <3>1, <3>2, <3>3
  <2>3. CASE k = 1 /\ m > 0
    <3>1. Len(f) > 0 /\ f[Len(f)] = <<l, m>> /\ Len(f) \in 1 .. Len(f) /\ Len(f) + k > 1
          /\ Len(f) + k - 1 = Len(f)
      BY <1>2, <2>3 DEF GoesOn
    <3>2. g[Len(f) + k - 1] = <<l, m>>
      BY <1>3, <3>1
    <3> QED BY <2>1, <2>3, <3>1, <3>2
  <2>4. CASE k = 1 /\ m = 0
    <3>1. g[Len(f) + k][2] = 1 /\ g[Len(f) + k][1] = l
      BY <2>1, <2>4
    <3>2. ASSUME Len(f) + k > 1 PROVE l > g[Len(f) + k - 1][1]
      <4>1. Len(f) \in 1 .. Len(f) /\ Len(f) + k - 1 = Len(f)
        BY <1>2, <2>4, <3>2
      <4>2. f[Len(f)][1] < l /\ f[Len(f)] \in Nat \X Nat
        BY <1>2, <2>4, <4>1, ElementOfSeq DEF GoesOn
      <4> QED BY <1>3, <4>1, <4>2
    <3> QED BY <3>1, <3>2
  <2> QED BY <2>2, <2>3, <2>4
<1>6. Beginnings(g)
  <2> SUFFICES ASSUME NEW i \in 1 .. (Len(f) + x)
               PROVE  \/ g[i][2] = 1 /\ (i > 1 => g[i][1] > g[i - 1][1])
                      \/ i > 1 /\ g[i] = <<g[i - 1][1], g[i - 1][2] + 1>>
    BY <1>3 DEF Beginnings
  <2>1. CASE i \in 1 .. Len(f)
    <3>1. i > 1 => i - 1 \in 1 .. Len(f)
      BY <1>2, <2>1
    <3>2. g[i] = f[i] /\ (i > 1 => g[i - 1] = f[i - 1])
      BY <1>3, <2>1, <3>1
    <3> QED BY <1>2, <2>1, <3>2 DEF Beginnings
  <2>2. CASE \E k \in 1 .. x : i = Len(f) + k
    BY <1>5, <2>2
  <2> QED BY <1>4, <2>1, <2>2
<1>7. GoesOn(g, l, m + x)
  <2>1. \A i \in DOMAIN g : g[i][1] <= l
    <3>1. \A i \in 1 .. Len(f) : g[i][1] <= l
      BY <1>2, <1>3 DEF GoesOn
    <3>2. ASSUME NEW k \in 1 .. x PROVE g[Len(f) + k][1] <= l
      <4>1. g[Len(f) + k] = <<l, m + k>>
        BY <1>3
      <4> QED BY <4>1
    <3> QED BY <1>3, <1>4, <3>1, <3>2
  <2>2. m + x = 0 => m = 0 /\ x = 0
    OBVIOUS
  <2>3. m + x = 0 => \A i \in DOMAIN g : g[i][1] < l
    BY <1>2, <1>3, <2>2 DEF GoesOn
  <2>4. m + x > 0 => Len(g) > 0 /\ g[Len(g)] = <<l, m + x>>
    <3>1. CASE x > 0
      BY <1>2, <1>3, <3>1
    <3>2. CASE x = 0
      BY <1>2, <1>3, <3>2 DEF GoesOn
    <3> QED BY <3>1, <3>2
  <2> QED BY <2>1, <2>3, <2>4 DEF GoesOn
<1> QED BY <1>3, <1>6, <1>7 DEF g, b

LEMMA FuInitially == FileUtilInit => FuInv
<1> SUFFICES ASSUME FileUtilInit PROVE FuInv
  OBVIOUS
<1> USE FileUtilAssumption DEF FileUtilInit
<1>1. fuFile \in Seq(Nat \X Nat) /\ Len(fuFile) = 0 /\ DOMAIN fuFile = {}
  BY EmptySeq, LenProperties
<1>2. FuTypes
  BY <1>1 DEF FuTypes, NoLine
<1>3. AppendInv
  BY <1>1 DEF AppendInv, Beginnings, NoLine
<1>4. ReadInv
  BY DEF ReadInv, NoRead
<1> QED BY <1>2, <1>3, <1>4 DEF FuInv

LEMMA BeginsKeepsFu ==
  ASSUME FuInv, NEW len \in LineLens, NEW x \in 0 .. len, AppendBegins(len, x)
  PROVE  FuInv'
<1>1. /\ ~ fuLine.busy /\ fuLines < MaxAppended /\ fuLines' = fuLines + 1
      /\ fuLine' = [len |-> len, n |-> x, busy |-> TRUE] /\ fuWritten' = fuWritten /\ fuRead' = fuRead
      /\ fuFile' = fuFile \o [k \in 1 .. x |-> <<fuLines + 1, k>>]
  BY DEF AppendBegins
<1>2. len \in Nat /\ x \in Nat /\ x <= len /\ fuLines \in Nat /\ fuLines + 1 \in Nat /\ fuFile \in Seq(Nat \X Nat)
  BY FileUtilAssumption DEF FuInv, FuTypes
<1>3. [k \in 1 .. x |-> <<fuLines + 1, 0 + k>>] = [k \in 1 .. x |-> <<fuLines + 1, k>>]
  BY <1>2
<1>4. DOMAIN fuFile = 1 .. Len(fuFile) /\ Len(fuFile) \in Nat
  BY <1>2, LenProperties
<1>5. \A i \in DOMAIN fuFile : fuFile[i][1] \in Nat
  BY <1>2, <1>4, ElementOfSeq
<1>6. GoesOn(fuFile, fuLines + 1, 0) /\ Beginnings(fuFile)
  BY <1>1, <1>2, <1>5 DEF FuInv, AppendInv, GoesOn
<1>7. /\ fuFile' \in Seq(Nat \X Nat) /\ Beginnings(fuFile') /\ GoesOn(fuFile', fuLines + 1, 0 + x)
      /\ Len(fuFile') = Len(fuFile) + x
  <2> DEFINE g == fuFile \o [k \in 1 .. x |-> <<fuLines + 1, 0 + k>>]
  <2>1. /\ g \in Seq(Nat \X Nat) /\ Beginnings(g) /\ GoesOn(g, fuLines + 1, 0 + x) /\ Len(g) = Len(fuFile) + x
    BY <1>2, <1>6, WriteGoesOn
  <2>2. fuFile' = g
    BY <1>1, <1>3
  <2> QED BY <2>1, <2>2
<1>8. fuLine'.len = len /\ fuLine'.n = x /\ fuLine'.busy = TRUE
      /\ fuLine' \in [len : Nat, n : Nat, busy : BOOLEAN] /\ 0 + x = x
  BY <1>1, <1>2
<1>9. FuTypes'
  BY <1>1, <1>2, <1>7, <1>8, FileUtilAssumption DEF FuInv, FuTypes
<1>10. Len(fuFile') <= fuWritten' + fuLine'.n
  <2>1. fuLine.n = 0 /\ Len(fuFile) <= fuWritten + fuLine.n /\ fuWritten \in Nat
    BY <1>1 DEF FuInv, AppendInv, FuTypes
  <2> QED BY <1>1, <1>2, <1>4, <1>7, <1>8, <2>1
<1>11. GoesOn(fuFile', fuLines', fuLine'.n)
  BY <1>1, <1>7, <1>8
<1>12. AppendInv'
  BY <1>7, <1>8, <1>10, <1>11 DEF AppendInv
<1>13. ReadInv'
  BY <1>1 DEF FuInv, ReadInv
<1> QED BY <1>9, <1>12, <1>13 DEF FuInv

LEMMA GoesOnKeepsFu ==
  ASSUME FuInv, NEW x, AppendGoesOn(x)
  PROVE  FuInv'
<1> DEFINE n == fuLine.n
<1>1. /\ fuLine.busy /\ x \in 1 .. fuLine.len - n /\ fuLine' = [fuLine EXCEPT !.n = @ + x]
      /\ UNCHANGED <<fuLines, fuWritten, fuRead>>
      /\ fuFile' = fuFile \o [k \in 1 .. x |-> <<fuLines, n + k>>]
  BY DEF AppendGoesOn, Bytes, RestFrom
<1>2. /\ n \in Nat /\ fuLine.len \in Nat /\ x \in Nat /\ n + x <= fuLine.len /\ n + x \in Nat
      /\ fuLines \in Nat /\ fuFile \in Seq(Nat \X Nat) /\ fuLine \in [len : Nat, n : Nat, busy : BOOLEAN]
      /\ Len(fuFile) \in Nat
  BY <1>1, FileUtilAssumption, LenProperties DEF FuInv, FuTypes
<1>3. GoesOn(fuFile, fuLines, n) /\ Beginnings(fuFile)
  BY <1>1 DEF FuInv, AppendInv
<1>4. /\ fuLine'.n = n + x /\ fuLine'.len = fuLine.len /\ fuLine'.busy = TRUE
      /\ fuLine' \in [len : Nat, n : Nat, busy : BOOLEAN]
  BY <1>1, <1>2
<1> HIDE DEF n
<1>5. /\ fuFile' \in Seq(Nat \X Nat) /\ Beginnings(fuFile') /\ GoesOn(fuFile', fuLines, n + x)
      /\ Len(fuFile') = Len(fuFile) + x
  <2> DEFINE g == fuFile \o [k \in 1 .. x |-> <<fuLines, n + k>>]
  <2>1. /\ g \in Seq(Nat \X Nat) /\ Beginnings(g) /\ GoesOn(g, fuLines, n + x) /\ Len(g) = Len(fuFile) + x
    BY <1>2, <1>3, WriteGoesOn
  <2>2. fuFile' = g
    BY <1>1
  <2> QED BY <2>1, <2>2
<1>6. FuTypes'
  BY <1>1, <1>2, <1>4, <1>5 DEF FuInv, FuTypes
<1>7. Len(fuFile') <= fuWritten' + fuLine'.n
  <2>1. Len(fuFile) <= fuWritten + n /\ fuWritten \in Nat
    BY DEF FuInv, AppendInv, FuTypes, n
  <2>2. fuWritten' = fuWritten /\ fuLine'.n = n + x /\ Len(fuFile') = Len(fuFile) + x
    BY <1>1, <1>4, <1>5
  <2>3. n \in Nat /\ x \in Nat /\ Len(fuFile) \in Nat
    BY <1>2
  <2>4. Len(fuFile) + x <= fuWritten + (n + x)
    BY <2>1, <2>3
  <2> QED BY <2>2, <2>4
<1>8. AppendInv'
  BY <1>1, <1>4, <1>5, <1>7 DEF AppendInv
<1>9. ReadInv'
  BY <1>1 DEF FuInv, ReadInv
<1> QED BY <1>6, <1>8, <1>9 DEF FuInv

LEMMA EndKeepsFu ==
  ASSUME FuInv, AppendEnds
  PROVE  FuInv'
<1>1. /\ fuLine.busy /\ fuWritten' = fuWritten + fuLine.len
      /\ fuLine' = [len |-> 0, n |-> 0, busy |-> FALSE]
      /\ UNCHANGED <<fuFile, fuLines, fuRead>>
  BY DEF AppendEnds, CountedBytes, NoLine
<1>2. fuLine.n \in Nat /\ fuLine.len \in Nat /\ fuLine.n <= fuLine.len /\ fuWritten \in Nat /\ Len(fuFile) \in Nat
  BY LenProperties DEF FuInv, FuTypes
<1>3. FuTypes'
  BY <1>1, <1>2 DEF FuInv, FuTypes
<1>4. Len(fuFile') <= fuWritten' + fuLine'.n
  BY <1>1, <1>2 DEF FuInv, AppendInv
<1>5. AppendInv'
  BY <1>1, <1>4 DEF FuInv, AppendInv, GoesOn
<1>6. ReadInv'
  BY <1>1 DEF FuInv, ReadInv
<1> QED BY <1>3, <1>5, <1>6 DEF FuInv

LEMMA ReadKeepsFu ==
  ASSUME FuInv, UNCHANGED appendVars,
         \/ \E size \in FileSizes, max \in MaxSizes : OpenToRead(size, max)
         \/ \E n \in 0 .. kBufferSize : ReadTurn(n) \/ ReadToBuffer(n)
         \/ ReadStops
  PROVE  FuInv'
<1> DEFINE Rec == [state : {"none", "open", "done", "buffer"}, size : Nat, max : Nat, got : Nat,
                   err : BOOLEAN, nul : Nat]
<1>1. FuTypes' /\ AppendInv'
  BY DEF appendVars, FuInv, FuTypes, AppendInv
<1>2. /\ fuRead \in Rec /\ fuRead.got \in Nat /\ fuRead.max \in Nat /\ fuRead.size \in Nat
      /\ fuRead.got <= fuRead.max /\ fuRead.got <= fuRead.size /\ fuRead.nul < kBufferSize
      /\ kBufferSize \in Nat \ {0}
  BY FileUtilAssumption DEF FuInv, ReadInv
<1>3. ASSUME NEW size \in FileSizes, NEW max \in MaxSizes, OpenToRead(size, max) PROVE ReadInv'
  <2>1. size \in Nat /\ max \in Nat
    BY FileUtilAssumption
  <2>2. \E state \in {"open", "done"}, err \in BOOLEAN :
          /\ fuRead' = [state |-> state, size |-> size, max |-> max, got |-> 0, err |-> err, nul |-> 0]
          /\ state = "done" => err
    BY <1>3 DEF OpenToRead, NoRead
  <2> QED BY <1>2, <2>1, <2>2 DEF ReadInv
<1>4. ASSUME NEW n \in 0 .. kBufferSize, ReadTurn(n) PROVE ReadInv'
  <2>1. /\ fuRead.state = "open" /\ n \in 1 .. Min({ToRead(fuRead), fuRead.size - fuRead.got})
        /\ fuRead' = [fuRead EXCEPT !.got = @ + n]
    BY <1>4 DEF ReadTurn
  <2>2. ToRead(fuRead) \in Int /\ ToRead(fuRead) <= fuRead.max - fuRead.got
    BY <1>2, MinOfTwo DEF ToRead
  <2>3. n \in Nat /\ n <= fuRead.max - fuRead.got /\ n <= fuRead.size - fuRead.got
    BY <1>2, <2>1, <2>2, MinOfTwo
  <2>4. /\ fuRead' \in Rec /\ fuRead'.got = fuRead.got + n /\ fuRead'.max = fuRead.max
        /\ fuRead'.size = fuRead.size /\ fuRead'.nul = fuRead.nul /\ fuRead'.state = "open"
    BY <1>2, <2>1, <2>3
  <2> QED BY <1>2, <2>3, <2>4 DEF ReadInv
<1>5. ASSUME NEW n \in 0 .. kBufferSize, ReadToBuffer(n) PROVE ReadInv'
  <2>1. Min({BufferBytes, fuRead.size}) <= kBufferSize - 1
    BY <1>2, MinOfTwo DEF BufferBytes
  <2>2. CASE n \in 0 .. Min({BufferBytes, fuRead.size}) /\ fuRead' = [fuRead EXCEPT !.state = "buffer", !.nul = n]
    <3>0. Min({BufferBytes, fuRead.size}) \in Int
      BY <1>2, MinOfTwo DEF BufferBytes
    <3>1. n \in Nat /\ n < kBufferSize
      BY <1>2, <2>1, <2>2, <3>0
    <3>2. /\ fuRead' \in Rec /\ fuRead'.got = fuRead.got /\ fuRead'.max = fuRead.max
          /\ fuRead'.size = fuRead.size /\ fuRead'.nul = n /\ fuRead'.state = "buffer"
      BY <1>2, <2>2, <3>1
    <3> QED BY <1>2, <3>1, <3>2 DEF ReadInv
  <2>3. CASE fuRead' = [fuRead EXCEPT !.state = "buffer", !.err = TRUE]
    BY <1>2, <2>3 DEF ReadInv
  <2> QED BY <1>5, <2>2, <2>3 DEF ReadToBuffer
<1>6. ASSUME ReadStops PROVE ReadInv'
  <2>1. PICK failed \in BOOLEAN : /\ failed \/ fuRead.got >= fuRead.max \/ fuRead.got = fuRead.size
                                  /\ fuRead' = [fuRead EXCEPT !.state = "done", !.err = failed]
    BY <1>6 DEF ReadStops
  <2>2. /\ fuRead' \in Rec /\ fuRead'.got = fuRead.got /\ fuRead'.max = fuRead.max
        /\ fuRead'.size = fuRead.size /\ fuRead'.nul = fuRead.nul /\ fuRead'.err = failed
    BY <1>2, <2>1
  <2>3. fuRead'.state = "done" /\ ~ fuRead'.err => fuRead'.got = fuRead'.max \/ fuRead'.got = fuRead'.size
    BY <1>2, <2>1, <2>2
  <2>4. fuRead'.got <= fuRead'.max /\ fuRead'.got <= fuRead'.size /\ fuRead'.nul < kBufferSize
    BY <1>2, <2>2
  <2> QED BY <2>2, <2>3, <2>4 DEF ReadInv
<1>7. ReadInv'
  <2>1. CASE \E size \in FileSizes, max \in MaxSizes : OpenToRead(size, max)
    BY <1>3, <2>1
  <2>2. CASE \E n \in 0 .. kBufferSize : ReadTurn(n) \/ ReadToBuffer(n)
    BY <1>4, <1>5, <2>2
  <2> QED BY <1>6, <2>1, <2>2
<1> QED BY <1>1, <1>7 DEF FuInv

LEMMA FuStep == FuInv /\ [FileUtilNext]_fuVars => FuInv'
<1> SUFFICES ASSUME FuInv, [FileUtilNext]_fuVars PROVE FuInv'
  OBVIOUS
<1>1. CASE \E len \in LineLens : \E x \in 0 .. len : AppendBegins(len, x)
  BY <1>1, BeginsKeepsFu
<1>2. CASE \E len \in LineLens : \E x \in 1 .. len : AppendGoesOn(x)
  BY <1>2, GoesOnKeepsFu
<1>3. CASE AppendEnds
  BY <1>3, EndKeepsFu
<1>4. CASE \/ \E size \in FileSizes, max \in MaxSizes : OpenToRead(size, max)
           \/ \E n \in 0 .. kBufferSize : ReadTurn(n) \/ ReadToBuffer(n)
           \/ ReadStops
  <2>1. UNCHANGED appendVars
    BY <1>4 DEF OpenToRead, ReadTurn, ReadToBuffer, ReadStops
  <2> QED BY <1>4, <2>1, ReadKeepsFu
<1>5. CASE UNCHANGED fuVars
  BY <1>5 DEF fuVars, FuInv, FuTypes, AppendInv, ReadInv
<1> QED BY <1>1, <1>2, <1>3, <1>4, <1>5 DEF FileUtilNext

LEMMA FuInvImplies == FuInv => FileUtilInv
<1> SUFFICES ASSUME FuInv PROVE FileUtilInv
  OBVIOUS
<1>1. FileUtilTypeOK
  BY DEF FuInv, FuTypes, ReadInv, FileUtilTypeOK
<1>2. LinesAreBeginnings
  BY DEF FuInv, AppendInv, Beginnings, LinesAreBeginnings
<1>3. CountCoversFile
  BY DEF FuInv, FuTypes, AppendInv, CountCoversFile
<1>4. ReadsAllItMay
  <2>1. /\ fuRead.got \in Nat /\ fuRead.max \in Nat /\ fuRead.size \in Nat
        /\ fuRead.got <= fuRead.max /\ fuRead.got <= fuRead.size
    BY DEF FuInv, ReadInv
  <2>2. Min({fuRead.size, fuRead.max}) = IF fuRead.size <= fuRead.max THEN fuRead.size ELSE fuRead.max
    BY <2>1, MinOfTwo
  <2> QED BY <2>1, <2>2 DEF FuInv, ReadInv, ReadsAllItMay
<1> QED BY <1>1, <1>2, <1>3, <1>4 DEF FileUtilInv

\* FileUtil.cc: for lines, files and buffers of any size, however fwrite() and read()
\* split or cut what they are given, the file holds beginnings of lines in order,
\* writtenBytes_ covers it, and readToString() returns all it may and no more.
THEOREM ShortWritesLoseNothing == FileUtilSpec => []FileUtilInv
<1>1. FileUtilSpec => []FuInv
  BY FuInitially, FuStep, PTL DEF FileUtilSpec
<1> QED BY <1>1, FuInvImplies, PTL

-----------------------------------------------------------------------------
(* TimeZone: the calendar.  Days are counted in years that begin in March, so   *)
(* that the leap day is the last day of its year.                              *)

\* The year that begins in March, counted from -4800, and the day in it.
DayOf(y, e) == e + y * 365 + y \div 4 - y \div 100 + y \div 400 - 32044

\* The days of such a year before month m of it, March being month 0.
FirstOfMonth(m) == (153 * m + 2) \div 5

\* The date in the calendar that begins in January.
ShiftedDate(y, m, day) == [day |-> day, month |-> m + 3 - 12 * (m \div 10), year |-> y - 4800 + m \div 10]

\* getJulianDayNumber(), in years that begin in March.
LEMMA JulianOfShifted ==
  ASSUME NEW y \in Int, NEW m \in Int, m \in 0 .. 11, NEW day \in Int
  PROVE  getJulianDayNumber(ShiftedDate(y, m, day).year, ShiftedDate(y, m, day).month, day)
         = DayOf(y, FirstOfMonth(m) + day - 1)
<1>1. (14 - (m + 3 - 12 * (m \div 10))) \div 12 = m \div 10
  OBVIOUS
<1> QED BY <1>1 DEF getJulianDayNumber, ShiftedDate, DayOf, FirstOfMonth

\* Year d of century b.
Year(b, d) == 100 * b + d

\* The days before year d of century b.
DaysBefore(b, d) == (146097 * b) \div 4 + (1461 * d) \div 4 - 32044

\* The number of a day, from the days before its year.
LEMMA DayOfCentury ==
  ASSUME NEW b \in Int, NEW d \in Int, d \in 0 .. 99, NEW e \in Int
  PROVE  DayOf(Year(b, d), e) = DaysBefore(b, d) + e
<1>1. (146097 * b) \div 4 = 36524 * b + b \div 4
  OBVIOUS
<1>2. (1461 * d) \div 4 = 365 * d + d \div 4
  OBVIOUS
<1>0. Year(b, d) \in Int
  BY DEF Year
<1>3. /\ Year(b, d) \div 4 = 25 * b + d \div 4
      /\ Year(b, d) \div 100 = b
      /\ Year(b, d) \div 400 = b \div 4
  BY SMT DEF Year
<1> QED BY <1>0, <1>1, <1>2, <1>3 DEF DayOf, DaysBefore, Year

\* The last day of such a year.
LastDay(b, d) == IF d % 4 = 3 /\ (d = 99 => b % 4 = 3) THEN 365 ELSE 364

\* The steps of getYearMonthDay(): the century of a day, the day in the century,
\* the year in it, the day in the year, and the month of that day.
CenturyOf(j) == (4 * (j + 32044) + 3) \div 146097
DayInCentury(j) == j + 32044 - (CenturyOf(j) * 146097) \div 4
YearOf(j) == YearOfCentury(DayInCentury(j))
DayInYear(j) == DayInCentury(j) - (1461 * YearOf(j)) \div 4
MonthOf(e) == (5 * e + 2) \div 153

\* getYearMonthDay(), step by step.
LEMMA DateInSteps ==
  ASSUME NEW j \in Int
  PROVE  getYearMonthDay(j) =
           [day |-> DayInYear(j) - FirstOfMonth(MonthOf(DayInYear(j))) + 1,
            month |-> MonthOf(DayInYear(j)) + 3 - 12 * (MonthOf(DayInYear(j)) \div 10),
            year |-> CenturyOf(j) * 100 + YearOf(j) - 4800 + MonthOf(DayInYear(j)) \div 10]
BY DEF getYearMonthDay, CenturyOf, DayInCentury, YearOf, DayInYear, MonthOf, FirstOfMonth

\* The century, the year and the day that the steps find make up the day number.
LEMMA CenturyAndYear ==
  ASSUME NEW j \in Int
  PROVE  /\ CenturyOf(j) \in Int /\ YearOf(j) \in 0 .. 99
         /\ DayInYear(j) \in 0 .. 365 /\ DayInYear(j) \in 0 .. LastDay(CenturyOf(j), YearOf(j))
         /\ j = DaysBefore(CenturyOf(j), YearOf(j)) + DayInYear(j)
<1>1. PICK b \in Int : b = CenturyOf(j)
  BY SMT DEF CenturyOf
<1>2. 146097 * b <= 4 * (j + 32044) + 3 /\ 4 * (j + 32044) + 3 < 146097 * b + 146097
  BY <1>1, SMT DEF CenturyOf
<1>3. PICK c \in Int : c = j + 32044 - (b * 146097) \div 4
  BY SMT
<1>4. c >= 0 /\ c <= 36524 /\ (c = 36524 => b % 4 = 3)
  BY <1>2, <1>3, SMT
<1>5. DayInCentury(j) = c
  BY <1>1, <1>3, SMT DEF DayInCentury
<1>6. PICK d \in Int : d = (4 * c + 3) \div 1461
  BY SMT
<1>7. d \in 0 .. 99 /\ 1461 * d <= 4 * c + 3 /\ 4 * c + 3 < 1461 * d + 1461
  BY <1>4, <1>6, SMT
<1>8. YearOf(j) = d
  BY <1>5, <1>6, SMT DEF YearOf, YearOfCentury
<1>9. PICK e \in Int : e = c - (1461 * d) \div 4
  BY SMT
<1>10. DayInYear(j) = e
  BY <1>5, <1>8, <1>9, SMT DEF DayInYear
<1>11. e \in 0 .. 365 /\ (e = 365 => d % 4 = 3) /\ (e = 365 /\ d = 99 => b % 4 = 3)
  BY <1>4, <1>7, <1>9, SMT
<1>12. e \in 0 .. LastDay(b, d)
  BY <1>11, SMT DEF LastDay
<1>13. j = DaysBefore(b, d) + e
  BY <1>3, <1>9, SMT DEF DaysBefore
<1> QED BY <1>1, <1>7, <1>8, <1>10, <1>11, <1>12, <1>13

\* They are the only ones that do.
LEMMA YearUnique ==
  ASSUME NEW b \in Int, NEW d \in Int, d \in 0 .. 99, NEW e \in Int, e \in 0 .. LastDay(b, d),
         NEW j \in Int, j = DaysBefore(b, d) + e
  PROVE  CenturyOf(j) = b /\ YearOf(j) = d /\ DayInYear(j) = e
<1>1. e \in 0 .. 365 /\ (e = 365 => d % 4 = 3) /\ (e = 365 /\ d = 99 => b % 4 = 3)
  BY SMT DEF LastDay
<1>2. (1461 * d) \div 4 = 365 * d + d \div 4 /\ (b * 146097) \div 4 = 36524 * b + b \div 4
  BY SMT
<1>3. PICK c \in Int : c = 365 * d + d \div 4 + e
  BY SMT
<1>4. c >= 0 /\ c <= 36524 /\ (c = 36524 => b % 4 = 3) /\ (4 * c + 3) \div 1461 = d
  BY <1>1, <1>3, SMT
<1>5. j + 32044 = 36524 * b + b \div 4 + c
  BY <1>2, <1>3, SMT DEF DaysBefore
<1>6. CenturyOf(j) = b
  BY <1>4, <1>5, SMT DEF CenturyOf
<1>7. DayInCentury(j) = c
  <2>1. (CenturyOf(j) * 146097) \div 4 = 36524 * b + b \div 4
    BY <1>2, <1>6
  <2> QED BY <1>3, <1>5, <2>1, SMT DEF DayInCentury
<1>8. YearOf(j) = d
  BY <1>4, <1>7, SMT DEF YearOf, YearOfCentury
<1>9. DayInYear(j) = e
  BY <1>2, <1>3, <1>7, <1>8, SMT DEF DayInYear
<1> QED BY <1>6, <1>8, <1>9

\* The day, the month from March, the year of the century and the century of a date.
IsDate(b, d, m, day) ==
  /\ b \in Int /\ d \in 0 .. 99 /\ m \in 0 .. 11 /\ day \in Int /\ day >= 1
  /\ FirstOfMonth(m) + day - 1 \in 0 .. LastDay(b, d)
  /\ FirstOfMonth(m) + day - 1 < FirstOfMonth(m + 1)

\* What getYearMonthDay() computes, in terms of the year from March.
LEMMA DateOfDay ==
  ASSUME NEW j \in Int
  PROVE  \E b \in Int, d \in Int, m \in Int, day \in Int :
           /\ IsDate(b, d, m, day)
           /\ getYearMonthDay(j) = ShiftedDate(Year(b, d), m, day)
           /\ DayOf(Year(b, d), FirstOfMonth(m) + day - 1) = j
<1>0. CenturyOf(j) \in Int /\ YearOf(j) \in 0 .. 99 /\ DayInYear(j) \in 0 .. 365
  BY CenturyAndYear
<1>1. PICK b \in Int, d \in Int : b = CenturyOf(j) /\ d = YearOf(j) /\ d \in 0 .. 99
  BY <1>0, SMT
<1>2. PICK e \in Int : e = DayInYear(j) /\ e \in 0 .. 365
  BY <1>0, SMT
<1>3. e \in 0 .. LastDay(b, d) /\ j = DaysBefore(b, d) + e
  BY <1>1, <1>2, CenturyAndYear, SMT
<1>4. DayOf(Year(b, d), e) = DaysBefore(b, d) + e
  <2>1. d \in 0 .. 99
    BY <1>1
  <2> QED BY <2>1, DayOfCentury
<1>5. PICK m \in Int : m = MonthOf(e)
  BY SMT DEF MonthOf
<1>6. /\ m \in 0 .. 11 /\ FirstOfMonth(m) <= e /\ e < FirstOfMonth(m + 1)
      /\ FirstOfMonth(m) \in Int /\ FirstOfMonth(m + 1) \in Int
  <2>1. m = (5 * e + 2) \div 153
    BY <1>5 DEF MonthOf
  <2>2. e >= 0 /\ e <= 365
    BY <1>2
  <2> QED BY <2>1, <2>2, SMT DEF FirstOfMonth
<1>7. PICK day \in Int : day = e - FirstOfMonth(m) + 1
  BY <1>6
<1>8. FirstOfMonth(m) + day - 1 = e /\ day >= 1
  BY <1>6, <1>7
<1>9. getYearMonthDay(j) = ShiftedDate(Year(b, d), m, day)
  <2>1. getYearMonthDay(j) =
          [day |-> e - FirstOfMonth(m) + 1, month |-> m + 3 - 12 * (m \div 10),
           year |-> b * 100 + d - 4800 + m \div 10]
    BY <1>1, <1>2, <1>5, DateInSteps
  <2> QED BY <2>1, <1>7, SMT DEF ShiftedDate, Year
<1>10. IsDate(b, d, m, day)
  BY <1>1, <1>3, <1>6, <1>8 DEF IsDate
<1> WITNESS b \in Int, d \in Int, m \in Int, day \in Int
<1> QED BY <1>3, <1>4, <1>8, <1>9, <1>10

\* Date.cc: for every day number, the number of its date is that day again.
LEMMA DayOfDate ==
  ASSUME NEW j \in Int
  PROVE  LET d == getYearMonthDay(j) IN getJulianDayNumber(d.year, d.month, d.day) = j
<1>1. PICK b \in Int, d \in Int, m \in Int, day \in Int :
        /\ IsDate(b, d, m, day)
        /\ getYearMonthDay(j) = ShiftedDate(Year(b, d), m, day)
        /\ DayOf(Year(b, d), FirstOfMonth(m) + day - 1) = j
  BY DateOfDay
<1>2. ShiftedDate(Year(b, d), m, day).day = day
  BY DEF ShiftedDate
<1>3. PICK y \in Int : y = Year(b, d)
  BY DEF Year
<1>4. getJulianDayNumber(ShiftedDate(y, m, day).year, ShiftedDate(y, m, day).month, day)
      = DayOf(y, FirstOfMonth(m) + day - 1)
  BY <1>1, JulianOfShifted DEF IsDate
<1> QED BY <1>1, <1>2, <1>3, <1>4

\* Every date of the calendar is the date of its day number.
LEMMA DateUnique ==
  ASSUME NEW b \in Int, NEW d \in Int, NEW m \in Int, NEW day \in Int, IsDate(b, d, m, day),
         NEW j \in Int, j = DayOf(Year(b, d), FirstOfMonth(m) + day - 1)
  PROVE  getYearMonthDay(j) = ShiftedDate(Year(b, d), m, day)
<1>1. FirstOfMonth(m) \in Int /\ FirstOfMonth(m + 1) \in Int
  BY SMT DEF FirstOfMonth
<1>2. PICK e \in Int : e = FirstOfMonth(m) + day - 1
  BY <1>1
<1>3. d \in 0 .. 99 /\ m \in 0 .. 11 /\ e \in 0 .. LastDay(b, d) /\ e \in 0 .. 365
  BY <1>2, SMT DEF IsDate, LastDay
<1>4. j = DaysBefore(b, d) + e
  <2>1. DayOf(Year(b, d), e) = DaysBefore(b, d) + e
    BY <1>3, DayOfCentury, SMT
  <2> QED BY <1>2, <2>1
<1>5. MonthOf(e) = m
  <2>1. FirstOfMonth(m) <= e /\ e < FirstOfMonth(m + 1)
    BY <1>1, <1>2, SMT DEF IsDate
  <2> QED BY <1>3, <2>1, SMT DEF MonthOf, FirstOfMonth
<1>6. CenturyOf(j) = b /\ YearOf(j) = d /\ DayInYear(j) = e
  BY <1>3, <1>4, YearUnique, SMT
<1>7. day = e - FirstOfMonth(m) + 1
  <2>1. PICK f \in Int : f = FirstOfMonth(m)
    BY <1>1
  <2> QED BY <1>2, <2>1
<1>8. getYearMonthDay(j) =
        [day |-> e - FirstOfMonth(m) + 1, month |-> m + 3 - 12 * (m \div 10),
         year |-> b * 100 + d - 4800 + m \div 10]
  BY <1>5, <1>6, DateInSteps
<1> QED BY <1>7, <1>8, SMT DEF ShiftedDate, Year

LEMMA YearIsInt ==
  ASSUME NEW b \in Int, NEW d \in Int
  PROVE  Year(b, d) \in Int
BY DEF Year

\* The days of month m of year d of century b.
MonthDays(b, d, m) ==
  IF m = 11 THEN LastDay(b, d) + 1 - FirstOfMonth(11) ELSE FirstOfMonth(m + 1) - FirstOfMonth(m)

LEMMA FirstOfNextMonth ==
  ASSUME NEW day, NEW month, NEW year
  PROVE  [[day |-> day, month |-> month, year |-> year] EXCEPT !.day = 1, !.month = @ + 1]
         = [day |-> 1, month |-> month + 1, year |-> year]
<1> DEFINE r == [day |-> day, month |-> month, year |-> year]
<1>1. [r EXCEPT !.day = 1, !.month = @ + 1] \in [day : {1}, month : {month + 1}, year : {year}]
  OBVIOUS
<1>2. ASSUME NEW s \in [day : {1}, month : {month + 1}, year : {year}]
      PROVE  s = [day |-> 1, month |-> month + 1, year |-> year]
  OBVIOUS
<1> HIDE DEF r
<1>3. [r EXCEPT !.day = 1, !.month = @ + 1] = [day |-> 1, month |-> month + 1, year |-> year]
  BY <1>1, <1>2
<1> QED BY <1>3 DEF r

\* The months counted from March are as long as MonthLength says, leap years included.
LEMMA LengthOfMonth ==
  ASSUME NEW b \in Int, NEW d \in Int, NEW m \in Int, d \in 0 .. 99, m \in 0 .. 11
  PROVE  MonthLength(ShiftedDate(Year(b, d), m, 1).year, ShiftedDate(Year(b, d), m, 1).month)
         = MonthDays(b, d, m)
<1>1. CASE m = 11
  <2>1. PICK y \in Int : y = 100 * b + d - 4799
    OBVIOUS
  <2>2. ShiftedDate(Year(b, d), m, 1).year = y /\ ShiftedDate(Year(b, d), m, 1).month = 2
    BY <1>1, <2>1, SMT DEF ShiftedDate, Year
  <2>3. y % 4 = 0 <=> d % 4 = 3
    BY <2>1, SMT
  <2>4. y % 100 = 0 <=> d = 99
    BY <2>1, SMT
  <2>5. d = 99 => (y % 400 = 0 <=> b % 4 = 3)
    BY <2>1, SMT
  <2>6. IsLeap(y) <=> LastDay(b, d) = 365
    BY <2>3, <2>4, <2>5 DEF IsLeap, LastDay
  <2>7. FirstOfMonth(11) = 337 /\ LastDay(b, d) \in {364, 365}
    BY SMT DEF FirstOfMonth, LastDay
  <2>8. MonthLength(y, 2) = IF IsLeap(y) THEN 29 ELSE 28
    BY DEF MonthLength
  <2> QED BY <1>1, <2>2, <2>6, <2>7, <2>8 DEF MonthDays
<1>2. CASE m # 11
  <2>1. PICK n \in Int : n = m + 3 - 12 * (m \div 10)
    OBVIOUS
  <2>2. ShiftedDate(Year(b, d), m, 1).month = n
    BY <2>1 DEF ShiftedDate
  <2>3. n \in {4, 6, 9, 11} <=> m \in {1, 3, 6, 8}
    BY <1>2, <2>1, SMT
  <2>4. n # 2
    BY <1>2, <2>1, SMT
  <2>5. FirstOfMonth(m + 1) - FirstOfMonth(m) = IF m \in {1, 3, 6, 8} THEN 30 ELSE 31
    <3>1. m \in {0, 1, 2, 3, 4, 5, 6, 7, 8, 9, 10}
      BY <1>2
    <3> QED BY <3>1, SMT DEF FirstOfMonth
  <2>6. \A y : MonthLength(y, n) = IF m \in {1, 3, 6, 8} THEN 30 ELSE 31
    BY <2>3, <2>4 DEF MonthLength
  <2> QED BY <1>2, <2>2, <2>5, <2>6 DEF MonthDays
<1> QED BY <1>1, <1>2

\* The day after a date is the date of the day after.
LEMMA NextDate ==
  ASSUME NEW b \in Int, NEW d \in Int, NEW m \in Int, NEW day \in Int, IsDate(b, d, m, day)
  PROVE  getYearMonthDay(DayOf(Year(b, d), FirstOfMonth(m) + day - 1) + 1)
         = DayAfter(ShiftedDate(Year(b, d), m, day))
<1> DEFINE date == ShiftedDate(Year(b, d), m, day)
           length == MonthLength(date.year, date.month)
<1>1. d \in 0 .. 99 /\ m \in 0 .. 11 /\ day >= 1
  BY DEF IsDate
<1>2. PICK y \in Int : y = Year(b, d)
  BY YearIsInt
<1>3. PICK f \in Int, g \in Int, last \in Int :
        f = FirstOfMonth(m) /\ g = FirstOfMonth(m + 1) /\ last = LastDay(b, d)
  <2>1. FirstOfMonth(m) \in Int /\ FirstOfMonth(m + 1) \in Int /\ LastDay(b, d) \in Int
    BY SMT DEF FirstOfMonth, LastDay
  <2> QED BY <2>1
<1>4. f + day - 1 <= last /\ f + day - 1 < g /\ last \in 364 .. 365 /\ f >= 0
  BY <1>1, <1>3, SMT DEF IsDate, LastDay, FirstOfMonth
<1>5. length = IF m = 11 THEN last + 1 - f ELSE g - f
  <2>1. date.year = ShiftedDate(Year(b, d), m, 1).year /\ date.month = ShiftedDate(Year(b, d), m, 1).month
    BY DEF ShiftedDate
  <2>2. MonthLength(ShiftedDate(Year(b, d), m, 1).year, ShiftedDate(Year(b, d), m, 1).month)
        = MonthDays(b, d, m)
    BY <1>1, LengthOfMonth
  <2> QED BY <1>3, <2>1, <2>2 DEF MonthDays
<1>6. date = [day |-> day, month |-> date.month, year |-> date.year]
  BY DEF ShiftedDate
<1>7. DayOf(y, f + day - 1) + 1 = DayOf(y, f + day) /\ DayOf(y, f + day - 1) + 1 \in Int
  BY SMT DEF DayOf
<1> HIDE DEF length, date
<1>8. CASE day < length
  <2>0. PICK next \in Int : next = day + 1
    OBVIOUS
  <2>1. IsDate(b, d, m, next)
    <3>1. f + next - 1 <= last /\ f + next - 1 >= 0
      <4>1. m # 11 => g <= 337
        BY <1>1, <1>3, SMT DEF FirstOfMonth
      <4> QED BY <1>1, <1>4, <1>5, <1>8, <2>0, <4>1
    <3>2. f + next - 1 < g
      <4>1. m = 11 => g = 367
        BY <1>3, SMT DEF FirstOfMonth
      <4> QED BY <1>4, <1>5, <1>8, <2>0, <3>1, <4>1
    <3> QED BY <1>1, <1>3, <2>0, <3>1, <3>2 DEF IsDate
  <2>2. DayAfter(date) = ShiftedDate(Year(b, d), m, next)
    BY <1>8, <2>0 DEF DayAfter, ShiftedDate, length, date
  <2>3. f + next - 1 = f + day
    BY <2>0
  <2>4. DayOf(Year(b, d), f + day - 1) + 1 = DayOf(Year(b, d), FirstOfMonth(m) + next - 1)
    BY <1>2, <1>3, <1>7, <2>3
  <2>5. PICK j \in Int : j = DayOf(Year(b, d), FirstOfMonth(m) + next - 1)
    BY <1>2, <1>3, <1>7, <2>4
  <2>6. getYearMonthDay(j) = ShiftedDate(Year(b, d), m, next)
    BY <2>1, <2>5, DateUnique
  <2> QED BY <1>3, <2>2, <2>4, <2>5, <2>6 DEF date
<1>9. CASE day >= length /\ m # 11
  <2>1. day = length /\ day = g - f
    BY <1>4, <1>5, <1>9
  <2>2. m + 1 \in 0 .. 11 /\ FirstOfMonth(m + 1) + 1 - 1 = g
    BY <1>1, <1>3, <1>9
  <2>3. IsDate(b, d, m + 1, 1)
    <3>1. g \in 0 .. 364
      BY <1>1, <1>3, <1>9, SMT DEF FirstOfMonth
    <3>2. g < FirstOfMonth(m + 1 + 1)
      BY <1>1, <1>3, <1>9, SMT DEF FirstOfMonth
    <3> QED BY <1>1, <1>3, <1>4, <2>2, <3>1, <3>2 DEF IsDate
  <2>4. DayAfter(date) = ShiftedDate(Year(b, d), m + 1, 1)
    <3>1. PICK n \in Int : n = date.month /\ n = m + 3 - 12 * (m \div 10)
      BY DEF ShiftedDate, date
    <3>2. m # 9 => n < 12 /\ (m + 1) + 3 - 12 * ((m + 1) \div 10) = n + 1 /\ (m + 1) \div 10 = m \div 10
      BY <1>1, <1>9, <3>1, SMT
    <3>3. m = 9 => n = 12 /\ (m + 1) + 3 - 12 * ((m + 1) \div 10) = 1 /\ (m + 1) \div 10 = 1 /\ m \div 10 = 0
      BY <1>1, <1>9, <3>1, SMT
    <3>4. date.day = MonthLength(date.year, date.month) /\ ~ (date.day < MonthLength(date.year, date.month))
      BY <2>1 DEF length, ShiftedDate, date
    <3>5. CASE m # 9
      <4>1. DayAfter(date) = [date EXCEPT !.day = 1, !.month = @ + 1]
        BY <3>1, <3>2, <3>4, <3>5 DEF DayAfter
      <4>2. DayAfter(date) = [day |-> 1, month |-> n + 1, year |-> date.year]
        BY <1>6, <3>1, <4>1, FirstOfNextMonth
      <4>3. ShiftedDate(Year(b, d), m + 1, 1) = [day |-> 1, month |-> n + 1, year |-> date.year]
        BY <3>2, <3>5 DEF ShiftedDate, date
      <4> QED BY <4>2, <4>3
    <3>6. CASE m = 9
      <4>1. DayAfter(date) = [day |-> 1, month |-> 1, year |-> date.year + 1]
        BY <3>1, <3>3, <3>4, <3>6 DEF DayAfter
      <4>2. date.year = y - 4800
        BY <1>2, <3>3, <3>6 DEF ShiftedDate, date
      <4> QED BY <1>2, <3>3, <3>6, <4>1, <4>2 DEF ShiftedDate
    <3> QED BY <3>5, <3>6
  <2>5. DayOf(Year(b, d), f + day - 1) + 1 = DayOf(Year(b, d), FirstOfMonth(m + 1) + 1 - 1)
    BY <1>2, <1>7, <2>1, <2>2
  <2> QED BY <1>2, <1>3, <1>7, <2>3, <2>4, <2>5, DateUnique DEF date
<1>10. CASE day >= length /\ m = 11
  <2>1. day = length /\ f + day - 1 = last
    BY <1>4, <1>5, <1>10
  <2>2. FirstOfMonth(0) = 0 /\ FirstOfMonth(0 + 1) = 31
    BY SMT DEF FirstOfMonth
  <2>3. PICK c \in Int, e \in Int :
          /\ e \in 0 .. 99 /\ Year(c, e) = Year(b, d) + 1
          /\ DaysBefore(c, e) = DaysBefore(b, d) + last + 1
    <3>1. CASE d = 99
      <4>1. Year(b + 1, 0) = Year(b, d) + 1
        BY <3>1 DEF Year
      <4>2. DaysBefore(b + 1, 0) = DaysBefore(b, d) + last + 1
        BY <1>3, <3>1, SMT DEF DaysBefore, LastDay
      <4>3. b + 1 \in Int /\ 0 \in Int /\ 0 \in 0 .. 99
        OBVIOUS
      <4> QED BY <4>1, <4>2, <4>3
    <3>2. CASE d # 99
      <4>1. Year(b, d + 1) = Year(b, d) + 1
        BY DEF Year
      <4>2. DaysBefore(b, d + 1) = DaysBefore(b, d) + last + 1
        BY <1>1, <1>3, <3>2, SMT DEF DaysBefore, LastDay
      <4>3. d + 1 \in Int /\ d + 1 \in 0 .. 99
        BY <1>1, <3>2
      <4> QED BY <4>1, <4>2, <4>3
    <3> QED BY <3>1, <3>2
  <2>4. IsDate(c, e, 0, 1)
    <3>1. FirstOfMonth(0) + 1 - 1 = 0
      BY <2>2
    <3>2. LastDay(c, e) \in 364 .. 365
      BY DEF LastDay
    <3> QED BY <2>2, <2>3, <3>1, <3>2 DEF IsDate
  <2>5. DayAfter(date) = ShiftedDate(Year(c, e), 0, 1)
    <3>1. date.month = 2 /\ date.year = y - 4800 + 1
      BY <1>2, <1>10, SMT DEF ShiftedDate, date
    <3>2. date.day = MonthLength(date.year, date.month) /\ ~ (date.day < MonthLength(date.year, date.month))
      BY <2>1 DEF length, ShiftedDate, date
    <3>3. DayAfter(date) = [date EXCEPT !.day = 1, !.month = @ + 1]
      BY <3>1, <3>2 DEF DayAfter
    <3>4. DayAfter(date) = [day |-> 1, month |-> 3, year |-> y - 4800 + 1]
      <4>1. DayAfter(date) = [day |-> 1, month |-> date.month + 1, year |-> date.year]
        BY <1>6, <3>3, FirstOfNextMonth
      <4> QED BY <3>1, <4>1
    <3>5. ShiftedDate(y + 1, 0, 1) = [day |-> 1, month |-> 3, year |-> y - 4800 + 1]
      BY SMT DEF ShiftedDate
    <3> QED BY <1>2, <2>3, <3>4, <3>5
  <2>6. DayOf(Year(b, d), f + day - 1) + 1 = DayOf(Year(c, e), FirstOfMonth(0) + 1 - 1)
    <3>1. DayOf(Year(b, d), last) = DaysBefore(b, d) + last
      BY <1>1, DayOfCentury
    <3>2. DayOf(Year(c, e), 0) = DaysBefore(c, e) + 0
      BY <2>3, DayOfCentury
    <3>3. FirstOfMonth(0) + 1 - 1 = 0
      BY <2>2
    <3>4. DaysBefore(b, d) \in Int /\ DaysBefore(c, e) \in Int
      BY SMT DEF DaysBefore
    <3>5. PICK p \in Int, q \in Int : p = DaysBefore(b, d) /\ q = DaysBefore(c, e)
      BY <3>4
    <3>6. DayOf(Year(b, d), f + day - 1) = p + last
      BY <2>1, <3>1, <3>5
    <3>7. DayOf(Year(c, e), FirstOfMonth(0) + 1 - 1) = q
      BY <3>2, <3>3, <3>5
    <3>8. q = p + last + 1
      BY <2>3, <3>5
    <3> QED BY <3>6, <3>7, <3>8
  <2> QED BY <1>2, <1>3, <1>7, <2>4, <2>5, <2>6, DateUnique DEF date
<1>11. length \in Int
  BY <1>5
<1> QED BY <1>8, <1>9, <1>10, <1>11 DEF date

\* Date.cc: for every day number, the next day has the next date of the calendar.
LEMMA DayAfterDay ==
  ASSUME NEW j \in Int
  PROVE  getYearMonthDay(j + 1) = DayAfter(getYearMonthDay(j))
<1>1. PICK b \in Int, d \in Int, m \in Int, day \in Int :
        /\ IsDate(b, d, m, day)
        /\ getYearMonthDay(j) = ShiftedDate(Year(b, d), m, day)
        /\ DayOf(Year(b, d), FirstOfMonth(m) + day - 1) = j
  BY DateOfDay
<1> QED BY <1>1, NextDate

\* The division that rounds towards zero, corrected before 1970, is the one that rounds down.
LEMMA DayAndSecondOf ==
  ASSUME NEW t \in Int
  PROVE  /\ DayAndSecond(t)[1] = t \div 86400 /\ DayAndSecond(t)[1] \in Int
         /\ DayAndSecond(t)[2] \in Int /\ 0 <= DayAndSecond(t)[2] /\ DayAndSecond(t)[2] < 86400
         /\ t = DayAndSecond(t)[1] * 86400 + DayAndSecond(t)[2]
<1>1. kSecondsPerDay = 86400
  BY SMT DEF kSecondsPerDay
<1>2. PICK q \in Int : q = Quot(t, 86400)
  BY SMT DEF Quot
<1>3. PICK r \in Int : r = t - 86400 * q
  OBVIOUS
<1>4. Remainder(t, 86400) = r
  BY <1>2, <1>3 DEF Remainder
<1>5. (r < 0 => q - 1 = t \div 86400 /\ r + 86400 >= 0) /\ (r >= 0 => q = t \div 86400 /\ r < 86400)
  <2>1. CASE t >= 0
    <3>1. q = t \div 86400
      BY <1>2, <2>1, SMT DEF Quot
    <3> QED BY <1>3, <2>1, <3>1, SMT
  <2>2. CASE t < 0
    <3>1. PICK p \in Int : p = (- t) \div 86400
      BY SMT
    <3>2. q = - p
      BY <1>2, <2>2, <3>1, SMT DEF Quot
    <3> QED BY <1>3, <2>2, <3>1, <3>2, SMT
  <2> QED BY <2>1, <2>2, SMT
<1>6. DayAndSecond(t) = IF r < 0 THEN <<q - 1, r + 86400>> ELSE <<q, r>>
  BY <1>1, <1>2, <1>4 DEF DayAndSecond
<1>7. CASE r < 0
  <2>1. DayAndSecond(t)[1] = q - 1 /\ DayAndSecond(t)[2] = r + 86400
    BY <1>6, <1>7, SMT
  <2>2. t = (q - 1) * 86400 + (r + 86400)
    BY <1>3, SMT
  <2> QED BY <1>5, <1>7, <2>1, <2>2, SMT
<1>8. CASE r >= 0
  <2>1. DayAndSecond(t)[1] = q /\ DayAndSecond(t)[2] = r
    BY <1>6, <1>8, SMT
  <2>2. t = q * 86400 + r
    BY <1>3, SMT
  <2> QED BY <1>5, <1>8, <2>1, <2>2, SMT
<1> QED BY <1>7, <1>8, SMT

\* fillHMS() stays within its bounds and loses nothing.
LEMMA HoursOfSecond ==
  ASSUME NEW s \in Int, 0 <= s, s < 86400
  PROVE  LET hms == fillHMS(s)
         IN  /\ hms.tm_sec \in 0 .. 59 /\ hms.tm_min \in 0 .. 59 /\ hms.tm_hour \in 0 .. 23
             /\ hms.tm_hour * 3600 + hms.tm_min * 60 + hms.tm_sec = s
<1>1. PICK m \in Int : m = s \div 60
  BY SMT
<1>2. fillHMS(s) = [tm_sec |-> s % 60, tm_min |-> m % 60, tm_hour |-> m \div 60]
  BY <1>1 DEF fillHMS
<1>3. s % 60 \in 0 .. 59 /\ m % 60 \in 0 .. 59 /\ m \div 60 \in 0 .. 23
  BY <1>1, SMT
<1>4. (m \div 60) * 3600 + (m % 60) * 60 + (s % 60) = s
  <2>1. PICK h \in Int, k \in Int : h = m \div 60 /\ k = m % 60 /\ m = 60 * h + k
    BY SMT
  <2>2. PICK l \in Int : l = s % 60 /\ s = 60 * m + l
    BY <1>1, SMT
  <2> QED BY <2>1, <2>2, SMT
<1> QED BY <1>2, <1>3, <1>4

\* 1970 began with a Thursday.
LEMMA JulianDayOf1970 == kJulianDayOf1970 = 2440588
BY SMT DEF kJulianDayOf1970, getJulianDayNumber

\* The fields of a date, and the number of the day in its year.
LEMMA FieldsOfDate ==
  ASSUME NEW j \in Int
  PROVE  LET d == getYearMonthDay(j)
         IN  /\ d.day \in 1 .. 31 /\ d.month \in 1 .. 12 /\ d.year \in Int
             /\ j - getJulianDayNumber(d.year, 1, 1) \in 0 .. 365
<1>1. PICK b \in Int, d \in Int, m \in Int, day \in Int :
        /\ IsDate(b, d, m, day)
        /\ getYearMonthDay(j) = ShiftedDate(Year(b, d), m, day)
        /\ DayOf(Year(b, d), FirstOfMonth(m) + day - 1) = j
  BY DateOfDay
<1>2. PICK y \in Int : y = Year(b, d)
  BY YearIsInt
<1>3. PICK n \in Int : n = m \div 10
  BY SMT
<1>4. m \in 0 .. 11 /\ day >= 1
  BY <1>1 DEF IsDate
<1>5. getYearMonthDay(j) = [day |-> day, month |-> m + 3 - 12 * n, year |-> y - 4800 + n]
  BY <1>1, <1>2, <1>3 DEF ShiftedDate
<1>6. m + 3 - 12 * n \in 1 .. 12 /\ n \in 0 .. 1 /\ (n = 1 <=> m >= 10)
  BY <1>3, <1>4, SMT
<1>7. PICK f \in Int, g \in Int : f = FirstOfMonth(m) /\ g = FirstOfMonth(m + 1)
  <2>1. FirstOfMonth(m) \in Int /\ FirstOfMonth(m + 1) \in Int
    BY SMT DEF FirstOfMonth
  <2> QED BY <2>1
<1>8. f >= 0 /\ g <= f + 31 /\ (m <= 9 => g <= 306) /\ (m >= 10 => f >= 306)
  BY <1>4, <1>7, SMT DEF FirstOfMonth
<1>9. f + day - 1 < g /\ f + day - 1 <= 365
  BY <1>1, <1>7, SMT DEF IsDate, LastDay
<1>10. day \in 1 .. 31
  BY <1>4, <1>8, <1>9
<1>11. PICK x \in Int : x = y - 1 + n
  OBVIOUS
<1>12. getJulianDayNumber(y - 4800 + n, 1, 1) = DayOf(x, 306)
  BY <1>11, SMT DEF getJulianDayNumber, DayOf
<1>13. DayOf(y, f + day - 1) - DayOf(x, 306) \in 0 .. 365
  <2>1. CASE n = 1
    <3>1. x = y /\ f + day - 1 >= 306
      BY <1>4, <1>6, <1>8, <1>11, <2>1
    <3>2. DayOf(y, f + day - 1) - DayOf(y, 306) = f + day - 1 - 306
      BY SMT DEF DayOf
    <3> QED BY <1>9, <3>1, <3>2
  <2>2. CASE n = 0
    <3>1. x = y - 1 /\ f + day - 1 < 306
      BY <1>4, <1>6, <1>8, <1>9, <1>11, <2>2
    <3>2. DayOf(y, f + day - 1) - DayOf(y - 1, 306) - (f + day - 1) \in 59 .. 60
      BY SMT DEF DayOf
    <3>3. DayOf(y, f + day - 1) - DayOf(y - 1, 306) \in Int
      BY SMT DEF DayOf
    <3> QED BY <1>4, <1>8, <3>1, <3>2, <3>3
  <2> QED BY <1>6, <2>1, <2>2
<1> QED BY <1>1, <1>2, <1>5, <1>6, <1>7, <1>10, <1>12, <1>13

\* The bounds that struct tm gives the fields of a broken-down time.
TmOK(tm) ==
  /\ tm.tm_sec \in 0 .. 59 /\ tm.tm_min \in 0 .. 59 /\ tm.tm_hour \in 0 .. 23
  /\ tm.tm_mday \in 1 .. 31 /\ tm.tm_mon \in 0 .. 11
  /\ tm.tm_wday \in 0 .. 6 /\ tm.tm_yday \in 0 .. 365

\* TimeZone.cc: for every instant, toUtcTime() fills struct tm within its bounds,
\* fromUtcTime() takes it back to the instant, and the day of the week is right.
LEMMA UtcTime ==
  ASSUME NEW t \in Int
  PROVE  /\ TmOK(toUtcTime(t)) /\ fromUtcTime(toUtcTime(t)) = t
         /\ toUtcTime(t).tm_wday = (4 + t \div 86400) % 7
<1> DEFINE tm == toUtcTime(t)
<1>1. PICK day \in Int, sec \in Int :
        /\ day = DayAndSecond(t)[1] /\ sec = DayAndSecond(t)[2]
        /\ day = t \div 86400 /\ 0 <= sec /\ sec < 86400 /\ t = day * 86400 + sec
  BY DayAndSecondOf, SMT
<1>2. PICK date \in Int : date = day + 2440588
  BY SMT
<1>3. PICK hms : hms = fillHMS(sec)
  BY SMT
<1>4. PICK ymd : ymd = getYearMonthDay(date)
  BY SMT
<1>5. tm = [tm_year |-> ymd.year - 1900, tm_mon |-> ymd.month - 1, tm_mday |-> ymd.day,
            tm_hour |-> hms.tm_hour, tm_min |-> hms.tm_min, tm_sec |-> hms.tm_sec,
            tm_wday |-> weekDay(date),
            tm_yday |-> date - getJulianDayNumber(ymd.year, 1, 1),
            tm_isdst |-> FALSE, tm_gmtoff |-> 0, named |-> TRUE]
  <2>1. DayAndSecond(t)[1] = day
    BY <1>1, SMT
  <2>2. DayAndSecond(t)[2] = sec
    BY <1>1, SMT
  <2>3. DayAndSecond(t)[1] + kJulianDayOf1970 = date
    BY <1>2, <2>1, JulianDayOf1970, SMT
  <2>4. fillHMS(DayAndSecond(t)[2]) = hms /\ getYearMonthDay(DayAndSecond(t)[1] + kJulianDayOf1970) = ymd
    BY <1>3, <1>4, <2>2, <2>3, SMT
  <2>5. PICK tod : tod = DayAndSecond(t)[2]
    BY SMT
  <2>6. PICK num : num = DayAndSecond(t)[1] + kJulianDayOf1970
    BY SMT
  <2>7. fillHMS(tod) = hms /\ getYearMonthDay(num) = ymd /\ num = date
    BY <2>3, <2>4, <2>5, <2>6, SMT
  <2>8. toUtcTime(t) = [tm_year |-> getYearMonthDay(num).year - 1900,
       tm_mon |-> getYearMonthDay(num).month - 1, tm_mday |-> getYearMonthDay(num).day,
       tm_hour |-> fillHMS(tod).tm_hour, tm_min |-> fillHMS(tod).tm_min, tm_sec |-> fillHMS(tod).tm_sec,
       tm_wday |-> weekDay(num),
       tm_yday |-> num - getJulianDayNumber(getYearMonthDay(num).year, 1, 1),
       tm_isdst |-> FALSE, tm_gmtoff |-> 0, named |-> TRUE]
    BY <2>5, <2>6, SMT DEF toUtcTime
  <2> QED BY <2>7, <2>8, SMT
<1>6. /\ hms.tm_sec \in 0 .. 59 /\ hms.tm_min \in 0 .. 59 /\ hms.tm_hour \in 0 .. 23
      /\ hms.tm_hour * 3600 + hms.tm_min * 60 + hms.tm_sec = sec
  <2>1. 0 <= sec /\ sec < 86400
    BY <1>1, SMT
  <2> QED BY <1>3, <2>1, HoursOfSecond, SMT
<1>7. /\ ymd.day \in 1 .. 31 /\ ymd.month \in 1 .. 12 /\ ymd.year \in Int
      /\ date - getJulianDayNumber(ymd.year, 1, 1) \in 0 .. 365
  <2>1. LET d == getYearMonthDay(date)
        IN  /\ d.day \in 1 .. 31 /\ d.month \in 1 .. 12 /\ d.year \in Int
            /\ date - getJulianDayNumber(d.year, 1, 1) \in 0 .. 365
    BY FieldsOfDate, Zenon
  <2> QED BY <1>4, <2>1, SMT
<1>8. getJulianDayNumber(ymd.year, ymd.month, ymd.day) = date
  BY <1>4, DayOfDate, SMT
<1>9. weekDay(date) = (4 + t \div 86400) % 7 /\ weekDay(date) \in 0 .. 6
  <2>1. weekDay(date) = (4 + day) % 7 /\ weekDay(date) \in 0 .. 6
    BY <1>2, SMT DEF weekDay
  <2>2. day = t \div 86400
    BY <1>1, SMT
  <2> QED BY <2>1, <2>2, SMT
<1>10. TmOK(tm)
  BY <1>5, <1>6, <1>7, <1>9, SMT DEF TmOK
<1>11. fromUtcTime(tm) = t
  <2>1. tm.tm_year + 1900 = ymd.year /\ tm.tm_mon + 1 = ymd.month /\ tm.tm_mday = ymd.day
    BY <1>5, <1>7, SMT
  <2>2. tm.tm_hour = hms.tm_hour /\ tm.tm_min = hms.tm_min /\ tm.tm_sec = hms.tm_sec
    BY <1>5, SMT
  <2>3. kSecondsPerDay = 86400
    BY SMT DEF kSecondsPerDay
  <2> HIDE DEF tm
  <2>4. fromUtcTime(tm) = (date - 2440588) * 86400 + hms.tm_hour * 3600 + hms.tm_min * 60 + hms.tm_sec
    BY <1>8, <2>1, <2>2, <2>3, JulianDayOf1970, SMT DEF fromUtcTime
  <2>5. PICK h \in Int, m \in Int, k \in Int : h = hms.tm_hour /\ m = hms.tm_min /\ k = hms.tm_sec
    <3>1. hms.tm_hour \in Int /\ hms.tm_min \in Int /\ hms.tm_sec \in Int
      BY <1>6, SMT
    <3> QED BY <3>1
  <2>6. h * 3600 + m * 60 + k = sec
    BY <1>6, <2>5, SMT
  <2>7. fromUtcTime(tm) = (date - 2440588) * 86400 + h * 3600 + m * 60 + k
    BY <2>4, <2>5, SMT
  <2>8. (date - 2440588) * 86400 + h * 3600 + m * 60 + k = day * 86400 + sec
    BY <1>2, <2>6, SMT
  <2> QED BY <1>1, <2>7, <2>8, SMT
<1>12. tm.tm_wday = (4 + t \div 86400) % 7
  BY <1>5, <1>9, SMT
<1> QED BY <1>10, <1>11, <1>12, SMT

-----------------------------------------------------------------------------
(* TimeZone: local time.  The types and transitions of a zone are in order     *)
(* (ZoneOK); a local time that clocks show twice is given back for the type     *)
(* that was in force.                                                           *)

\* What the vectors of a zone hold.
TzType == [gmtOffset : Int, isDst : BOOLEAN, arrbIdx : Nat]
TzTransition == [gmttime : Int, localtime : Int, localtimeIdx : Nat]

\* The index of the type in force from transition i on, and before all of them.
InForce(data, i) == IF i = 0 THEN 1 ELSE data.transitions[i].localtimeIdx

Off(data, i) == data.localtimes[InForce(data, i)].gmtOffset
Dst(data, i) == data.localtimes[InForce(data, i)].isDst

\* A zone that can be used: WellFormed, in terms of what was read.
ZoneOK(data) ==
  /\ data.localtimes \in Seq(TzType) /\ Len(data.localtimes) >= 1
  /\ data.transitions \in Seq(TzTransition)
  /\ \A i \in DOMAIN data.transitions :
       LET trans == data.transitions[i]
       IN  /\ trans.localtimeIdx \in DOMAIN data.localtimes
           /\ trans.localtime = trans.gmttime + data.localtimes[trans.localtimeIdx].gmtOffset
  /\ \A i, j \in DOMAIN data.transitions : i < j =>
       data.transitions[i].gmttime < data.transitions[j].gmttime

\* What findLocaltime() compares the sentry with.
Keys(data, gmt) ==
  [i \in DOMAIN data.transitions |->
     IF gmt THEN data.transitions[i].gmttime ELSE data.transitions[i].localtime]

\* The sentry is not before key k, and before the next one.
Between(keys, s, k) ==
  k \in 0 .. Len(keys) /\ (k > 0 => keys[k] <= s) /\ (k < Len(keys) => s < keys[k + 1])

Ascending(keys) == \A i, j \in DOMAIN keys : i < j => keys[i] < keys[j]

\* Transitions are in order by universal time and, in a regular zone, by local time.
LEMMA KeysAscend ==
  ASSUME NEW data, ZoneOK(data), NEW gmt \in BOOLEAN, gmt \/ Regular(data)
  PROVE  /\ Keys(data, gmt) \in Seq(Int) /\ Ascending(Keys(data, gmt))
         /\ Len(Keys(data, gmt)) = Len(data.transitions)
         /\ DOMAIN Keys(data, gmt) = DOMAIN data.transitions
<1> DEFINE trans == data.transitions
           keys == Keys(data, gmt)
<1>1. trans \in Seq(TzTransition) /\ DOMAIN trans = 1 .. Len(trans) /\ Len(trans) \in Nat
  BY DEF ZoneOK
<1>2. \A i \in DOMAIN trans : trans[i] \in TzTransition
  BY <1>1
<1>3. keys \in [1 .. Len(trans) -> Int]
  BY <1>1, <1>2 DEF Keys, TzTransition
<1>4. keys \in Seq(Int) /\ Len(keys) = Len(trans) /\ DOMAIN keys = DOMAIN trans
  BY <1>1, <1>3
<1>5. ASSUME NEW i \in DOMAIN trans, NEW j \in DOMAIN trans, i < j
      PROVE  keys[i] < keys[j]
  <2>a. \A x \in DOMAIN trans :
          /\ trans[x].localtimeIdx \in DOMAIN data.localtimes
          /\ trans[x].localtime = trans[x].gmttime + data.localtimes[trans[x].localtimeIdx].gmtOffset
    BY DEF ZoneOK
  <2>b. /\ trans[i].gmttime < trans[j].gmttime
        /\ ~ gmt => \A k, l \in DOMAIN data.localtimes :
             trans[j].gmttime - trans[i].gmttime > data.localtimes[k].gmtOffset - data.localtimes[l].gmtOffset
    BY <1>5 DEF ZoneOK, Regular
  <2>c. \A k \in DOMAIN data.localtimes : data.localtimes[k].gmtOffset \in Int
    <3>1. data.localtimes \in Seq(TzType)
      BY DEF ZoneOK
    <3>2. \A k \in DOMAIN data.localtimes : data.localtimes[k] \in TzType
      BY <3>1
    <3> QED BY <3>2 DEF TzType
  <2>1. PICK g \in Int, h \in Int : g = trans[i].gmttime /\ h = trans[j].gmttime
    BY <1>2 DEF TzTransition
  <2>2. PICK k \in DOMAIN data.localtimes, l \in DOMAIN data.localtimes :
          /\ k = trans[i].localtimeIdx /\ l = trans[j].localtimeIdx
          /\ trans[i].localtime = g + data.localtimes[k].gmtOffset
          /\ trans[j].localtime = h + data.localtimes[l].gmtOffset
    BY <2>1, <2>a
  <2>3. PICK o \in Int, p \in Int : o = data.localtimes[k].gmtOffset /\ p = data.localtimes[l].gmtOffset
    BY <2>2, <2>c
  <2>4. g < h /\ (~ gmt => h - g > o - p)
    BY <2>1, <2>3, <2>b
  <2>5. keys[i] = (IF gmt THEN g ELSE g + o) /\ keys[j] = (IF gmt THEN h ELSE h + p)
    BY <2>1, <2>2, <2>3 DEF Keys
  <2> QED BY <2>4, <2>5
<1> QED BY <1>4, <1>5 DEF Ascending

\* lower_bound() finds the sentry, or the place after it.
LEMMA LowerBound ==
  ASSUME NEW keys \in Seq(Int), Ascending(keys), NEW s \in Int, NEW k \in Nat, Between(keys, s, k)
  PROVE  lower_bound(keys, s) = IF k > 0 /\ keys[k] = s THEN k ELSE k + 1
<1> DEFINE first == IF k > 0 /\ keys[k] = s THEN k ELSE k + 1
           Good(i) == /\ i <= Len(keys) => keys[i] >= s
                      /\ \A j \in 1 .. i - 1 : keys[j] < s
<1>1. Len(keys) \in Nat /\ DOMAIN keys = 1 .. Len(keys) /\ \A i \in 1 .. Len(keys) : keys[i] \in Int
  OBVIOUS
<1>2. k <= Len(keys) /\ (k > 0 => keys[k] <= s) /\ (k < Len(keys) => s < keys[k + 1])
  BY DEF Between
<1>3. first \in 1 .. Len(keys) + 1 /\ Good(first)
  <2>1. CASE k > 0 /\ keys[k] = s
    <3>1. \A j \in 1 .. k - 1 : keys[j] < keys[k]
      BY <1>1, <1>2, <2>1 DEF Ascending
    <3> QED BY <1>1, <1>2, <2>1, <3>1
  <2>2. CASE ~ (k > 0 /\ keys[k] = s)
    <3>1. ASSUME NEW j \in 1 .. k PROVE keys[j] < s
      <4>1. j = k \/ keys[j] < keys[k]
        BY <1>1, <1>2 DEF Ascending
      <4>2. j \in 1 .. Len(keys) /\ k \in 1 .. Len(keys)
        BY <1>1, <1>2
      <4>3. keys[j] \in Int /\ keys[k] \in Int /\ keys[k] < s
        BY <1>1, <1>2, <2>2, <4>2
      <4> QED BY <4>1, <4>3
    <3> QED BY <1>1, <1>2, <2>2, <3>1
  <2> QED BY <2>1, <2>2
<1>4. ASSUME NEW i \in 1 .. Len(keys) + 1, NEW j \in 1 .. Len(keys) + 1, Good(i), Good(j)
      PROVE  i = j
  <2>1. ~ (i < j)
    BY <1>1, <1>4
  <2>2. ~ (j < i)
    BY <1>1, <1>4
  <2> QED BY <1>1, <2>1, <2>2
<1>5. lower_bound(keys, s) = CHOOSE i \in 1 .. Len(keys) + 1 : Good(i)
  BY DEF lower_bound
<1> HIDE DEF first, Good
<1>6. lower_bound(keys, s) \in 1 .. Len(keys) + 1 /\ Good(lower_bound(keys, s))
  BY <1>3, <1>5
<1> QED BY <1>3, <1>4, <1>6 DEF first

LEMMA BetweenKeys ==
  ASSUME NEW keys, NEW n \in Nat, Len(keys) = n, NEW s, NEW k \in Nat, NEW next \in Nat, next = k + 1
  PROVE  Between(keys, s, k) <=> k <= n /\ (k > 0 => keys[k] <= s) /\ (k < n => s < keys[next])
<1>1. k \in 0 .. n <=> k <= n
  OBVIOUS
<1> QED BY <1>1 DEF Between

\* findLocaltime() finds the type in force: the one of the last transition that is
\* not after the sentry, or the first type.
LEMMA Find ==
  ASSUME NEW data, ZoneOK(data), NEW s \in Int, NEW gmt \in BOOLEAN, gmt \/ Regular(data),
         NEW k \in Nat, Between(Keys(data, gmt), s, k)
  PROVE  /\ findLocaltime(data, s, gmt) = InForce(data, k)
         /\ InForce(data, k) \in DOMAIN data.localtimes
<1>1. PICK keys \in Seq(Int) : keys = Keys(data, gmt)
  BY KeysAscend
<1>2. Ascending(keys) /\ Between(keys, s, k) /\ Len(keys) = Len(data.transitions)
      /\ DOMAIN keys = DOMAIN data.transitions
  BY <1>1, KeysAscend
<1>3. lower_bound(keys, s) = IF k > 0 /\ keys[k] = s THEN k ELSE k + 1
  BY <1>2, LowerBound
<1>4. Len(keys) \in Nat /\ DOMAIN keys = 1 .. Len(keys) /\ \A i \in 1 .. Len(keys) : keys[i] \in Int
  OBVIOUS
<1>5. k <= Len(keys) /\ (k > 0 => keys[k] <= s) /\ (k < Len(keys) => s < keys[k + 1])
  BY <1>2 DEF Between
<1>6. InForce(data, k) \in DOMAIN data.localtimes /\ DOMAIN data.localtimes = 1 .. Len(data.localtimes)
  <2>1. /\ \A i \in DOMAIN data.transitions : data.transitions[i].localtimeIdx \in DOMAIN data.localtimes
        /\ DOMAIN data.localtimes = 1 .. Len(data.localtimes) /\ Len(data.localtimes) >= 1
        /\ Len(data.localtimes) \in Nat
    BY DEF ZoneOK
  <2> QED BY <1>2, <1>4, <1>5, <2>1 DEF InForce
<1>f. PICK first : first = lower_bound(keys, s)
  OBVIOUS
<1> DEFINE index == IF keys = << >> \/ s < keys[1] THEN 1
                    ELSE IF first = Len(keys) + 1 THEN data.transitions[Len(keys)].localtimeIdx
                    ELSE data.transitions[IF keys[first] = s THEN first ELSE first - 1].localtimeIdx
<1>7. findLocaltime(data, s, gmt) = IF index <= Len(data.localtimes) THEN index ELSE 0
  BY <1>1, <1>f DEF findLocaltime, Keys
<1>8. index = InForce(data, k)
  <2>1. CASE k = 0
    <3>1. keys = << >> \/ s < keys[1]
      BY <1>4, <1>5, <2>1
    <3> QED BY <2>1, <3>1 DEF InForce
  <2>2. CASE k > 0
    <3>1. keys # << >> /\ ~ (s < keys[1])
      <4>1. k \in 1 .. Len(keys) /\ 1 \in 1 .. Len(keys)
        BY <1>4, <1>5, <2>2
      <4>2. k = 1 \/ 1 < k
        BY <2>2
      <4>3. 1 < k => keys[1] < keys[k]
        BY <1>2, <1>4, <4>1 DEF Ascending
      <4>4. keys[1] \in Int /\ keys[k] \in Int /\ keys[k] <= s
        BY <1>4, <1>5, <2>2, <4>1
      <4>5. ~ (s < keys[1])
        BY <4>2, <4>3, <4>4
      <4>6. keys # << >>
        BY <1>4, <4>1
      <4> QED BY <4>5, <4>6
    <3>2. CASE keys[k] = s
      <4>1. first = k /\ first # Len(keys) + 1
        BY <1>f, <1>3, <1>4, <1>5, <2>2, <3>2
      <4> QED BY <2>2, <3>1, <3>2, <4>1 DEF InForce
    <3>3. CASE keys[k] # s
      <4>1. first = k + 1
        BY <1>f, <1>3, <2>2, <3>3
      <4>2. first # Len(keys) + 1 => keys[first] # s /\ first - 1 = k
        BY <1>4, <1>5, <4>1
      <4>3. first = Len(keys) + 1 => Len(keys) = k
        <5>1. PICK n \in Nat : n = Len(keys)
          BY <1>4
        <5> QED BY <4>1, <5>1
      <4> QED BY <2>2, <3>1, <4>2, <4>3 DEF InForce
    <3> QED BY <3>2, <3>3
  <2> QED BY <2>1, <2>2
<1> HIDE DEF index
<1> QED BY <1>6, <1>7, <1>8

\* Every sentry is between two keys, or before or after all of them.
LEMMA SomewhereBetween ==
  ASSUME NEW keys \in Seq(Int), NEW s \in Int
  PROVE  \E k \in Nat : Between(keys, s, k)
<1>1. Len(keys) \in Nat /\ \A i \in 1 .. Len(keys) : keys[i] \in Int
  OBVIOUS
<1> DEFINE After == {i \in 1 .. Len(keys) + 1 : i <= Len(keys) => s < keys[i]}
<1>2. Len(keys) + 1 \in After /\ After \in SUBSET Nat
  BY <1>1
<1>3. PICK i \in After : \A j \in After : i <= j
  BY <1>2, LeastNatural
<1>4. i \in 1 .. Len(keys) + 1 /\ (i <= Len(keys) => s < keys[i])
  BY <1>3
<1>5. PICK k \in Nat : k = i - 1
  BY <1>1, <1>4
<1>6. k > 0 => keys[k] <= s
  <2>1. SUFFICES ASSUME k > 0, ~ (keys[k] <= s) PROVE FALSE
    OBVIOUS
  <2>2. k \in 1 .. Len(keys)
    BY <1>1, <1>4, <1>5, <2>1
  <2>3. k \in After
    BY <1>1, <2>1, <2>2
  <2> QED BY <1>3, <1>4, <1>5, <2>3
<1>7. k < Len(keys) => s < keys[k + 1]
  BY <1>1, <1>4, <1>5
<1> QED BY <1>1, <1>4, <1>5, <1>6, <1>7 DEF Between

\* The record that toUtcTime() makes, with the three fields that toLocalTime() sets.
LocalTm(x, dst, off, named) ==
  [toUtcTime(x) EXCEPT !.tm_isdst = dst, !.tm_gmtoff = off, !.named = named]

LEMMA LocalRecord ==
  ASSUME NEW x \in Int, NEW dst, NEW off, NEW named, NEW tm, tm = LocalTm(x, dst, off, named)
  PROVE  /\ tm.tm_year = toUtcTime(x).tm_year /\ tm.tm_mon = toUtcTime(x).tm_mon
         /\ tm.tm_mday = toUtcTime(x).tm_mday /\ tm.tm_hour = toUtcTime(x).tm_hour
         /\ tm.tm_min = toUtcTime(x).tm_min /\ tm.tm_sec = toUtcTime(x).tm_sec
         /\ tm.tm_wday = toUtcTime(x).tm_wday /\ tm.tm_yday = toUtcTime(x).tm_yday
         /\ tm.tm_isdst = dst /\ tm.named = named /\ tm # Undefined
<1> DEFINE date == DayAndSecond(x)[1] + kJulianDayOf1970
           hms == fillHMS(DayAndSecond(x)[2])
           ymd == getYearMonthDay(date)
           year == ymd.year - 1900
           month == ymd.month - 1
<1>2. toUtcTime(x) =
        [tm_year |-> year, tm_mon |-> month, tm_mday |-> ymd.day,
         tm_hour |-> hms.tm_hour, tm_min |-> hms.tm_min, tm_sec |-> hms.tm_sec,
         tm_wday |-> weekDay(date), tm_yday |-> date - getJulianDayNumber(ymd.year, 1, 1),
         tm_isdst |-> FALSE, tm_gmtoff |-> 0, named |-> TRUE]
  BY SMT DEF toUtcTime
<1> HIDE DEF date, hms, ymd, year, month
<1>3. "tm_year" \in DOMAIN tm
  BY <1>2 DEF LocalTm
<1>4. "tm_year" \notin DOMAIN Undefined
  BY DEF Undefined
<1> QED BY <1>2, <1>3, <1>4 DEF LocalTm

\* What a clock shows that says x in UTC.
ClockAt(x, dst) ==
  <<toUtcTime(x).tm_year, toUtcTime(x).tm_mon, toUtcTime(x).tm_mday,
    toUtcTime(x).tm_hour, toUtcTime(x).tm_min, toUtcTime(x).tm_sec, dst>>

LEMMA SameBounds ==
  ASSUME NEW a, NEW b, TmOK(b), a.tm_sec = b.tm_sec, a.tm_min = b.tm_min, a.tm_hour = b.tm_hour,
         a.tm_mday = b.tm_mday, a.tm_mon = b.tm_mon, a.tm_wday = b.tm_wday, a.tm_yday = b.tm_yday
  PROVE  TmOK(a)
BY DEF TmOK

\* tm is the broken-down time of x, in summer time or not.
Shows(tm, x, dst) ==
  /\ TmOK(tm) /\ tm # Undefined /\ fromUtcTime(tm) = x
  /\ ClockOf(tm) = ClockAt(x, dst) /\ tm.tm_isdst = dst
  /\ tm.tm_hour = toUtcTime(x).tm_hour /\ tm.tm_min = toUtcTime(x).tm_min

\* What ZoneOK says of the type in force after transition k.
LEMMA InForceFacts ==
  ASSUME NEW data, ZoneOK(data), NEW k \in Nat, k <= Len(data.transitions)
  PROVE  /\ InForce(data, k) \in DOMAIN data.localtimes /\ InForce(data, k) # 0
         /\ Off(data, k) \in Int /\ Dst(data, k) \in BOOLEAN
<1>1. /\ Len(data.localtimes) \in Nat /\ DOMAIN data.localtimes = 1 .. Len(data.localtimes)
      /\ Len(data.localtimes) >= 1 /\ data.localtimes \in Seq(TzType)
      /\ DOMAIN data.transitions = 1 .. Len(data.transitions) /\ Len(data.transitions) \in Nat
  BY DEF ZoneOK
<1>2. \A i \in DOMAIN data.transitions : data.transitions[i].localtimeIdx \in DOMAIN data.localtimes
  BY DEF ZoneOK
<1>3. InForce(data, k) \in DOMAIN data.localtimes
  BY <1>1, <1>2 DEF InForce
<1>4. data.localtimes[InForce(data, k)] \in TzType
  BY <1>1, <1>3
<1> QED BY <1>1, <1>3, <1>4 DEF TzType, Off, Dst

\* The local time of a transition is reckoned with the type it begins.
LEMMA TransitionFacts ==
  ASSUME NEW data, ZoneOK(data), NEW i \in Nat, i >= 1, i <= Len(data.transitions)
  PROVE  Keys(data, TRUE)[i] \in Int /\ Keys(data, FALSE)[i] = Keys(data, TRUE)[i] + Off(data, i)
<1>1. i \in DOMAIN data.transitions
  BY DEF ZoneOK
<1>2. data.transitions[i] \in TzTransition
  BY <1>1 DEF ZoneOK
<1>3. data.transitions[i].localtime
      = data.transitions[i].gmttime + data.localtimes[data.transitions[i].localtimeIdx].gmtOffset
  BY <1>1 DEF ZoneOK
<1>4. InForce(data, i) = data.transitions[i].localtimeIdx
  BY DEF InForce
<1> QED BY <1>1, <1>2, <1>3, <1>4 DEF Keys, TzTransition, Off

\* Transitions are further apart than offsets.
LEMMA Spaced ==
  ASSUME NEW data, ZoneOK(data), Regular(data), NEW i \in Nat, NEW j \in Nat, i >= 1, j = i + 1,
         j <= Len(data.transitions), NEW a \in Nat, a <= Len(data.transitions),
         NEW b \in Nat, b <= Len(data.transitions)
  PROVE  Keys(data, TRUE)[j] - Keys(data, TRUE)[i] > Off(data, a) - Off(data, b)
<1>1. i \in DOMAIN data.transitions /\ j \in DOMAIN data.transitions
  BY DEF ZoneOK
<1>2. InForce(data, a) \in DOMAIN data.localtimes /\ InForce(data, b) \in DOMAIN data.localtimes
  BY InForceFacts
<1>3. \A c, d \in DOMAIN data.transitions : c < d =>
        \A x, y \in DOMAIN data.localtimes :
          data.transitions[d].gmttime - data.transitions[c].gmttime
            > data.localtimes[x].gmtOffset - data.localtimes[y].gmtOffset
  BY DEF Regular
<1>4. data.transitions[j].gmttime - data.transitions[i].gmttime
        > data.localtimes[InForce(data, a)].gmtOffset - data.localtimes[InForce(data, b)].gmtOffset
  BY <1>1, <1>2, <1>3
<1> QED BY <1>1, <1>4 DEF Keys, Off

\* Clocks are set back from summer time, by an hour.
LEMMA SetBackByAnHour ==
  ASSUME NEW data, ZoneOK(data), Regular(data), NEW i \in Nat, NEW j \in Nat, j = i + 1, j <= Len(data.transitions),
         Off(data, j) < Off(data, i), Dst(data, j) # Dst(data, i)
  PROVE  Dst(data, i) /\ Off(data, i) - Off(data, j) = 3600
<1>1. j \in DOMAIN data.transitions /\ j - 1 = i
  BY DEF ZoneOK
<1>2. \A m \in DOMAIN data.transitions :
        Off(data, m) < Off(data, m - 1) /\ Dst(data, m) # Dst(data, m - 1) =>
          Dst(data, m - 1) /\ Off(data, m - 1) - Off(data, m) = 3600
  <2>1. SUFFICES ASSUME NEW m \in DOMAIN data.transitions
                 PROVE  Off(data, m) < Off(data, m - 1) /\ Dst(data, m) # Dst(data, m - 1) =>
                          Dst(data, m - 1) /\ Off(data, m - 1) - Off(data, m) = 3600
    OBVIOUS
  <2>2. /\ TypeFrom(data, m).gmtOffset = Off(data, m) /\ TypeFrom(data, m).isDst = Dst(data, m)
        /\ TypeFrom(data, m - 1).gmtOffset = Off(data, m - 1)
        /\ TypeFrom(data, m - 1).isDst = Dst(data, m - 1)
    BY DEF TypeFrom, InForce, Off, Dst
  <2>3. /\ TypeFrom(data, m).gmtOffset < TypeFrom(data, m - 1).gmtOffset
        /\ TypeFrom(data, m).isDst # TypeFrom(data, m - 1).isDst
        => /\ TypeFrom(data, m - 1).isDst
           /\ TypeFrom(data, m - 1).gmtOffset - TypeFrom(data, m).gmtOffset = 3600
    BY DEF Regular
  <2> QED BY <2>2, <2>3
<1> QED BY <1>1, <1>2, SMT

\* toLocalTime() shows the instant moved by the offset of the type in force.
LEMMA LocalTimeOf ==
  ASSUME NEW data, ZoneOK(data), tzSystem \in Int, NEW t \in Int,
         NEW k \in Nat, Between(Keys(data, TRUE), t, k), k <= Len(data.transitions),
         NEW x \in Int, x = t + Off(data, k) + tzSystem
  PROVE  /\ Shows(toLocalTime(data, t), x, Dst(data, k))
         /\ toLocalTime(data, t).named = (data.localtimes[InForce(data, k)].arrbIdx <= data.abbreviation)
<1> DEFINE tm == toLocalTime(data, t)
           local == data.localtimes[InForce(data, k)]
<1>1. findLocaltime(data, t, TRUE) = InForce(data, k)
  BY Find
<1>2. PICK off \in Int : off = Off(data, k) /\ InForce(data, k) # 0
  BY InForceFacts
<1>3. tm = [localtime_r(t + off) EXCEPT !.tm_isdst = local.isDst, !.tm_gmtoff = off,
                                       !.named = local.arrbIdx <= data.abbreviation]
  BY <1>1, <1>2 DEF toLocalTime, Off
<1>4. localtime_r(t + off) = toUtcTime(x)
  BY <1>2 DEF localtime_r
<1> HIDE DEF tm, local
<1>5. /\ tm.tm_year = toUtcTime(x).tm_year /\ tm.tm_mon = toUtcTime(x).tm_mon
      /\ tm.tm_mday = toUtcTime(x).tm_mday /\ tm.tm_hour = toUtcTime(x).tm_hour
      /\ tm.tm_min = toUtcTime(x).tm_min /\ tm.tm_sec = toUtcTime(x).tm_sec
      /\ tm.tm_wday = toUtcTime(x).tm_wday /\ tm.tm_yday = toUtcTime(x).tm_yday
      /\ tm.tm_isdst = local.isDst /\ tm.named = (local.arrbIdx <= data.abbreviation) /\ tm # Undefined
  <2>1. PICK named : named = (local.arrbIdx <= data.abbreviation)
    OBVIOUS
  <2>2. tm = LocalTm(x, local.isDst, off, named)
    BY <1>3, <1>4, <2>1 DEF LocalTm
  <2> QED BY <2>1, <2>2, LocalRecord
<1>6. TmOK(toUtcTime(x)) /\ fromUtcTime(toUtcTime(x)) = x
  BY UtcTime, SMT
<1>7. TmOK(tm)
  BY <1>5, <1>6, SameBounds
<1>8. fromUtcTime(tm) = fromUtcTime(toUtcTime(x))
  BY <1>5, SMT DEF fromUtcTime
<1>9. ClockOf(tm) = ClockAt(x, local.isDst)
  BY <1>5 DEF ClockOf, ClockAt
<1> QED BY <1>5, <1>6, <1>7, <1>8, <1>9 DEF tm, local, Shows, Dst

\* TimeZone.cc, toLocalTime() and fromLocalTime(): in a regular zone the instant that
\* is given back shows the same local time.
LEMMA SameAgain ==
  ASSUME NEW data, ZoneOK(data), Regular(data), tzSystem = 0, NEW t \in Int
  PROVE  ClockOf(toLocalTime(data, fromLocalTime(data, toLocalTime(data, t))))
         = ClockOf(toLocalTime(data, t))
<1>0. PICK n \in Nat : n = Len(data.transitions)
  BY DEF ZoneOK
<1>1. PICK gmt \in Seq(Int), loc \in Seq(Int) :
        gmt = Keys(data, TRUE) /\ loc = Keys(data, FALSE) /\ Len(gmt) = n /\ Len(loc) = n
  BY <1>0, KeysAscend
<1>2. PICK k \in Nat : Between(gmt, t, k)
  BY SomewhereBetween
<1>k. PICK next \in Nat : next = k + 1
  OBVIOUS
<1>3. k <= n /\ (k > 0 => gmt[k] <= t) /\ (k < n => t < gmt[next])
  BY <1>1, <1>2, <1>k, BetweenKeys
<1>4. PICK off \in Int : off = Off(data, k) /\ Dst(data, k) \in BOOLEAN
  BY <1>0, <1>3, InForceFacts
<1>5. PICK s \in Int : s = t + off
  OBVIOUS
<1>6. PICK tm : tm = toLocalTime(data, t)
  OBVIOUS
<1>7. Shows(tm, s, Dst(data, k))
  <2>1. s = t + Off(data, k) + tzSystem /\ tzSystem \in Int
    BY <1>4, <1>5
  <2> QED BY <1>0, <1>1, <1>2, <1>3, <1>6, <2>1, LocalTimeOf
<1>8. k > 0 => loc[k] <= s
  <2>1. SUFFICES ASSUME k > 0 PROVE loc[k] <= s
    OBVIOUS
  <2>2. gmt[k] \in Int /\ loc[k] = gmt[k] + off
    <3>1. k >= 1 /\ k <= Len(data.transitions)
      BY <1>0, <1>3, <2>1
    <3>2. Keys(data, TRUE)[k] \in Int /\ Keys(data, FALSE)[k] = Keys(data, TRUE)[k] + Off(data, k)
      BY <3>1, TransitionFacts
    <3> QED BY <1>1, <1>4, <3>2
  <2> QED BY <1>3, <1>5, <2>1, <2>2
\* The instant is the only one with this local time, or the later of the two.
<1>9. CASE k < n => s < loc[next]
  <2>1. Between(loc, s, k)
    BY <1>1, <1>k, <1>3, <1>8, <1>9, BetweenKeys
  <2>2. findLocaltime(data, s, FALSE) = InForce(data, k)
    BY <1>1, <2>1, Find
  <2>3. data.localtimes[findLocaltime(data, s, FALSE)].gmtOffset = off
    BY <1>4, <2>2 DEF Off
  <2>4. s - off = t
    BY <1>5
  <2>5. RepeatedHour(data, tm, s, off) = s
    BY <1>4, <1>6, <1>7, <2>4 DEF RepeatedHour, Shows
  <2>6. fromLocalTime(data, tm) = t
    BY <1>7, <2>3, <2>4, <2>5 DEF fromLocalTime, Shows
  <2> QED BY <1>6, <2>6
\* The clock shows this local time again after the next transition.
<1>10. CASE k < n /\ ~ (s < loc[next])
  <2>1. PICK j \in Nat : j = next /\ j = k + 1 /\ j >= 1 /\ j <= n
    BY <1>k, <1>10
  <2>2. PICK p \in Int : p = Off(data, j) /\ Dst(data, j) \in BOOLEAN
    BY <1>0, <2>1, InForceFacts
  <2>3. PICK g \in Int : g = gmt[j] /\ loc[j] = g + p
    BY <1>0, <1>1, <2>1, <2>2, TransitionFacts
  <2>4. s >= g + p /\ t < g
    BY <1>3, <1>10, <2>1, <2>3
  <2>5. PICK u \in Int : u = s - p
    OBVIOUS
  <2>l. PICK l \in Nat : l = j + 1
    OBVIOUS
  <2>6. j < n => s < loc[l] /\ u < gmt[l]
    <3>1. SUFFICES ASSUME j < n PROVE s < loc[l] /\ u < gmt[l]
      OBVIOUS
    <3>2. l = j + 1 /\ l >= 1 /\ l <= n
      BY <2>l, <3>1
    <3>3. PICK q \in Int : q = Off(data, l)
      BY <1>0, <3>2, InForceFacts
    <3>4. PICK h \in Int : h = gmt[l] /\ loc[l] = h + q
      BY <1>0, <1>1, <3>2, <3>3, TransitionFacts
    <3>5. h - g > off - q
      BY <1>0, <1>1, <1>3, <1>4, <2>1, <2>3, <3>2, <3>3, <3>4, Spaced
    <3>6. h - g > off - p
      BY <1>0, <1>1, <1>3, <1>4, <2>1, <2>2, <2>3, <3>2, <3>4, Spaced
    <3> QED BY <1>5, <2>4, <2>5, <3>2, <3>4, <3>5, <3>6
  <2>7. Between(loc, s, j) /\ Between(gmt, u, j)
    <3>1. loc[j] <= s /\ gmt[j] <= u
      BY <2>3, <2>4, <2>5
    <3>2. Between(loc, s, j) <=> j <= n /\ (j > 0 => loc[j] <= s) /\ (j < n => s < loc[l])
      BY <1>1, <2>l, BetweenKeys
    <3>3. Between(gmt, u, j) <=> j <= n /\ (j > 0 => gmt[j] <= u) /\ (j < n => u < gmt[l])
      BY <1>1, <2>l, BetweenKeys
    <3> QED BY <2>1, <2>6, <3>1, <3>2, <3>3
  <2>8. data.localtimes[findLocaltime(data, s, FALSE)].gmtOffset = p
    <3>1. findLocaltime(data, s, FALSE) = InForce(data, j)
      BY <1>1, <2>7, Find
    <3> QED BY <2>2, <3>1 DEF Off
  <2>9. Shows(toLocalTime(data, u), s, Dst(data, j))
    <3>1. s = u + Off(data, j) + tzSystem /\ tzSystem \in Int
      BY <2>2, <2>5
    <3> QED BY <1>0, <1>1, <2>1, <2>7, <3>1, LocalTimeOf
  <2>10. Dst(data, j) # Dst(data, k) => Dst(data, k) /\ off - p = 3600
    <3>1. p < off
      BY <1>5, <2>4
    <3> QED BY <1>0, <1>4, <2>1, <2>2, <3>1, SetBackByAnHour
  <2>11. CASE Dst(data, j) # Dst(data, k)
    <3>a. Dst(data, k) /\ off - p = 3600
      BY <2>10, <2>11
    <3>b. Dst(data, k) = TRUE
      BY <1>4, <3>a, Zenon
    <3>c. Dst(data, j) = FALSE
      BY <2>2, <3>b, <2>11, Zenon
    <3>1. Dst(data, k) = TRUE /\ Dst(data, j) = FALSE
      BY <3>b, <3>c, Zenon
    <3>2. RepeatedHour(data, tm, s, p) = s - 3600
      BY <1>7, <2>5, <2>9, <3>1 DEF RepeatedHour, Shows
    <3>3. fromLocalTime(data, tm) = s - 3600 - p
      BY <1>7, <2>8, <3>2 DEF fromLocalTime, Shows
    <3>4. s - 3600 - p = t
      BY <1>5, <2>10, <2>11
    <3> QED BY <1>6, <3>3, <3>4
  <2>12. CASE Dst(data, j) = Dst(data, k)
    <3>1. RepeatedHour(data, tm, s, p) = s
      BY <1>4, <1>7, <2>5, <2>9, <2>12 DEF RepeatedHour, Shows
    <3>2. fromLocalTime(data, tm) = u
      BY <1>7, <2>5, <2>8, <3>1 DEF fromLocalTime, Shows
    <3> QED BY <1>6, <1>7, <2>9, <2>12, <3>2 DEF Shows
  <2> QED BY <2>11, <2>12
<1> QED BY <1>9, <1>10

\* A zone of one type is in order.
LEMMA FixedZoneOK ==
  ASSUME NEW east \in Int
  PROVE  /\ ZoneOK(FixedZone(east)) /\ DOMAIN FixedZone(east) = {"transitions", "localtimes", "abbreviation"}
         /\ \A k \in DOMAIN FixedZone(east).localtimes :
              FixedZone(east).localtimes[k].arrbIdx <= FixedZone(east).abbreviation
<1>1. PICK type \in TzType : type = Localtime(east, FALSE, 0)
  BY DEF TzType, Localtime
<1>2. /\ FixedZone(east).transitions = << >> /\ FixedZone(east).localtimes = <<type>>
      /\ FixedZone(east).abbreviation = 3
      /\ DOMAIN FixedZone(east) = {"transitions", "localtimes", "abbreviation"}
  BY <1>1 DEF FixedZone
<1>3. type.arrbIdx = 0
  BY <1>1 DEF Localtime
<1>4. <<type>> \in Seq(TzType) /\ Len(<<type>>) = 1 /\ \A k \in DOMAIN <<type>> : <<type>>[k] = type
  <2>1. DOMAIN <<type>> = 1 .. 1 /\ <<type>>[1] = type
    OBVIOUS
  <2>2. \A k \in 1 .. 1 : k = 1
    OBVIOUS
  <2>3. \A k \in DOMAIN <<type>> : <<type>>[k] = type
    BY <2>1, <2>2
  <2>4. <<type>> = [i \in 1 .. 1 |-> type]
    OBVIOUS
  <2>5. <<type>> \in [1 .. 1 -> TzType] /\ Len(<<type>>) = 1
    BY <1>1, <2>4
  <2>6. <<type>> \in Seq(TzType)
    BY <2>5
  <2> QED BY <2>3, <2>5, <2>6
<1>5. << >> \in Seq(TzTransition) /\ DOMAIN (<< >>) = {}
  OBVIOUS
<1>6. ZoneOK(FixedZone(east))
  BY <1>2, <1>4, <1>5 DEF ZoneOK
<1> QED BY <1>2, <1>3, <1>4, <1>6

\* What readTimeZoneFile() makes of a file that is in order.
LEMMA ReadZoneOK ==
  ASSUME NEW file, WellFormed(file), NEW upto \in 0 .. Len(file.types), NEW names \in BOOLEAN,
         NEW data, data = readTimeZoneFile(file, upto, names)
  PROVE  /\ DOMAIN data = {"transitions", "localtimes", "abbreviation"}
         /\ (data.localtimes = << >> /\ data.transitions = << >>) \/ ZoneOK(data)
         /\ file.head /\ upto = Len(file.types) /\ names =>
              ZoneOK(data) /\ \A k \in DOMAIN data.localtimes : data.localtimes[k].arrbIdx <= data.abbreviation
<1>1. /\ file.trans \in Seq(Int) /\ file.locals \in Seq(Nat) /\ file.types \in Seq(TzType)
      /\ Len(file.locals) = Len(file.trans) /\ file.types # << >> /\ file.head \in BOOLEAN
      /\ \A i \in DOMAIN file.locals : file.locals[i] < Len(file.types)
      /\ \A k \in DOMAIN file.types : file.types[k].arrbIdx <= file.charcnt
  BY DEF WellFormed, TzType
<1>2. PICK n \in Nat, m \in Nat :
        /\ n = Len(file.trans) /\ m = Len(file.types) /\ m >= 1 /\ upto <= m /\ upto \in Nat
        /\ DOMAIN file.trans = 1 .. n /\ DOMAIN file.locals = 1 .. n /\ DOMAIN file.types = 1 .. m
  <2>1. PICK n \in Nat, m \in Nat :
          n = Len(file.trans) /\ n = Len(file.locals) /\ m = Len(file.types)
    BY <1>1
  <2>2. DOMAIN file.trans = 1 .. n /\ DOMAIN file.locals = 1 .. n /\ DOMAIN file.types = 1 .. m
    BY <1>1, <2>1
  <2>3. m >= 1 /\ upto <= m /\ upto \in Nat
    BY <1>1, <2>1
  <2> QED BY <2>1, <2>2, <2>3
<1>3. CASE ~ file.head
  <2>1. data = [transitions |-> << >>, localtimes |-> << >>, abbreviation |-> 0]
    BY <1>3 DEF readTimeZoneFile, Unread
  <2> QED BY <1>3, <2>1
<1>4. ASSUME file.head
      PROVE  /\ TypesRead(file, upto) \in Seq(TzType) /\ Len(TypesRead(file, upto)) = upto
             /\ upto = m => TypesRead(file, upto) = file.types
  <2>1. \A i \in 1 .. upto : file.types[i] \in TzType
    BY <1>1, <1>2
  <2>2. TypesRead(file, upto) = [i \in 1 .. upto |-> file.types[i]]
    BY <1>1, <1>2 DEF TypesRead
  <2>3. TypesRead(file, upto) \in [1 .. upto -> TzType]
    BY <2>1, <2>2
  <2>4. upto = m => TypesRead(file, upto) = file.types
    BY <1>1, <1>2, <2>2
  <2> QED BY <1>2, <2>3, <2>4
<1>5. CASE file.head /\ upto < m
  <2>1. data = [transitions |-> << >>, localtimes |-> TypesRead(file, upto), abbreviation |-> 0]
    BY <1>2, <1>5 DEF readTimeZoneFile, Unread
  <2>2. PICK types \in Seq(TzType) : types = TypesRead(file, upto) /\ Len(types) = upto
    BY <1>4, <1>5
  <2>3. data.transitions = << >> /\ data.localtimes = types
        /\ DOMAIN data = {"transitions", "localtimes", "abbreviation"}
    BY <2>1, <2>2
  <2>4. << >> \in Seq(TzTransition) /\ DOMAIN (<< >>) = {}
    OBVIOUS
  <2>5. types = << >> \/ Len(types) >= 1
    BY <1>2, <2>2
  <2>6. Len(types) >= 1 => ZoneOK(data)
    BY <2>2, <2>3, <2>4 DEF ZoneOK
  <2> QED BY <1>2, <1>5, <2>3, <2>5, <2>6
<1>6. CASE file.head /\ upto = m
  <2> DEFINE trans == Transitions(file)
  <2>1. data = [transitions |-> trans, localtimes |-> file.types,
                abbreviation |-> IF names THEN file.charcnt ELSE 0]
    BY <1>2, <1>4, <1>6 DEF readTimeZoneFile
  <2>2. /\ data.transitions = trans /\ data.localtimes = file.types
        /\ data.abbreviation = (IF names THEN file.charcnt ELSE 0)
        /\ DOMAIN data = {"transitions", "localtimes", "abbreviation"}
    BY <2>1
  <2>3. ASSUME NEW i \in 1 .. n
        PROVE  /\ trans[i] \in TzTransition /\ trans[i].gmttime = file.trans[i]
               /\ trans[i].localtimeIdx = file.locals[i] + 1
               /\ trans[i].localtimeIdx \in 1 .. m
               /\ trans[i].localtime = trans[i].gmttime + file.types[trans[i].localtimeIdx].gmtOffset
    <3>1. file.trans[i] \in Int /\ file.locals[i] \in Nat /\ file.locals[i] < m
      BY <1>1, <1>2
    <3>2. PICK x \in Nat : x = file.locals[i] + 1 /\ x \in 1 .. m
      BY <3>1
    <3>3. file.types[x] \in TzType
      BY <1>1, <1>2, <3>2
    <3>4. trans[i] = [gmttime |-> file.trans[i], localtime |-> file.trans[i] + file.types[x].gmtOffset,
                      localtimeIdx |-> x]
      BY <1>2, <3>2 DEF Transitions
    <3>5. PICK off \in Int, g \in Int : off = file.types[x].gmtOffset /\ g = file.trans[i]
      BY <3>1, <3>3 DEF TzType
    <3>6. trans[i] = [gmttime |-> g, localtime |-> g + off, localtimeIdx |-> x]
      BY <3>4, <3>5
    <3>7. trans[i].gmttime = g /\ trans[i].localtime = g + off /\ trans[i].localtimeIdx = x
      BY <3>6
    <3>8. trans[i] \in TzTransition
      BY <3>6 DEF TzTransition
    <3> QED BY <3>2, <3>5, <3>7, <3>8
  <2>4. trans \in Seq(TzTransition) /\ DOMAIN trans = 1 .. n
    <3>1. DOMAIN trans = 1 .. n /\ trans = [i \in 1 .. n |-> trans[i]]
      BY <1>2 DEF Transitions
    <3>2. trans \in [1 .. n -> TzTransition]
      BY <2>3, <3>1
    <3> QED BY <3>1, <3>2
  <2> HIDE DEF trans
  <2>9. \A i, j \in DOMAIN data.transitions : i < j =>
          data.transitions[i].gmttime < data.transitions[j].gmttime
    <3>1. SUFFICES ASSUME NEW i \in 1 .. n, NEW j \in 1 .. n, i < j
          PROVE  trans[i].gmttime < trans[j].gmttime
      BY <2>2, <2>4
    <3>2. file.trans[i] < file.trans[j]
      BY <1>2, <3>1 DEF WellFormed
    <3> QED BY <2>3, <3>2
  <2>10. \A i \in DOMAIN data.transitions :
           LET tr == data.transitions[i]
           IN  /\ tr.localtimeIdx \in DOMAIN data.localtimes
               /\ tr.localtime = tr.gmttime + data.localtimes[tr.localtimeIdx].gmtOffset
    BY <1>2, <2>2, <2>3, <2>4
  <2>11. data.localtimes \in Seq(TzType) /\ Len(data.localtimes) >= 1 /\ data.transitions \in Seq(TzTransition)
    BY <1>1, <1>2, <2>2, <2>4
  <2>12. ZoneOK(data)
    BY <2>9, <2>10, <2>11 DEF ZoneOK
  <2> QED BY <1>1, <1>2, <2>2, <2>12
<1> QED BY <1>2, <1>3, <1>5, <1>6

\* The zones that the constructors make have no types at all, or are in order.
LEMMA ZonesAreOK ==
  ASSUME NEW data \in Zones
  PROVE  /\ DOMAIN data = {"transitions", "localtimes", "abbreviation"}
         /\ (data.localtimes = << >> /\ data.transitions = << >>) \/ ZoneOK(data)
<1>1. CASE data \in {NoZone, Unread}
  BY <1>1 DEF NoZone, Unread
<1>2. CASE \E east \in FixedOffsets : data = FixedZone(east)
  <2>1. PICK east \in FixedOffsets : data = FixedZone(east)
    BY <1>2
  <2>2. east \in Int
    BY TimeZoneAssumption
  <2> QED BY <2>1, <2>2, FixedZoneOK
<1>3. ASSUME NEW file \in ZoneFiles, NEW upto \in 0 .. Len(file.types), NEW names \in BOOLEAN,
             data = readTimeZoneFile(file, upto, names)
      PROVE  /\ DOMAIN data = {"transitions", "localtimes", "abbreviation"}
             /\ (data.localtimes = << >> /\ data.transitions = << >>) \/ ZoneOK(data)
  <2>1. WellFormed(file)
    BY TimeZoneAssumption
  <2> QED BY <1>3, <2>1, ReadZoneOK
<1>4. \/ data \in {NoZone, Unread}
      \/ \E east \in FixedOffsets : data = FixedZone(east)
      \/ \E file \in ZoneFiles : \E upto \in 0 .. Len(file.types) : \E names \in BOOLEAN :
           data = readTimeZoneFile(file, upto, names)
  BY DEF Zones
<1> QED BY <1>1, <1>2, <1>3, <1>4

\* findLocaltime() in a zone of which nothing was read.
LEMMA EmptyZone ==
  ASSUME NEW data, data.localtimes = << >>, data.transitions = << >>, NEW t \in Int
  PROVE  toLocalTime(data, t) = Undefined
<1>1. Keys(data, TRUE) = << >>
  BY DEF Keys
<1>2. Len(data.localtimes) = 0
  OBVIOUS
<1>3. findLocaltime(data, t, TRUE) = 0
  BY <1>1, <1>2 DEF findLocaltime, Keys
<1> QED BY <1>3 DEF toLocalTime

-----------------------------------------------------------------------------
\* The last call was one of the five, of some instant, and its result is what the
\* function gives for the zone that is in use.
CallWas ==
  \/ tzLast = NoCallYet
  \/ \E t \in Int : tzLast = [op |-> "toLocalTime", instant |-> t, tm |-> toLocalTime(tzData, t)]
  \/ \E t \in Int :
       /\ toLocalTime(tzData, t) # Undefined
       /\ tzLast = [op |-> "fromLocalTime",
                    instant |-> fromLocalTime(tzData, toLocalTime(tzData, t)),
                    tm |-> toLocalTime(tzData, t)]
  \/ \E t \in Int : tzLast = [op |-> "toUtcTime", instant |-> t, tm |-> toUtcTime(t)]
  \/ \E j \in Int : tzLast = [op |-> "yearMonthDay", day |-> j, date |-> getYearMonthDay(j)]

\* A zone that was read to the end has a type at least, and a name for each.
CompleteZone ==
  tzComplete =>
    /\ ZoneOK(tzData)
    /\ \A k \in DOMAIN tzData.localtimes : tzData.localtimes[k].arrbIdx <= tzData.abbreviation

\* The inductive invariant.
TzInv ==
  /\ tzData \in Zones /\ tzComplete \in BOOLEAN /\ tzSystem \in SystemOffsets
  /\ CallWas /\ CompleteZone

LEMMA UnusedZones == NoZone \in Zones /\ Unread \in Zones
BY DEF Zones

LEMMA TzInit == TimeZoneInit => TzInv
BY UnusedZones DEF TimeZoneInit, TzInv, CallWas, CompleteZone

\* A constructor makes one of the zones, and remembers whether it read all of it.
LEMMA NewZoneKeeps ==
  ASSUME TzInv, NEW file \in ZoneFiles, NewZone(file)
  PROVE  TzInv'
<1>1. /\ tzLast' = NoCallYet /\ tzSystem' \in SystemOffsets
      /\ \/ tzData' = Unread /\ tzComplete' = FALSE
         \/ \E upto \in 0 .. Len(file.types) : \E names \in BOOLEAN :
              /\ tzData' = readTimeZoneFile(file, upto, names)
              /\ tzComplete' = (file.head /\ upto = Len(file.types) /\ names)
  BY DEF NewZone, TzInv
<1>2. CASE tzData' = Unread /\ tzComplete' = FALSE
  BY <1>1, <1>2, UnusedZones DEF TzInv, CallWas, CompleteZone
<1>3. CASE \E upto \in 0 .. Len(file.types) : \E names \in BOOLEAN :
             /\ tzData' = readTimeZoneFile(file, upto, names)
             /\ tzComplete' = (file.head /\ upto = Len(file.types) /\ names)
  <2>1. PICK upto \in 0 .. Len(file.types), names \in BOOLEAN :
          /\ tzData' = readTimeZoneFile(file, upto, names)
          /\ tzComplete' = (file.head /\ upto = Len(file.types) /\ names)
    BY <1>3
  <2>2. WellFormed(file)
    BY TimeZoneAssumption
  <2>3. file.head /\ upto = Len(file.types) /\ names =>
          /\ ZoneOK(tzData')
          /\ \A k \in DOMAIN tzData'.localtimes : tzData'.localtimes[k].arrbIdx <= tzData'.abbreviation
    BY <2>1, <2>2, ReadZoneOK
  <2>4. tzData' \in Zones
    <3>1. tzData' \in {readTimeZoneFile(file, u, b) : u \in 0 .. Len(file.types), b \in BOOLEAN}
      BY <2>1
    <3> QED BY <3>1 DEF Zones
  <2>5. tzComplete' \in BOOLEAN
    BY <2>1
  <2>6. CompleteZone'
    BY <2>1, <2>3 DEF CompleteZone, ZoneOK, InForce
  <2> QED BY <1>1, <2>4, <2>5, <2>6 DEF TzInv, CallWas
<1> QED BY <1>1, <1>2, <1>3

LEMMA NewFixedZoneKeeps ==
  ASSUME TzInv, NEW east \in FixedOffsets, NewFixedZone(east)
  PROVE  TzInv'
<1>1. /\ tzLast' = NoCallYet /\ tzSystem' \in SystemOffsets
      /\ tzData' = FixedZone(east) /\ tzComplete' = TRUE
  BY DEF NewFixedZone, TzInv
<1>2. east \in Int
  BY TimeZoneAssumption
<1>3. CompleteZone'
  BY <1>1, <1>2, FixedZoneOK DEF CompleteZone
<1>4. tzData' \in Zones
  BY <1>1 DEF Zones
<1> QED BY <1>1, <1>3, <1>4 DEF TzInv, CallWas

\* A call changes nothing that the functions read.
LEMMA SameZone ==
  ASSUME UNCHANGED <<tzData, tzComplete, tzSystem>>, TzInv, CallWas'
  PROVE  TzInv'
BY DEF TzInv, CompleteZone, ZoneOK, InForce

LEMMA SameFunctions ==
  ASSUME UNCHANGED <<tzData, tzSystem>>
  PROVE  /\ \A t : toLocalTime(tzData, t)' = toLocalTime(tzData, t)
         /\ \A tm : fromLocalTime(tzData, tm)' = fromLocalTime(tzData, tm)
<1>1. \A data, t : toLocalTime(data, t)' = toLocalTime(data, t)
  BY DEF toLocalTime, localtime_r
<1>2. ASSUME NEW data, NEW tm, NEW seconds, NEW offset
      PROVE  RepeatedHour(data, tm, seconds, offset)' = RepeatedHour(data, tm, seconds, offset)
  BY <1>1 DEF RepeatedHour
<1>3. ASSUME NEW data, NEW tm
      PROVE  fromLocalTime(data, tm)' = fromLocalTime(data, tm)
  BY <1>2 DEF fromLocalTime
<1> QED BY <1>1, <1>3

\* Each function's answer is the last call.
LEMMA CallKeeps ==
  ASSUME TzInv,
         \/ \E t \in Instants(tzData) : ToLocalTime(t)
         \/ FromLocalTime
         \/ \E t \in UtcInstants : ToUtcTime(t)
         \/ \E julianDay \in JulianDays : YearMonthDay(julianDay)
  PROVE  TzInv'
<1>1. UNCHANGED <<tzData, tzComplete, tzSystem>>
  BY DEF ToLocalTime, FromLocalTime, ToUtcTime, YearMonthDay
<1>2. SUFFICES CallWas'
  BY <1>1, SameZone
<1>3. /\ \A t : toLocalTime(tzData, t)' = toLocalTime(tzData, t)
      /\ \A tm : fromLocalTime(tzData, tm)' = fromLocalTime(tzData, tm)
  BY <1>1, SameFunctions
<1>4. \A t \in Int32 : t \in Int
  BY SMT DEF Int32
<1>5. Instants(tzData) \subseteq Int32 /\ UtcInstants \subseteq Int32 /\ JulianDays \subseteq Nat
  BY TimeZoneAssumption DEF TzInv
<1>6. ASSUME NEW t \in Instants(tzData), ToLocalTime(t)
      PROVE  CallWas'
  <2>1. t \in Int
    BY <1>4, <1>5
  <2>2. tzLast' = [op |-> "toLocalTime", instant |-> t, tm |-> toLocalTime(tzData, t)']
    BY <1>3, <1>6 DEF ToLocalTime, Called
  <2> QED BY <2>1, <2>2 DEF CallWas
<1>7. CASE FromLocalTime
  <2>1. tzLast.op = "toLocalTime" /\ tzLast.tm # Undefined
        /\ tzLast' = [op |-> "fromLocalTime", instant |-> fromLocalTime(tzData, tzLast.tm), tm |-> tzLast.tm]
    BY <1>7 DEF FromLocalTime, Called
  <2>2. PICK t \in Int : tzLast = [op |-> "toLocalTime", instant |-> t, tm |-> toLocalTime(tzData, t)]
    BY <2>1 DEF TzInv, CallWas, NoCallYet
  <2>3. PICK tm : tm = toLocalTime(tzData, t) /\ tm = toLocalTime(tzData, t)' /\ tm = tzLast.tm
    BY <1>3, <2>2
  <2>4. fromLocalTime(tzData, tm)' = fromLocalTime(tzData, tm)
    BY <1>3
  <2>5. /\ toLocalTime(tzData, t)' # Undefined
        /\ tzLast' = [op |-> "fromLocalTime",
                      instant |-> fromLocalTime(tzData, toLocalTime(tzData, t))',
                      tm |-> toLocalTime(tzData, t)']
    BY <1>3, <2>1, <2>3, <2>4
  <2> QED BY <2>5 DEF CallWas
<1>8. ASSUME NEW t \in UtcInstants, ToUtcTime(t)
      PROVE  CallWas'
  <2>1. t \in Int
    BY <1>4, <1>5
  <2>2. tzLast' = [op |-> "toUtcTime", instant |-> t, tm |-> toUtcTime(t)]
    BY <1>8 DEF ToUtcTime, Called
  <2> QED BY <2>1, <2>2 DEF CallWas
<1>9. ASSUME NEW j \in JulianDays, YearMonthDay(j)
      PROVE  CallWas'
  <2>1. j \in Int
    BY <1>5
  <2>2. tzLast' = [op |-> "yearMonthDay", day |-> j, date |-> getYearMonthDay(j)]
    BY <1>9 DEF YearMonthDay
  <2> QED BY <2>1, <2>2 DEF CallWas
<1> QED BY <1>6, <1>7, <1>8, <1>9

LEMMA TzStep == TzInv /\ [TimeZoneNext]_tzVars => TzInv'
<1> SUFFICES ASSUME TzInv, [TimeZoneNext]_tzVars PROVE TzInv'
  OBVIOUS
<1>1. CASE UNCHANGED tzVars
  <2>1. UNCHANGED <<tzData, tzComplete, tzSystem>> /\ tzLast' = tzLast
    BY <1>1 DEF tzVars
  <2>2. /\ \A t : toLocalTime(tzData, t)' = toLocalTime(tzData, t)
        /\ \A tm : fromLocalTime(tzData, tm)' = fromLocalTime(tzData, tm)
    BY <2>1, SameFunctions
  <2>3. CallWas'
    BY <2>1, <2>2 DEF TzInv, CallWas
  <2> QED BY <2>1, <2>3, SameZone
<1>2. CASE TimeZoneNext
  BY <1>2, NewZoneKeeps, NewFixedZoneKeeps, CallKeeps DEF TimeZoneNext
<1> QED BY <1>1, <1>2

\* Every answer of toLocalTime() in a zone that can be used.
LEMMA LocalTimeAnswers ==
  ASSUME NEW data \in Zones, tzSystem \in Int, NEW t \in Int
  PROVE  /\ toLocalTime(data, t) # Undefined => TmOK(toLocalTime(data, t)) /\ ZoneOK(data)
         /\ ZoneOK(data) /\ (\A k \in DOMAIN data.localtimes : data.localtimes[k].arrbIdx <= data.abbreviation)
              => toLocalTime(data, t) # Undefined /\ toLocalTime(data, t).named
<1>1. CASE ~ ZoneOK(data)
  BY <1>1, ZonesAreOK, EmptyZone
<1>2. CASE ZoneOK(data)
  <2>1. PICK keys \in Seq(Int) : keys = Keys(data, TRUE) /\ Len(keys) = Len(data.transitions)
    BY <1>2, KeysAscend
  <2>2. PICK k \in Nat : Between(keys, t, k)
    BY SomewhereBetween
  <2>3. k <= Len(data.transitions)
    <3>1. PICK n \in Nat, next \in Nat : Len(keys) = n /\ next = k + 1
      OBVIOUS
    <3> QED BY <2>1, <2>2, <3>1, BetweenKeys
  <2>4. Off(data, k) \in Int /\ InForce(data, k) \in DOMAIN data.localtimes
    BY <1>2, <2>3, InForceFacts
  <2>5. PICK x \in Int : x = t + Off(data, k) + tzSystem
    BY <2>4
  <2>6. /\ Shows(toLocalTime(data, t), x, Dst(data, k))
        /\ toLocalTime(data, t).named = (data.localtimes[InForce(data, k)].arrbIdx <= data.abbreviation)
    BY <1>2, <2>1, <2>2, <2>3, <2>5, LocalTimeOf
  <2> QED BY <1>2, <2>4, <2>6 DEF Shows
<1> QED BY <1>1, <1>2

\* What the invariant says of every answer.
LEMMA TzSafe == TzInv => TimeZoneInv
<1> SUFFICES ASSUME TzInv PROVE TimeZoneInv
  OBVIOUS
<1>1. tzData \in Zones /\ tzSystem \in SystemOffsets /\ tzSystem \in Int /\ tzComplete \in BOOLEAN
  BY TimeZoneAssumption DEF TzInv
<1>2. CASE tzLast = NoCallYet
  <2>1. tzLast.op = "none"
    BY <1>2 DEF NoCallYet
  <2> QED BY <1>1, <2>1, ZonesAreOK
               DEF TimeZoneInv, TimeZoneTypeOK, CalendarIsGregorian, UtcNamesItsInstant,
                   SameLocalTimeAgain, WholeZonesAnswer
<1>3. ASSUME NEW t \in Int, tzLast = [op |-> "toLocalTime", instant |-> t, tm |-> toLocalTime(tzData, t)]
      PROVE  TimeZoneInv
  <2>1. tzLast.op = "toLocalTime" /\ tzLast.tm = toLocalTime(tzData, t)
    BY <1>3
  <2>2. tzLast.tm # Undefined => TmOK(tzLast.tm)
    BY <1>1, <2>1, LocalTimeAnswers
  <2>3. TimeZoneTypeOK
    BY <1>1, <2>1, <2>2, ZonesAreOK DEF TimeZoneTypeOK, TmOK
  <2>4. WholeZonesAnswer
    BY <1>1, <2>1, LocalTimeAnswers DEF WholeZonesAnswer, TzInv, CompleteZone
  <2> QED BY <2>1, <2>3, <2>4 DEF TimeZoneInv, CalendarIsGregorian, UtcNamesItsInstant, SameLocalTimeAgain
<1>4. ASSUME NEW t \in Int, toLocalTime(tzData, t) # Undefined,
             tzLast = [op |-> "fromLocalTime", instant |-> fromLocalTime(tzData, toLocalTime(tzData, t)),
                       tm |-> toLocalTime(tzData, t)]
      PROVE  TimeZoneInv
  <2>1. /\ tzLast.op = "fromLocalTime" /\ tzLast.tm = toLocalTime(tzData, t)
        /\ tzLast.instant = fromLocalTime(tzData, toLocalTime(tzData, t))
    BY <1>4
  <2>2. ZoneOK(tzData)
    BY <1>1, <1>4, LocalTimeAnswers
  <2>3. SameLocalTimeAgain
    BY <2>1, <2>2, SameAgain DEF SameLocalTimeAgain
  <2>4. TimeZoneTypeOK
    BY <1>1, <2>1, ZonesAreOK DEF TimeZoneTypeOK
  <2> QED BY <2>1, <2>3, <2>4 DEF TimeZoneInv, CalendarIsGregorian, UtcNamesItsInstant, WholeZonesAnswer
<1>5. ASSUME NEW t \in Int, tzLast = [op |-> "toUtcTime", instant |-> t, tm |-> toUtcTime(t)]
      PROVE  TimeZoneInv
  <2>1. tzLast.op = "toUtcTime" /\ tzLast.tm = toUtcTime(t) /\ tzLast.instant = t
    BY <1>5
  <2>2. TmOK(tzLast.tm) /\ fromUtcTime(tzLast.tm) = t /\ tzLast.tm.tm_wday = (4 + t \div 86400) % 7
    BY <2>1, UtcTime, SMT
  <2>3. UtcNamesItsInstant
    BY <2>1, <2>2, SMT DEF UtcNamesItsInstant, kSecondsPerDay
  <2>4. TimeZoneTypeOK
    BY <1>1, <2>1, <2>2, ZonesAreOK DEF TimeZoneTypeOK, TmOK
  <2> QED BY <2>1, <2>3, <2>4 DEF TimeZoneInv, CalendarIsGregorian, SameLocalTimeAgain, WholeZonesAnswer
<1>6. ASSUME NEW j \in Int, tzLast = [op |-> "yearMonthDay", day |-> j, date |-> getYearMonthDay(j)]
      PROVE  TimeZoneInv
  <2>1. tzLast.op = "yearMonthDay" /\ tzLast.day = j /\ tzLast.date = getYearMonthDay(j)
    BY <1>6
  <2>2. CalendarIsGregorian
    BY <2>1, DayOfDate, DayAfterDay DEF CalendarIsGregorian
  <2>3. TimeZoneTypeOK
    BY <1>1, <2>1, ZonesAreOK DEF TimeZoneTypeOK
  <2> QED BY <2>1, <2>2, <2>3 DEF TimeZoneInv, UtcNamesItsInstant, SameLocalTimeAgain, WholeZonesAnswer
<1> QED BY <1>2, <1>3, <1>4, <1>5, <1>6 DEF TzInv, CallWas

\* TimeZone.cc and Date.cc: for every well-formed zone file, read to the end or not,
\* every instant and every day, struct tm is within its bounds, day numbers follow
\* the Gregorian calendar, UTC time names its instant on both sides of 1970, and a zone
\* that was read to the end answers; local time gives the same local time again where
\* the zone is regular and the process runs in UTC.
THEOREM TimesAreRight == TimeZoneSpec => []TimeZoneInv
BY TzInit, TzStep, TzSafe, PTL DEF TimeZoneSpec

-----------------------------------------------------------------------------
(* Logging: the digits of numbers, the configuration, the buffer of a line. *)

\* The size of a number.
Abs(i) == IF i >= 0 THEN i ELSE - i

\* The digit table serves both sides of zero.
LEMMA DigitTable ==
  ASSUME NEW r \in Int, -9 <= r, r <= 9
  PROVE  zero(r) = Abs(r)
<1>1. \/ r = -9 \/ r = -8 \/ r = -7 \/ r = -6 \/ r = -5 \/ r = -4 \/ r = -3 \/ r = -2 \/ r = -1 \/ r = 0
      \/ r = 1 \/ r = 2 \/ r = 3 \/ r = 4 \/ r = 5 \/ r = 6 \/ r = 7 \/ r = 8 \/ r = 9
  OBVIOUS
<1> QED BY <1>1 DEF zero, digits, Abs

\* Division by ten that rounds towards zero.
LEMMA QuotFacts ==
  ASSUME NEW i \in Int
  PROVE  /\ Quot(i, 10) \in Int /\ Abs(Quot(i, 10)) = Abs(i) \div 10
         /\ Abs(Quot(i, 10)) \in Nat /\ Abs(i) \in Nat
         /\ Quot(i, 10) # 0 => Abs(Quot(i, 10)) < Abs(i)
         /\ Quot(i, 10) = 0 <=> Abs(i) < 10
<1>1. CASE i >= 0
  BY <1>1 DEF Quot, Abs
<1>2. CASE i < 0
  BY <1>2 DEF Quot, Abs
<1> QED BY <1>1, <1>2

LEMMA LastDigitIs ==
  ASSUME NEW i \in Int
  PROVE  LastDigit(i) = Abs(i) % 10 /\ LastDigit(i) \in 0 .. 9
<1>1. PICK r \in Int : r = Remainder(i, 10)
  BY QuotFacts DEF Remainder
<1>2. -9 <= r /\ r <= 9 /\ Abs(r) = Abs(i) % 10
  <2>1. CASE i >= 0
    BY <1>1, <2>1 DEF Quot, Abs, Remainder
  <2>2. CASE i < 0
    <3>1. PICK p \in Int : p = (- i) \div 10
      OBVIOUS
    <3>2. r = i + 10 * p
      BY <1>1, <2>2, <3>1 DEF Quot, Remainder
    <3> QED BY <2>2, <3>1, <3>2 DEF Abs
  <2> QED BY <2>1, <2>2
<1>3. LastDigit(i) = Abs(r)
  BY <1>1, <1>2, DigitTable DEF LastDigit
<1>4. Abs(i) \in Nat
  BY QuotFacts
<1> QED BY <1>2, <1>3, <1>4

\* The function that convert() computes.
Decimal[i \in Int] ==
  IF Quot(i, 10) = 0 THEN <<LastDigit(i)>> ELSE Append(Decimal[Quot(i, 10)], LastDigit(i))

LEMMA ConvertIs ==
  ASSUME NEW v PROVE convert(v) = [negative |-> v < 0, digits |-> Decimal[v]]
BY DEF convert, Decimal

\* The function exists, so that the definition says what it is.
LEMMA DecimalIs ==
  Decimal = [i \in Int |-> IF Quot(i, 10) = 0 THEN <<LastDigit(i)>>
                           ELSE Append(Decimal[Quot(i, 10)], LastDigit(i))]
<1> DEFINE D == 0 .. 9
           T == Seq(D)
           B == {i \in Int : Quot(i, 10) = 0}
           base == [i \in Int |-> <<LastDigit(i)>>]
           pred == [i \in Int |-> Quot(i, 10)]
           step == [p \in Int \X T |-> Append(p[2], LastDigit(p[1]))]
           m == [i \in Int |-> Abs(i)]
<1>1. \A i \in Int : LastDigit(i) \in D
  BY LastDigitIs
<1>2. base \in [Int -> T] /\ pred \in [Int -> Int] /\ m \in [Int -> Nat] /\ B \in SUBSET Int
  BY <1>1, QuotFacts
<1>3. step \in [Int \X T -> T]
  BY <1>1
<1>4. \A i \in Int \ B : m[pred[i]] < m[i]
  BY QuotFacts
<1>a. \A i \in Int : base[i] = <<LastDigit(i)>> /\ pred[i] = Quot(i, 10) /\ (i \in B <=> Quot(i, 10) = 0)
  BY QuotFacts
<1>b. \A i \in Int, t \in T : step[<<i, t>>] = Append(t, LastDigit(i))
  OBVIOUS
<1>c. \A i \in Int : Quot(i, 10) \in Int
  BY QuotFacts
<1> HIDE DEF B, base, pred, step, m, T
<1>5. PICK f \in [Int -> T] : \A i \in Int : Follows(f, B, base, pred, step, i)
  BY <1>2, <1>3, <1>4, Recursion
<1>6. \A i \in Int : f[i] = IF Quot(i, 10) = 0 THEN <<LastDigit(i)>> ELSE Append(f[Quot(i, 10)], LastDigit(i))
  BY <1>5, <1>a, <1>b, <1>c DEF Follows
<1>7. f = [i \in Int |-> IF Quot(i, 10) = 0 THEN <<LastDigit(i)>> ELSE Append(f[Quot(i, 10)], LastDigit(i))]
  BY <1>5, <1>6
<1> QED BY <1>7 DEF Decimal

-----------------------------------------------------------------------------
\* What the first n digits are worth.
Values(ds, base) ==
  LET value[n \in 0 .. Len(ds)] == IF n = 0 THEN 0 ELSE value[n - 1] * base + ds[n] IN value

LEMMA ValueOfIs ==
  ASSUME NEW text, NEW base, NEW worth, worth = Values(text.digits, base)[Len(text.digits)]
  PROVE  ValueOf(text, base) = IF text.negative THEN - worth ELSE worth
BY DEF ValueOf, Values

\* Each digit counts as much as the definition says.
LEMMA ValuesAre ==
  ASSUME NEW ds \in Seq(Nat), NEW base \in {10, 16}
  PROVE  /\ Values(ds, base)[0] = 0
         /\ \A i \in 1 .. Len(ds) : Values(ds, base)[i] = Values(ds, base)[i - 1] * base + ds[i]
         /\ \A i \in 0 .. Len(ds) : Values(ds, base)[i] \in Nat
<1>0. PICK len \in Nat : len = Len(ds) /\ \A i \in 1 .. len : ds[i] \in Nat
  OBVIOUS
<1> DEFINE step == [p \in (1 .. len) \X Nat |-> p[2] * base + ds[p[1]]]
<1>1. step \in [(1 .. len) \X Nat -> Nat]
  <2>1. \A x, d \in Nat : x * base + d \in Nat
    OBVIOUS
  <2> QED BY <1>0, <2>1
<1>2. \A i \in 1 .. len, t \in Nat : step[<<i, t>>] = t * base + ds[i]
  OBVIOUS
<1>3. PICK f \in [0 .. len -> Nat] : ListFollows(f, len, 0, step)
  <2> HIDE DEF step
  <2>1. 0 \in Nat
    OBVIOUS
  <2> QED BY <1>1, <2>1, ListRecursion
<1>4. \A i \in 1 .. len : i \in 0 .. len /\ i - 1 \in 0 .. len /\ i # 0
  OBVIOUS
<1>5. f[0] = 0 /\ \A i \in 1 .. len : f[i] = f[i - 1] * base + ds[i]
  BY <1>2, <1>3, <1>4 DEF ListFollows
<1>6. \A i \in 0 .. len : i = 0 \/ i \in 1 .. len
  OBVIOUS
<1>7. f = [n \in 0 .. len |-> IF n = 0 THEN 0 ELSE f[n - 1] * base + ds[n]]
  BY <1>3, <1>5, <1>6
<1> DEFINE v == Values(ds, base)
<1>8. v = [n \in 0 .. len |-> IF n = 0 THEN 0 ELSE v[n - 1] * base + ds[n]]
  BY <1>0, <1>7 DEF Values
<1> HIDE DEF v
<1>9. v[0] = 0 /\ \A i \in 1 .. len : v[i] = v[i - 1] * base + ds[i]
  BY <1>4, <1>8
<1>10. \A i \in 0 .. len : v[i] \in Nat
  <2> DEFINE P == {i \in Nat : v[i] \in Nat}
  <2>1. 0 \in P /\ P \in SUBSET Nat
    BY <1>9
  <2>2. ASSUME NEW i \in 1 .. len, i - 1 \in P PROVE i \in P
    <3>1. PICK x \in Nat : x = v[i - 1]
      BY <2>2
    <3>2. PICK d \in Nat : d = ds[i]
      BY <1>0
    <3>3. v[i] = x * base + d
      BY <1>9, <3>1, <3>2
    <3>4. x * base + d \in Nat
      OBVIOUS
    <3> QED BY <3>3, <3>4
  <2>3. \A i \in 0 .. len : i \in P
    <3> HIDE DEF P
    <3> QED BY <2>1, <2>2, ListInduction
  <2> QED BY <2>3
<1> QED BY <1>0, <1>9, <1>10 DEF v

\* One digit more.
Appends(es, ds, d) == es = Append(ds, d)

LEMMA AppendValue ==
  ASSUME NEW ds \in Seq(Nat), NEW d \in Nat, NEW base \in {10, 16},
         NEW es \in Seq(Nat), Appends(es, ds, d)
  PROVE  Values(es, base)[Len(es)] = Values(ds, base)[Len(ds)] * base + d
<1>0. es = Append(ds, d)
  BY DEF Appends
<1>1. PICK len \in Nat, next \in Nat : len = Len(ds) /\ next = len + 1 /\ Len(es) = next
  BY <1>0
<1>2. es[next] = d /\ \A i \in 1 .. len : es[i] = ds[i]
  BY <1>0, <1>1
<1> DEFINE P == {i \in Nat : i <= len => Values(es, base)[i] = Values(ds, base)[i]}
<1>3. 0 \in P /\ P \in SUBSET Nat
  BY ValuesAre
<1>4. ASSUME NEW i \in 1 .. len, i - 1 \in P PROVE i \in P
  <2>1. Values(es, base)[i] = Values(es, base)[i - 1] * base + es[i]
    <3>1. i \in 1 .. Len(es)
      BY <1>1
    <3> QED BY <3>1, ValuesAre
  <2>2. Values(ds, base)[i] = Values(ds, base)[i - 1] * base + ds[i]
    BY <1>1, ValuesAre
  <2>3. Values(es, base)[i - 1] = Values(ds, base)[i - 1]
    BY <1>4
  <2>4. Values(es, base)[i] = Values(ds, base)[i]
    <3>1. es[i] = ds[i]
      BY <1>2
    <3> QED BY <2>1, <2>2, <2>3, <3>1
  <2> QED BY <2>4
<1>5. \A i \in 0 .. len : i \in P
  <2> HIDE DEF P
  <2> QED BY <1>3, <1>4, ListInduction
<1>6. Values(es, base)[len] = Values(ds, base)[len]
  BY <1>5
<1>7. Values(es, base)[next] = Values(es, base)[len] * base + es[next]
  <2>1. next \in 1 .. Len(es) /\ next - 1 = len
    BY <1>1
  <2>2. Values(es, base)[next] = Values(es, base)[next - 1] * base + es[next]
    BY <2>1, ValuesAre
  <2> QED BY <2>1, <2>2
<1> QED BY <1>1, <1>2, <1>6, <1>7

LEMMA OneDigit ==
  ASSUME NEW d \in Nat, NEW base \in {10, 16}, NEW es \in Seq(Nat), es = <<d>>
  PROVE  Len(es) = 1 /\ es[1] = d /\ Values(es, base)[Len(es)] = d
<1>1. Len(es) = 1 /\ es[1] = d
  OBVIOUS
<1>2. Values(es, base)[0] = 0
  BY ValuesAre
<1>3. Values(es, base)[1] = Values(es, base)[0] * base + d
  <2>1. 1 \in 1 .. Len(es) /\ 1 - 1 = 0
    BY <1>1
  <2>2. Values(es, base)[1] = Values(es, base)[1 - 1] * base + es[1]
    BY <2>1, ValuesAre
  <2> QED BY <1>1, <2>1, <2>2
<1> QED BY <1>1, <1>2, <1>3

LEMMA Singleton ==
  ASSUME NEW S, NEW x \in S
  PROVE  <<x>> \in Seq(S) /\ Len(<<x>>) = 1 /\ <<x>>[1] = x
<1>1. <<x>> = [i \in 1 .. 1 |-> x] /\ Len(<<x>>) = 1 /\ <<x>>[1] = x
  OBVIOUS
<1>2. <<x>> \in [1 .. 1 -> S]
  BY <1>1
<1> QED BY <1>1, <1>2

\* ds are the digits of n to the base.
DigitsOf(ds, n, base) ==
  /\ ds \in Seq(Nat) /\ Len(ds) >= 1 /\ Values(ds, base)[Len(ds)] = n
  /\ n # 0 => ds[1] # 0
  /\ n < base => Len(ds) = 1

\* The last digit, and the others before it.
\* A number of one digit.
LEMMA FirstDigit ==
  ASSUME NEW n \in Nat, NEW base \in {10, 16}, n < base
  PROVE  DigitsOf(<<n>>, n, base)
<1>1. PICK es \in Seq(Nat) : es = <<n>>
  BY Singleton
<1>2. Len(es) = 1 /\ es[1] = n /\ Values(es, base)[Len(es)] = n
  BY <1>1, OneDigit
<1> QED BY <1>1, <1>2 DEF DigitsOf

\* A number of more: the last digit goes behind the others.
LEMMA NextDigit ==
  ASSUME NEW n \in Nat, NEW base \in {10, 16}, n >= base, NEW q \in Nat, q = n \div base,
         NEW d \in Nat, d = n % base, NEW ds, DigitsOf(ds, q, base)
  PROVE  DigitsOf(Append(ds, d), n, base) /\ Len(Append(ds, d)) = Len(ds) + 1
<1>1. ds \in Seq(Nat) /\ Len(ds) >= 1 /\ Values(ds, base)[Len(ds)] = q /\ (q # 0 => ds[1] # 0)
  BY DEF DigitsOf
<1>a. Append(ds, d) \in Seq(Nat)
  BY <1>1
<1>2. PICK es \in Seq(Nat) : es = Append(ds, d)
  BY <1>a
<1>3. Len(es) = Len(ds) + 1 /\ es[1] = ds[1] /\ Len(es) >= 1
  BY <1>1, <1>2
<1>4. Values(es, base)[Len(es)] = q * base + d
  <2>1. Values(es, base)[Len(es)] = Values(ds, base)[Len(ds)] * base + d
    <3>1. ds \in Seq(Nat)
      BY <1>1
    <3>2. Appends(es, ds, d)
      BY <1>2 DEF Appends
    <3> QED BY <3>1, <3>2, AppendValue
  <2> QED BY <1>1, <2>1
<1>5. q * base + d = n /\ q # 0
  BY SMT
<1> QED BY <1>1, <1>2, <1>3, <1>4, <1>5 DEF DigitsOf

\* convert(): every number has its digits, and no leading zero.
LEMMA DecimalDigits == \A i \in Int : DigitsOf(Decimal[i], Abs(i), 10)
<1> DEFINE P == {n \in Nat : \A i \in Int : Abs(i) = n => DigitsOf(Decimal[i], n, 10)}
<1>1. ASSUME NEW n \in Nat, \A k \in Nat : k < n => k \in P PROVE n \in P
  <2>1. SUFFICES ASSUME NEW i \in Int, Abs(i) = n PROVE DigitsOf(Decimal[i], n, 10)
    OBVIOUS
  <2>2. PICK j \in Int : j = Quot(i, 10)
    BY QuotFacts
  <2>3. PICK q \in Nat, d \in Nat : q = Abs(j) /\ d = LastDigit(i) /\ q = n \div 10 /\ d = n % 10
    BY <2>1, <2>2, QuotFacts, LastDigitIs
  <2>4. (j # 0 => q < n) /\ (j = 0 <=> n < 10)
    BY <2>1, <2>2, <2>3, QuotFacts
  <2>5. Decimal[i] = IF j = 0 THEN <<d>> ELSE Append(Decimal[j], d)
    BY <2>2, <2>3, DecimalIs
  <2>6. CASE j = 0
    <3>1. d = n /\ n < 10
      BY <2>3, <2>4, <2>6
    <3> QED BY <2>5, <2>6, <3>1, FirstDigit
  <2>7. CASE j # 0
    <3>1. DigitsOf(Decimal[j], q, 10)
      BY <1>1, <2>3, <2>4, <2>7
    <3>2. n >= 10
      BY <2>4, <2>7
    <3> QED BY <2>3, <2>5, <2>7, <3>1, <3>2, NextDigit
  <2> QED BY <2>6, <2>7
<1>2. P \in SUBSET Nat
  OBVIOUS
<1>3. \A n \in Nat : n \in P
  <2> HIDE DEF P
  <2> QED BY <1>1, <1>2, CompleteInduction
<1> QED BY <1>3, QuotFacts

-----------------------------------------------------------------------------
\* The function that convertHex() computes.
Hexadecimal[i \in Nat] ==
  IF i \div 16 = 0 THEN <<i % 16>> ELSE Append(Hexadecimal[i \div 16], i % 16)

LEMMA ConvertHexIs ==
  ASSUME NEW v PROVE convertHex(v) = [negative |-> FALSE, digits |-> Hexadecimal[v]]
BY DEF convertHex, Hexadecimal

LEMMA HexadecimalIs ==
  Hexadecimal = [i \in Nat |-> IF i \div 16 = 0 THEN <<i % 16>>
                               ELSE Append(Hexadecimal[i \div 16], i % 16)]
<1> DEFINE T == Seq(Nat)
           B == {i \in Nat : i \div 16 = 0}
           base == [i \in Nat |-> <<i % 16>>]
           pred == [i \in Nat |-> i \div 16]
           step == [p \in Nat \X T |-> Append(p[2], p[1] % 16)]
           m == [i \in Nat |-> i]
<1>1. \A i \in Nat : i % 16 \in Nat /\ i \div 16 \in Nat /\ (i \div 16 # 0 => i \div 16 < i)
  OBVIOUS
<1>2. base \in [Nat -> T] /\ pred \in [Nat -> Nat] /\ m \in [Nat -> Nat] /\ B \in SUBSET Nat
  BY <1>1
<1>3. step \in [Nat \X T -> T]
  BY <1>1
<1>4. \A i \in Nat \ B : m[pred[i]] < m[i]
  BY <1>1
<1>a. \A i \in Nat : base[i] = <<i % 16>> /\ pred[i] = i \div 16 /\ (i \in B <=> i \div 16 = 0)
  BY <1>1
<1>b. \A i \in Nat, t \in T : step[<<i, t>>] = Append(t, i % 16)
  OBVIOUS
<1> HIDE DEF B, base, pred, step, m, T
<1>5. PICK f \in [Nat -> T] : \A i \in Nat : Follows(f, B, base, pred, step, i)
  BY <1>2, <1>3, <1>4, Recursion
<1>6. \A i \in Nat : f[i] = IF i \div 16 = 0 THEN <<i % 16>> ELSE Append(f[i \div 16], i % 16)
  BY <1>1, <1>5, <1>a, <1>b DEF Follows
<1>7. f = [i \in Nat |-> IF i \div 16 = 0 THEN <<i % 16>> ELSE Append(f[i \div 16], i % 16)]
  BY <1>5, <1>6
<1> QED BY <1>7 DEF Hexadecimal

\* A number has no more hexadecimal than decimal digits.
LEMMA HexadecimalDigits ==
  \A i \in Nat : DigitsOf(Hexadecimal[i], i, 16) /\ Len(Hexadecimal[i]) <= Len(Decimal[i])
<1> DEFINE P == {n \in Nat : /\ DigitsOf(Hexadecimal[n], n, 16)
                             /\ \A k \in Nat : k >= n => Len(Hexadecimal[n]) <= Len(Decimal[k])}
<1>0. \A k \in Nat : k \in Int /\ Abs(k) = k /\ Quot(k, 10) = k \div 10
  BY DEF Abs, Quot
<1>1. ASSUME NEW n \in Nat, \A k \in Nat : k < n => k \in P PROVE n \in P
  <2>1. PICK q \in Nat, d \in Nat : q = n \div 16 /\ d = n % 16 /\ (q # 0 => q < n) /\ (q = 0 <=> n < 16)
    OBVIOUS
  <2>2. Hexadecimal[n] = IF q = 0 THEN <<d>> ELSE Append(Hexadecimal[q], d)
    BY <2>1, HexadecimalIs
  <2>3. CASE q = 0
    <3>1. d = n /\ n < 16
      BY <2>1, <2>3
    <3>2. DigitsOf(Hexadecimal[n], n, 16)
      BY <2>2, <2>3, <3>1, FirstDigit
    <3>3. Len(Hexadecimal[n]) = 1
      BY <2>2, <2>3
    <3>4. \A k \in Nat : Len(Decimal[k]) >= 1
      BY <1>0, DecimalDigits DEF DigitsOf
    <3> QED BY <3>2, <3>3, <3>4
  <2>4. CASE q # 0
    <3>1. DigitsOf(Hexadecimal[q], q, 16) /\ \A k \in Nat : k >= q => Len(Hexadecimal[q]) <= Len(Decimal[k])
      BY <1>1, <2>1, <2>4
    <3>2. n >= 16
      BY <2>1, <2>4
    <3>3. DigitsOf(Hexadecimal[n], n, 16) /\ Len(Hexadecimal[n]) = Len(Hexadecimal[q]) + 1
      BY <2>1, <2>2, <2>4, <3>1, <3>2, NextDigit
    <3>4. ASSUME NEW k \in Nat, k >= n PROVE Len(Hexadecimal[n]) <= Len(Decimal[k])
      <4>1. PICK j \in Nat : j = k \div 10 /\ j >= q /\ j # 0
        BY <2>1, <3>2, <3>4, SMT
      <4>2. Decimal[k] = Append(Decimal[j], LastDigit(k))
        BY <1>0, <4>1, DecimalIs
      <4>3. Decimal[j] \in Seq(Nat) /\ LastDigit(k) \in Nat
        <5>1. DigitsOf(Decimal[j], Abs(j), 10)
          BY <1>0, DecimalDigits
        <5>2. LastDigit(k) \in 0 .. 9
          BY <1>0, LastDigitIs
        <5> QED BY <5>1, <5>2 DEF DigitsOf
      <4>4. Len(Decimal[k]) = Len(Decimal[j]) + 1 /\ Len(Decimal[j]) \in Nat
        BY <4>2, <4>3
      <4>5. Len(Hexadecimal[q]) \in Nat
        BY <3>1 DEF DigitsOf
      <4> QED BY <3>1, <3>3, <4>1, <4>4, <4>5
    <3> QED BY <3>3, <3>4
  <2> QED BY <2>3, <2>4
<1>2. P \in SUBSET Nat
  OBVIOUS
<1>3. \A n \in Nat : n \in P
  <2> HIDE DEF P
  <2> QED BY <1>1, <1>2, CompleteInduction
<1> QED BY <1>3

\* What a configuration may say.
ConfType == [level_ : 0 .. 3, LogFileSize_ : {n \in Int : n > LimitOfSizes}]

LEMMA Sizes == LimitOfSizes \in Nat /\ DefaultSize \in Nat /\ DefaultSize > LimitOfSizes
BY SMT DEF LimitOfSizes, DefaultSize

LineType == [key : STRING, equals : BOOLEAN, value : Int]

LEMMA ReadLineKeeps ==
  ASSUME NEW conf \in ConfType, NEW line \in LineType
  PROVE  ReadLine(conf, line) \in ConfType
<1>1. PICK n \in Int : n = AtoiOf(line)
  BY DEF AtoiOf, LineType
<1>2. LegalLevel(n) \in 0 .. 3
  BY DEF LegalLevel
<1>3. LegalSize(n) \in {k \in Int : k > LimitOfSizes}
  BY Sizes DEF LegalSize
<1> DEFINE a == [conf EXCEPT !.level_ = LegalLevel(n)]
           b == [conf EXCEPT !.LogFileSize_ = LegalSize(n)]
<1>4. a \in ConfType
  <2> HIDE DEF a
  <2> USE DEF ConfType
  <2> QED BY <1>2 DEF a
<1>5. b \in ConfType
  BY <1>3 DEF ConfType
<1> HIDE DEF a, b
<1>6. ReadLine(conf, line) \in {a, b, conf}
  BY <1>1 DEF ReadLine, a, b
<1> QED BY <1>4, <1>5, <1>6

\* ConfFileRead: whatever the lines say, the level and the size are legal.
LEMMA ConfIsLegal ==
  ASSUME NEW lines \in ConfFiles
  PROVE  ConfFileRead(lines) \in ConfType
<1> DEFINE default == [level_ |-> 2, LogFileSize_ |-> DefaultSize]
<1>0. PICK len \in Nat : /\ len = Len(lines)
                         /\ \A i \in 1 .. len : lines[i] \in LineType
  <2>1. lines \in Seq(LineType)
    BY LoggingAssumption DEF LineType
  <2>2. Len(lines) \in Nat /\ \A i \in 1 .. Len(lines) : lines[i] \in LineType
    BY <2>1
  <2> QED BY <2>2
<1>1. default \in ConfType
  BY Sizes DEF ConfType
<1> HIDE DEF default
<1> DEFINE step == [p \in (1 .. len) \X ConfType |-> ReadLine(p[2], lines[p[1]])]
<1>2. step \in [(1 .. len) \X ConfType -> ConfType]
  BY <1>0, ReadLineKeeps
<1>3. \A i \in 1 .. len, t \in ConfType : step[<<i, t>>] = ReadLine(t, lines[i])
  OBVIOUS
<1>4. PICK f \in [0 .. len -> ConfType] : ListFollows(f, len, default, step)
  <2> HIDE DEF step
  <2> QED BY <1>1, <1>2, ListRecursion
<1>5. \A i \in 1 .. len : i \in 0 .. len /\ i - 1 \in 0 .. len /\ i # 0
  OBVIOUS
<1>6. f[0] = default /\ \A i \in 1 .. len : f[i] = ReadLine(f[i - 1], lines[i])
  BY <1>3, <1>4, <1>5 DEF ListFollows
<1>7. \A i \in 0 .. len : i = 0 \/ i \in 1 .. len
  OBVIOUS
<1>8. f = [n \in 0 .. len |-> IF n = 0 THEN default ELSE ReadLine(f[n - 1], lines[n])]
  BY <1>4, <1>6, <1>7
<1> DEFINE c == CHOOSE c : c = [n \in 0 .. len |-> IF n = 0 THEN default ELSE ReadLine(c[n - 1], lines[n])]
<1>9. c = [n \in 0 .. len |-> IF n = 0 THEN default ELSE ReadLine(c[n - 1], lines[n])]
  BY <1>8
<1>10. ConfFileRead(lines) = c[len]
  BY <1>0 DEF ConfFileRead, default
<1> HIDE DEF c
<1>11. c[0] = default /\ \A i \in 1 .. len : c[i] = ReadLine(c[i - 1], lines[i])
  BY <1>5, <1>9
<1> DEFINE P == {i \in Nat : c[i] \in ConfType}
<1>12. 0 \in P /\ P \in SUBSET Nat
  BY <1>1, <1>11
<1>13. ASSUME NEW i \in 1 .. len, i - 1 \in P PROVE i \in P
  <2>1. c[i - 1] \in ConfType
    BY <1>13
  <2>2. c[i] \in ConfType
    BY <1>0, <1>11, <2>1, ReadLineKeeps
  <2> QED BY <2>2
<1>14. \A i \in 0 .. len : i \in P
  <2> HIDE DEF P
  <2> QED BY <1>12, <1>13, ListInduction
<1>15. c[len] \in ConfType
  BY <1>14
<1> QED BY <1>10, <1>15

-----------------------------------------------------------------------------
\* The buffer of a line holds what was written, and has a byte left.
\* What lines are made of.
Pieces == {"time", "micro", "tid", "level", "strerror", " (errno=", "errno", ") ", "func", " ",
           "text", "number", "pointer", "double", " - ", "file", ":", "line", "\n"}
Stream == [cur : Nat, high : Nat, pieces : Seq(Pieces)]
StreamOK(s) ==
  s \in Stream /\ s.cur <= s.high /\ s.high <= kSmallBuffer /\ s.cur < kSmallBuffer

LEMMA MaxOfTwo ==
  ASSUME NEW a \in Nat, NEW b \in Nat
  PROVE  Max({a, b}) = IF a >= b THEN a ELSE b
<1>2. \E m \in {a, b} : \A y \in {a, b} : m >= y
  <2>1. CASE a >= b
    BY <2>1
  <2>2. CASE b >= a
    BY <2>2
  <2> QED BY <2>1, <2>2
<1>3. Max({a, b}) \in {a, b} /\ \A y \in {a, b} : Max({a, b}) >= y
  BY <1>2 DEF Max
<1>4. (Max({a, b}) = a \/ Max({a, b}) = b) /\ Max({a, b}) >= a /\ Max({a, b}) >= b
  BY <1>3
<1> QED BY <1>4

LEMMA WrittenKeeps ==
  ASSUME NEW s, StreamOK(s), NEW piece \in Pieces, NEW len \in Nat, NEW bytes \in Nat,
         len <= bytes, s.cur + bytes <= kSmallBuffer, s.cur + len < kSmallBuffer
  PROVE  StreamOK(Written(s, piece, len, bytes))
<1>1. PICK cur \in Nat, high \in Nat, pieces \in Seq(Pieces) :
        cur = s.cur /\ high = s.high /\ pieces = s.pieces /\ cur <= high /\ high <= kSmallBuffer
  BY DEF StreamOK, Stream
<1>2. PICK top \in Nat : top = Max({high, cur + bytes}) /\ top = IF high >= cur + bytes THEN high ELSE cur + bytes
  <2>1. PICK b \in Nat : b = cur + bytes
    OBVIOUS
  <2> QED BY <2>1, MaxOfTwo
<1>3. Append(pieces, piece) \in Seq(Pieces)
  OBVIOUS
<1>4. Written(s, piece, len, bytes) = [cur |-> cur + len, high |-> top, pieces |-> Append(pieces, piece)]
  BY <1>1, <1>2 DEF Written
<1>5. kSmallBuffer \in Nat
  BY LoggingAssumption
<1>6. cur + len <= top /\ top <= kSmallBuffer /\ cur + len < kSmallBuffer /\ cur + len \in Nat
  <2>1. cur + bytes <= kSmallBuffer /\ cur + len < kSmallBuffer
    BY <1>1
  <2>2. PICK to \in Nat, b \in Nat : to = cur + len /\ b = cur + bytes /\ to <= b
    OBVIOUS
  <2>3. cur <= high /\ high <= kSmallBuffer /\ top = IF high >= b THEN high ELSE b
    BY <1>1, <1>2, <2>2
  <2>4. top >= b /\ top <= kSmallBuffer /\ b <= kSmallBuffer /\ to < kSmallBuffer
    BY <1>5, <2>1, <2>2, <2>3
  <2> QED BY <2>2, <2>4
<1>7. Written(s, piece, len, bytes) \in Stream
  BY <1>3, <1>4, <1>6 DEF Stream
<1> QED BY <1>4, <1>6, <1>7 DEF StreamOK

\* FixedBuffer::append() stays within the buffer.
LEMMA AppendKeeps ==
  ASSUME NEW s, StreamOK(s), NEW piece \in Pieces, NEW len \in Nat
  PROVE  StreamOK(append(s, piece, len))
<1>1. CASE HasRoom(s, len)
  <2>1. s.cur \in Nat /\ kSmallBuffer \in Nat /\ kSmallBuffer - s.cur > len
    BY <1>1, LoggingAssumption DEF HasRoom, avail, StreamOK, Stream
  <2>2. s.cur + len <= kSmallBuffer /\ s.cur + len < kSmallBuffer
    BY <2>1
  <2> QED BY <1>1, <2>2, WrittenKeeps DEF append
<1>2. CASE ~ HasRoom(s, len)
  BY <1>2 DEF append
<1> QED BY <1>1, <1>2

\* A number of which at most digits10 + 1 digits are written.
Short(v) == v \in Int /\ Len(Decimal[v]) <= digits10 + 1

LEMMA DecimalLength ==
  ASSUME NEW v \in Int
  PROVE  Decimal[v] \in Seq(Nat) /\ Len(Decimal[v]) \in Nat /\ Len(Decimal[v]) >= 1
BY DecimalDigits DEF DigitsOf

\* The numbers that are printed are short, errno and the line number too.
LEMMA ShortNumbers == (\A v \in Numbers : Short(v)) /\ Short(11) /\ Short(1234)
<1>1. \A v \in Numbers : v \in Int /\ Len(convert(v).digits) <= digits10 + 1
  BY LoggingAssumption, staticCheck
<1>2. \A v : convert(v).digits = Decimal[v]
  BY ConvertIs
<1>3. \A v \in Numbers : Short(v)
  BY <1>1, <1>2 DEF Short
<1>4. ASSUME NEW n \in Nat, NEW k \in Nat, k = n \div 10, NEW l \in Nat,
             n < 10 \/ Len(Decimal[k]) + 1 <= l, l >= 1
      PROVE  Len(Decimal[n]) <= l
  <2>1. n \in Int /\ Abs(n) = n /\ Quot(n, 10) = k
    BY <1>4 DEF Abs, Quot
  <2>2. CASE n < 10
    <3>1. Len(Decimal[n]) = 1
      BY <2>1, <2>2, DecimalDigits DEF DigitsOf
    <3> QED BY <1>4, <3>1
  <2>3. CASE ~ (n < 10)
    <3>1. k # 0
      BY <1>4, <2>3
    <3>2. Decimal[n] = Append(Decimal[k], LastDigit(n))
      BY <2>1, <3>1, DecimalIs
    <3>3. Decimal[k] \in Seq(Nat) /\ LastDigit(n) \in Nat
      <4>1. k \in Int
        OBVIOUS
      <4> QED BY <2>1, <4>1, DecimalLength, LastDigitIs
    <3>4. Len(Decimal[n]) = Len(Decimal[k]) + 1
      BY <3>2, <3>3
    <3> QED BY <1>4, <2>3, <3>4
  <2> QED BY <2>2, <2>3
<1>5. \A n \in Nat : n < 10 => Len(Decimal[n]) <= 1
  <2>1. SUFFICES ASSUME NEW n \in Nat, n < 10 PROVE Len(Decimal[n]) <= 1
    OBVIOUS
  <2>2. PICK k \in Nat : k = n \div 10
    OBVIOUS
  <2> QED BY <1>4, <2>1, <2>2
<1>6. \A n \in Nat : n < 100 => Len(Decimal[n]) <= 2
  <2>1. SUFFICES ASSUME NEW n \in Nat, n < 100 PROVE Len(Decimal[n]) <= 2
    OBVIOUS
  <2>2. PICK k \in Nat : k = n \div 10 /\ k < 10
    BY <2>1
  <2>3. Len(Decimal[k]) + 1 <= 2
    <3>1. Len(Decimal[k]) \in Nat /\ Len(Decimal[k]) <= 1
      BY <1>5, <2>2, DecimalLength
    <3> QED BY <3>1
  <2> QED BY <1>4, <2>1, <2>2, <2>3
<1>7. Len(Decimal[11]) <= 2
  BY <1>6
<1>8. Len(Decimal[1234]) <= 4
  <2>1. Len(Decimal[12]) \in Nat /\ Len(Decimal[12]) <= 2
    BY <1>6, DecimalLength
  <2>2. 123 \div 10 = 12 /\ 1234 \div 10 = 123
    BY SMT
  <2>3. Len(Decimal[123]) <= 3
    <3>1. Len(Decimal[12]) + 1 <= 3
      BY <2>1
    <3> QED BY <1>4, <2>2, <3>1
  <2>4. Len(Decimal[123]) \in Nat
    BY DecimalLength
  <2>5. Len(Decimal[123]) + 1 <= 4
    BY <2>3, <2>4
  <2> QED BY <1>4, <2>2, <2>5, SMT
<1>9. Short(11) /\ Short(1234)
  <2>1. Len(Decimal[11]) \in Nat /\ Len(Decimal[1234]) \in Nat
    BY DecimalLength, SMT
  <2> QED BY <1>7, <1>8, <2>1, staticCheck, SMT DEF Short
<1> QED BY <1>3, <1>9

\* kMaxNumericSize is enough for a number, its sign and a NUL.
LEMMA FormatIntegerKeeps ==
  ASSUME NEW s, StreamOK(s), NEW piece \in Pieces, NEW v, Short(v)
  PROVE  StreamOK(formatInteger(s, piece, v))
<1>1. PICK len \in Nat : len = LengthOf(convert(v)) /\ len <= digits10 + 2
  <2>1. convert(v).digits = Decimal[v] /\ convert(v).negative = (v < 0)
    BY ConvertIs
  <2>2. PICK n \in Nat : n = Len(Decimal[v]) /\ n <= digits10 + 1
    BY DecimalLength DEF Short
  <2>3. PICK sign \in Nat : sign <= 1 /\ sign = IF v < 0 THEN 1 ELSE 0
    OBVIOUS
  <2>4. LengthOf(convert(v)) = n + sign
    BY <2>1, <2>2, <2>3 DEF LengthOf
  <2>5. n + sign \in Nat /\ n + sign <= digits10 + 2
    <3>1. digits10 \in Nat
      BY staticCheck
    <3>2. sign <= 1 /\ n <= digits10 + 1
      BY <2>2, <2>3
    <3>3. \A a, b, c \in Nat : a <= 1 /\ b <= c + 1 => b + a <= c + 2
      OBVIOUS
    <3>4. n + sign <= digits10 + 2
      BY <3>1, <3>2, <3>3
    <3> QED BY <3>4
  <2> QED BY <2>4, <2>5
<1>2. CASE NumberFits(s)
  <2>1. s.cur \in Nat /\ kSmallBuffer \in Nat /\ kMaxNumericSize \in Nat /\ kSmallBuffer - s.cur >= kMaxNumericSize
    BY <1>2, LoggingAssumption DEF NumberFits, avail, StreamOK, Stream
  <2>2. PICK bytes \in Nat : bytes = len + 1 /\ bytes <= kMaxNumericSize
    BY <1>1, <2>1, staticCheck
  <2>3. s.cur + bytes <= kSmallBuffer /\ s.cur + len < kSmallBuffer /\ len <= bytes
    BY <2>1, <2>2
  <2>4. StreamOK(Written(s, piece, len, bytes))
    BY <2>3, WrittenKeeps
  <2> QED BY <1>1, <1>2, <2>2, <2>4 DEF formatInteger
<1>3. CASE ~ NumberFits(s)
  BY <1>3 DEF formatInteger
<1> QED BY <1>2, <1>3

\* It is enough for a pointer, its 0x and a NUL.
LEMMA FormatPointerKeeps ==
  ASSUME NEW s, StreamOK(s), NEW v \in Nat, Short(v)
  PROVE  StreamOK(formatPointer(s, v))
<1>1. PICK len \in Nat : len = LengthOf(convertHex(v)) /\ len <= digits10 + 1
  <2>1. convertHex(v).digits = Hexadecimal[v] /\ convertHex(v).negative = FALSE
    BY ConvertHexIs
  <2>2. PICK n \in Nat : n = Len(Decimal[v]) /\ n <= digits10 + 1
    BY DecimalLength DEF Short
  <2>3. PICK h \in Nat : h = Len(Hexadecimal[v]) /\ h <= n
    BY <2>2, HexadecimalDigits DEF DigitsOf
  <2>4. LengthOf(convertHex(v)) = h
    <3>1. LengthOf(convertHex(v)) = Len(Hexadecimal[v]) + 0
      BY <2>1 DEF LengthOf
    <3> QED BY <2>3, <3>1
  <2> QED BY <2>2, <2>3, <2>4, staticCheck
<1>2. CASE NumberFits(s)
  <2>1. s.cur \in Nat /\ kSmallBuffer \in Nat /\ kMaxNumericSize \in Nat /\ kSmallBuffer - s.cur >= kMaxNumericSize
    BY <1>2, LoggingAssumption DEF NumberFits, avail, StreamOK, Stream
  <2>2. PICK w \in Nat, bytes \in Nat : w = len + 2 /\ bytes = len + 3 /\ bytes <= kMaxNumericSize
    BY <1>1, <2>1, staticCheck
  <2>3. s.cur + bytes <= kSmallBuffer /\ s.cur + w < kSmallBuffer /\ w <= bytes
    BY <2>1, <2>2
  <2>4. StreamOK(Written(s, "pointer", w, bytes))
    <3>1. "pointer" \in Pieces
      BY DEF Pieces
    <3> QED BY <2>2, <2>3, <3>1, WrittenKeeps
  <2> QED BY <1>1, <1>2, <2>2, <2>4 DEF formatPointer
<1>3. CASE ~ NumberFits(s)
  BY <1>3 DEF formatPointer
<1> QED BY <1>2, <1>3

\* It is enough for what snprintf() makes of a double.
LEMMA FormatDoubleKeeps ==
  ASSUME NEW s, StreamOK(s), NEW len \in {1, 19}
  PROVE  StreamOK(formatDouble(s, len))
<1>2. CASE NumberFits(s)
  <2>1. s.cur \in Nat /\ kSmallBuffer \in Nat /\ kMaxNumericSize \in Nat /\ kSmallBuffer - s.cur >= kMaxNumericSize
    BY <1>2, LoggingAssumption DEF NumberFits, avail, StreamOK, Stream
  <2>2. PICK bytes \in Nat : bytes = len + 1 /\ bytes <= kMaxNumericSize
    BY <2>1, staticCheck
  <2>3. s.cur + bytes <= kSmallBuffer /\ s.cur + len < kSmallBuffer /\ len <= bytes /\ len \in Nat
    BY <2>1, <2>2
  <2>4. StreamOK(Written(s, "double", len, bytes))
    <3>1. "double" \in Pieces
      BY DEF Pieces
    <3> QED BY <2>2, <2>3, <3>1, WrittenKeeps
  <2> QED BY <1>2, <2>2, <2>4 DEF formatDouble
<1>3. CASE ~ NumberFits(s)
  BY <1>3 DEF formatDouble
<1> QED BY <1>2, <1>3

LEMMA EmptyStreamOK == StreamOK(EmptyStream)
BY LoggingAssumption DEF StreamOK, Stream, EmptyStream

\* Logger::Impl::Impl() writes within the buffer.
LEMMA HeaderOK ==
  ASSUME NEW level \in LogLevels, NEW errno \in {0, 11}, NEW funcLen \in {4}
  PROVE  StreamOK(Header(level, errno, funcLen))
<1>1. PICK a : a = append(EmptyStream, "time", 17) /\ StreamOK(a)
  <2>1. "time" \in Pieces
    BY DEF Pieces
  <2> QED BY <2>1, EmptyStreamOK, AppendKeeps
<1>2. PICK b : b = append(a, "micro", IF lgZone = NoLogZone THEN 9 ELSE 8) /\ StreamOK(b)
  <2>1. "micro" \in Pieces
    BY DEF Pieces
  <2> QED BY <2>1, <1>1, AppendKeeps
<1>3. PICK c : c = append(b, "tid", 6) /\ StreamOK(c)
  <2>1. "tid" \in Pieces
    BY DEF Pieces
  <2> QED BY <2>1, <1>2, AppendKeeps
<1>4. PICK place : place = append(c, "level", 6) /\ StreamOK(place)
  <2>1. "level" \in Pieces
    BY DEF Pieces
  <2> QED BY <2>1, <1>3, AppendKeeps
<1>5. PICK e : e = append(place, "strerror", 20) /\ StreamOK(e)
  <2>1. "strerror" \in Pieces
    BY DEF Pieces
  <2> QED BY <2>1, <1>4, AppendKeeps
<1>6. PICK f : f = append(e, " (errno=", 8) /\ StreamOK(f)
  <2>1. " (errno=" \in Pieces
    BY DEF Pieces
  <2> QED BY <2>1, <1>5, AppendKeeps
<1>7. PICK g : g = formatInteger(f, "errno", 11) /\ StreamOK(g)
  <2>1. "errno" \in Pieces
    BY DEF Pieces
  <2> QED BY <2>1, <1>6, ShortNumbers, FormatIntegerKeeps
<1>8. PICK h : h = append(g, ") ", 2) /\ StreamOK(h)
  <2>1. ") " \in Pieces
    BY DEF Pieces
  <2> QED BY <2>1, <1>7, AppendKeeps
<1>9. PICK error : error = (IF errno = 0 THEN place ELSE h) /\ StreamOK(error)
  BY <1>4, <1>8
<1>10. PICK i : i = append(error, "func", funcLen) /\ StreamOK(i)
  <2>1. "func" \in Pieces
    BY DEF Pieces
  <2> QED BY <2>1, <1>9, AppendKeeps
<1>11. PICK j : j = append(i, " ", 1) /\ StreamOK(j)
  <2>1. " " \in Pieces
    BY DEF Pieces
  <2> QED BY <2>1, <1>10, AppendKeeps
<1>12. Header(level, errno, funcLen) = IF level < INFO THEN j ELSE error
  BY <1>1, <1>2, <1>3, <1>4, <1>5, <1>6, <1>7, <1>8, <1>9, <1>10, <1>11 DEF Header
<1> QED BY <1>9, <1>11, <1>12

\* Logger::~Logger() ends the line, or finds one byte left.
LEMMA FinishOK ==
  ASSUME NEW s, StreamOK(s), NEW line, Short(line)
  PROVE  /\ StreamOK(finish(s, line))
         /\ Last(finish(s, line).pieces) = "\n" \/ avail(finish(s, line)) = 1
<1>1. PICK a : a = append(s, " - ", 3) /\ StreamOK(a)
  <2>1. " - " \in Pieces
    BY DEF Pieces
  <2> QED BY <2>1, AppendKeeps
<1>2. PICK b : b = append(a, "file", 10) /\ StreamOK(b)
  <2>1. "file" \in Pieces
    BY DEF Pieces
  <2> QED BY <2>1, <1>1, AppendKeeps
<1>3. PICK c : c = append(b, ":", 1) /\ StreamOK(c)
  <2>1. ":" \in Pieces
    BY DEF Pieces
  <2> QED BY <2>1, <1>2, AppendKeeps
<1>4. PICK d : d = formatInteger(c, "line", line) /\ StreamOK(d)
  <2>1. "line" \in Pieces
    BY DEF Pieces
  <2> QED BY <2>1, <1>3, FormatIntegerKeeps
<1>5. PICK e : e = append(d, "\n", 1) /\ StreamOK(e)
  <2>1. "\n" \in Pieces
    BY DEF Pieces
  <2> QED BY <2>1, <1>4, AppendKeeps
<1>6. finish(s, line) = e
  <2>1. finish(s, line) = append(formatInteger(append(append(append(s, " - ", 3), "file", 10),
                                               ":", 1), "line", line), "\n", 1)
    BY Zenon DEF finish
  <2> QED BY <2>1, <1>1, <1>2, <1>3, <1>4, <1>5, Zenon
<1>7. Last(e.pieces) = "\n" \/ avail(e) = 1
  <2>1. CASE HasRoom(d, 1)
    <3>1. e.pieces = Append(d.pieces, "\n")
      <4>1. e = Written(d, "\n", 1, 1)
        BY <1>5, <2>1 DEF append
      <4> QED BY <4>1 DEF Written
    <3>2. d.pieces \in Seq(Pieces)
      BY <1>4 DEF StreamOK, Stream
    <3> QED BY <3>1, <3>2 DEF Last
  <2>2. CASE ~ HasRoom(d, 1)
    <3>1. e = d
      BY <1>5, <2>2 DEF append
    <3>2. d.cur \in Nat /\ kSmallBuffer \in Nat /\ d.cur < kSmallBuffer /\ ~ (kSmallBuffer - d.cur > 1)
      BY <1>4, <2>2, LoggingAssumption DEF HasRoom, avail, StreamOK, Stream
    <3>3. avail(d) = 1
      BY <3>2 DEF avail
    <3> QED BY <3>1, <3>3
  <2> QED BY <2>1, <2>2
<1> QED BY <1>5, <1>6, <1>7

LgZones == LogZones \cup {NoLogZone}
Seconds == 0 .. MaxNow

LgTypes ==
  /\ lgLevel \in LogLevels /\ lgClogLevel \in LogLevels /\ lgOpen \in LogLevels \cup {NoLevel}
  /\ lgRollSize \in Int /\ lgRollSize > kLargeBuffer
  /\ lgZone \in LgZones /\ lgNow \in 1 .. MaxNow /\ lgBack \in BOOLEAN /\ lgZoneSet \in Seconds
  /\ lgTime \in [lastSecond : Seconds, shown : Seconds, zone : LgZones]
  /\ lgStamp \in [second : Seconds, zone : LgZones, zoneSet : Seconds, shown : Seconds, shownZone : LgZones]
  /\ lgEvents \in 0 .. MaxEvents

\* The stream is in order, and a line that is finished has its end.
StreamInv == StreamOK(lgStream) /\ EndsUnlessFull

\* The number converted last, and what convert() or convertHex() made of it.
NumberInv ==
  \/ \E v \in Int : lgDigits = [value |-> v, text |-> convert(v), base |-> 10]
  \/ \E v \in Nat : lgDigits = [value |-> v, text |-> convertHex(v), base |-> 16]

\* The text of the time is of the second it was made in.
StampInv == lgTime.shown = lgTime.lastSecond /\ TimeIsTheLines

\* Unless the clock was set back, the text of the time is of the zone in use or was
\* made not after that was set.
ZoneInv ==
  /\ ~ lgBack =>
       /\ lgTime.lastSecond <= lgNow /\ lgZoneSet <= lgNow
       /\ lgTime.zone # lgZone => lgTime.lastSecond <= lgZoneSet
  /\ ZoneShowsNextSecond

\* The inductive invariant.
LgInv == LgTypes /\ StreamInv /\ NumberInv /\ StampInv /\ ZoneInv

LEMMA LgInitially == LoggingInit => LgInv
<1> SUFFICES ASSUME LoggingInit PROVE LgInv
  OBVIOUS
<1>1. PICK lines \in ConfFiles : lgLevel = initLogLevel(lines) /\ lgRollSize = ConfFileRead(lines).LogFileSize_
  BY DEF LoggingInit
<1>2. PICK level \in 0 .. 3, size \in Int :
        level = ConfFileRead(lines).level_ /\ size = ConfFileRead(lines).LogFileSize_ /\ size > LimitOfSizes
  BY ConfIsLegal DEF ConfType
<1>3. lgLevel \in LogLevels
  BY <1>1, <1>2 DEF initLogLevel, TRACE, INFO, WARN, LogLevels
<1>4. lgRollSize \in Int /\ lgRollSize > kLargeBuffer
  BY <1>1, <1>2, Sizes, LoggingAssumption
<1>5. MaxNow \in Nat \ {0} /\ MaxEvents \in Nat
  BY LoggingAssumption
<1>a. 0 \in Seconds /\ NoLogZone \in LgZones
  BY <1>5 DEF Seconds, LgZones
<1>b. lgTime \in [lastSecond : Seconds, shown : Seconds, zone : LgZones]
  BY <1>a DEF LoggingInit
<1>c. lgStamp \in [second : Seconds, zone : LgZones, zoneSet : Seconds, shown : Seconds, shownZone : LgZones]
  BY <1>a DEF LoggingInit
<1>d. lgZone \in LgZones /\ lgNow \in 1 .. MaxNow /\ lgBack \in BOOLEAN /\ lgZoneSet \in Seconds
  BY <1>a DEF LoggingInit
<1>e. lgClogLevel \in LogLevels /\ lgOpen \in LogLevels \cup {NoLevel} /\ lgEvents \in 0 .. MaxEvents
  BY <1>5 DEF LoggingInit, TRACE, LogLevels
<1>6. LgTypes
  BY <1>3, <1>4, <1>b, <1>c, <1>d, <1>e DEF LgTypes
<1>7. StreamInv
  BY EmptyStreamOK DEF LoggingInit, StreamInv, EndsUnlessFull
<1>8. NumberInv
  BY DEF LoggingInit, NumberInv
<1>9. StampInv /\ ZoneInv
  BY <1>5 DEF LoggingInit, StampInv, ZoneInv, TimeIsTheLines, ZoneShowsNextSecond
<1> QED BY <1>6, <1>7, <1>8, <1>9 DEF LgInv

\* Each part of the invariant only depends on some variables.
LEMMA KeepsStream == StreamInv /\ UNCHANGED <<lgStream, lgOpen>> => StreamInv'
BY DEF StreamInv, StreamOK, Stream, EndsUnlessFull, avail

LEMMA KeepsNumber == NumberInv /\ UNCHANGED lgDigits => NumberInv'
BY DEF NumberInv

LEMMA KeepsStamp == StampInv /\ UNCHANGED <<lgTime, lgStamp>> => StampInv'
BY DEF StampInv, TimeIsTheLines

LEMMA KeepsZone == ZoneInv /\ UNCHANGED <<lgTime, lgStamp, zoneVars, clockVars>> => ZoneInv'
BY DEF ZoneInv, ZoneShowsNextSecond, zoneVars, clockVars

LEMMA CountedEvents == LgTypes /\ Counted => lgEvents' \in 0 .. MaxEvents
BY LoggingAssumption DEF LgTypes, Counted

\* Changes between lines.
LEMMA LevelsKeepLg ==
  ASSUME LgInv, ClogInit \/ \E level \in NewLevels : setLogLevel(level)
  PROVE  LgInv'
<1>1. /\ UNCHANGED <<lgRollSize, zoneVars, clockVars, lgTime, lgStream, lgOpen, lgStamp, lgDigits>>
      /\ lgLevel' \in LogLevels /\ lgClogLevel' \in LogLevels /\ Counted
  BY LoggingAssumption DEF ClogInit, setLogLevel, LgInv, LgTypes, LogLevels
<1>2. LgTypes'
  BY <1>1, CountedEvents DEF LgInv, LgTypes, zoneVars, clockVars
<1> QED BY <1>1, <1>2, KeepsStream, KeepsNumber, KeepsStamp, KeepsZone DEF LgInv

LEMMA ZoneKeepsLg ==
  ASSUME LgInv, NEW z \in LogZones, setTimeZone(z)
  PROVE  LgInv'
<1>1. /\ UNCHANGED <<levelVars, clockVars, lgTime, lgStream, lgOpen, lgStamp, lgDigits>>
      /\ lgZone' = z /\ lgZoneSet' = lgNow /\ Counted
  BY DEF setTimeZone
<1>2. LgTypes'
  BY <1>1, CountedEvents, LoggingAssumption DEF LgInv, LgTypes, levelVars, clockVars, LgZones, Seconds
<1>3. ZoneInv'
  BY <1>1 DEF LgInv, LgTypes, ZoneInv, ZoneShowsNextSecond, clockVars
<1> QED BY <1>1, <1>2, <1>3, KeepsStream, KeepsNumber, KeepsStamp DEF LgInv

LEMMA ClockKeepsLg ==
  ASSUME LgInv, ClockMoves
  PROVE  LgInv'
<1>1. /\ UNCHANGED <<levelVars, zoneVars, lgTime, lgStream, lgOpen, lgStamp, lgDigits>>
      /\ lgNow' \in 1 .. MaxNow /\ lgBack' = (lgBack \/ lgNow' < lgNow) /\ Counted
  BY DEF ClockMoves
<1>2. LgTypes'
  <2>1. lgBack' \in BOOLEAN
    BY <1>1
  <2> QED BY <1>1, <2>1, CountedEvents DEF LgInv, LgTypes, levelVars, zoneVars
<1>3. ZoneInv'
  <2>1. ~ lgBack' => ~ lgBack /\ lgNow <= lgNow'
    <3>1. lgNow \in Int /\ lgNow' \in Int
      BY <1>1, LoggingAssumption DEF LgInv, LgTypes
    <3>2. ~ lgBack' => ~ lgBack /\ ~ (lgNow' < lgNow)
      BY <1>1, Zenon
    <3> QED BY <3>1, <3>2
  <2>2. UNCHANGED <<lgTime, lgStamp, lgZone, lgZoneSet>>
    BY <1>1 DEF zoneVars
  <2>3. ZoneShowsNextSecond'
    BY <2>1, <2>2 DEF LgInv, ZoneInv, ZoneShowsNextSecond
  <2>4. PICK last \in Int, set \in Int, time \in Int, next \in Int :
          last = lgTime.lastSecond /\ set = lgZoneSet /\ time = lgNow /\ next = lgNow'
    BY <1>1, LoggingAssumption DEF LgInv, LgTypes, Seconds
  <2>5. ~ lgBack' =>
          /\ last <= next /\ set <= next
          /\ lgTime.zone # lgZone => last <= set
    BY <2>1, <2>4 DEF LgInv, ZoneInv
  <2> QED BY <2>2, <2>3, <2>4, <2>5 DEF ZoneInv
<1> QED BY <1>1, <1>2, <1>3, KeepsStream, KeepsNumber, KeepsStamp DEF LgInv

\* A line begins.
LEMMA NewLoggerKeepsLg ==
  ASSUME LgInv, NEW level \in LogLevels, NEW errno \in {0, 11}, NEW funcLen \in {4},
         NewLogger(level, errno, funcLen)
  PROVE  LgInv'
<1>1. /\ UNCHANGED <<levelVars, zoneVars, clockVars, lgDigits>> /\ Counted
      /\ lgTime' = formatTime /\ lgOpen' = level /\ lgStream' = Header(level, errno, funcLen)
      /\ lgStamp' = [second |-> lgNow, zone |-> lgZone, zoneSet |-> lgZoneSet,
                     shown |-> formatTime.shown, shownZone |-> formatTime.zone]
  BY DEF NewLogger
<1>2. /\ formatTime \in [lastSecond : Seconds, shown : Seconds, zone : LgZones]
      /\ formatTime.shown = formatTime.lastSecond /\ formatTime.lastSecond = lgNow
      /\ formatTime = lgTime \/ formatTime.zone = lgZone
  <2>1. lgNow \in Seconds /\ lgZone \in LgZones
    BY LoggingAssumption DEF LgInv, LgTypes, Seconds
  <2>2. CASE SameSecond(lgNow)
    BY <2>2 DEF formatTime, SameSecond, LgInv, LgTypes, StampInv
  <2>3. CASE ~ SameSecond(lgNow)
    <3>1. formatTime = [lastSecond |-> lgNow, shown |-> lgNow, zone |-> lgZone]
      BY <2>3 DEF formatTime
    <3> QED BY <2>1, <3>1
  <2> QED BY <2>2, <2>3
<1>3. /\ lgStamp'.second = lgNow /\ lgStamp'.zone = lgZone /\ lgStamp'.zoneSet = lgZoneSet
      /\ lgStamp'.shown = formatTime.shown /\ lgStamp'.shownZone = formatTime.zone
      /\ lgStamp' \in [second : Seconds, zone : LgZones, zoneSet : Seconds, shown : Seconds, shownZone : LgZones]
  <2>1. lgNow \in Seconds /\ lgZone \in LgZones /\ lgZoneSet \in Seconds
        /\ formatTime.shown \in Seconds /\ formatTime.zone \in LgZones
    BY <1>2, LoggingAssumption DEF LgInv, LgTypes, Seconds
  <2> QED BY <1>1, <2>1
<1>4. LgTypes'
  BY <1>1, <1>2, <1>3, CountedEvents DEF LgInv, LgTypes, levelVars, zoneVars, clockVars
<1>5. StreamInv'
  <2>1. lgOpen' # NoLevel
    BY <1>1 DEF LogLevels, NoLevel
  <2>2. StreamOK(lgStream')
    BY <1>1, HeaderOK
  <2>3. EndsUnlessFull'
    BY <2>1 DEF EndsUnlessFull
  <2> QED BY <2>2, <2>3 DEF StreamInv, StreamOK
<1>6. StampInv'
  BY <1>1, <1>2, <1>3 DEF StampInv, TimeIsTheLines
<1>7. ZoneInv'
  <2>1. UNCHANGED <<lgZone, lgZoneSet, lgNow, lgBack>>
    BY <1>1 DEF zoneVars, clockVars
  <2>2. lgNow \in Int /\ lgZoneSet \in Int
    BY LoggingAssumption DEF LgInv, LgTypes, Seconds
  <2>3. ~ lgBack => lgZoneSet <= lgNow /\ (formatTime.zone # lgZone => lgNow <= lgZoneSet)
    BY <1>2 DEF LgInv, ZoneInv
  <2>4. ZoneShowsNextSecond'
    BY <1>3, <2>1, <2>2, <2>3 DEF ZoneShowsNextSecond
  <2> QED BY <1>1, <1>2, <2>1, <2>2, <2>3, <2>4 DEF ZoneInv
<1> QED BY <1>1, <1>4, <1>5, <1>6, <1>7, KeepsNumber DEF LgInv

\* Something is inserted.
LEMMA InsertingKeeps ==
  ASSUME LgInv, Inserting, StreamOK(lgStream'), NumberInv'
  PROVE  LgInv'
<1>1. lgOpen # NoLevel /\ Counted /\ UNCHANGED <<levelVars, zoneVars, clockVars, lgTime, lgOpen, lgStamp>>
  BY DEF Inserting
<1>2. LgTypes'
  BY <1>1, CountedEvents DEF LgInv, LgTypes, levelVars, zoneVars, clockVars
<1>3. StreamInv'
  <2>1. EndsUnlessFull'
    BY <1>1 DEF EndsUnlessFull
  <2> QED BY <2>1 DEF StreamInv, StreamOK
<1> QED BY <1>1, <1>2, <1>3, KeepsStamp, KeepsZone DEF LgInv

LEMMA TextKeepsLg ==
  ASSUME LgInv, NEW len \in TextLens, InsertText(len)
  PROVE  LgInv'
<1>1. Inserting /\ lgStream' = append(lgStream, "text", len) /\ UNCHANGED lgDigits
  BY DEF InsertText
<1>2. "text" \in Pieces /\ len \in Nat
  BY LoggingAssumption DEF Pieces
<1>3. StreamOK(lgStream')
  BY <1>1, <1>2, AppendKeeps DEF LgInv, StreamInv
<1>4. NumberInv'
  BY <1>1, KeepsNumber DEF LgInv
<1> QED BY <1>1, <1>3, <1>4, InsertingKeeps

LEMMA NumberKeepsLg ==
  ASSUME LgInv, NEW v \in Numbers, InsertNumber(v)
  PROVE  LgInv'
<1>1. Inserting /\ lgStream' = formatInteger(lgStream, "number", v)
      /\ lgDigits' = [value |-> v, text |-> convert(v), base |-> 10]
  BY DEF InsertNumber
<1>2. "number" \in Pieces
  BY DEF Pieces
<1>3. Short(v) /\ v \in Int
  BY ShortNumbers DEF Short
<1>4. StreamOK(lgStream')
  BY <1>1, <1>2, <1>3, FormatIntegerKeeps DEF LgInv, StreamInv
<1>5. NumberInv'
  BY <1>1, <1>3 DEF NumberInv
<1> QED BY <1>1, <1>4, <1>5, InsertingKeeps

LEMMA PointerKeepsLg ==
  ASSUME LgInv, NEW v \in Numbers, InsertPointer(v)
  PROVE  LgInv'
<1>1. Inserting /\ v >= 0 /\ lgStream' = formatPointer(lgStream, v)
      /\ lgDigits' = [value |-> v, text |-> convertHex(v), base |-> 16]
  BY DEF InsertPointer
<1>2. Short(v) /\ v \in Int
  BY ShortNumbers DEF Short
<1>3. v \in Nat
  BY <1>1, <1>2
<1>4. StreamOK(lgStream')
  BY <1>1, <1>2, <1>3, FormatPointerKeeps DEF LgInv, StreamInv
<1>5. NumberInv'
  BY <1>1, <1>3 DEF NumberInv
<1> QED BY <1>1, <1>4, <1>5, InsertingKeeps

LEMMA DoubleKeepsLg ==
  ASSUME LgInv, InsertDouble
  PROVE  LgInv'
<1>1. Inserting /\ UNCHANGED lgDigits
  BY DEF InsertDouble
<1>2. PICK len \in {1, 19} : lgStream' = formatDouble(lgStream, len)
  BY DEF InsertDouble
<1>3. StreamOK(lgStream')
  BY <1>2, FormatDoubleKeeps DEF LgInv, StreamInv
<1>4. NumberInv'
  BY <1>1, KeepsNumber DEF LgInv
<1> QED BY <1>1, <1>3, <1>4, InsertingKeeps

\* The line ends.
LEMMA EndKeepsLg ==
  ASSUME LgInv, NEW line, Short(line), EndLogger(line)
  PROVE  LgInv'
<1>1. /\ UNCHANGED <<levelVars, zoneVars, clockVars, lgTime, lgStamp, lgDigits>>
      /\ lgStream' = finish(lgStream, line) /\ lgOpen' = NoLevel
      /\ lgEvents' \in {MaxEvents, lgEvents}
  BY SMT DEF EndLogger
<1>2. LgTypes'
  BY <1>1, LoggingAssumption DEF LgInv, LgTypes, levelVars, zoneVars, clockVars
<1>3. StreamInv'
  <2>1. StreamOK(lgStream)
    BY DEF LgInv, StreamInv
  <2>2. StreamOK(lgStream') /\ (Last(lgStream'.pieces) = "\n" \/ avail(lgStream') = 1)
    BY <1>1, <2>1, FinishOK
  <2> QED BY <2>2 DEF StreamInv, StreamOK, EndsUnlessFull, avail
<1> QED BY <1>1, <1>2, <1>3, KeepsNumber, KeepsStamp, KeepsZone DEF LgInv

LEMMA LgStep == LgInv /\ [LoggingNext]_lgVars => LgInv'
<1> SUFFICES ASSUME LgInv, [LoggingNext]_lgVars PROVE LgInv'
  OBVIOUS
<1>1. CASE UNCHANGED lgVars
  <2>1. UNCHANGED <<levelVars, zoneVars, clockVars, lgTime, lgStream, lgOpen, lgStamp, lgDigits, lgEvents>>
    BY <1>1 DEF lgVars
  <2>2. LgTypes'
    BY <2>1 DEF LgInv, LgTypes, levelVars, zoneVars, clockVars
  <2> QED BY <2>1, <2>2, KeepsStream, KeepsNumber, KeepsStamp, KeepsZone DEF LgInv
<1>2. CASE ClogInit \/ \E level \in NewLevels : setLogLevel(level)
  BY <1>2, LevelsKeepLg
<1>3. CASE \E line \in {1234} : EndLogger(line)
  <2>1. PICK line \in {1234} : EndLogger(line)
    BY <1>3
  <2>2. Short(line)
    BY <2>1, ShortNumbers, SMT
  <2> QED BY <2>1, <2>2, EndKeepsLg
<1>4. CASE \E level \in LogLevels, errno \in {0, 11}, funcLen \in {4} : NewLogger(level, errno, funcLen)
  BY <1>4, NewLoggerKeepsLg
<1>5. CASE \E v \in Numbers : InsertNumber(v) \/ InsertPointer(v)
  BY <1>5, NumberKeepsLg, PointerKeepsLg
<1>6. CASE ClockMoves \/ InsertDouble \/ (\E z \in LogZones : setTimeZone(z)) \/ (\E len \in TextLens : InsertText(len))
  BY <1>6, ClockKeepsLg, DoubleKeepsLg, ZoneKeepsLg, TextKeepsLg
<1> QED BY <1>1, <1>2, <1>3, <1>4, <1>5, <1>6 DEF LoggingNext

\* What is printed of a number reads back as that number.
LEMMA NumbersAreRight == NumberInv => NumbersReadBack
<1>1. ASSUME NEW v \in Int, lgDigits = [value |-> v, text |-> convert(v), base |-> 10]
      PROVE  NumbersReadBack
  <2>1. lgDigits.value = v /\ lgDigits.base = 10
        /\ lgDigits.text.digits = Decimal[v] /\ lgDigits.text.negative = (v < 0)
    BY <1>1, ConvertIs
  <2>2. DigitsOf(Decimal[v], Abs(v), 10) /\ Abs(v) \in Nat
    BY DecimalDigits, QuotFacts
  <2>3. ValueOf(lgDigits.text, 10) = IF v < 0 THEN - Abs(v) ELSE Abs(v)
    BY <2>1, <2>2, ValueOfIs DEF DigitsOf
  <2>4. ValueOf(lgDigits.text, 10) = v
    BY <2>3 DEF Abs
  <2>5. Decimal[v][1] = 0 => Len(Decimal[v]) = 1
    BY <2>2 DEF DigitsOf
  <2> QED BY <2>1, <2>4, <2>5 DEF NumbersReadBack
<1>2. ASSUME NEW v \in Nat, lgDigits = [value |-> v, text |-> convertHex(v), base |-> 16]
      PROVE  NumbersReadBack
  <2>1. lgDigits.value = v /\ lgDigits.base = 16
        /\ lgDigits.text.digits = Hexadecimal[v] /\ lgDigits.text.negative = FALSE
    BY <1>2, ConvertHexIs
  <2>2. DigitsOf(Hexadecimal[v], v, 16)
    BY HexadecimalDigits
  <2>3. ValueOf(lgDigits.text, 16) = v
    BY <2>1, <2>2, ValueOfIs DEF DigitsOf
  <2>4. Hexadecimal[v][1] = 0 => Len(Hexadecimal[v]) = 1
    BY <2>2 DEF DigitsOf
  <2> QED BY <2>1, <2>3, <2>4 DEF NumbersReadBack
<1> QED BY <1>1, <1>2 DEF NumberInv

LEMMA LgSafe == LgInv => LoggingInv
<1> SUFFICES ASSUME LgInv PROVE LoggingInv
  OBVIOUS
<1>1. LoggingTypeOK
  BY DEF LgInv, LgTypes, LoggingTypeOK, LgZones, Seconds, StreamInv, StreamOK, Stream
<1>2. StaysInBuffer
  BY DEF LgInv, StreamInv, StreamOK, StaysInBuffer
<1> QED BY <1>1, <1>2, NumbersAreRight DEF LgInv, StreamInv, StampInv, ZoneInv, LoggingInv

\* LogStream.cc, Logging.cc: over lines and insertions of any number and length, a line
\* stays within its buffer and has its end, numbers read back as they were, it shows its
\* own second, and a new zone from the next second on.
THEOREM LinesAreWhole == LoggingSpec => []LoggingInv
BY LgInitially, LgStep, LgSafe, PTL DEF LoggingSpec

==============================================================================
