------------------------------ MODULE MCMuduoBase ------------------------------
(***************************************************************************)
(* The parts of muduo/base below the asynchronous logger, side by side:    *)
(* part says which of them a behaviour uses, and the others stay as they   *)
(* are.                                                                    *)
(***************************************************************************)
EXTENDS LogFile, TimeZone, Logging, Threads, FileUtil

VARIABLE part

lfVars == vars
baseVars == <<part, lfVars, tzVars, lgVars, thVars, fuVars>>

BaseInit ==
  /\ part \in {"log_file", "time_zone", "logging", "threads", "file_util"}
  /\ Init /\ ThreadsInit /\ FileUtilInit
  /\ TimeZoneInit /\ (part = "time_zone" \/ tzSystem = 0)
  /\ LoggingInit /\ (part = "logging" \/ (lgLevel = INFO /\ lgNow = 1))

\* A step of one part, which leaves the others alone.
Step(name, A, others) == part = name /\ A /\ UNCHANGED <<part, others>>

NotThreads == <<lfVars, tzVars, lgVars, fuVars>>

BaseNext ==
  \/ Step("log_file", Next, <<tzVars, lgVars, thVars, fuVars>>)
  \/ Step("time_zone", TimeZoneNext, <<lfVars, lgVars, thVars, fuVars>>)
  \/ Step("logging", LoggingNext, <<lfVars, tzVars, thVars, fuVars>>)
  \/ Step("threads", ThreadsNext, NotThreads)
  \/ Step("file_util", FileUtilNext, <<lfVars, tzVars, lgVars, thVars>>)

\* Threads run; and a new thread gets the latch's mutex at one of the infinitely
\* many times an owner that wakes for nothing gives it up.
BaseSpec ==
  /\ BaseInit /\ [][BaseNext]_baseVars
  /\ WF_baseVars(Step("threads", StartGoesOn, NotThreads))
  /\ SF_baseVars(Step("threads", NewThreadStep, NotThreads))

-----------------------------------------------------------------------------
\* Local time is put back by two seconds at 5, and forward again at 7.
TheUtcOffset == [t \in 1 .. MaxTime |-> IF t \in 5 .. 6 THEN -2 ELSE 0]

\* A file that is no zone file; a zone with one type; New York's rules; a zone
\* that moved east, from its local mean time, and later west, without summer time;
\* a zone with a summer time of two hours.
EST == Localtime(-18000, FALSE, 4)
EDT == Localtime(-14400, TRUE, 0)
TheZoneFiles ==
  {File(FALSE, << >>, << >>, <<EST>>, 8),
   File(TRUE, << >>, << >>, <<EST>>, 8),
   File(TRUE, <<986108400, 1004248800, 1018162800, 1035698400>>, <<1, 0, 1, 0>>, <<EST, EDT>>, 8),
   File(TRUE, <<-1000000000, 1000000000>>, <<1, 2>>,
        <<Localtime(29143, FALSE, 0), Localtime(32400, FALSE, 4), Localtime(28800, FALSE, 8)>>, 12),
   File(TRUE, <<-812502000, -796262400>>, <<1, 0>>,
        <<Localtime(0, FALSE, 0), Localtime(7200, TRUE, 4)>>, 8)}

\* Half hours around the transitions of a zone, and around 1970.
TheInstants(data) ==
  UNION {{t + k * 1800 : k \in -6 .. 6} :
           t \in {0} \cup {data.transitions[i].gmttime : i \in DOMAIN data.transitions}}

\* Ends of days on both sides of 1970, leap days, the ends of a time_t of 32 bits.
TheUtcInstants ==
  {day * 86400 + s : day \in {-24855, -366, -365, -1, 0, 1, 58, 59, 789, 790, 11016, 24854},
                     s \in {0, 1, 3599, 3600, 43200, 86399}}

\* The turns of years and the ends of February around leap years and centuries.
TheDays ==
  UNION {LET first == getJulianDayNumber(y, 1, 1) IN (first - 2) .. (first + 61) :
           y \in {1900, 1904, 1970, 1999, 2000, 2001, 2100, 2400}}

\* No file, and files with repeated, malformed and extreme lines.
TheConfFiles ==
  {<< >>,
   <<ConfLine("LOG_LEVEL", TRUE, 3), ConfLine("FILE_SIZE", TRUE, 8000000)>>,
   <<ConfLine("other", TRUE, 1), ConfLine("LOG_LEVEL", FALSE, 2), ConfLine("FILE_SIZE", FALSE, 1)>>,
   <<ConfLine("LOG_LEVEL", TRUE, -1), ConfLine("LOG_LEVEL", TRUE, 1), ConfLine("FILE_SIZE", TRUE, 8000001)>>}
TheNumbers == {-32768, -10, 65535}
=============================================================================
