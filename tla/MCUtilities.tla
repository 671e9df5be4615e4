------------------------------ MODULE MCUtilities ------------------------------
(***************************************************************************)
(* The small libraries that do not interact, checked side by side: part    *)
(* says which of them a behaviour uses, and the others stay as they are.   *)
(***************************************************************************)
EXTENDS SingleInstance, FileExt, OptEntry, LocalTime, Csort, Redis

VARIABLE part

vars == <<part, siVars, feVars, oeVars, ltVars, csVars, rdVars>>

Init ==
  /\ part \in {"single_instance", "file_ext", "opt_entry", "get_localtime", "csort", "redis"}
  /\ SingleInstanceInit /\ FileExtInit /\ OptEntryInit /\ LocalTimeInit /\ CsortInit /\ RedisInit

\* A step of one part, which leaves the others alone.
Step(name, A, others) == part = name /\ A /\ UNCHANGED <<part, others>>

NotLocalTime == <<siVars, feVars, oeVars, csVars, rdVars>>
NotRedis == <<siVars, feVars, oeVars, ltVars, csVars>>

Next ==
  \/ Step("single_instance", SingleInstanceNext, <<feVars, oeVars, ltVars, csVars, rdVars>>)
  \/ Step("file_ext", FileExtNext, <<siVars, oeVars, ltVars, csVars, rdVars>>)
  \/ Step("opt_entry", OptEntryNext, <<siVars, feVars, ltVars, csVars, rdVars>>)
  \/ Step("get_localtime", LocalTimeNext, NotLocalTime)
  \/ Step("csort", CsortNext, <<siVars, feVars, oeVars, ltVars, rdVars>>)
  \/ Step("redis", RedisNext, NotRedis)

\* Threads run; the updater of the time, which tries again every half second,
\* finds the lock free at one of infinitely many attempts.
Fairness ==
  /\ SF_vars(Step("get_localtime", UpdaterStep, NotLocalTime))
  /\ \A r \in Readers : WF_vars(Step("get_localtime", ReaderStep(r), NotLocalTime))
  /\ \A t \in Callers : WF_vars(Step("redis", Subscriber(t), NotRedis))
  /\ \A c \in Channels : WF_vars(Step("redis", Thread(c), NotRedis))

Spec == Init /\ [][Next]_vars
FairSpec == Spec /\ Fairness

\* What the threads of these libraries wait for comes: the present time gets into
\* get_localtime()'s structure; init_subscribe() gives mut_hash back, and every message
\* on a connection that works is handed to the callbacks.
NothingWaitsForEver == TimeArrives /\ RedisLive

-----------------------------------------------------------------------------
\* Extensions and file names over two letters in both cases.
Strs(chars, n) == UNION {[1 .. k -> chars] : k \in 0 .. n}
TheExts == {<< >>, <<"a">>, <<"A">>, <<"b", "a">>, <<"A", "b", "b">>}
TheNames == {s \o <<".">> \o e : s \in Strs({".", "a"}, 1), e \in Strs({"a", "B"}, 3)}
            \cup Strs({".", "A"}, 4)

\* Options that turn checks on, that conflict, and that end the run early.
TheCommandLine ==
  {<<"v", 0>>, <<"?", 0>>, <<"o", 0>>, <<"r", 1>>, <<"a", 1>>, <<"a", 2>>, <<"z", 1>>,
   <<"s", 1>>, <<"s", -1>>, <<"f", 1>>, <<"c", 1>>, <<"k", 1>>, <<"ip", 1>>, <<"sip", 1>>,
   <<"mac", 1>>, <<"smac", 1>>, <<"dmac", 1>>, <<"port", 65536>>, <<"port", 1>>,
   <<"sport", 65537>>}

=============================================================================
