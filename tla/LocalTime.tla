------------------------------- MODULE LocalTime -------------------------------
(***************************************************************************)
(* iridiumSysLog/get_localtime: a thread keeps the broken-down time in     *)
(* iridium_tm_now, and get_localtime() copies it, or, when the lock is     *)
(* taken, the copy iridium_tm_last that the last successful call left.     *)
(*                                                                         *)
(* A struct tm is two halves, because every copy takes several stores:     *)
(* what one thread writes another may read half of.  Of each half the      *)
(* model keeps the moment of the time() it was filled from.  Moments only  *)
(* advance; what the clock showed then need not, for it may be set back.   *)
(***************************************************************************)
EXTENDS Integers

CONSTANTS
  Readers,   \* threads that call get_localtime()
  NoReader,
  Updater,   \* the thread of get_localtime_func()
  MaxMoment, \* bound on the moments
  MaxReads   \* bound on the calls of each thread

ASSUME LocalTimeAssumption ==
  /\ NoReader \notin Readers \cup {Updater} /\ Updater \notin Readers
  /\ MaxMoment \in Nat \ {0} /\ MaxReads \in Nat

VARIABLES
  moment,   \* the present, of which time(NULL) tells what the clock shows
  tmNow,    \* iridium_tm_now
  tmLast,   \* iridium_tm_last
  tmLock,   \* the owner of localtime_lock
  at,       \* where each thread is; the updater is at "none" before pthread_create()
            \* and "gone" when that failed
  tmIn,     \* each reader's *tm_in
  seen,     \* history: what each reader's last call returned
  locked,   \* history: whether that call had the lock
  reads     \* history: the calls each reader made

ltVars == <<moment, tmNow, tmLast, tmLock, at, tmIn, seen, locked, reads>>

Halves == {1, 2}
Whole(t) == [h \in Halves |-> t]

\* start_getlocaltime_thread() fills both structures, before any other thread.
\* pthread_create() may fail: then the time stands still.
LocalTimeInit ==
  /\ moment = 1
  /\ tmNow = Whole(1) /\ tmLast = Whole(1)
  /\ tmLock = NoReader
  /\ at = [x \in Readers \cup {Updater} |-> IF x = Updater THEN "none" ELSE "idle"]
  /\ tmIn = [r \in Readers |-> Whole(0)]
  /\ seen = [r \in Readers |-> Whole(0)]
  /\ locked = [r \in Readers |-> TRUE]
  /\ reads = [r \in Readers |-> 0]

Moves(x, place) == at' = [at EXCEPT ![x] = place]

CreateThread ==
  /\ at[Updater] = "none"
  /\ Moves(Updater, "try") \/ Moves(Updater, "gone")
  /\ UNCHANGED <<moment, tmNow, tmLast, tmLock, tmIn, seen, locked, reads>>

\* pthread_mutex_trylock()
LockIsFree == tmLock = NoReader

\* get_localtime_func(): when the lock is taken it just sleeps and tries again.
UpdaterTries ==
  /\ at[Updater] = "try" /\ LockIsFree
  /\ tmLock' = Updater
  /\ Moves(Updater, "store1")
  /\ UNCHANGED <<moment, tmNow, tmLast, tmIn, seen, locked, reads>>

\* time(&now) and localtime_r(), which fills the structure half by half from
\* the same reading.
UpdaterStores1 ==
  /\ at[Updater] = "store1"
  /\ tmNow' = [tmNow EXCEPT ![1] = moment]
  /\ Moves(Updater, "store2")
  /\ UNCHANGED <<moment, tmLast, tmLock, tmIn, seen, locked, reads>>

UpdaterStores2 ==
  /\ at[Updater] = "store2"
  /\ tmNow' = [tmNow EXCEPT ![2] = tmNow[1]]
  /\ Moves(Updater, "unlock")
  /\ UNCHANGED <<moment, tmLast, tmLock, tmIn, seen, locked, reads>>

\* usleep(), and the next turn of while(1).  (Mutant: there is only one turn.)
NextTurnNone == "gone"
NextTurn == "try"

UpdaterUnlocks ==
  /\ at[Updater] = "unlock"
  /\ tmLock' = NoReader
  /\ Moves(Updater, NextTurn)
  /\ UNCHANGED <<moment, tmNow, tmLast, tmIn, seen, locked, reads>>

\* get_localtime(): memset() of *tm_in, then trylock.
ReaderTries(r) ==
  /\ at[r] = "idle" /\ reads[r] < MaxReads
  /\ reads' = [reads EXCEPT ![r] = @ + 1]
  /\ tmIn' = [tmIn EXCEPT ![r] = Whole(0)]
  /\ \/ LockIsFree /\ tmLock' = r /\ Moves(r, "now1")
     \/ ~ LockIsFree /\ Moves(r, "last1") /\ UNCHANGED tmLock
  /\ UNCHANGED <<moment, tmNow, tmLast, seen, locked>>

\* One half of a memcpy() into *tm_in.
Copies(r, h, from, place) ==
  /\ tmIn' = [tmIn EXCEPT ![r][h] = from[h]]
  /\ Moves(r, place)
  /\ UNCHANGED <<moment, tmNow, tmLast, tmLock, seen, locked, reads>>

CopyNow(r) ==
  \/ at[r] = "now1" /\ Copies(r, 1, tmNow, "now2")
  \/ at[r] = "now2" /\ Copies(r, 2, tmNow, "keep1")

\* memcpy(&iridium_tm_last, &iridium_tm_now), under the lock.
\* (Mutants: the copy has the size of a pointer; there is none.)
KeptHalf(h) == IF h = 1 THEN tmNow[h] ELSE tmLast[h]
KeptNot(h) == tmLast[h]
Kept(h) == tmNow[h]

KeepLast(r) ==
  /\ \/ at[r] = "keep1" /\ tmLast' = [tmLast EXCEPT ![1] = Kept(1)] /\ Moves(r, "keep2")
     \/ at[r] = "keep2" /\ tmLast' = [tmLast EXCEPT ![2] = Kept(2)] /\ Moves(r, "unlock")
  /\ UNCHANGED <<moment, tmNow, tmLock, tmIn, seen, locked, reads>>

ReaderUnlocks(r) ==
  /\ at[r] = "unlock"
  /\ tmLock' = NoReader
  /\ seen' = [seen EXCEPT ![r] = tmIn[r]] /\ locked' = [locked EXCEPT ![r] = TRUE]
  /\ Moves(r, "idle")
  /\ UNCHANGED <<moment, tmNow, tmLast, tmIn, reads>>

\* The lock was taken: memcpy() of iridium_tm_last, without it.
CopyLast(r) ==
  \/ at[r] = "last1" /\ Copies(r, 1, tmLast, "last2")
  \/ at[r] = "last2" /\ Copies(r, 2, tmLast, "return")

ReturnsLast(r) ==
  /\ at[r] = "return"
  /\ seen' = [seen EXCEPT ![r] = tmIn[r]] /\ locked' = [locked EXCEPT ![r] = FALSE]
  /\ Moves(r, "idle")
  /\ UNCHANGED <<moment, tmNow, tmLast, tmLock, tmIn, reads>>

TimePasses ==
  /\ moment < MaxMoment
  /\ moment' = moment + 1
  /\ UNCHANGED <<tmNow, tmLast, tmLock, at, tmIn, seen, locked, reads>>

UpdaterStep == UpdaterTries \/ UpdaterStores1 \/ UpdaterStores2 \/ UpdaterUnlocks
ReaderStep(r) ==
  CopyNow(r) \/ KeepLast(r) \/ ReaderUnlocks(r) \/ CopyLast(r) \/ ReturnsLast(r)

LocalTimeNext ==
  \/ CreateThread \/ UpdaterStep \/ TimePasses
  \/ \E r \in Readers : ReaderTries(r) \/ ReaderStep(r)

LocalTimeSpec == LocalTimeInit /\ [][LocalTimeNext]_ltVars

-----------------------------------------------------------------------------
\* The types; the lock's owner is the thread between its trylock and its unlock.
LocalTimeTypeOK ==
  /\ moment \in 1 .. MaxMoment
  /\ tmNow \in [Halves -> 1 .. MaxMoment] /\ tmLast \in [Halves -> 1 .. MaxMoment]
  /\ tmLock \in Readers \cup {Updater, NoReader}
  /\ \A x \in Readers \cup {Updater} :
       tmLock = x <=> at[x] \in {"store1", "store2", "now1", "now2", "keep1", "keep2", "unlock"}
  /\ \A r \in Readers : at[r] \in {"idle", "now1", "now2", "keep1", "keep2", "unlock",
                                   "last1", "last2", "return"}
  /\ at[Updater] \in {"none", "gone", "try", "store1", "store2", "unlock"}
  /\ tmIn \in [Readers -> [Halves -> 0 .. MaxMoment]]
  /\ seen \in [Readers -> [Halves -> 0 .. MaxMoment]]
  /\ locked \in [Readers -> BOOLEAN] /\ reads \in [Readers -> 0 .. MaxReads]

\* A call that had the lock returns one reading, never halves of two; and it
\* leaves iridium_tm_last, which others read without the lock, in one piece
\* whenever nobody has the lock.
WholeUnderLock ==
  /\ \A r \in Readers : locked[r] => seen[r][1] = seen[r][2]
  /\ tmLock = NoReader => tmLast[1] = tmLast[2] /\ tmNow[1] = tmNow[2]

\* No thread gets an older reading than before, although calls that find the lock
\* taken answer from an older structure that another thread may be writing: every
\* field they return was read from the clock no earlier than the one the thread's
\* previous call returned.  So a thread sees the time go back only when the clock
\* itself was set back.
NoOlderReading ==
  [][\A r \in Readers : \A h \in Halves : seen'[r][h] >= seen[r][h]]_ltVars

\* get_localtime.c:53, "if we can't update the time for limited times, it's ok":
\* once the thread runs, the present time, or a later one, gets into iridium_tm_now.
TimeArrives ==
  \A t \in 1 .. MaxMoment :
    moment = t /\ at[Updater] \notin {"none", "gone"} ~> tmNow[1] >= t

\* What the lock protects is consistent, in whatever order threads try it.
LocalTimeInv == LocalTimeTypeOK /\ WholeUnderLock
=============================================================================
