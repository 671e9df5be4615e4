-------------------------------- MODULE Threads --------------------------------
(***************************************************************************)
(* muduo/base Thread, with the CountDownLatch, MutexLock and Condition it  *)
(* is made of: the new thread stores its id into the Thread object and     *)
(* opens the latch there, for which start() waits.  The owner may destroy  *)
(* the object, running thread or not, as soon as start() has returned.     *)
(***************************************************************************)
EXTENDS Integers

CONSTANT MaxThreads \* bound on the Thread objects made one after the other

ASSUME ThreadsAssumption == MaxThreads \in Nat

VARIABLES
  thObject,   \* the Thread object: whether it exists, started_, joined_, tid_, and latch_.count_
  thLatch,    \* who has latch_.mutex_: "none", "owner" or "thread"
  thHolder,   \* its holder_
  thOwner,    \* where the owner is
  thSignal,   \* whether the owner's wait was signalled
  thNew,      \* where the new thread is
  thReleased, \* whether the system's thread was joined or detached
  thProcess,  \* "running", "aborted", or "undefined" after an access to a destroyed object
  thMade      \* history: the objects made

thVars == <<thObject, thLatch, thHolder, thOwner, thSignal, thNew, thReleased, thProcess, thMade>>

NoObject == [exists |-> FALSE, started |-> FALSE, joined |-> FALSE, tid |-> 0, count |-> 0]
NewTid == 2 \* gettid() of the new thread
OwnerTid == 1

ThreadsInit ==
  /\ thObject = NoObject /\ thLatch = "none" /\ thHolder = 0
  /\ thOwner = "idle" /\ thSignal = FALSE /\ thNew = "none" /\ thReleased = TRUE
  /\ thProcess = "running" /\ thMade = 0

Running == thProcess = "running"

-----------------------------------------------------------------------------
(* The owner *)

\* Another object only when the former thread, if any, has ended: one is enough.
MakeThread ==
  /\ Running /\ thOwner = "idle" /\ ~ thObject.exists /\ thMade < MaxThreads
  /\ thNew \in {"none", "ended"} /\ thNew' = "none"
  /\ thObject' = [NoObject EXCEPT !.exists = TRUE, !.count = 1]
  /\ thMade' = thMade + 1 /\ thLatch' = "none" /\ thHolder' = 0
  /\ UNCHANGED <<thOwner, thSignal, thReleased, thProcess>>

\* Thread::start(): latch_.wait() when pthread_create() has succeeded; after a
\* failure LOG_SYSFATAL aborts.  That a thread is started once and joined once is
\* what the owner must see to (an assert of Debug builds); AsyncLogging has an
\* owner that starts a Thread twice.
StartThread ==
  /\ Running /\ thOwner = "idle" /\ thObject.exists /\ ~ thObject.started
  /\ \/ /\ thObject' = [thObject EXCEPT !.started = TRUE]
        /\ thNew' = "begins" /\ thReleased' = FALSE
        /\ thOwner' = "wait"
        /\ UNCHANGED thProcess
     \/ thProcess' = "aborted" /\ UNCHANGED <<thObject, thNew, thReleased, thOwner>>
  /\ UNCHANGED <<thLatch, thHolder, thSignal, thMade>>

\* MutexLock::lock()
OwnerLocks(from, to) ==
  /\ Running /\ thOwner = from /\ thLatch = "none"
  /\ thLatch' = "owner" /\ thHolder' = OwnerTid
  /\ thOwner' = to
  /\ UNCHANGED <<thObject, thNew, thReleased, thProcess, thMade>>

\* The lock in CountDownLatch::wait().
\* (Mutant: a count that is 0 already is believed without it.)
LatchWaitPeeks ==
  \/ OwnerLocks("wait", "test") /\ UNCHANGED thSignal
  \/ /\ Running /\ thOwner = "wait" /\ thObject.count = 0
     /\ thOwner' = "idle"
     /\ UNCHANGED <<thObject, thLatch, thHolder, thSignal, thNew, thReleased, thProcess, thMade>>
LatchWaitLocks == OwnerLocks("wait", "test") /\ UNCHANGED thSignal

\* while (count_ > 0) condition_.wait(): the mutex is given up, with its holder_,
\* until the wait was signalled, or for no reason.
LatchTests ==
  /\ Running /\ thOwner = "test"
  /\ \/ thObject.count > 0 /\ thOwner' = "asleep"
     \/ thObject.count = 0 /\ thOwner' = "idle"
  /\ thLatch' = "none" /\ thHolder' = 0 /\ thSignal' = FALSE
  /\ UNCHANGED <<thObject, thNew, thReleased, thProcess, thMade>>

LatchWakes == thSignal /\ OwnerLocks("asleep", "test") /\ thSignal' = FALSE
LatchWakesForNothing == ~ thSignal /\ OwnerLocks("asleep", "test") /\ UNCHANGED thSignal

\* Thread::join(), called once: joined_ is set before pthread_join() waits.
JoinCalls ==
  /\ Running /\ thOwner = "idle" /\ thObject.exists /\ thObject.started /\ ~ thObject.joined
  /\ thObject' = [thObject EXCEPT !.joined = TRUE]
  /\ thOwner' = "joining"
  /\ UNCHANGED <<thLatch, thHolder, thSignal, thNew, thReleased, thProcess, thMade>>

JoinReturns ==
  /\ Running /\ thOwner = "joining" /\ thNew = "ended"
  /\ thReleased' = TRUE /\ thOwner' = "idle"
  /\ UNCHANGED <<thObject, thLatch, thHolder, thSignal, thNew, thProcess, thMade>>

MustDetach(o) == o.started /\ ~ o.joined

\* Thread::~Thread(), and of the mutex in its latch: destroying it while it is
\* held is undefined.
DestroyThread ==
  /\ Running /\ thOwner = "idle" /\ thObject.exists
  /\ thObject' = NoObject
  /\ thReleased' = (thReleased \/ MustDetach(thObject))
  /\ thProcess' = IF thLatch = "none" THEN thProcess ELSE "undefined"
  /\ UNCHANGED <<thLatch, thHolder, thOwner, thSignal, thNew, thMade>>

-----------------------------------------------------------------------------
(* The new thread, runInThread() *)

\* An access through tid_ or latch_ of ThreadData.
Touches == thProcess' = IF thObject.exists THEN thProcess ELSE "undefined"

StoresTid ==
  /\ Running /\ thNew = "begins"
  /\ Touches
  /\ thObject' = [thObject EXCEPT !.tid = NewTid]
  /\ thNew' = "countDown"
  /\ UNCHANGED <<thLatch, thHolder, thOwner, thSignal, thReleased, thMade>>

CountDownLocks ==
  /\ Running /\ thNew = "countDown" /\ thLatch = "none"
  /\ Touches
  /\ thLatch' = "thread" /\ thHolder' = NewTid
  /\ thNew' = "counting"
  /\ UNCHANGED <<thObject, thOwner, thSignal, thReleased, thMade>>

\* notifyAll() when the count is 0.  (Mutant: when it was 0 before.)
OpensTooLate(count) == count - 1 < 0
Opens(count) == count - 1 = 0

CountsDown ==
  /\ Running /\ thNew = "counting"
  /\ Touches
  /\ thObject' = [thObject EXCEPT !.count = @ - 1]
  /\ thSignal' = (thSignal \/ (Opens(thObject.count) /\ thOwner = "asleep"))
  /\ thNew' = "unlocking"
  /\ UNCHANGED <<thLatch, thHolder, thOwner, thReleased, thMade>>

\* MutexLock::unlock(): holder_ first.
CountDownUnassigns ==
  /\ Running /\ thNew = "unlocking"
  /\ Touches
  /\ thHolder' = 0
  /\ thNew' = "unlock"
  /\ UNCHANGED <<thObject, thLatch, thOwner, thSignal, thReleased, thMade>>

CountDownUnlocks ==
  /\ Running /\ thNew = "unlock"
  /\ Touches
  /\ thLatch' = "none" /\ thHolder' = 0
  /\ thNew' = "func"
  /\ UNCHANGED <<thObject, thOwner, thSignal, thReleased, thMade>>

\* func_(): returns, or throws, and then the process aborts in each of the handlers.
FuncReturns ==
  /\ Running /\ thNew = "func"
  /\ thNew' = "ended"
  /\ UNCHANGED <<thObject, thLatch, thHolder, thOwner, thSignal, thReleased, thProcess, thMade>>

FuncThrows ==
  /\ Running /\ thNew = "func"
  /\ thProcess' = "aborted"
  /\ UNCHANGED <<thObject, thLatch, thHolder, thOwner, thSignal, thNew, thReleased, thMade>>

StartGoesOn == LatchWaitLocks \/ LatchTests \/ LatchWakes
NewThreadStep == StoresTid \/ CountDownLocks \/ CountsDown \/ CountDownUnassigns \/ CountDownUnlocks

ThreadsNext ==
  \/ MakeThread \/ StartThread \/ StartGoesOn \/ LatchWakesForNothing
  \/ JoinCalls \/ JoinReturns \/ DestroyThread
  \/ NewThreadStep \/ FuncReturns \/ FuncThrows

ThreadsSpec == ThreadsInit /\ [][ThreadsNext]_thVars

-----------------------------------------------------------------------------
\* The types; holder_ is the thread that has the mutex, or 0 around the moments it
\* is taken and given up, and never a thread that does not have it.
ThreadsTypeOK ==
  /\ thOwner \in {"idle", "wait", "test", "asleep", "joining"}
  /\ thNew \in {"none", "begins", "countDown", "counting", "unlocking", "unlock", "func", "ended"}
  /\ thProcess \in {"running", "aborted", "undefined"}
  /\ thObject.count \in -1 .. 1 /\ thMade \in 0 .. MaxThreads
  /\ {thObject.exists, thObject.started, thObject.joined, thSignal, thReleased} \subseteq BOOLEAN
  /\ thHolder = OwnerTid => thLatch = "owner"
  /\ thHolder = NewTid => thLatch = "thread"

\* An owner that drops the Thread object right after start() takes nothing away
\* from the thread: all accesses of runInThread() to the object, down to the unlock
\* in countDown(), happen before start() returns.
ObjectOutlivesLatch == thProcess # "undefined"

\* Thread.cc:218, assert(tid_ > 0): whoever is back from start() knows the thread's id.
TidKnownAfterStart ==
  thOwner \in {"idle", "joining"} /\ thObject.started => thObject.tid = NewTid

\* Every thread that was created is joined or detached by the time its object is gone.
NoThreadLeaks == ~ thObject.exists => thReleased

\* start() returns: the wakeup cannot be lost between the test of the count and the wait.
ThreadStartReturns == thOwner = "wait" ~> thOwner = "idle" \/ ~ Running

\* Start, join and destruction in any order: the object may go when start() is back,
\* its id is known, and no thread is left unreleased.
ThreadsInv == ThreadsTypeOK /\ ObjectOutlivesLatch /\ TidKnownAfterStart /\ NoThreadLeaks
=============================================================================
