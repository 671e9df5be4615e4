---------------------------- MODULE AsyncLogging ----------------------------
(***************************************************************************)
(* The double-buffered asynchronous logger of muduo-clog                   *)
(* (src/src/log/muduo-clog/muduo/base/AsyncLogging.{h,cc}), driven the way *)
(* clog/muduo_clog.cc drives it: application threads call append() through *)
(* Logger::~Logger, one control thread calls start() in muduo_clog_init()  *)
(* and stop() in the destructor of the static AsyncLogging object, and a   *)
(* back-end thread runs threadFunc().                                      *)
(*                                                                         *)
(* A second muduo_clog_init() starts the same object again.  The default   *)
(* build is Release (-DNDEBUG), so the assert in Thread::start() does not  *)
(* stop it and a second back-end thread runs on the same front-end         *)
(* buffers, with a LogFile of its own: Backends is a set of threads.       *)
(*                                                                         *)
(* append() runs under mutex_ from beginning to end, so it is one action   *)
(* whichever thread calls it.  threadFunc() gives up mutex_ only inside    *)
(* waitForSeconds(), so its critical section is one action, or two when it *)
(* waits.  A log line is the number of the append() that delivered it,     *)
(* which is the order in which the callers held mutex_.                    *)
(***************************************************************************)
EXTENDS Integers, Sequences

CONSTANTS
  Backends,     \* threads that run threadFunc(), one per call of start()
  NoThread,     \* pthreadId_ before the first start()
  Null,         \* an empty BufferPtr
  Capacity,     \* kLargeBuffer: the bytes a Buffer can hold
  Lens,         \* the lengths a log line may have
  MaxBuffers,   \* 25: above this many buffers threadFunc() drops
  MaxAppends    \* bound on the number of log lines

VARIABLES
  \* ---- the object
  running,         \* running_
  latch,           \* latch_.count_
  currentBuffer,   \* currentBuffer_
  nextBuffer,      \* nextBuffer_, or Null
  buffers,         \* buffers_
  \* ---- the thread that calls start() and stop()
  caller,          \* where it is
  lastStarted,     \* pthreadId_: the thread that stop() joins
  \* ---- threadFunc(), per back-end thread
  pc,
  newBuffer1,
  newBuffer2,
  buffersToWrite,
  next,            \* i + 1 of the for loop that writes the buffers
  output,          \* what was appended to its LogFile
  durable,         \* how many entries of output have left stdio's buffer
  \* ---- the process
  alive,           \* FALSE after abort()
  appended,        \* history: number of append() calls so far
  dropped          \* history: lines in the buffers erased at overload

frontVars == <<currentBuffer, nextBuffer, buffers>>
objVars   == <<running, latch, frontVars>>
callVars  == <<caller, lastStarted>>
spareVars == <<newBuffer1, newBuffer2>>
writeVars == <<buffersToWrite, next, output, durable>>
histVars  == <<alive, appended, dropped>>
vars      == <<objVars, callVars, pc, spareVars, writeVars, histVars>>

-----------------------------------------------------------------------------
(***************************************************************************)
(* Buffers.                                                                *)
(***************************************************************************)

\* A Buffer is a FixedBuffer<kLargeBuffer>: the lines in it and its length().
Buffer == [msgs : Seq(Nat), length : Nat]

EmptyBuffer == [msgs |-> << >>, length |-> 0]

(***************************************************************************)
(* A line is assembled in a LogStream of kSmallBuffer bytes, far below     *)
(* kLargeBuffer, so a line always fits in an empty Buffer.                 *)
(***************************************************************************)
ASSUME ConstantsAssumption ==
  /\ Capacity \in Nat
  /\ Lens \subseteq 1 .. (Capacity - 1)
  /\ MaxBuffers \in Nat /\ MaxBuffers >= 2
  /\ MaxAppends \in Nat
  /\ NoThread \notin Backends
  /\ Null \notin Buffer

BufferPtr == Buffer \cup {Null}

\* FixedBuffer::append(): a line that does not fit is not stored at all.
Avail(buf) == Capacity - buf.length

FixedAppend(buf, m, len) ==
  IF Avail(buf) > len
  THEN [msgs |-> Append(buf.msgs, m), length |-> buf.length + len]
  ELSE buf

\* The line "Dropped log messages at ..." that threadFunc() itself writes.
Notice == 0

\* The lines in a buffer, and in a sequence of buffers from position i on.
Lines(buf) == { buf.msgs[n] : n \in DOMAIN buf.msgs }

LinesFrom(bufs, i) == UNION { Lines(bufs[k]) : k \in i .. Len(bufs) }

\* buffers_.push_back(currentBuffer_.release()) before the swap.
\* (Mutants: the current buffer overtakes the full ones; or is forgotten.)
TakenOvertaking(bufs, cur) == <<cur>> \o bufs
TakenForgetting(bufs, cur) == IF bufs = << >> THEN <<cur>> ELSE bufs
Taken(bufs, cur) == Append(bufs, cur)

\* if (size() > 2) resize(2): the buffers left to refill the spares from.
\* (Mutant: resize(1).)
KeptTooFew(n) == IF n > 1 THEN 1 ELSE n
Kept(n) == IF n > 2 THEN 2 ELSE n

-----------------------------------------------------------------------------
Init ==
  /\ running = FALSE
  /\ latch = 1
  /\ currentBuffer = EmptyBuffer
  /\ nextBuffer = EmptyBuffer
  /\ buffers = << >>
  /\ caller = "new"
  /\ lastStarted = NoThread
  /\ pc = [b \in Backends |-> "none"]
  /\ newBuffer1 = [b \in Backends |-> Null]
  /\ newBuffer2 = [b \in Backends |-> Null]
  /\ buffersToWrite = [b \in Backends |-> << >>]
  /\ next = [b \in Backends |-> 1]
  /\ output = [b \in Backends |-> << >>]
  /\ durable = [b \in Backends |-> 0]
  /\ alive = TRUE
  /\ appended = 0
  /\ dropped = {}

-----------------------------------------------------------------------------
(***************************************************************************)
(* The front end.                                                          *)
(***************************************************************************)

\* cond_.notify(): pthread_cond_signal wakes one of the waiting back ends,
\* if there is one.
NotifyOne ==
  \/ /\ \A b \in Backends : pc[b] # "wait"
     /\ UNCHANGED pc
  \/ \E b \in Backends :
       /\ pc[b] = "wait"
       /\ pc' = [pc EXCEPT ![b] = "woken"]

\* append(): room in the current buffer ...
AppendInPlace(len) ==
  /\ Avail(currentBuffer) > len
  /\ currentBuffer' = FixedAppend(currentBuffer, appended + 1, len)
  /\ UNCHANGED <<nextBuffer, buffers, pc>>

\* ... or none: the current buffer goes to the back end, and the spare one,
\* or a new one, takes its place.
AppendSwitch(len) ==
  /\ ~ (Avail(currentBuffer) > len)
  /\ buffers' = Append(buffers, currentBuffer)
  /\ LET fresh == IF nextBuffer # Null THEN nextBuffer ELSE EmptyBuffer
     IN  currentBuffer' = FixedAppend(fresh, appended + 1, len)
  /\ nextBuffer' = Null
  /\ NotifyOne

\* asyncOutput() reaches the object once muduo_clog_init() has installed it,
\* and until the static object is destroyed.
Installed == caller \in {"ready", "restarting", "stopping", "joining"}

Line(len) ==
  /\ alive /\ Installed /\ appended < MaxAppends
  /\ AppendInPlace(len) \/ AppendSwitch(len)
  /\ appended' = appended + 1
  /\ UNCHANGED <<latch, callVars, spareVars, writeVars, dropped>>

\* A log call of any level but FATAL.
LogLine(len) == Line(len) /\ UNCHANGED <<running, alive>>

\* A FATAL log call: ~Logger appends the line, g_flush() flushes stdout (the
\* default FlushFunc, never replaced by muduo_clog) and abort() ends the process.
LogFatal(len) == Line(len) /\ alive' = FALSE /\ UNCHANGED running

-----------------------------------------------------------------------------
(***************************************************************************)
(* start() and stop().                                                     *)
(***************************************************************************)

\* running_ = true; thread_.start()
Start(b) ==
  /\ alive
  /\ caller \in {"new", "ready"}
  /\ pc[b] = "none"
  /\ running' = TRUE
  /\ pc' = [pc EXCEPT ![b] = "start"]
  /\ lastStarted' = b
  /\ caller' = IF caller = "new" THEN "starting" ELSE "restarting"
  /\ UNCHANGED <<latch, frontVars, spareVars, writeVars, histVars>>

\* pthread_create() fails in Thread::start(): LOG_SYSFATAL aborts, its line going
\* to stdout before the first start() is done, and like any other line after it.
FirstStartFails ==
  /\ alive
  /\ caller = "new"
  /\ running' = TRUE /\ alive' = FALSE
  /\ UNCHANGED <<latch, frontVars, callVars, pc, spareVars, writeVars, appended, dropped>>

StartFails(len) ==
  /\ caller = "ready"
  /\ running' = TRUE /\ alive' = FALSE
  /\ Line(len)

\* latch_.wait() returns; muduo_clog_init() then installs asyncOutput().
StartReturns ==
  /\ alive
  /\ caller \in {"starting", "restarting"}
  /\ ~ (latch > 0)
  /\ caller' = "ready"
  /\ UNCHANGED <<objVars, lastStarted, pc, spareVars, writeVars, histVars>>

\* ~AsyncLogging() calls stop() if running_: first running_ = false, without
\* mutex_ ...
StopClearsRunning ==
  /\ alive
  /\ caller = "ready" /\ running
  /\ running' = FALSE
  /\ caller' = "stopping"
  /\ UNCHANGED <<latch, frontVars, lastStarted, pc, spareVars, writeVars, histVars>>

\* ... then cond_.notify(), also without mutex_ ...
StopNotifies ==
  /\ alive
  /\ caller = "stopping"
  /\ NotifyOne
  /\ caller' = "joining"
  /\ UNCHANGED <<objVars, lastStarted, spareVars, writeVars, histVars>>

\* ... then thread_.join(), of the thread started last.
StopJoins ==
  /\ alive
  /\ caller = "joining"
  /\ pc[lastStarted] = "done"
  /\ caller' = "stopped"
  /\ UNCHANGED <<objVars, lastStarted, pc, spareVars, writeVars, histVars>>

-----------------------------------------------------------------------------
(***************************************************************************)
(* threadFunc().  A back end stops where it is when the process aborts, or *)
(* exits after stop() has returned.                                        *)
(***************************************************************************)
Goto(b, from, to) ==
  /\ alive /\ caller # "stopped"
  /\ pc[b] = from
  /\ pc' = [pc EXCEPT ![b] = to]

\* latch_.countDown(), the LogFile, and the two spare buffers.
ThreadBegins(b) ==
  /\ Goto(b, "start", "loop")
  /\ latch' = latch - 1
  /\ newBuffer1' = [newBuffer1 EXCEPT ![b] = EmptyBuffer]
  /\ newBuffer2' = [newBuffer2 EXCEPT ![b] = EmptyBuffer]
  /\ UNCHANGED <<running, frontVars, callVars, writeVars, histVars>>

\* output.flush()
Flush(b) == durable' = [durable EXCEPT ![b] = Len(output[b])]

\* while (running_), read without mutex_; flush once more after the loop.
LoopContinues(b) ==
  /\ running /\ Goto(b, "loop", "lock")
  /\ UNCHANGED <<objVars, callVars, spareVars, writeVars, histVars>>

LoopEnds(b) ==
  /\ ~ running /\ Goto(b, "loop", "done")
  /\ Flush(b)
  /\ UNCHANGED <<objVars, callVars, spareVars, buffersToWrite, next, output, histVars>>

\* if (buffers_.empty()) waitForSeconds(flushInterval_): an if, not a while.
WaitsForLines(b) ==
  /\ buffers = << >> /\ Goto(b, "lock", "wait")
  /\ UNCHANGED <<objVars, callVars, spareVars, writeVars, histVars>>

\* flushInterval_ seconds have passed.  (Mutant: wait() without a time limit.)
WaitWithoutTimeout(b) == FALSE /\ UNCHANGED vars
WaitTimesOut(b) ==
  /\ Goto(b, "wait", "woken")
  /\ UNCHANGED <<objVars, callVars, spareVars, writeVars, histVars>>

\* The rest of the critical section: take every buffer, hand over the spares.
SwapsBuffers(b) ==
  /\ Goto(b, "woken", "swapped") \/ (buffers # << >> /\ Goto(b, "lock", "swapped"))
  /\ buffersToWrite' = [buffersToWrite EXCEPT ![b] = Taken(buffers, currentBuffer)]
  /\ buffers' = << >>
  /\ currentBuffer' = newBuffer1[b]
  /\ newBuffer1' = [newBuffer1 EXCEPT ![b] = Null]
  /\ IF nextBuffer = Null
     THEN /\ nextBuffer' = newBuffer2[b]
          /\ newBuffer2' = [newBuffer2 EXCEPT ![b] = Null]
     ELSE UNCHANGED <<nextBuffer, newBuffer2>>
  /\ next' = [next EXCEPT ![b] = 1]
  /\ UNCHANGED <<running, latch, callVars, output, durable, histVars>>

\* Overload: a notice is written and all but the two oldest buffers erased.
DropsExcess(b) ==
  /\ Goto(b, "swapped", "write")
  /\ IF Len(buffersToWrite[b]) > MaxBuffers
     THEN /\ output' = [output EXCEPT ![b] = Append(@, Notice)]
          /\ dropped' = dropped \cup LinesFrom(buffersToWrite[b], 3)
          /\ buffersToWrite' = [buffersToWrite EXCEPT ![b] = SubSeq(@, 1, 2)]
     ELSE UNCHANGED <<output, dropped, buffersToWrite>>
  /\ UNCHANGED <<objVars, callVars, spareVars, next, durable, alive, appended>>

\* One turn of the for loop: output.append() of one buffer.
WritesBuffer(b) ==
  /\ next[b] <= Len(buffersToWrite[b]) /\ Goto(b, "write", "write")
  /\ output' = [output EXCEPT ![b] = @ \o buffersToWrite[b][next[b]].msgs]
  /\ next' = [next EXCEPT ![b] = @ + 1]
  /\ UNCHANGED <<objVars, callVars, spareVars, buffersToWrite, durable, histVars>>

\* After the for loop: refill the spares by pop_back() and reset(), clear the
\* rest, flush.  pop_back() of an empty vector would yield no buffer.
\* (Mutant: a moved-from spare is not refilled.)
RefilledNever(ptr, available) == ptr
Refilled(ptr, available) ==
  IF ptr = Null /\ available > 0 THEN EmptyBuffer ELSE ptr

Recycles(b) ==
  LET kept == Kept(Len(buffersToWrite[b]))
      left == IF newBuffer1[b] = Null THEN kept - 1 ELSE kept
  IN  /\ next[b] > Len(buffersToWrite[b]) /\ Goto(b, "write", "loop")
      /\ newBuffer1' = [newBuffer1 EXCEPT ![b] = Refilled(@, kept)]
      /\ newBuffer2' = [newBuffer2 EXCEPT ![b] = Refilled(@, left)]
      /\ buffersToWrite' = [buffersToWrite EXCEPT ![b] = << >>]
      /\ Flush(b)
      /\ UNCHANGED <<objVars, callVars, next, output, histVars>>

-----------------------------------------------------------------------------
Control == StartReturns \/ StopClearsRunning \/ StopNotifies \/ StopJoins

Thread(b) ==
  \/ ThreadBegins(b)
  \/ LoopContinues(b)
  \/ LoopEnds(b)
  \/ WaitsForLines(b)
  \/ WaitTimesOut(b)
  \/ SwapsBuffers(b)
  \/ DropsExcess(b)
  \/ WritesBuffer(b)
  \/ Recycles(b)

Next ==
  \/ \E len \in Lens : LogLine(len)
  \/ \E len \in Lens : LogFatal(len)
  \/ \E b \in Backends : Start(b)
  \/ \E len \in Lens : StartFails(len)
  \/ FirstStartFails
  \/ Control
  \/ \E b \in Backends : Thread(b)

Spec == Init /\ [][Next]_vars

(***************************************************************************)
(* A back end that is not blocked is scheduled, a timed wait ends, and     *)
(* mutex_ is held by the front end only for one append() at a time.  The   *)
(* control thread runs once it is in start() or stop().  Nothing obliges   *)
(* the application to log, to start() or to stop().                        *)
(***************************************************************************)
Fairness ==
  /\ \A b \in Backends : WF_vars(Thread(b))
  /\ WF_vars(StartReturns) /\ WF_vars(StopNotifies) /\ WF_vars(StopJoins)

FairSpec == Spec /\ Fairness

-----------------------------------------------------------------------------
(***************************************************************************)
(* Properties.                                                             *)
(***************************************************************************)

\* The types; in particular currentBuffer_ always points to a buffer.
TypeOK ==
  /\ running \in BOOLEAN
  /\ latch \in Int
  /\ currentBuffer \in Buffer
  /\ nextBuffer \in BufferPtr
  /\ buffers \in Seq(Buffer)
  /\ caller \in {"new", "starting", "ready", "restarting", "stopping", "joining",
                "stopped"}
  /\ lastStarted \in Backends \cup {NoThread}
  /\ pc \in [Backends -> {"none", "start", "loop", "lock", "wait", "woken",
                          "swapped", "write", "done"}]
  /\ newBuffer1 \in [Backends -> BufferPtr]
  /\ newBuffer2 \in [Backends -> BufferPtr]
  /\ buffersToWrite \in [Backends -> Seq(Buffer)]
  /\ next \in [Backends -> Nat \ {0}]
  /\ output \in [Backends -> Seq(Nat)]
  /\ durable \in [Backends -> Nat]
  /\ alive \in BOOLEAN
  /\ appended \in 0 .. MaxAppends
  /\ dropped \in SUBSET Nat

\* The asserts of threadFunc(), which the Release build leaves out: the spares
\* are there and empty at the head of the loop and nothing is left to write
\* (AsyncLogging.cc:66-68), the swap yields a buffer (85), and when a spare is
\* missing there is a buffer to take it from (112, 119).  A failure would make
\* the next append() or swap dereference an empty pointer.  The first assert,
\* running_ == true (55), holds for the first back end only: the latch is open
\* when the object is started again, start() returns at once, and stop() may clear
\* running_ before the second back end begins.
AssertsHold ==
  \A b \in Backends :
    /\ pc[b] = "start" /\ ~ running => \E c \in Backends : pc[c] \notin {"none", "start"}
    /\ pc[b] \in {"loop", "lock", "wait", "woken"} =>
         /\ newBuffer1[b] = EmptyBuffer /\ newBuffer2[b] = EmptyBuffer
         /\ buffersToWrite[b] = << >>
    /\ pc[b] \in {"swapped", "write"} =>
         /\ newBuffer1[b] = Null => Kept(Len(buffersToWrite[b])) >= 1
         /\ newBuffer2[b] = Null => Kept(Len(buffersToWrite[b])) >= 2

\* The lines a back end has written, and those it has taken but not written.
Written(b) == { output[b][i] : i \in DOMAIN output[b] } \ {Notice}
ToWrite(b) == LinesFrom(buffersToWrite[b], next[b])

\* The LogFile of every back end is given its lines in the order in which append()
\* received them, although the buffers change hands twice on the way, and no line
\* twice or to two back ends.  (Two back ends that open their LogFile in the same
\* second share a file on disk, where their lines mix.)
FIFO ==
  /\ \A b \in Backends : \A i, j \in DOMAIN output[b] :
       i < j /\ output[b][i] # Notice /\ output[b][j] # Notice
         => output[b][i] < output[b][j]
  /\ \A b, c \in Backends : b # c => Written(b) \cap Written(c) = {}

\* No line vanishes between append() and the file: each is in a buffer of the
\* front end, in one a back end has taken, in a file, or was erased by the
\* overload branch, which says so in the file.
Conservation ==
  1 .. appended = Lines(currentBuffer) \cup LinesFrom(buffers, 1) \cup dropped
                    \cup UNION { Written(b) \cup ToWrite(b) : b \in Backends }

\* While the logger runs, a line that append() accepted reaches the disk or is
\* dropped at overload: the flush interval bounds how long it stays in memory
\* even if the buffer never fills.
OnDisk(n) == \E b \in Backends : \E i \in 1 .. durable[b] : output[b][i] = n

EveryLineSettles ==
  \A n \in 1 .. MaxAppends :
    (appended >= n) ~> (OnDisk(n) \/ n \in dropped \/ ~ running \/ ~ alive)

\* stop() returns, although running_ and the notify it sends are not protected
\* by mutex_ and the notify may come before the back end waits.
StopReturns == (caller = "stopping") ~> (caller = "stopped" \/ ~ alive)
=============================================================================
