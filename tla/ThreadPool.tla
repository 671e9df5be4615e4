------------------------------ MODULE ThreadPool ------------------------------
(***************************************************************************)
(* ThreadPool.cc of muduo-clog: application threads call run(), one thread *)
(* calls start() and stop(), worker threads execute runInThread().  Code   *)
(* under mutex_ is one action up to Condition::wait(); running_ (at the    *)
(* head of a worker's loop) and threads_ (at the head of run()) are read   *)
(* without mutex_ and have actions of their own.                           *)
(***************************************************************************)
EXTENDS Integers, Sequences, FiniteSets

CONSTANTS
  Workers,   \* the threads that start() creates
  Callers,   \* threads that call run()
  MaxQueue,  \* maxQueueSize_, 0 for no limit
  MaxCalls   \* bound on the calls of run() by each caller

ASSUME PoolAssumption ==
  /\ IsFiniteSet(Workers) /\ IsFiniteSet(Callers)
  /\ MaxQueue \in Nat /\ MaxCalls \in Nat

VARIABLES
  ctl,          \* where the thread that calls start() and stop() is
  running,      \* running_
  threads,      \* threads_
  queue,        \* queue_
  wpc,          \* where a worker is: "waits" is inside notEmpty_.wait(), "task" in the
                \* application's code, threadInitCallback_ or a task
  cpc,          \* where a caller is: "waits" is inside notFull_.wait()
  calls,        \* calls of run() a caller has still to make
  aborted,      \* a task or threadInitCallback_ threw, the process is gone
  accepted,     \* history: the tasks run() queued
  begun,        \* history: the tasks workers took
  late          \* history: the tasks a worker took after stop()

vars == <<ctl, running, threads, queue, wpc, cpc, calls, aborted, accepted, begun, late>>

Task == Callers \X (1 .. MaxCalls)

Init ==
  /\ ctl = "new" /\ running = FALSE /\ threads = {} /\ queue = << >>
  /\ wpc = [w \in Workers |-> "none"]
  /\ cpc = [c \in Callers |-> "idle"]
  /\ calls = [c \in Callers |-> MaxCalls]
  /\ aborted = FALSE
  /\ accepted = << >> /\ begun = << >> /\ late = [w \in Workers |-> 0]

Waiting(pc) == {t \in DOMAIN pc : pc[t] = "waits"}

\* Condition::notify() and notifyAll(): the next program counters, given those of
\* the threads that may wait and the state a signalled thread goes on from.
Notify(pc, next) ==
  IF Waiting(pc) = {} THEN {pc} ELSE {[pc EXCEPT ![t] = next] : t \in Waiting(pc)}
NotifyAll(pc, next) == {[t \in DOMAIN pc |-> IF pc[t] = "waits" THEN next ELSE pc[t]]}

\* isFull()
IsFull == MaxQueue > 0 /\ Len(queue) >= MaxQueue

-----------------------------------------------------------------------------
\* start() and stop().
StartBegins ==
  /\ ctl = "new"
  /\ running' = TRUE
  /\ ctl' = "starting"
  /\ UNCHANGED <<threads, queue, wpc, cpc, calls, aborted, accepted, begun, late>>

\* Thread::start() returns when the new thread runs, which begins with
\* threadInitCallback_.  (For no threads at all, start() calls that itself.)
StartsThread(w) ==
  /\ ctl = "starting" /\ w \notin threads
  /\ threads' = threads \cup {w}
  /\ wpc' = [wpc EXCEPT ![w] = "task"]
  /\ UNCHANGED <<ctl, running, queue, cpc, calls, aborted, accepted, begun, late>>

StartReturns ==
  /\ ctl = "starting" /\ threads = Workers
  /\ ctl' = "started"
  /\ UNCHANGED <<running, threads, queue, wpc, cpc, calls, aborted, accepted, begun, late>>

\* (Mutant: stop() signals a single worker.)
WokenByStopOne == Notify(wpc, "take")
WokenByStop == NotifyAll(wpc, "take")

StopSignals ==
  /\ ctl = "started"
  /\ running' = FALSE
  /\ wpc' \in WokenByStop
  /\ ctl' = "joining"
  /\ UNCHANGED <<threads, queue, cpc, calls, aborted, accepted, begun, late>>

StopJoins ==
  /\ ctl = "joining" /\ \A w \in threads : wpc[w] = "done"
  /\ ctl' = "stopped"
  /\ UNCHANGED <<running, threads, queue, wpc, cpc, calls, aborted, accepted, begun, late>>

Control == StartBegins \/ (\E w \in Workers : StartsThread(w)) \/ StartReturns \/ StopSignals \/ StopJoins

-----------------------------------------------------------------------------
\* run(): without threads the caller executes the task itself.
RunInCaller(c) ==
  /\ cpc[c] = "idle" /\ calls[c] > 0 /\ threads = {}
  /\ calls' = [calls EXCEPT ![c] = @ - 1]
  /\ UNCHANGED <<ctl, running, threads, queue, wpc, cpc, aborted, accepted, begun, late>>

RunLocks(c) ==
  /\ cpc[c] = "idle" /\ calls[c] > 0 /\ threads # {}
  /\ cpc' = [cpc EXCEPT ![c] = "run"]
  /\ UNCHANGED <<ctl, running, threads, queue, wpc, calls, aborted, accepted, begun, late>>

RunWaits(c) ==
  /\ cpc[c] = "run" /\ IsFull
  /\ cpc' = [cpc EXCEPT ![c] = "waits"]
  /\ UNCHANGED <<ctl, running, threads, queue, wpc, calls, aborted, accepted, begun, late>>

RunQueues(c) ==
  /\ cpc[c] = "run" /\ ~ IsFull
  /\ queue' = Append(queue, <<c, calls[c]>>)
  /\ accepted' = Append(accepted, <<c, calls[c]>>)
  /\ wpc' \in Notify(wpc, "take")
  /\ cpc' = [cpc EXCEPT ![c] = "idle"]
  /\ calls' = [calls EXCEPT ![c] = @ - 1]
  /\ UNCHANGED <<ctl, running, threads, aborted, begun, late>>

Caller(c) == RunInCaller(c) \/ RunLocks(c) \/ RunWaits(c) \/ RunQueues(c)

-----------------------------------------------------------------------------
\* runInThread() and take().  (Mutant: the loop goes on while there are tasks.)
LoopGoesOnWithTasks == running \/ queue # << >>
LoopGoesOn == running

Loops(w) ==
  /\ wpc[w] = "loop"
  /\ wpc' = [wpc EXCEPT ![w] = IF LoopGoesOn THEN "take" ELSE "done"]
  /\ UNCHANGED <<ctl, running, threads, queue, cpc, calls, aborted, accepted, begun, late>>

TakeWaits(w) ==
  /\ wpc[w] = "take" /\ queue = << >> /\ running
  /\ wpc' = [wpc EXCEPT ![w] = "waits"]
  /\ UNCHANGED <<ctl, running, threads, queue, cpc, calls, aborted, accepted, begun, late>>

\* The callers that take() signals.  (Mutant: only when the queue was full.)
SignalledWhenFull == IF IsFull THEN Notify(cpc, "run") ELSE {cpc}
SignalledByTake == IF MaxQueue > 0 THEN Notify(cpc, "run") ELSE {cpc}

\* The task take() returns.  (Mutant: the last one.)
Back == queue[Len(queue)]
Front == Head(queue)

Takes(w) ==
  /\ wpc[w] = "take" /\ queue # << >>
  /\ queue' = Tail(queue)
  /\ begun' = Append(begun, Front)
  /\ cpc' \in SignalledByTake
  /\ wpc' = [wpc EXCEPT ![w] = "task"]
  /\ late' = IF running THEN late ELSE [late EXCEPT ![w] = @ + 1]
  /\ UNCHANGED <<ctl, running, threads, calls, aborted, accepted>>

\* take() returns an empty Task.
TakesNothing(w) ==
  /\ wpc[w] = "take" /\ queue = << >> /\ ~ running
  /\ wpc' = [wpc EXCEPT ![w] = "loop"]
  /\ UNCHANGED <<ctl, running, threads, queue, cpc, calls, aborted, accepted, begun, late>>

\* The task returns, or threadInitCallback_, if there is one.
TaskReturns(w) ==
  /\ wpc[w] = "task"
  /\ wpc' = [wpc EXCEPT ![w] = "loop"]
  /\ UNCHANGED <<ctl, running, threads, queue, cpc, calls, aborted, accepted, begun, late>>

\* The catch clauses end in abort(), or rethrow out of the thread.
TaskThrows(w) ==
  /\ wpc[w] = "task"
  /\ aborted' = TRUE
  /\ UNCHANGED <<ctl, running, threads, queue, wpc, cpc, calls, accepted, begun, late>>

Worker(w) == Loops(w) \/ TakeWaits(w) \/ Takes(w) \/ TakesNothing(w) \/ TaskReturns(w)

\* pthread_cond_wait() may return without a signal.
WorkerWakes(w) ==
  /\ wpc[w] = "waits"
  /\ wpc' = [wpc EXCEPT ![w] = "take"]
  /\ UNCHANGED <<ctl, running, threads, queue, cpc, calls, aborted, accepted, begun, late>>

CallerWakes(c) ==
  /\ cpc[c] = "waits"
  /\ cpc' = [cpc EXCEPT ![c] = "run"]
  /\ UNCHANGED <<ctl, running, threads, queue, wpc, calls, aborted, accepted, begun, late>>

Next ==
  /\ ~ aborted
  /\ \/ Control
     \/ \E c \in Callers : Caller(c) \/ CallerWakes(c)
     \/ \E w \in Workers : Worker(w) \/ WorkerWakes(w) \/ TaskThrows(w)

Spec == Init /\ [][Next]_vars

\* Threads are scheduled, tasks end, and start() and stop(), once called, go on.
Fairness ==
  /\ \A w \in Workers : WF_vars(~ aborted /\ Worker(w))
  /\ \A c \in Callers : WF_vars(~ aborted /\ (RunWaits(c) \/ RunQueues(c)))
  /\ WF_vars(~ aborted /\ ctl \in {"starting", "joining"} /\ Control)

FairSpec == Spec /\ Fairness

-----------------------------------------------------------------------------
\* The types; the assert of run() follows from the bound on the queue.
TypeOK ==
  /\ ctl \in {"new", "starting", "started", "joining", "stopped"}
  /\ running = (ctl \in {"starting", "started"})
  /\ threads \subseteq Workers
  /\ queue \in Seq(Task) /\ (MaxQueue > 0 => Len(queue) <= MaxQueue)
  /\ wpc \in [Workers -> {"none", "loop", "take", "waits", "task", "done"}]
  /\ cpc \in [Callers -> {"idle", "run", "waits"}]
  /\ calls \in [Callers -> 0 .. MaxCalls]
  /\ \A c \in Callers : cpc[c] # "idle" => calls[c] > 0
  /\ aborted \in BOOLEAN
  /\ accepted \in Seq(Task) /\ begun \in Seq(Task) /\ late \in [Workers -> Nat]

\* One signal per task is enough, and the one of stop() reaches all: workers wait
\* only while the pool runs and as many others as there are tasks are on their
\* way; callers wait only while as many others are on their way as there is room.
WakeupsSuffice ==
  /\ Waiting(wpc) # {} =>
       running /\ Len(queue) <= Cardinality({w \in Workers : wpc[w] = "take"})
  /\ Waiting(cpc) # {} =>
       MaxQueue - Len(queue) <= Cardinality({c \in Callers : cpc[c] = "run"})

\* stop() discards what is queued: a worker that was past the test of running_
\* executes one more task, and none a second one.
OneLastTask == \A w \in Workers : late[w] <= 1

\* Queued tasks are executed once each, in order, within the bound of the queue.
Channel == INSTANCE FifoChannel WITH
  Item <- Task, slots <- MaxQueue, delivered <- begun
Implements == Channel!Spec

\* stop() returns, if the tasks do.
StopReturns == ctl = "joining" ~> ctl = "stopped" \/ aborted

\* While the pool runs, a call of run() that waits for room returns, if each
\* caller makes finitely many calls.  After stop() nobody wakes it.
RunReturns == \A c \in Callers : cpc[c] = "waits" ~> cpc[c] = "idle" \/ ~ running \/ aborted
=============================================================================
