---------------------------- MODULE BlockingQueues ----------------------------
(***************************************************************************)
(* BlockingQueue.h and BoundedBlockingQueue.h of muduo-clog.  put() and    *)
(* take() hold mutex_ except inside Condition::wait(), so a call is one    *)
(* action, or, each time it has to wait, one that ends in the wait and one *)
(* that starts when the thread has mutex_ again.  A condition variable is  *)
(* the set of threads that wait on it.                                     *)
(***************************************************************************)
EXTENDS Integers, Sequences, FiniteSets

CONSTANTS
  Producers, Consumers, \* threads that call put(), and take()
  Item,                 \* values of type T
  MaxSizes,             \* values of maxSize; 0 stands for a BlockingQueue
  MaxPuts               \* bound on the number of items

ASSUME QueueAssumption ==
  /\ IsFiniteSet(Producers) /\ IsFiniteSet(Consumers)
  /\ Producers \cap Consumers = {}
  /\ MaxSizes \subseteq Nat /\ MaxPuts \in Nat

VARIABLES
  capacity,   \* queue_.capacity(), or 0
  queue,      \* queue_
  notFull,    \* producers that wait on notFull_
  notEmpty,   \* consumers that wait on notEmpty_
  woken,      \* threads that were signalled and want mutex_ back
  puts, takes \* history: the items put, and the items taken

vars == <<capacity, queue, notFull, notEmpty, woken, puts, takes>>

\* A BlockingQueue has neither a limit nor notFull_.
Bounded == capacity > 0

Init ==
  /\ capacity \in MaxSizes
  /\ queue = << >>
  /\ notFull = {} /\ notEmpty = {} /\ woken = {}
  /\ puts = << >> /\ takes = << >>

\* queue_.full(); the unbounded queue never is.
\* (Mutant: one item too many.)
FullLate == Bounded /\ Len(queue) > capacity
Full == Bounded /\ Len(queue) >= capacity

\* Which condition variable take() signals, and which put().
\* (Mutants: each signals the other one.)
SignalledByTakeWrongly == notEmpty
SignalledByPutWrongly == notFull
SignalledByTake == notFull
SignalledByPut == notEmpty

\* Condition::notify(): one of the threads in `waiting' stops waiting.
Notify(waiting, rest) ==
  IF waiting = {}
  THEN woken' = rest /\ UNCHANGED <<notFull, notEmpty>>
  ELSE \E t \in waiting :
         /\ woken' = rest \cup {t}
         /\ notFull' = notFull \ {t}
         /\ notEmpty' = notEmpty \ {t}

Put(p, x) ==
  /\ p \notin notFull /\ ~ Full /\ Len(puts) < MaxPuts
  /\ queue' = Append(queue, x)
  /\ puts' = Append(puts, x)
  /\ Notify(SignalledByPut, woken \ {p})
  /\ UNCHANGED <<capacity, takes>>

PutWaits(p) ==
  /\ p \notin notFull /\ Full
  /\ notFull' = notFull \cup {p}
  /\ woken' = woken \ {p}
  /\ UNCHANGED <<capacity, queue, notEmpty, puts, takes>>

\* take() of the unbounded queue signals nobody.
Take(c) ==
  /\ c \notin notEmpty /\ queue # << >>
  /\ queue' = Tail(queue)
  /\ takes' = Append(takes, Head(queue))
  /\ IF Bounded
     THEN Notify(SignalledByTake, woken \ {c})
     ELSE woken' = woken \ {c} /\ UNCHANGED <<notFull, notEmpty>>
  /\ UNCHANGED <<capacity, puts>>

\* while (queue_.empty()) notEmpty_.wait()
TakeWaits(c) ==
  /\ c \notin notEmpty /\ queue = << >>
  /\ notEmpty' = notEmpty \cup {c}
  /\ woken' = woken \ {c}
  /\ UNCHANGED <<capacity, queue, notFull, puts, takes>>

\* pthread_cond_wait() may return without a signal.
SpuriousWakeup(t) ==
  /\ t \in notFull \cup notEmpty
  /\ notFull' = notFull \ {t} /\ notEmpty' = notEmpty \ {t}
  /\ woken' = woken \cup {t}
  /\ UNCHANGED <<capacity, queue, puts, takes>>

Next ==
  \/ \E p \in Producers : PutWaits(p) \/ \E x \in Item : Put(p, x)
  \/ \E c \in Consumers : Take(c) \/ TakeWaits(c)
  \/ \E t \in Producers \cup Consumers : SpuriousWakeup(t)

Spec == Init /\ [][Next]_vars

\* Consumers come back for more and get mutex_ when they want it.
Fairness == \A c \in Consumers : WF_vars(Take(c) \/ TakeWaits(c))
FairSpec == Spec /\ Fairness

-----------------------------------------------------------------------------
\* The types of the queue and of its wait sets; the asserts of put() and take()
\* follow from the bound on the queue.
TypeOK ==
  /\ capacity \in MaxSizes
  /\ Bounded => Len(queue) <= capacity
  /\ queue \in Seq(Item) /\ puts \in Seq(Item) /\ takes \in Seq(Item)
  /\ notFull \subseteq Producers /\ notEmpty \subseteq Consumers
  /\ woken \subseteq (Producers \cup Consumers) \ (notFull \cup notEmpty)

\* One signal per item is enough, although put() signals one thread that may
\* find the queue emptied by another when it gets mutex_: while a consumer waits,
\* as many others are on their way as there are items, and while a producer
\* waits, as many as there is room for.
WakeupsSuffice ==
  /\ notEmpty # {} => Len(queue) <= Cardinality(woken \cap Consumers)
  /\ notFull # {} => capacity - Len(queue) <= Cardinality(woken \cap Producers)

\* Both queues implement the channel: order, no loss, no duplicates, the bound.
Channel == INSTANCE FifoChannel WITH
  slots <- capacity, accepted <- puts, delivered <- takes
Implements == Channel!Spec

\* Every item that was put is taken, as long as there is a consumer.
EveryItemTaken == \A n \in 1 .. MaxPuts : Len(puts) >= n ~> Len(takes) >= n
=============================================================================
