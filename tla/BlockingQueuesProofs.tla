------------------------- MODULE BlockingQueuesProofs -------------------------
(***************************************************************************)
(* Proofs about the blocking queues, for every number of threads, every    *)
(* capacity and every type of item.                                        *)
(***************************************************************************)
EXTENDS BlockingQueues, FiniteSetTheorems, TLAPS

\* The unbounded queue has no notFull_ to wait on.
NobodyWaitsForRoom == ~ Bounded => notFull = {}

\* What the queue holds is what was put and not yet taken, in order.
Backlog ==
  /\ Len(puts) = Len(takes) + Len(queue)
  /\ \A i \in 1 .. Len(queue) : queue[i] = puts[Len(takes) + i]

QueueInv == TypeOK /\ NobodyWaitsForRoom /\ WakeupsSuffice /\ Backlog

-----------------------------------------------------------------------------
\* How the number of woken threads changes: it grows by one when another thread
\* is signalled, and falls by at most one when a thread gets the mutex.
LEMMA AddOne ==
  ASSUME NEW S, NEW t, IsFiniteSet(S), t \notin S
  PROVE  /\ Cardinality(S) \in Nat
         /\ Cardinality(S \cup {t}) = Cardinality(S) + 1
BY FS_CardinalityType, FS_AddElement

LEMMA RemoveOne ==
  ASSUME NEW S, NEW t, IsFiniteSet(S)
  PROVE  /\ Cardinality(S) \in Nat
         /\ Cardinality(S \ {t}) \in Nat
         /\ Cardinality(S \ {t}) >= Cardinality(S) - 1
<1>1. IsFiniteSet(S \ {t}) /\ Cardinality(S) \in Nat
  BY FS_CardinalityType, FS_RemoveElement
<1>2. Cardinality(S \ {t}) \in Nat  BY <1>1, FS_CardinalityType
<1>3. CASE t \in S  BY <1>1, <1>2, <1>3, FS_RemoveElement
<1>4. CASE t \notin S
  <2>1. S \ {t} = S  BY <1>4
  <2> QED  BY <1>1, <2>1
<1> QED  BY <1>1, <1>2, <1>3, <1>4

\* The woken threads of either kind are finitely many.
LEMMA WokenFinite ==
  ASSUME TypeOK
  PROVE  /\ IsFiniteSet(woken \cap Producers) /\ Cardinality(woken \cap Producers) \in Nat
         /\ IsFiniteSet(woken \cap Consumers) /\ Cardinality(woken \cap Consumers) \in Nat
BY QueueAssumption, FS_Subset, FS_CardinalityType DEF QueueAssumption

-----------------------------------------------------------------------------
\* The capacity of a queue never changes.
LEMMA CapacityFixed ==
  ASSUME TypeOK, [Next]_vars
  PROVE  capacity \in Nat /\ capacity' = capacity
BY QueueAssumption
DEF QueueAssumption, TypeOK, Next, vars, Put, PutWaits, Take, TakeWaits, SpuriousWakeup

\* The wait sets, the signalled threads and the queue keep their types.
LEMMA TypeStep == QueueInv /\ [Next]_vars => TypeOK' /\ NobodyWaitsForRoom'
<1> SUFFICES ASSUME QueueInv, [Next]_vars PROVE TypeOK' /\ NobodyWaitsForRoom'
  OBVIOUS
<1>0. capacity \in Nat /\ capacity' = capacity /\ (Bounded <=> Bounded')
  <2>1. TypeOK  BY DEF QueueInv
  <2> QED  BY <2>1, CapacityFixed DEF Bounded
<1> USE <1>0, QueueAssumption DEF QueueAssumption, QueueInv, TypeOK, NobodyWaitsForRoom
<1>1. ASSUME NEW p \in Producers, NEW x \in Item, Put(p, x)
      PROVE  TypeOK' /\ NobodyWaitsForRoom'
  <2>1. Len(queue') = Len(queue) + 1 /\ queue' \in Seq(Item) /\ puts' \in Seq(Item)
    BY <1>1 DEF Put
  <2>2. Bounded => Len(queue') <= capacity  BY <1>1, <2>1 DEF Put, Full
  <2> QED  BY <1>1, <2>1, <2>2 DEF Put, Notify, SignalledByPut
<1>2. ASSUME NEW p \in Producers, PutWaits(p)
      PROVE  TypeOK' /\ NobodyWaitsForRoom'
  BY <1>2 DEF PutWaits, Full
<1>3. ASSUME NEW c \in Consumers, Take(c)
      PROVE  TypeOK' /\ NobodyWaitsForRoom'
  <2>1. Len(queue') = Len(queue) - 1 /\ queue' \in Seq(Item) /\ takes' \in Seq(Item)
    BY <1>3 DEF Take
  <2>2. Bounded => Len(queue') <= capacity  BY <2>1
  <2> QED  BY <1>3, <2>1, <2>2 DEF Take, Notify, SignalledByTake
<1>4. ASSUME NEW c \in Consumers, TakeWaits(c)
      PROVE  TypeOK' /\ NobodyWaitsForRoom'
  BY <1>4 DEF TakeWaits
<1>5. ASSUME NEW t \in Producers \cup Consumers, SpuriousWakeup(t)
      PROVE  TypeOK' /\ NobodyWaitsForRoom'
  BY <1>5 DEF SpuriousWakeup
<1>6. CASE UNCHANGED vars  BY <1>6 DEF vars
<1> QED  BY <1>1, <1>2, <1>3, <1>4, <1>5, <1>6 DEF Next

\* No step leaves a thread asleep that should be on its way.
LEMMA WakeupStep == QueueInv /\ [Next]_vars => WakeupsSuffice'
<1> SUFFICES ASSUME QueueInv, [Next]_vars PROVE WakeupsSuffice'
  OBVIOUS
<1> DEFINE WC == woken \cap Consumers
           WP == woken \cap Producers
<1> USE QueueAssumption DEF QueueAssumption, QueueInv, TypeOK, NobodyWaitsForRoom
<1>0. /\ IsFiniteSet(WC) /\ Cardinality(WC) \in Nat
      /\ IsFiniteSet(WP) /\ Cardinality(WP) \in Nat
      /\ Len(queue) \in Nat /\ capacity \in Nat /\ capacity' = capacity
  BY WokenFinite, CapacityFixed
<1>w. /\ notEmpty # {} => Len(queue) <= Cardinality(WC)
      /\ notFull # {} => capacity - Len(queue) <= Cardinality(WP)
  BY DEF WakeupsSuffice
<1>1. ASSUME NEW p \in Producers, NEW x \in Item, Put(p, x)
      PROVE  WakeupsSuffice'
  <2>1. Len(queue') = Len(queue) + 1  BY <1>1 DEF Put
  <2>2. woken' \cap Producers = WP \ {p} /\ notFull' = notFull
    BY <1>1 DEF Put, Notify, SignalledByPut
  <2>3. notFull' # {} => capacity - Len(queue') <= Cardinality(woken' \cap Producers)
    <3> HIDE DEF WP
    <3>1. Cardinality(WP \ {p}) \in Nat /\ Cardinality(WP \ {p}) >= Cardinality(WP) - 1
      BY <1>0, RemoveOne
    <3>2. Cardinality(woken' \cap Producers) = Cardinality(WP \ {p})  BY <2>2
    <3> HIDE DEF QueueInv
    <3> QED  BY <1>0, <1>w, <2>1, <2>2, <3>1, <3>2
  <2>4. CASE notEmpty = {}
    BY <1>1, <2>3, <2>4 DEF Put, Notify, SignalledByPut, WakeupsSuffice
  <2>5. CASE notEmpty # {}
    <3>1. PICK t \in notEmpty : woken' = (woken \ {p}) \cup {t}
      BY <1>1, <2>5 DEF Put, Notify, SignalledByPut
    <3>2. woken' \cap Consumers = WC \cup {t} /\ t \notin WC  BY <3>1
    <3>3. Cardinality(woken' \cap Consumers) = Cardinality(WC) + 1
      BY <1>0, <3>2, AddOne
    <3> QED  BY <1>0, <1>w, <2>1, <2>3, <2>5, <3>3 DEF WakeupsSuffice
  <2> QED  BY <2>4, <2>5
<1>2. ASSUME NEW p \in Producers, PutWaits(p)
      PROVE  WakeupsSuffice'
  <2>1. woken' \cap Consumers = WC /\ UNCHANGED <<queue, notEmpty>>
    BY <1>2 DEF PutWaits
  <2>2. Cardinality(woken' \cap Producers) \in Nat
    <3>1. woken' \cap Producers = WP \ {p}  BY <1>2 DEF PutWaits
    <3> QED  BY <1>0, <3>1, RemoveOne
  <2>3. capacity - Len(queue') <= 0  BY <1>0, <1>2, <2>1 DEF PutWaits, Full
  <2>4. capacity - Len(queue') <= Cardinality(woken' \cap Producers)
    BY <1>0, <2>1, <2>2, <2>3
  <2> QED  BY <1>0, <1>w, <2>1, <2>4 DEF WakeupsSuffice
<1>3. ASSUME NEW c \in Consumers, Take(c)
      PROVE  WakeupsSuffice'
  <2>1. Len(queue') = Len(queue) - 1  BY <1>3 DEF Take
  <2>2. woken' \cap Consumers = WC \ {c} /\ notEmpty' = notEmpty
    BY <1>3 DEF Take, Notify, SignalledByTake
  <2>3. notEmpty' # {} => Len(queue') <= Cardinality(woken' \cap Consumers)
    <3> HIDE DEF WC
    <3>1. Cardinality(WC \ {c}) \in Nat /\ Cardinality(WC \ {c}) >= Cardinality(WC) - 1
      BY <1>0, RemoveOne
    <3>2. Cardinality(woken' \cap Consumers) = Cardinality(WC \ {c})  BY <2>2
    <3> HIDE DEF QueueInv
    <3> QED  BY <1>0, <1>w, <2>1, <2>2, <3>1, <3>2
  <2>4. CASE notFull = {}
    BY <1>3, <2>3, <2>4 DEF Take, Notify, SignalledByTake, WakeupsSuffice
  <2>5. CASE notFull # {}
    <3>1. PICK t \in notFull : woken' = (woken \ {c}) \cup {t}
      BY <1>3, <2>5 DEF Take, Notify, SignalledByTake
    <3>2. woken' \cap Producers = WP \cup {t} /\ t \notin WP  BY <3>1
    <3>3. Cardinality(woken' \cap Producers) = Cardinality(WP) + 1
      BY <1>0, <3>2, AddOne
    <3> QED  BY <1>0, <1>w, <2>1, <2>3, <2>5, <3>3 DEF WakeupsSuffice
  <2> QED  BY <2>4, <2>5
<1>4. ASSUME NEW c \in Consumers, TakeWaits(c)
      PROVE  WakeupsSuffice'
  <2>1. woken' \cap Producers = WP /\ UNCHANGED <<queue, notFull>> /\ Len(queue) = 0
    BY <1>4 DEF TakeWaits
  <2>2. Cardinality(woken' \cap Consumers) \in Nat
    <3>1. woken' \cap Consumers = WC \ {c}  BY <1>4 DEF TakeWaits
    <3> QED  BY <1>0, <3>1, RemoveOne
  <2>3. Len(queue') <= Cardinality(woken' \cap Consumers)  BY <2>1, <2>2
  <2> QED  BY <1>0, <1>w, <2>1, <2>3 DEF WakeupsSuffice
<1>5. ASSUME NEW t \in Producers \cup Consumers, SpuriousWakeup(t)
      PROVE  WakeupsSuffice'
  <2>1. /\ UNCHANGED queue
        /\ notEmpty' # {} => notEmpty # {}
        /\ notFull' # {} => notFull # {}
    BY <1>5 DEF SpuriousWakeup
  <2>2. CASE t \in Producers
    <3>1. woken' \cap Consumers = WC /\ woken' \cap Producers = WP \cup {t} /\ t \notin WP
      BY <1>5, <2>2 DEF SpuriousWakeup
    <3>2. Cardinality(woken' \cap Producers) = Cardinality(WP) + 1
      BY <1>0, <3>1, AddOne
    <3>3. Cardinality(woken' \cap Consumers) = Cardinality(WC) /\ Len(queue') = Len(queue)
      BY <2>1, <3>1
    <3> HIDE DEF WC, WP, QueueInv
    <3> QED  BY <1>0, <1>w, <2>1, <3>2, <3>3 DEF WakeupsSuffice
  <2>3. CASE t \in Consumers
    <3>1. woken' \cap Producers = WP /\ woken' \cap Consumers = WC \cup {t} /\ t \notin WC
      BY <1>5, <2>3 DEF SpuriousWakeup
    <3>2. Cardinality(woken' \cap Consumers) = Cardinality(WC) + 1
      BY <1>0, <3>1, AddOne
    <3>3. Cardinality(woken' \cap Producers) = Cardinality(WP) /\ Len(queue') = Len(queue)
      BY <2>1, <3>1
    <3> HIDE DEF WC, WP, QueueInv
    <3> QED  BY <1>0, <1>w, <2>1, <3>2, <3>3 DEF WakeupsSuffice
  <2> QED  BY <2>2, <2>3
<1>6. CASE UNCHANGED vars  BY <1>w, <1>6 DEF vars, WakeupsSuffice
<1> QED  BY <1>1, <1>2, <1>3, <1>4, <1>5, <1>6 DEF Next

\* The history and the queue stay in step.
LEMMA BacklogStep == QueueInv /\ [Next]_vars => Backlog'
<1> SUFFICES ASSUME QueueInv, [Next]_vars PROVE Backlog'
  OBVIOUS
<1> USE DEF QueueInv, TypeOK, Backlog
<1>1. ASSUME NEW p \in Producers, NEW x \in Item, Put(p, x) PROVE Backlog'
  BY <1>1 DEF Put
<1>2. ASSUME NEW p \in Producers, PutWaits(p) PROVE Backlog'
  BY <1>2 DEF PutWaits
<1>3. ASSUME NEW c \in Consumers, Take(c) PROVE Backlog'
  <2>1. /\ queue # << >> /\ queue' = Tail(queue) /\ UNCHANGED puts
        /\ Len(takes') = Len(takes) + 1 /\ Len(takes) \in Nat
    BY <1>3 DEF Take
  <2>2. /\ Len(queue') = Len(queue) - 1
        /\ \A i \in 1 .. Len(queue') : queue'[i] = queue[i + 1] /\ i + 1 \in 1 .. Len(queue)
    BY <2>1
  <2>3. \A i \in 1 .. Len(queue') : queue'[i] = puts[Len(takes) + (i + 1)]
    BY <2>2
  <2>4. ASSUME NEW i \in 1 .. Len(queue') PROVE queue'[i] = puts'[Len(takes') + i]
    <3>1. i \in Int /\ Len(takes) + (i + 1) = Len(takes') + i  BY <2>1
    <3> QED  BY <2>1, <2>3, <3>1
  <2>5. Len(puts') = Len(takes') + Len(queue')
    <3>1. Len(puts) = Len(takes) + Len(queue) /\ Len(queue) \in Nat /\ puts' = puts
      BY <2>1
    <3> HIDE DEF QueueInv
    <3> QED  BY <2>1, <2>2, <3>1
  <2> QED  BY <2>4, <2>5
<1>4. ASSUME NEW c \in Consumers, TakeWaits(c) PROVE Backlog'
  BY <1>4 DEF TakeWaits
<1>5. ASSUME NEW t \in Producers \cup Consumers, SpuriousWakeup(t) PROVE Backlog'
  BY <1>5 DEF SpuriousWakeup
<1>6. CASE UNCHANGED vars  BY <1>6 DEF vars
<1> QED  BY <1>1, <1>2, <1>3, <1>4, <1>5, <1>6 DEF Next

\* The inductive invariant of the queues.
LEMMA QueueInvariant == Spec => []QueueInv
<1>1. Init => QueueInv
  <2> SUFFICES ASSUME Init PROVE QueueInv
    OBVIOUS
  <2>1. TypeOK  BY QueueAssumption DEF QueueAssumption, Init, TypeOK
  <2>2. NobodyWaitsForRoom /\ WakeupsSuffice  BY DEF Init, NobodyWaitsForRoom, WakeupsSuffice
  <2>3. Backlog  BY DEF Init, Backlog
  <2> QED  BY <2>1, <2>2, <2>3 DEF QueueInv
<1>2. QueueInv /\ [Next]_vars => QueueInv'
  BY TypeStep, WakeupStep, BacklogStep DEF QueueInv
<1> QED  BY <1>1, <1>2, PTL DEF Spec

\* Types and the bound of the queue: put() never writes into a full queue.
THEOREM QueueTypes == Spec => []TypeOK
<1>1. QueueInv => TypeOK  BY DEF QueueInv
<1> QED  BY <1>1, QueueInvariant, PTL

\* One notify() per item, instead of notifyAll(), never leaves an item behind
\* with all consumers asleep, or room with all producers asleep.
THEOREM NoLostWakeup == Spec => []WakeupsSuffice
<1>1. QueueInv => WakeupsSuffice  BY DEF QueueInv
<1> QED  BY <1>1, QueueInvariant, PTL

\* Both queues implement the channel: items leave once each, in the order in
\* which put() accepted them, and no more than the capacity are inside.
THEOREM QueuesImplementChannel == Spec => Implements
<1>1. Init => Channel!Init  BY QueueAssumption DEF QueueAssumption, Init, Channel!Init
<1>2. QueueInv /\ [Next]_vars => [Channel!Next]_<<capacity, puts, takes>>
  <2> SUFFICES ASSUME QueueInv, [Next]_vars PROVE [Channel!Next]_<<capacity, puts, takes>>
    OBVIOUS
  <2> USE QueueAssumption DEF QueueAssumption, QueueInv, TypeOK, Backlog
  <2>1. ASSUME NEW p \in Producers, NEW x \in Item, Put(p, x) PROVE Channel!Accept(x)
    <3>1. Len(puts) - Len(takes) = Len(queue) /\ Len(takes) \in Nat  OBVIOUS
    <3>2. CASE Bounded  BY <2>1, <3>1, <3>2 DEF Put, Full, Channel!Accept
    <3>3. CASE ~ Bounded  BY <2>1, <3>3 DEF Bounded, Put, Channel!Accept
    <3> QED  BY <3>2, <3>3
  <2>2. ASSUME NEW c \in Consumers, Take(c) PROVE Channel!Deliver
    <3>1. Len(queue) \in Nat \ {0} /\ Len(takes) \in Nat /\ Head(queue) = queue[1]
      BY <2>2 DEF Take
    <3>2. Head(queue) = puts[Len(takes) + 1]  BY <3>1
    <3> QED  BY <2>2, <3>1, <3>2 DEF Take, Channel!Deliver
  <2>3. ASSUME NEW p \in Producers, PutWaits(p) PROVE UNCHANGED <<capacity, puts, takes>>
    BY <2>3 DEF PutWaits
  <2>4. ASSUME NEW c \in Consumers, TakeWaits(c) PROVE UNCHANGED <<capacity, puts, takes>>
    BY <2>4 DEF TakeWaits
  <2>5. ASSUME NEW t \in Producers \cup Consumers, SpuriousWakeup(t)
        PROVE UNCHANGED <<capacity, puts, takes>>
    BY <2>5 DEF SpuriousWakeup
  <2>6. CASE UNCHANGED vars  BY <2>6 DEF vars
  <2> QED  BY <2>1, <2>2, <2>3, <2>4, <2>5, <2>6 DEF Next, Channel!Next
<1> QED  BY <1>1, <1>2, QueueInvariant, PTL DEF Spec, Implements, Channel!Spec
=============================================================================
