--------------------------- MODULE ThreadPoolProofs ---------------------------
(***************************************************************************)
(* Proofs about the thread pool, for any number of workers and callers and *)
(* any limit of the queue.                                                 *)
(***************************************************************************)
EXTENDS ThreadPool, FiniteSetTheorems, TLAPS

WorkerPC == {"none", "loop", "take", "waits", "task", "done"}
CallerPC == {"idle", "run", "waits"}

\* A thread that start() has not created yet is nowhere.
NotYetCreated ==
  /\ ctl = "new" => threads = {}
  /\ \A w \in Workers : w \notin threads => wpc[w] = "none"

\* A worker that may still take a task has taken none since stop().
LateInv ==
  \A w \in Workers :
    /\ late[w] \in 0 .. 1
    /\ running \/ wpc[w] \in {"none", "take", "waits"} => late[w] = 0

\* queue_ holds what was accepted and not yet taken, in order.
Backlog ==
  /\ Len(accepted) = Len(begun) + Len(queue)
  /\ \A i \in 1 .. Len(queue) : queue[i] = accepted[Len(begun) + i]

PoolInv == TypeOK /\ NotYetCreated /\ LateInv /\ WakeupsSuffice /\ Backlog

\* Every step, by name.
Step ==
  \/ StartBegins \/ StartReturns \/ StopSignals \/ StopJoins
  \/ \E w \in Workers : \/ StartsThread(w) \/ Loops(w) \/ TakeWaits(w) \/ Takes(w)
                        \/ TakesNothing(w) \/ TaskReturns(w) \/ TaskThrows(w) \/ WorkerWakes(w)
  \/ \E c \in Callers : \/ RunInCaller(c) \/ RunLocks(c) \/ RunWaits(c) \/ RunQueues(c)
                        \/ CallerWakes(c)

\* Every step of the pool is one of those.
LEMMA NextIsStep == Next => Step
BY DEF Next, Step, Control, Caller, Worker

-----------------------------------------------------------------------------
\* The number of threads at a place.
At(pc, x) == {t \in DOMAIN pc : pc[t] = x}

\* How that number changes when thread t moves to v.
Moved(pc, q, t, v, x) ==
  /\ Cardinality(At(pc, x)) \in Nat /\ Cardinality(At(q, x)) \in Nat
  /\ Cardinality(At(q, x)) >= Cardinality(At(pc, x)) - 1
  /\ v = x \/ pc[t] # x => Cardinality(At(q, x)) >= Cardinality(At(pc, x))
  /\ v = x /\ pc[t] # x => Cardinality(At(q, x)) = Cardinality(At(pc, x)) + 1

\* A move of one thread changes the numbers by one at most.
LEMMA OneMoves ==
  ASSUME NEW S, IsFiniteSet(S), NEW V, NEW pc \in [S -> V], NEW t \in S, NEW v \in V, NEW x
  PROVE  Moved(pc, [pc EXCEPT ![t] = v], t, v, x)
<1> DEFINE q == [pc EXCEPT ![t] = v]
           A == At(pc, x)
           B == At(q, x)
<1>1. A \subseteq S /\ B \subseteq S  BY DEF At
<1>2. IsFiniteSet(A) /\ IsFiniteSet(B)  BY <1>1, FS_Subset
<1>3. Cardinality(A) \in Nat /\ Cardinality(B) \in Nat  BY <1>2, FS_CardinalityType
<1>4. CASE v = x /\ pc[t] # x
  <2>1. B = A \cup {t} /\ t \notin A  BY <1>4 DEF At
  <2>2. Cardinality(B) = Cardinality(A) + 1
    <3> HIDE DEF A, B
    <3> QED  BY <1>2, <2>1, FS_AddElement
  <2> QED  BY <1>3, <1>4, <2>2 DEF Moved
<1>5. CASE v # x /\ pc[t] = x
  <2>1. B = A \ {t} /\ t \in A  BY <1>5 DEF At
  <2>2. Cardinality(B) = Cardinality(A) - 1
    <3> HIDE DEF A, B
    <3> QED  BY <1>2, <2>1, FS_RemoveElement
  <2> QED  BY <1>3, <1>5, <2>2 DEF Moved
<1>6. CASE (v = x) = (pc[t] = x)
  <2>1. B = A  BY <1>6 DEF At
  <2> QED  BY <1>3, <1>6, <2>1 DEF Moved
<1> QED  BY <1>4, <1>5, <1>6

\* The two program counters are functions on finite sets.
LEMMA PCs ==
  ASSUME TypeOK
  PROVE  /\ wpc \in [Workers -> WorkerPC] /\ cpc \in [Callers -> CallerPC]
         /\ IsFiniteSet(Workers) /\ IsFiniteSet(Callers)
         /\ Len(queue) \in Nat /\ MaxQueue \in Nat
         /\ At(wpc, "take") = {w \in Workers : wpc[w] = "take"}
         /\ At(cpc, "run") = {c \in Callers : cpc[c] = "run"}
BY PoolAssumption DEF PoolAssumption, TypeOK, WorkerPC, CallerPC, At

\* What a signal does to the program counters.
LEMMA Signals ==
  ASSUME NEW S, NEW V, NEW pc \in [S -> V], NEW next \in V, NEW q \in Notify(pc, next)
  PROVE  \/ q = pc /\ Waiting(pc) = {}
         \/ \E t \in S : pc[t] = "waits" /\ q = [pc EXCEPT ![t] = next]
BY DEF Notify, Waiting

\* The signal of run() reaches a waiting worker, if there is one.
LEMMA QueuesSignals ==
  ASSUME TypeOK, NEW c \in Callers, RunQueues(c)
  PROVE  \/ wpc' = wpc /\ Waiting(wpc) = {}
         \/ \E t \in Workers : wpc[t] = "waits" /\ wpc' = [wpc EXCEPT ![t] = "take"]
<1>1. wpc \in [Workers -> WorkerPC] /\ "take" \in WorkerPC  BY PCs DEF WorkerPC
<1>2. wpc' \in Notify(wpc, "take")  BY DEF RunQueues
<1> QED  BY <1>1, <1>2, Signals

\* The signal of take() reaches a waiting caller, if there is one and the queue
\* has a limit.
LEMMA TakesSignals ==
  ASSUME TypeOK, NEW w \in Workers, Takes(w)
  PROVE  \/ cpc' = cpc /\ (MaxQueue > 0 => Waiting(cpc) = {})
         \/ \E t \in Callers : cpc[t] = "waits" /\ cpc' = [cpc EXCEPT ![t] = "run"]
<1>1. cpc \in [Callers -> CallerPC] /\ "run" \in CallerPC  BY PCs DEF CallerPC
<1>2. CASE MaxQueue > 0
  <2>1. cpc' \in Notify(cpc, "run")  BY <1>2 DEF Takes, SignalledByTake
  <2> QED  BY <1>1, <2>1, Signals
<1>3. CASE ~ (MaxQueue > 0)  BY <1>3 DEF Takes, SignalledByTake
<1> QED  BY <1>2, <1>3

\* The signal of stop() reaches all workers.
LEMMA StopSignalsAll ==
  ASSUME TypeOK, StopSignals
  PROVE  /\ wpc' \in [Workers -> WorkerPC]
         /\ \A w \in Workers : wpc'[w] = IF wpc[w] = "waits" THEN "take" ELSE wpc[w]
<1>1. wpc \in [Workers -> WorkerPC]  BY PCs
<1>2. wpc' = [t \in Workers |-> IF wpc[t] = "waits" THEN "take" ELSE wpc[t]]
  BY <1>1 DEF StopSignals, WokenByStop, NotifyAll
<1> QED  BY <1>1, <1>2 DEF WorkerPC

-----------------------------------------------------------------------------
\* Every step keeps the types, and leaves threads not yet created alone.
LEMMA TypeStep == PoolInv /\ [Next]_vars => TypeOK' /\ NotYetCreated'
<1> SUFFICES ASSUME PoolInv, [Next]_vars PROVE TypeOK' /\ NotYetCreated'
  OBVIOUS
<1> USE PoolAssumption DEF PoolAssumption, PoolInv, TypeOK, NotYetCreated
<1>1. CASE StartBegins
  BY <1>1 DEF StartBegins
<1>2. CASE StartReturns
  BY <1>2 DEF StartReturns
<1>3. CASE StopSignals
  <2>1. wpc' \in [Workers -> WorkerPC] /\ \A w \in Workers : w \notin threads => wpc'[w] = "none"
    BY <1>3, StopSignalsAll
  <2>2. /\ ctl' = "joining" /\ running' = FALSE
        /\ UNCHANGED <<threads, queue, cpc, calls, aborted, accepted, begun, late>>
    BY <1>3 DEF StopSignals
  <2>3. running' = (ctl' \in {"starting", "started"})
    <3> HIDE DEF PoolInv
    <3>1. (ctl' \in {"starting", "started"}) = FALSE  BY <2>2
    <3> QED  BY <2>2, <3>1
  <2> QED  BY <2>1, <2>2, <2>3 DEF WorkerPC
<1>4. CASE StopJoins
  BY <1>4 DEF StopJoins
<1>5. ASSUME NEW w \in Workers, StartsThread(w) PROVE TypeOK' /\ NotYetCreated'
  BY <1>5 DEF StartsThread
<1>6. ASSUME NEW w \in Workers, Loops(w) PROVE TypeOK' /\ NotYetCreated'
  BY <1>6 DEF Loops
<1>7. ASSUME NEW w \in Workers, TakeWaits(w) PROVE TypeOK' /\ NotYetCreated'
  BY <1>7 DEF TakeWaits
<1>8. ASSUME NEW w \in Workers, Takes(w) PROVE TypeOK' /\ NotYetCreated'
  <2>1. /\ queue' \in Seq(Task) /\ begun' \in Seq(Task) /\ Len(queue') = Len(queue) - 1
    BY <1>8 DEF Takes, Front
  <2>2. MaxQueue > 0 => Len(queue') <= MaxQueue  BY <2>1
  <2>3. /\ cpc' \in [Callers -> CallerPC]
        /\ \A k \in Callers : cpc'[k] # "idle" => calls[k] > 0
    <3>1. cpc' = cpc \/ \E t \in Callers : cpc[t] = "waits" /\ cpc' = [cpc EXCEPT ![t] = "run"]
      BY <1>8, TakesSignals
    <3> QED  BY <3>1 DEF CallerPC
  <2>4. late' \in [Workers -> Nat] /\ wpc' \in [Workers -> WorkerPC]  BY <1>8 DEF Takes, WorkerPC
  <2> QED  BY <1>8, <2>1, <2>2, <2>3, <2>4 DEF Takes, WorkerPC, CallerPC
<1>9. ASSUME NEW w \in Workers, TakesNothing(w) PROVE TypeOK' /\ NotYetCreated'
  BY <1>9 DEF TakesNothing
<1>10. ASSUME NEW w \in Workers, TaskReturns(w) PROVE TypeOK' /\ NotYetCreated'
  BY <1>10 DEF TaskReturns
<1>11. ASSUME NEW w \in Workers, TaskThrows(w) PROVE TypeOK' /\ NotYetCreated'
  BY <1>11 DEF TaskThrows
<1>12. ASSUME NEW w \in Workers, WorkerWakes(w) PROVE TypeOK' /\ NotYetCreated'
  BY <1>12 DEF WorkerWakes
<1>13. ASSUME NEW c \in Callers, RunInCaller(c) PROVE TypeOK' /\ NotYetCreated'
  BY <1>13 DEF RunInCaller
<1>14. ASSUME NEW c \in Callers, RunLocks(c) PROVE TypeOK' /\ NotYetCreated'
  BY <1>14 DEF RunLocks
<1>15. ASSUME NEW c \in Callers, RunWaits(c) PROVE TypeOK' /\ NotYetCreated'
  BY <1>15 DEF RunWaits
<1>16. ASSUME NEW c \in Callers, RunQueues(c) PROVE TypeOK' /\ NotYetCreated'
  <2>0. calls[c] \in 1 .. MaxCalls
    <3>1. cpc[c] # "idle"  BY <1>16 DEF RunQueues
    <3>2. calls[c] \in 0 .. MaxCalls /\ calls[c] > 0  BY <3>1
    <3> QED  BY <3>2
  <2>1. <<c, calls[c]>> \in Task  BY <2>0 DEF Task
  <2>2. queue' \in Seq(Task) /\ accepted' \in Seq(Task) /\ Len(queue') = Len(queue) + 1
    BY <1>16, <2>1 DEF RunQueues
  <2>3. MaxQueue > 0 => Len(queue') <= MaxQueue  BY <1>16, <2>2 DEF RunQueues, IsFull
  <2>4. /\ wpc' \in [Workers -> WorkerPC]
        /\ \A w \in Workers : w \notin threads => wpc'[w] = "none"
    <3>1. wpc' = wpc \/ \E t \in Workers : wpc[t] = "waits" /\ wpc' = [wpc EXCEPT ![t] = "take"]
      BY <1>16, QueuesSignals
    <3> QED  BY <3>1 DEF WorkerPC
  <2>5. /\ cpc' \in [Callers -> CallerPC] /\ calls' \in [Callers -> 0 .. MaxCalls]
        /\ \A k \in Callers : cpc'[k] # "idle" => calls'[k] > 0
    BY <1>16, <2>0 DEF RunQueues, CallerPC
  <2> QED  BY <1>16, <2>2, <2>3, <2>4, <2>5 DEF RunQueues, WorkerPC, CallerPC
<1>17. ASSUME NEW c \in Callers, CallerWakes(c) PROVE TypeOK' /\ NotYetCreated'
  BY <1>17 DEF CallerWakes
<1>18. CASE UNCHANGED vars
  BY <1>18 DEF vars
<1> QED
  BY <1>1, <1>2, <1>3, <1>4, <1>5, <1>6, <1>7, <1>8, <1>9, <1>10, <1>11, <1>12, <1>13, <1>14, <1>15, <1>16, <1>17, <1>18, NextIsStep DEF Step

\* Every step keeps the count of late tasks.
LEMMA LateStep == PoolInv /\ [Next]_vars => LateInv'
<1> SUFFICES ASSUME PoolInv, [Next]_vars PROVE LateInv'
  OBVIOUS
<1> USE DEF PoolInv, TypeOK, NotYetCreated, LateInv
<1>1. CASE StartBegins
  BY <1>1 DEF StartBegins
<1>2. CASE StartReturns
  BY <1>2 DEF StartReturns
<1>3. CASE StopSignals
  BY <1>3 DEF StopSignals, WokenByStop, NotifyAll
<1>4. CASE StopJoins
  BY <1>4 DEF StopJoins
<1>5. ASSUME NEW w \in Workers, StartsThread(w) PROVE LateInv'
  BY <1>5 DEF StartsThread
<1>6. ASSUME NEW w \in Workers, Loops(w) PROVE LateInv'
  BY <1>6 DEF Loops, LoopGoesOn
<1>7. ASSUME NEW w \in Workers, TakeWaits(w) PROVE LateInv'
  BY <1>7 DEF TakeWaits
<1>8. ASSUME NEW w \in Workers, Takes(w) PROVE LateInv'
  <2>1. late[w] = 0 /\ wpc' = [wpc EXCEPT ![w] = "task"] /\ UNCHANGED <<ctl, running>>
    BY <1>8 DEF Takes
  <2>2. CASE running  BY <1>8, <2>1, <2>2 DEF Takes
  <2>3. CASE ~ running
    <3>1. late' = [late EXCEPT ![w] = 1]  BY <1>8, <2>1, <2>3 DEF Takes
    <3> QED  BY <2>1, <2>3, <3>1
  <2> QED  BY <2>2, <2>3
<1>9. ASSUME NEW w \in Workers, TakesNothing(w) PROVE LateInv'
  BY <1>9 DEF TakesNothing
<1>10. ASSUME NEW w \in Workers, TaskReturns(w) PROVE LateInv'
  BY <1>10 DEF TaskReturns
<1>11. ASSUME NEW w \in Workers, TaskThrows(w) PROVE LateInv'
  BY <1>11 DEF TaskThrows
<1>12. ASSUME NEW w \in Workers, WorkerWakes(w) PROVE LateInv'
  BY <1>12 DEF WorkerWakes
<1>13. ASSUME NEW c \in Callers, RunInCaller(c) PROVE LateInv'
  BY <1>13 DEF RunInCaller
<1>14. ASSUME NEW c \in Callers, RunLocks(c) PROVE LateInv'
  BY <1>14 DEF RunLocks
<1>15. ASSUME NEW c \in Callers, RunWaits(c) PROVE LateInv'
  BY <1>15 DEF RunWaits
<1>16. ASSUME NEW c \in Callers, RunQueues(c) PROVE LateInv'
  <2>1. wpc' = wpc \/ \E t \in Workers : wpc[t] = "waits" /\ wpc' = [wpc EXCEPT ![t] = "take"]
    BY <1>16, QueuesSignals
  <2>2. UNCHANGED <<ctl, running, late>>  BY <1>16 DEF RunQueues
  <2> QED  BY <2>1, <2>2
<1>17. ASSUME NEW c \in Callers, CallerWakes(c) PROVE LateInv'
  BY <1>17 DEF CallerWakes
<1>18. CASE UNCHANGED vars
  BY <1>18 DEF vars
<1> QED
  BY <1>1, <1>2, <1>3, <1>4, <1>5, <1>6, <1>7, <1>8, <1>9, <1>10, <1>11, <1>12, <1>13, <1>14, <1>15, <1>16, <1>17, <1>18, NextIsStep DEF Step

-----------------------------------------------------------------------------
\* The two halves of WakeupsSuffice, over the program counters and the queue.
WorkersAwake(pc, r, q) == Waiting(pc) # {} => r /\ Len(q) <= Cardinality(At(pc, "take"))
CallersAwake(pc, q) == Waiting(pc) # {} => MaxQueue - Len(q) <= Cardinality(At(pc, "run"))

\* WakeupsSuffice in these terms.
LEMMA Halves ==
  ASSUME TypeOK
  PROVE  WakeupsSuffice <=> WorkersAwake(wpc, running, queue) /\ CallersAwake(cpc, queue)
BY PCs DEF WakeupsSuffice, WorkersAwake, CallersAwake

\* When one worker moves, enough others stay on their way for the tasks there are.
LEMMA WorkerMoves ==
  ASSUME TypeOK, WorkersAwake(wpc, running, queue), Len(queue') \in Nat, running' = running,
         NEW w \in Workers, NEW v \in WorkerPC,
         wpc' = [wpc EXCEPT ![w] = v], v = "waits" => running /\ Len(queue') = 0,
         \/ Len(queue') = Len(queue) /\ (v = "take" \/ wpc[w] # "take")
         \/ Len(queue') = Len(queue) - 1 \/ Len(queue') = 0
         \/ Len(queue') = Len(queue) + 1 /\ v = "take" /\ wpc[w] = "waits"
  PROVE  WorkersAwake(wpc', running', queue')
<1> DEFINE A == Cardinality(At(wpc, "take"))
           B == Cardinality(At(wpc', "take"))
<1>0. wpc \in [Workers -> WorkerPC] /\ IsFiniteSet(Workers) /\ Len(queue) \in Nat /\ MaxQueue \in Nat
  BY PCs
<1>1. /\ A \in Nat /\ B \in Nat /\ B >= A - 1
      /\ v = "take" \/ wpc[w] # "take" => B >= A
      /\ v = "take" /\ wpc[w] # "take" => B = A + 1
  <2>1. Moved(wpc, [wpc EXCEPT ![w] = v], w, v, "take")  BY <1>0, OneMoves, Zenon
  <2> QED  BY <2>1 DEF Moved
<1>2. SUFFICES ASSUME Waiting(wpc') # {} PROVE running' /\ Len(queue') <= B
  BY DEF WorkersAwake
<1>3. CASE v = "waits"
  <2> HIDE DEF A, B
  <2> QED  BY <1>0, <1>1, <1>3
<1>4. CASE v # "waits"
  <2>1. Waiting(wpc) # {}  BY <1>0, <1>2, <1>4 DEF Waiting
  <2>2. running /\ Len(queue) <= A  BY <2>1 DEF WorkersAwake
  <2>3. wpc[w] = "waits" => wpc[w] # "take"  OBVIOUS
  <2> HIDE DEF A, B
  <2> QED  BY <1>0, <1>1, <2>2, <2>3
<1> QED  BY <1>3, <1>4

\* When one caller moves, enough others stay on their way for the room there is.
LEMMA CallerMoves ==
  ASSUME TypeOK, CallersAwake(cpc, queue), Len(queue') \in Nat, NEW c \in Callers, NEW v \in CallerPC,
         cpc' = [cpc EXCEPT ![c] = v], v = "waits" => Len(queue') >= MaxQueue,
         \/ Len(queue') = Len(queue) /\ (v = "run" \/ cpc[c] # "run")
         \/ Len(queue') = Len(queue) + 1 \/ Len(queue') >= MaxQueue
         \/ Len(queue') = Len(queue) - 1 /\ v = "run" /\ cpc[c] = "waits"
  PROVE  CallersAwake(cpc', queue')
<1> DEFINE A == Cardinality(At(cpc, "run"))
           B == Cardinality(At(cpc', "run"))
<1>0. cpc \in [Callers -> CallerPC] /\ IsFiniteSet(Callers) /\ Len(queue) \in Nat /\ MaxQueue \in Nat
  BY PCs
<1>1. /\ A \in Nat /\ B \in Nat /\ B >= A - 1
      /\ v = "run" \/ cpc[c] # "run" => B >= A
      /\ v = "run" /\ cpc[c] # "run" => B = A + 1
  <2>1. Moved(cpc, [cpc EXCEPT ![c] = v], c, v, "run")  BY <1>0, OneMoves, Zenon
  <2> QED  BY <2>1 DEF Moved
<1>2. SUFFICES ASSUME Waiting(cpc') # {} PROVE MaxQueue - Len(queue') <= B
  BY DEF CallersAwake
<1>3. CASE v = "waits"
  <2> HIDE DEF A, B
  <2> QED  BY <1>0, <1>1, <1>3
<1>4. CASE v # "waits"
  <2>1. Waiting(cpc) # {}  BY <1>0, <1>2, <1>4 DEF Waiting
  <2>2. MaxQueue - Len(queue) <= A  BY <2>1 DEF CallersAwake
  <2>3. cpc[c] = "waits" => cpc[c] # "run"  OBVIOUS
  <2> HIDE DEF A, B
  <2> QED  BY <1>0, <1>1, <2>2, <2>3
<1> QED  BY <1>3, <1>4

\* No step leaves a thread asleep that should be on its way.
LEMMA WakeupStep == PoolInv /\ [Next]_vars => WakeupsSuffice'
<1> DEFINE Awake == WorkersAwake(wpc, running, queue) /\ CallersAwake(cpc, queue)
<1> SUFFICES ASSUME PoolInv, [Next]_vars PROVE Awake'
  <2>1. TypeOK' => (WakeupsSuffice' <=> Awake')
    <3>1. TypeOK => (WakeupsSuffice <=> Awake)  BY Halves
    <3> QED  BY <3>1, PTL
  <2> QED  BY <2>1, TypeStep
<1>i. PoolInv  OBVIOUS
<1>0. /\ wpc \in [Workers -> WorkerPC] /\ cpc \in [Callers -> CallerPC]
      /\ IsFiniteSet(Workers) /\ IsFiniteSet(Callers)
      /\ Len(queue) \in Nat /\ MaxQueue \in Nat
      /\ WorkersAwake(wpc, running, queue) /\ CallersAwake(cpc, queue)
      /\ TypeOK
  BY PCs, Halves DEF PoolInv
<1>v. /\ {"none", "loop", "take", "waits", "task", "done"} = WorkerPC
      /\ {"idle", "run", "waits"} = CallerPC
  BY DEF WorkerPC, CallerPC
<1>1. CASE StartBegins
  <2>1. running' = TRUE /\ UNCHANGED <<wpc, cpc, queue>>  BY <1>1 DEF StartBegins
  <2> QED  BY <1>0, <2>1 DEF WorkersAwake
<1>2. CASE StartReturns
  BY <1>0, <1>2 DEF StartReturns
<1>3. CASE StopSignals
  <2>1. Waiting(wpc') = {}  BY <1>3, <1>i, StopSignalsAll DEF Waiting, PoolInv
  <2>2. UNCHANGED <<queue, cpc>>  BY <1>3 DEF StopSignals
  <2> QED  BY <1>0, <2>1, <2>2 DEF WorkersAwake
<1>4. CASE StopJoins
  BY <1>0, <1>4 DEF StopJoins
<1>5. ASSUME NEW w \in Workers, StartsThread(w) PROVE Awake'
  <2>1. /\ wpc' = [wpc EXCEPT ![w] = "task"] /\ UNCHANGED <<running, queue, cpc>>
        /\ wpc[w] = "none"
    BY <1>5, <1>i DEF StartsThread, PoolInv, NotYetCreated
  <2>2. WorkersAwake(wpc', running', queue')
    BY <1>0, <1>v, <2>1, WorkerMoves
  <2> QED  BY <1>0, <2>1, <2>2
<1>6. ASSUME NEW w \in Workers, Loops(w) PROVE Awake'
  <2>1. /\ wpc' = [wpc EXCEPT ![w] = IF running THEN "take" ELSE "done"] /\ UNCHANGED <<running, queue, cpc>>
        /\ wpc[w] = "loop"
    BY <1>6 DEF Loops, LoopGoesOn
  <2>2. WorkersAwake(wpc', running', queue')
    BY <1>0, <1>v, <2>1, WorkerMoves
  <2> QED  BY <1>0, <2>1, <2>2
<1>7. ASSUME NEW w \in Workers, TakeWaits(w) PROVE Awake'
  <2>1. /\ wpc' = [wpc EXCEPT ![w] = "waits"] /\ UNCHANGED <<running, queue, cpc>>
        /\ running /\ Len(queue) = 0
    BY <1>7 DEF TakeWaits
  <2>2. WorkersAwake(wpc', running', queue')
    BY <1>0, <1>v, <2>1, WorkerMoves
  <2> QED  BY <1>0, <2>1, <2>2
<1>8. ASSUME NEW w \in Workers, Takes(w) PROVE Awake'
  <2>1. Len(queue') = Len(queue) - 1 /\ Len(queue') \in Nat
    BY <1>8, <1>i DEF Takes, PoolInv, TypeOK
  <2>3. wpc' = [wpc EXCEPT ![w] = "task"] /\ running' = running  BY <1>8 DEF Takes
  <2>2. WorkersAwake(wpc', running', queue')
    BY <1>0, <1>v, <2>1, <2>3, WorkerMoves
  <2>4. CASE cpc' = cpc /\ (MaxQueue > 0 => Waiting(cpc) = {})
    <3>1. CASE MaxQueue > 0  BY <2>2, <2>3, <2>4, <3>1 DEF CallersAwake
    <3>2. CASE MaxQueue = 0
      <4>1. At(cpc, "run") \subseteq Callers  BY <1>0 DEF At
      <4>2. Cardinality(At(cpc, "run")) \in Nat  BY <1>0, <4>1, FS_Subset, FS_CardinalityType
      <4>3. CallersAwake(cpc, queue')  BY <2>1, <3>2, <4>2 DEF CallersAwake
      <4> QED  BY <2>2, <2>3, <2>4, <4>3
    <3> QED  BY <1>0, <3>1, <3>2
  <2>5. CASE \E t \in Callers : cpc[t] = "waits" /\ cpc' = [cpc EXCEPT ![t] = "run"]
    <3>1. PICK t \in Callers : cpc[t] = "waits" /\ cpc' = [cpc EXCEPT ![t] = "run"]
      BY <2>5
    <3>2. CallersAwake(cpc', queue')
      BY <1>0, <1>v, <2>1, <3>1, CallerMoves
    <3> QED  BY <2>2, <2>3, <3>1, <3>2
  <2> QED  BY <1>8, <1>i, <2>4, <2>5, TakesSignals DEF PoolInv
<1>9. ASSUME NEW w \in Workers, TakesNothing(w) PROVE Awake'
  <2>1. /\ wpc' = [wpc EXCEPT ![w] = "loop"] /\ UNCHANGED <<running, queue, cpc>>
        /\ Len(queue) = 0
    BY <1>9 DEF TakesNothing
  <2>w. WorkersAwake(wpc', running', queue')
    <3>1. Waiting(wpc') \subseteq Waiting(wpc)  BY <1>0, <2>1 DEF Waiting, WorkerPC
    <3>2. Waiting(wpc) = {}  BY <1>0, <1>9 DEF TakesNothing, WorkersAwake
    <3> QED  BY <3>1, <3>2 DEF WorkersAwake
  <2> QED  BY <1>0, <2>1, <2>w
<1>10. ASSUME NEW w \in Workers, TaskReturns(w) PROVE Awake'
  <2>1. /\ wpc' = [wpc EXCEPT ![w] = "loop"] /\ UNCHANGED <<running, queue, cpc>>
        /\ wpc[w] = "task"
    BY <1>10 DEF TaskReturns
  <2>2. WorkersAwake(wpc', running', queue')
    BY <1>0, <1>v, <2>1, WorkerMoves
  <2> QED  BY <1>0, <2>1, <2>2
<1>11. ASSUME NEW w \in Workers, TaskThrows(w) PROVE Awake'
  BY <1>0, <1>11 DEF TaskThrows
<1>12. ASSUME NEW w \in Workers, WorkerWakes(w) PROVE Awake'
  <2>1. /\ wpc' = [wpc EXCEPT ![w] = "take"] /\ UNCHANGED <<running, queue, cpc>>
        /\ wpc[w] = "waits"
    BY <1>12 DEF WorkerWakes
  <2>2. WorkersAwake(wpc', running', queue')
    BY <1>0, <1>v, <2>1, WorkerMoves
  <2> QED  BY <1>0, <2>1, <2>2
<1>13. ASSUME NEW c \in Callers, RunInCaller(c) PROVE Awake'
  BY <1>0, <1>13 DEF RunInCaller
<1>14. ASSUME NEW c \in Callers, RunLocks(c) PROVE Awake'
  <2>1. /\ cpc' = [cpc EXCEPT ![c] = "run"] /\ UNCHANGED <<running, queue, wpc>>
        /\ cpc[c] = "idle"
    BY <1>14 DEF RunLocks
  <2>2. CallersAwake(cpc', queue')
    BY <1>0, <1>v, <2>1, CallerMoves
  <2> QED  BY <1>0, <2>1, <2>2
<1>15. ASSUME NEW c \in Callers, RunWaits(c) PROVE Awake'
  <2>1. /\ cpc' = [cpc EXCEPT ![c] = "waits"] /\ UNCHANGED <<running, queue, wpc>>
        /\ Len(queue) >= MaxQueue
    BY <1>15 DEF RunWaits, IsFull
  <2>2. CallersAwake(cpc', queue')
    BY <1>0, <1>v, <2>1, CallerMoves
  <2> QED  BY <1>0, <2>1, <2>2
<1>16. ASSUME NEW c \in Callers, RunQueues(c) PROVE Awake'
  <2>1. Len(queue') = Len(queue) + 1 /\ Len(queue') \in Nat
    <3>1. queue \in Seq(Task) /\ queue' = Append(queue, <<c, calls[c]>>)
      BY <1>16, <1>i DEF RunQueues, PoolInv, TypeOK
    <3> QED  BY <3>1
  <2>3. cpc' = [cpc EXCEPT ![c] = "idle"] /\ running' = running  BY <1>16 DEF RunQueues
  <2>2. CallersAwake(cpc', queue')
    BY <1>0, <1>v, <2>1, <2>3, CallerMoves
  <2>4. CASE wpc' = wpc /\ Waiting(wpc) = {}
    BY <2>2, <2>3, <2>4 DEF WorkersAwake
  <2>5. CASE \E t \in Workers : wpc[t] = "waits" /\ wpc' = [wpc EXCEPT ![t] = "take"]
    <3>1. PICK t \in Workers : wpc[t] = "waits" /\ wpc' = [wpc EXCEPT ![t] = "take"]
      BY <2>5
    <3>2. WorkersAwake(wpc', running', queue')
      BY <1>0, <1>v, <2>1, <2>3, <3>1, WorkerMoves
    <3> QED  BY <2>2, <2>3, <3>1, <3>2
  <2> QED  BY <1>16, <1>i, <2>4, <2>5, QueuesSignals DEF PoolInv
<1>17. ASSUME NEW c \in Callers, CallerWakes(c) PROVE Awake'
  <2>1. /\ cpc' = [cpc EXCEPT ![c] = "run"] /\ UNCHANGED <<running, queue, wpc>>
        /\ cpc[c] = "waits"
    BY <1>17 DEF CallerWakes
  <2>2. CallersAwake(cpc', queue')
    BY <1>0, <1>v, <2>1, CallerMoves
  <2> QED  BY <1>0, <2>1, <2>2
<1>18. CASE UNCHANGED vars
  BY <1>0, <1>18 DEF vars
<1> QED
  BY <1>1, <1>2, <1>3, <1>4, <1>5, <1>6, <1>7, <1>8, <1>9, <1>10, <1>11, <1>12, <1>13, <1>14, <1>15, <1>16, <1>17, <1>18, NextIsStep DEF Step

\* Only run() and take() touch the queue.
LEMMA QueueSteps ==
  [Next]_vars => \/ \E w \in Workers : Takes(w)
                 \/ \E c \in Callers : RunQueues(c)
                 \/ UNCHANGED <<queue, accepted, begun>>
BY NextIsStep DEF Step, vars, StartBegins, StartReturns, StopSignals, StopJoins, StartsThread, Loops, TakeWaits, TakesNothing, TaskReturns, TaskThrows, WorkerWakes, RunInCaller, RunLocks, RunWaits, CallerWakes

\* What run() queues is a task.
LEMMA RunQueuesTask ==
  ASSUME PoolInv, NEW c \in Callers, RunQueues(c)
  PROVE  <<c, calls[c]>> \in Task
<1>1. calls \in [Callers -> 0 .. MaxCalls] /\ MaxCalls \in Nat
  BY PoolAssumption DEF PoolAssumption, PoolInv, TypeOK
<1>2. cpc[c] # "idle"  BY DEF RunQueues
<1>3. calls[c] \in 0 .. MaxCalls /\ calls[c] > 0  BY <1>1, <1>2 DEF PoolInv, TypeOK
<1>4. calls[c] \in 1 .. MaxCalls  BY <1>1, <1>3
<1> QED  BY <1>4 DEF Task

\* The history and the queue stay in step.
LEMMA BacklogStep == PoolInv /\ [Next]_vars => Backlog'
<1> SUFFICES ASSUME PoolInv, [Next]_vars PROVE Backlog'
  OBVIOUS
<1>0. queue \in Seq(Task) /\ accepted \in Seq(Task) /\ begun \in Seq(Task) /\ Backlog
  BY DEF PoolInv, TypeOK
<1>1. ASSUME NEW c \in Callers, RunQueues(c) PROVE Backlog'
  <2> DEFINE x == <<c, calls[c]>>
  <2>1. queue' = Append(queue, x) /\ accepted' = Append(accepted, x) /\ UNCHANGED begun
    BY <1>1 DEF RunQueues
  <2>2. x \in Task  BY <1>1, RunQueuesTask
  <2> HIDE DEF x
  <2>3. /\ Len(queue') = Len(queue) + 1 /\ Len(accepted') = Len(accepted) + 1
        /\ Len(queue) \in Nat /\ Len(accepted) \in Nat /\ Len(begun) \in Nat
    BY <1>0, <2>1, <2>2
  <2>4. Len(accepted') = Len(begun') + Len(queue')  BY <1>0, <2>1, <2>3 DEF Backlog
  <2>5. ASSUME NEW i \in 1 .. Len(queue') PROVE queue'[i] = accepted'[Len(begun') + i]
    <3>1. CASE i = Len(queue) + 1
      <4>1. Len(begun) + i = Len(accepted) + 1  BY <1>0, <2>3, <3>1 DEF Backlog
      <4> QED  BY <1>0, <2>1, <2>2, <3>1, <4>1
    <3>2. CASE i # Len(queue) + 1
      <4>1. i \in 1 .. Len(queue) /\ Len(begun) + i \in 1 .. Len(accepted)
        BY <1>0, <2>3, <3>2 DEF Backlog
      <4> QED  BY <1>0, <2>1, <2>2, <4>1 DEF Backlog
    <3> QED  BY <3>1, <3>2
  <2> QED  BY <2>4, <2>5 DEF Backlog
<1>2. ASSUME NEW w \in Workers, Takes(w) PROVE Backlog'
  <2>1. /\ queue # << >> /\ queue' = Tail(queue) /\ UNCHANGED accepted
        /\ Len(begun') = Len(begun) + 1 /\ Len(begun) \in Nat /\ Len(queue) \in Nat
    BY <1>0, <1>2 DEF Takes
  <2>2. /\ Len(queue') = Len(queue) - 1
        /\ \A i \in 1 .. Len(queue') : queue'[i] = queue[i + 1] /\ i + 1 \in 1 .. Len(queue)
    BY <1>0, <2>1
  <2>3. \A i \in 1 .. Len(queue') : queue'[i] = accepted[Len(begun) + (i + 1)]
    BY <1>0, <2>2 DEF Backlog
  <2>4. ASSUME NEW i \in 1 .. Len(queue') PROVE queue'[i] = accepted'[Len(begun') + i]
    <3>1. i \in Int /\ Len(begun) + (i + 1) = Len(begun') + i  BY <2>1
    <3> QED  BY <2>1, <2>3, <3>1
  <2>5. Len(accepted') = Len(begun') + Len(queue')
    <3>1. Len(accepted) = Len(begun) + Len(queue)  BY <1>0 DEF Backlog
    <3> QED  BY <2>1, <2>2, <3>1
  <2> QED  BY <2>4, <2>5 DEF Backlog
<1>3. CASE UNCHANGED <<queue, accepted, begun>>  BY <1>0, <1>3 DEF Backlog
<1> QED  BY <1>1, <1>2, <1>3, QueueSteps

\* The inductive invariant of the pool.
LEMMA PoolInvariant == Spec => []PoolInv
<1>1. Init => PoolInv
  <2> SUFFICES ASSUME Init PROVE PoolInv
    OBVIOUS
  <2>0. running = (ctl \in {"starting", "started"})
    <3>1. (ctl \in {"starting", "started"}) = FALSE  BY DEF Init
    <3> QED  BY <3>1 DEF Init
  <2>1. TypeOK
    <3>1. /\ ctl \in {"new", "starting", "started", "joining", "stopped"}
          /\ threads \subseteq Workers /\ aborted \in BOOLEAN
          /\ wpc \in [Workers -> {"none", "loop", "take", "waits", "task", "done"}]
          /\ cpc \in [Callers -> {"idle", "run", "waits"}]
          /\ \A c \in Callers : cpc[c] # "idle" => calls[c] > 0
      BY DEF Init
    <3>2. calls \in [Callers -> 0 .. MaxCalls] /\ late \in [Workers -> Nat]
      BY PoolAssumption DEF PoolAssumption, Init
    <3>3. /\ queue \in Seq(Task) /\ accepted \in Seq(Task) /\ begun \in Seq(Task)
          /\ MaxQueue > 0 => Len(queue) <= MaxQueue
      BY PoolAssumption DEF PoolAssumption, Init
    <3> QED  BY <2>0, <3>1, <3>2, <3>3 DEF TypeOK
  <2>2. NotYetCreated /\ LateInv  BY DEF Init, NotYetCreated, LateInv
  <2>3. WakeupsSuffice  BY DEF Init, WakeupsSuffice, Waiting
  <2>4. Backlog  BY DEF Init, Backlog
  <2> QED  BY <2>1, <2>2, <2>3, <2>4 DEF PoolInv
<1>2. PoolInv /\ [Next]_vars => PoolInv'
  BY TypeStep, LateStep, WakeupStep, BacklogStep DEF PoolInv
<1> QED  BY <1>1, <1>2, PTL DEF Spec

\* Types and the limit of the queue: run() never exceeds maxQueueSize_.
THEOREM PoolTypes == Spec => []TypeOK
<1>1. PoolInv => TypeOK  BY DEF PoolInv
<1> QED  BY <1>1, PoolInvariant, PTL

\* No task is left behind with idle workers asleep, no room with callers asleep,
\* and after stop() has signalled no worker sleeps.
THEOREM PoolWakeups == Spec => []WakeupsSuffice
<1>1. PoolInv => WakeupsSuffice  BY DEF PoolInv
<1> QED  BY <1>1, PoolInvariant, PTL

\* After stop() each worker executes at most one more task.
THEOREM PoolStops == Spec => []OneLastTask
<1>1. PoolInv => OneLastTask  BY DEF PoolInv, LateInv, OneLastTask
<1> QED  BY <1>1, PoolInvariant, PTL

\* The queue of the pool is a channel: run() and take() lose, double and reorder
\* nothing.
THEOREM PoolImplementsChannel == Spec => Implements
<1>1. Init => Channel!Init  BY PoolAssumption DEF PoolAssumption, Init, Channel!Init
<1>2. PoolInv /\ [Next]_vars => [Channel!Next]_<<MaxQueue, accepted, begun>>
  <2> SUFFICES ASSUME PoolInv, [Next]_vars PROVE [Channel!Next]_<<MaxQueue, accepted, begun>>
    OBVIOUS
  <2>0. /\ queue \in Seq(Task) /\ accepted \in Seq(Task) /\ begun \in Seq(Task) /\ Backlog
        /\ calls \in [Callers -> 0 .. MaxCalls] /\ MaxQueue \in Nat /\ MaxCalls \in Nat
    BY PoolAssumption DEF PoolAssumption, PoolInv, TypeOK
  <2>1. ASSUME NEW c \in Callers, RunQueues(c) PROVE \E x \in Task : Channel!Accept(x)
    <3>2. <<c, calls[c]>> \in Task  BY <2>1, RunQueuesTask
    <3>3. Len(accepted) - Len(begun) = Len(queue)  BY <2>0 DEF Backlog
    <3>4. MaxQueue > 0 => Len(queue) < MaxQueue  BY <2>0, <2>1 DEF RunQueues, IsFull
    <3>5. Channel!Accept(<<c, calls[c]>>)
      BY <2>1, <3>3, <3>4 DEF RunQueues, Channel!Accept
    <3> QED  BY <3>2, <3>5
  <2>2. ASSUME NEW w \in Workers, Takes(w) PROVE Channel!Deliver
    <3>1. Len(queue) \in Nat \ {0} /\ Len(begun) \in Nat /\ Head(queue) = queue[1]
      BY <2>0, <2>2 DEF Takes
    <3>2. Head(queue) = accepted[Len(begun) + 1] /\ Len(begun) < Len(accepted)
      <4>1. 1 \in 1 .. Len(queue) /\ Len(accepted) = Len(begun) + Len(queue)
        BY <2>0, <3>1 DEF Backlog
      <4>2. queue[1] = accepted[Len(begun) + 1]  BY <2>0, <4>1 DEF Backlog
      <4> QED  BY <3>1, <4>1, <4>2
    <3> QED  BY <2>2, <3>2 DEF Takes, Front, Channel!Deliver
  <2>3. CASE UNCHANGED <<queue, accepted, begun>>  BY <2>3
  <2> QED  BY <2>1, <2>2, <2>3, QueueSteps DEF Channel!Next
<1> QED  BY <1>1, <1>2, PoolInvariant, PTL DEF Spec, Implements, Channel!Spec
=============================================================================
