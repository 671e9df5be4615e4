-------------------------- MODULE AsyncLoggingProofs --------------------------
(***************************************************************************)
(* Proofs about AsyncLogging, for every number of back ends, every buffer  *)
(* capacity and every overload limit from two up.                          *)
(***************************************************************************)
EXTENDS AsyncLogging, TLAPS

(***************************************************************************)
(* The spare-buffer invariant.  A back end can refill both spares exactly  *)
(* because the front end uses up nextBuffer_ only together with handing    *)
(* over a full buffer: nextBuffer = Null implies buffers # << >>.          *)
(***************************************************************************)
SpareInv ==
  /\ nextBuffer \in {Null, EmptyBuffer}
  /\ nextBuffer = Null => buffers # << >>
  /\ \A b \in Backends :
       /\ pc[b] \in {"loop", "lock", "wait", "woken"} =>
            newBuffer1[b] = EmptyBuffer /\ newBuffer2[b] = EmptyBuffer
       /\ pc[b] \notin {"swapped", "write"} => buffersToWrite[b] = << >>
       /\ pc[b] \in {"swapped", "write"} =>
            /\ newBuffer1[b] = Null
            /\ newBuffer2[b] \in {Null, EmptyBuffer}
            /\ Len(buffersToWrite[b]) >= 1
            /\ newBuffer2[b] = Null => Len(buffersToWrite[b]) >= 2

\* A buffer after reset() is a buffer, and not a moved-from pointer.
LEMMA EmptyBufferType == EmptyBuffer \in Buffer /\ EmptyBuffer # Null
<1>1. EmptyBuffer \in Buffer
  BY DEF EmptyBuffer, Buffer
<1>2. EmptyBuffer # Null
  BY <1>1, ConstantsAssumption
<1> QED BY <1>1, <1>2

\* FixedBuffer::append() keeps a buffer within its type.
LEMMA FixedAppendType ==
  ASSUME NEW buf \in Buffer, NEW m \in Nat, NEW len \in Lens
  PROVE  FixedAppend(buf, m, len) \in Buffer
  BY ConstantsAssumption DEF FixedAppend, Avail, Buffer

\* The lines of a buffer are a set of line numbers.
LEMMA LinesType ==
  ASSUME NEW buf \in Buffer
  PROVE  buf.msgs \in Seq(Nat) /\ Lines(buf) \subseteq Nat
  BY DEF Lines, Buffer

\* So are the lines of the tail of a vector of buffers.
LEMMA LinesFromType ==
  ASSUME NEW bufs \in Seq(Buffer), NEW i \in Nat \ {0}
  PROVE  LinesFrom(bufs, i) \subseteq Nat
<1>1. \A k \in i .. Len(bufs) : bufs[k] \in Buffer
  OBVIOUS
<1> QED BY <1>1, LinesType DEF LinesFrom

\* resize(2) of a longer vector: the sequence that erase() and resize() leave.
LEMMA TwoOfSeq ==
  ASSUME NEW bufs \in Seq(Buffer), Len(bufs) >= 2
  PROVE  /\ SubSeq(bufs, 1, 2) \in Seq(Buffer)
         /\ Len(SubSeq(bufs, 1, 2)) = 2
         /\ SubSeq(bufs, 1, 2)[1] = bufs[1] /\ SubSeq(bufs, 1, 2)[2] = bufs[2]
  OBVIOUS

\* The state is well typed and the spare-buffer invariant holds.
THEOREM TypeAndSpares == Spec => [](TypeOK /\ SpareInv)
<1>1. Init => TypeOK /\ SpareInv
  <2> SUFFICES ASSUME Init PROVE TypeOK /\ SpareInv
    OBVIOUS
  <2>1. TypeOK
    <3>1. << >> \in Seq(Buffer) /\ << >> \in Seq(Nat)
      OBVIOUS
    <3>2. /\ pc \in [Backends -> {"none", "start", "loop", "lock", "wait", "woken",
                                  "swapped", "write", "done"}]
          /\ newBuffer1 \in [Backends -> BufferPtr]
          /\ newBuffer2 \in [Backends -> BufferPtr]
          /\ buffersToWrite \in [Backends -> Seq(Buffer)]
          /\ next \in [Backends -> Nat \ {0}]
          /\ output \in [Backends -> Seq(Nat)]
          /\ durable \in [Backends -> Nat]
      BY <3>1 DEF Init, BufferPtr
    <3>3. /\ currentBuffer \in Buffer /\ nextBuffer \in BufferPtr /\ buffers \in Seq(Buffer)
          /\ lastStarted \in Backends \cup {NoThread}
          /\ appended \in 0 .. MaxAppends /\ dropped \in SUBSET Nat
      BY <3>1, EmptyBufferType, ConstantsAssumption DEF Init, BufferPtr
    <3>4. running \in BOOLEAN /\ alive \in BOOLEAN
      BY DEF Init
    <3>6. latch \in Int
      BY DEF Init
    <3>5. caller \in {"new", "starting", "ready", "restarting", "stopping", "joining",
                     "stopped"}
      BY DEF Init
    <3> QED
      BY <3>2, <3>3, <3>4, <3>5, <3>6 DEF TypeOK
  <2>2. SpareInv
    BY EmptyBufferType DEF Init, SpareInv
  <2> QED BY <2>1, <2>2
<1>2. TypeOK /\ SpareInv /\ [Next]_vars => (TypeOK /\ SpareInv)'
  <2> SUFFICES ASSUME TypeOK, SpareInv, [Next]_vars
               PROVE  TypeOK' /\ SpareInv'
    OBVIOUS
  <2> USE ConstantsAssumption, EmptyBufferType
  <2>1. ASSUME NEW len \in Lens, Line(len), alive' \in BOOLEAN, running' \in BOOLEAN
        PROVE  TypeOK' /\ SpareInv'
    <3>1. appended' \in 0 .. MaxAppends /\ appended + 1 \in Nat
      BY <2>1 DEF Line, TypeOK
    <3>2. CASE AppendInPlace(len)
      <4>1. currentBuffer' \in Buffer
        BY <3>1, <3>2, FixedAppendType DEF AppendInPlace, TypeOK
      <4> QED
        BY <2>1, <3>1, <3>2, <4>1
        DEF Line, AppendInPlace, TypeOK, SpareInv, spareVars, writeVars, callVars
    <3>3. CASE AppendSwitch(len)
      <4>1. currentBuffer' \in Buffer
        BY <3>1, <3>3, FixedAppendType DEF AppendSwitch, TypeOK, BufferPtr
      <4>2. /\ pc' \in [Backends -> {"none", "start", "loop", "lock", "wait", "woken",
                                    "swapped", "write", "done"}]
            /\ \A b \in Backends : pc'[b] = pc[b] \/ (pc[b] = "wait" /\ pc'[b] = "woken")
        BY <3>3 DEF AppendSwitch, NotifyOne, TypeOK
      <4>3. buffers' \in Seq(Buffer) /\ buffers' # << >> /\ nextBuffer' = Null
        BY <3>3 DEF AppendSwitch, TypeOK
      <4>4. TypeOK'
        BY <2>1, <3>1, <4>1, <4>2, <4>3
        DEF Line, TypeOK, BufferPtr, spareVars, writeVars, callVars
      <4>5. SpareInv'
        BY <2>1, <4>2, <4>3 DEF Line, SpareInv, spareVars, writeVars
      <4> QED BY <4>4, <4>5
    <3> QED BY <2>1, <3>2, <3>3 DEF Line
  <2>2. CASE \E len \in Lens : LogLine(len)
    BY <2>1, <2>2 DEF LogLine, TypeOK
  <2>3. CASE \E len \in Lens : LogFatal(len)
    BY <2>1, <2>3 DEF LogFatal, TypeOK
  <2>8. CASE \E len \in Lens : StartFails(len)
    BY <2>1, <2>8 DEF StartFails
  <2>9. CASE FirstStartFails
    BY <2>9 DEF FirstStartFails, TypeOK, SpareInv, frontVars, callVars, spareVars, writeVars
  <2>4. CASE \E b \in Backends : Start(b)
    BY <2>4 DEF Start, TypeOK, SpareInv, frontVars, spareVars, writeVars, histVars
  <2>5. CASE Control
    <3>1. CASE StartReturns
      BY <3>1 DEF StartReturns, TypeOK, SpareInv, objVars, frontVars, spareVars, writeVars, histVars
    <3>2. CASE StopClearsRunning
      BY <3>2 DEF StopClearsRunning, TypeOK, SpareInv, frontVars, spareVars, writeVars, histVars
    <3>3. CASE StopNotifies
      BY <3>3 DEF StopNotifies, NotifyOne, TypeOK, SpareInv, objVars, frontVars, spareVars, writeVars, histVars
    <3>4. CASE StopJoins
      BY <3>4 DEF StopJoins, TypeOK, SpareInv, objVars, frontVars, spareVars, writeVars, histVars
    <3> QED BY <2>5, <3>1, <3>2, <3>3, <3>4 DEF Control
  <2>6. ASSUME NEW b \in Backends, Thread(b)
        PROVE  TypeOK' /\ SpareInv'
    <3> USE DEF Goto, TypeOK, SpareInv, BufferPtr, objVars, frontVars, callVars, spareVars,
                writeVars, histVars
    <3>1. CASE ThreadBegins(b)
      <4>1. TypeOK'
        BY <3>1 DEF ThreadBegins
      <4>2. SpareInv'
        BY <3>1 DEF ThreadBegins
      <4> QED BY <4>1, <4>2
    <3>2. CASE LoopContinues(b)
      BY <3>2 DEF LoopContinues
    <3>3. CASE LoopEnds(b)
      BY <3>3 DEF LoopEnds, Flush
    <3>4. CASE WaitsForLines(b)
      BY <3>4 DEF WaitsForLines
    <3>5. CASE WaitTimesOut(b)
      BY <3>5 DEF WaitTimesOut
    <3>6. CASE SwapsBuffers(b)
      <4>1. /\ buffersToWrite'[b] = Append(buffers, currentBuffer)
            /\ buffersToWrite'[b] \in Seq(Buffer)
            /\ Len(buffersToWrite'[b]) = Len(buffers) + 1
        BY <3>6 DEF SwapsBuffers, Taken
      <4>2. nextBuffer = Null => Len(buffers) >= 1
        OBVIOUS
      <4>3. newBuffer1[b] = EmptyBuffer /\ newBuffer2[b] = EmptyBuffer
        BY <3>6 DEF SwapsBuffers
      <4>4. TypeOK'
        <5>1. /\ buffersToWrite' \in [Backends -> Seq(Buffer)]
              /\ next' \in [Backends -> Nat \ {0}]
          BY <3>6, <4>1 DEF SwapsBuffers
        <5>2. /\ currentBuffer' \in Buffer /\ nextBuffer' \in BufferPtr
              /\ buffers' \in Seq(Buffer)
          BY <3>6, <4>3 DEF SwapsBuffers
        <5>3. /\ newBuffer1' \in [Backends -> BufferPtr]
              /\ newBuffer2' \in [Backends -> BufferPtr]
          BY <3>6, <4>3 DEF SwapsBuffers
        <5> QED BY <3>6, <5>1, <5>2, <5>3 DEF SwapsBuffers
      <4>5. SpareInv'
        BY <3>6, <4>1, <4>2, <4>3 DEF SwapsBuffers
      <4> QED BY <4>4, <4>5
    <3>7. CASE DropsExcess(b)
      <4>1. /\ buffersToWrite'[b] \in Seq(Buffer)
            /\ Len(buffersToWrite'[b]) >= 1
            /\ Len(buffersToWrite[b]) >= 2 => Len(buffersToWrite'[b]) >= 2
            /\ output'[b] \in Seq(Nat)
        <5>1. CASE Len(buffersToWrite[b]) > MaxBuffers
          <6>1. /\ buffersToWrite'[b] = SubSeq(buffersToWrite[b], 1, 2)
                /\ output'[b] = Append(output[b], 0)
            BY <3>7, <5>1 DEF DropsExcess, Notice
          <6>2. buffersToWrite[b] \in Seq(Buffer) /\ Len(buffersToWrite[b]) >= 2
            BY <5>1
          <6> QED BY <6>1, <6>2, TwoOfSeq
        <5>2. CASE ~ (Len(buffersToWrite[b]) > MaxBuffers)
          BY <3>7, <5>2 DEF DropsExcess
        <5> QED BY <5>1, <5>2
      <4>2. LinesFrom(buffersToWrite[b], 3) \in SUBSET Nat
        BY LinesFromType
      <4>3. TypeOK'
        BY <3>7, <4>1, <4>2 DEF DropsExcess
      <4>4. SpareInv'
        BY <3>7, <4>1 DEF DropsExcess
      <4> QED BY <4>3, <4>4
    <3>8. CASE WritesBuffer(b)
      <4>0. buffersToWrite[b][next[b]] \in Buffer
        BY <3>8 DEF WritesBuffer
      <4>1. buffersToWrite[b][next[b]].msgs \in Seq(Nat)
        BY <4>0, LinesType
      <4>2. output[b] \o buffersToWrite[b][next[b]].msgs \in Seq(Nat)
        BY <4>1
      <4>3. output' \in [Backends -> Seq(Nat)] /\ next' \in [Backends -> Nat \ {0}]
        BY <3>8, <4>2 DEF WritesBuffer
      <4>4. TypeOK'
        BY <3>8, <4>3 DEF WritesBuffer
      <4>5. SpareInv'
        BY <3>8 DEF WritesBuffer
      <4> QED BY <4>4, <4>5
    <3>9. CASE Recycles(b)
      BY <3>9 DEF Recycles, Refilled, Kept, Flush
    <3> QED BY <2>6, <3>1, <3>2, <3>3, <3>4, <3>5, <3>6, <3>7, <3>8, <3>9 DEF Thread
  <2>7. CASE UNCHANGED vars
    BY <2>7 DEF vars, TypeOK, SpareInv, objVars, frontVars, callVars, spareVars, writeVars,
                histVars
  <2> QED BY <2>2, <2>3, <2>4, <2>5, <2>6, <2>7, <2>8, <2>9 DEF Next
<1>3. QED BY <1>1, <1>2, PTL DEF Spec

\* Until a back end has begun, the latch is closed and start() is not done.
FirstInv ==
  (\A b \in Backends : pc[b] \in {"none", "start"}) =>
    /\ latch = 1 /\ caller \in {"new", "starting"}
    /\ (\E b \in Backends : pc[b] = "start") => running

LEMMA FirstInvariant == Spec => []FirstInv
<1>1. Init => FirstInv
  BY DEF Init, FirstInv
<1>2. TypeOK /\ FirstInv /\ [Next]_vars => FirstInv'
  <2> SUFFICES ASSUME TypeOK, FirstInv, [Next]_vars PROVE FirstInv'
    OBVIOUS
  <2> USE DEF TypeOK, objVars, frontVars, callVars, spareVars, writeVars, histVars
  <2>1. ASSUME NEW len \in Lens, Line(len) PROVE FirstInv'
    <3>1. /\ caller \notin {"new", "starting"}
          /\ \A b \in Backends : pc'[b] = pc[b] \/ pc'[b] = "woken"
      BY <2>1 DEF Line, Installed, AppendInPlace, AppendSwitch, NotifyOne
    <3> QED BY <3>1 DEF FirstInv
  <2>2. ASSUME NEW b \in Backends, Start(b) PROVE FirstInv'
    BY <2>2 DEF Start, FirstInv
  <2>3. CASE FirstStartFails
    BY <2>3 DEF FirstStartFails, FirstInv
  <2>4. CASE Control
    <3>1. CASE StartReturns
      BY <3>1 DEF StartReturns, FirstInv
    <3>2. CASE StopClearsRunning
      BY <3>2 DEF StopClearsRunning, FirstInv
    <3>3. CASE StopNotifies
      BY <3>3 DEF StopNotifies, NotifyOne, FirstInv
    <3>4. CASE StopJoins
      BY <3>4 DEF StopJoins, FirstInv
    <3> QED BY <2>4, <3>1, <3>2, <3>3, <3>4 DEF Control
  <2>5. ASSUME NEW b \in Backends, Thread(b) PROVE FirstInv'
    <3>1. pc'[b] \notin {"none", "start"}
      BY <2>5 DEF Thread, ThreadBegins, LoopContinues, LoopEnds, WaitsForLines, WaitTimesOut,
                  SwapsBuffers, DropsExcess, WritesBuffer, Recycles, Goto
    <3> QED BY <3>1 DEF FirstInv
  <2>6. CASE UNCHANGED vars
    BY <2>6 DEF vars, FirstInv
  <2> QED BY <2>1, <2>2, <2>3, <2>4, <2>5, <2>6 DEF Next, LogLine, LogFatal, StartFails
<1> QED BY <1>1, <1>2, TypeAndSpares, PTL DEF Spec

\* The asserts of threadFunc() about its buffers hold in every reachable state, for
\* every number of back ends, although the Release build does not evaluate them, and
\* the one about running_ (AsyncLogging.cc:55) for the first back end.
THEOREM AssertsAlwaysHold == Spec => []AssertsHold
<1>1. TypeOK /\ SpareInv /\ FirstInv => AssertsHold
  <2> SUFFICES ASSUME TypeOK, SpareInv, FirstInv PROVE AssertsHold
    OBVIOUS
  <2>1. ASSUME NEW b \in Backends, pc[b] \in {"loop", "lock", "wait", "woken"}
        PROVE  /\ newBuffer1[b] = EmptyBuffer /\ newBuffer2[b] = EmptyBuffer
               /\ buffersToWrite[b] = << >>
    BY <2>1 DEF SpareInv
  <2>2. ASSUME NEW b \in Backends, pc[b] \in {"swapped", "write"}
        PROVE  /\ newBuffer1[b] = Null => Kept(Len(buffersToWrite[b])) >= 1
               /\ newBuffer2[b] = Null => Kept(Len(buffersToWrite[b])) >= 2
    <3>1. Len(buffersToWrite[b]) \in Nat
      BY DEF TypeOK
    <3> QED BY <2>2, <3>1 DEF SpareInv, Kept
  <2>3. ASSUME NEW b \in Backends, pc[b] = "start", ~ running
        PROVE  \E c \in Backends : pc[c] \notin {"none", "start"}
    BY <2>3 DEF FirstInv
  <2> QED BY <2>1, <2>2, <2>3 DEF AssertsHold
<1> QED BY <1>1, TypeAndSpares, FirstInvariant, PTL

-------------------------------------------------------------------------------
(***************************************************************************)
(* What the operators on buffers do to the set of lines.                   *)
(***************************************************************************)
\* A buffer after reset() holds no line.
LEMMA LinesOfEmpty ==
  /\ Lines(EmptyBuffer) = {}
  /\ \A i \in Nat \ {0} : LinesFrom(<< >>, i) = {}
  BY DEF Lines, LinesFrom, EmptyBuffer

\* append() adds one line to a buffer with room for it, and none otherwise.
LEMMA LinesFixedAppend ==
  ASSUME NEW buf \in Buffer, NEW m \in Nat, NEW len \in Lens, Avail(buf) > len
  PROVE  Lines(FixedAppend(buf, m, len)) = Lines(buf) \cup {m}
<1>1. FixedAppend(buf, m, len).msgs = Append(buf.msgs, m)
  BY DEF FixedAppend
<1>2. buf.msgs \in Seq(Nat)
  BY LinesType
<1>3. /\ DOMAIN Append(buf.msgs, m) = 1 .. (Len(buf.msgs) + 1)
      /\ \A i \in 1 .. Len(buf.msgs) : Append(buf.msgs, m)[i] = buf.msgs[i]
      /\ Append(buf.msgs, m)[Len(buf.msgs) + 1] = m
  BY <1>2
<1>4. DOMAIN Append(buf.msgs, m) = DOMAIN buf.msgs \cup {Len(buf.msgs) + 1}
  BY <1>2, <1>3
<1> QED BY <1>1, <1>2, <1>3, <1>4 DEF Lines

\* An empty buffer has room for any line, as append() relies on after a switch.
LEMMA EmptyHasRoom ==
  ASSUME NEW len \in Lens
  PROVE  Avail(EmptyBuffer) > len
  BY ConstantsAssumption DEF Avail, EmptyBuffer

\* push_back() adds the lines of the buffer.
LEMMA LinesFromAppend ==
  ASSUME NEW bufs \in Seq(Buffer), NEW x \in Buffer
  PROVE  LinesFrom(Append(bufs, x), 1) = LinesFrom(bufs, 1) \cup Lines(x)
<1>1. /\ Len(Append(bufs, x)) = Len(bufs) + 1
      /\ \A k \in 1 .. Len(bufs) : Append(bufs, x)[k] = bufs[k]
      /\ Append(bufs, x)[Len(bufs) + 1] = x
  OBVIOUS
<1>2. 1 .. (Len(bufs) + 1) = 1 .. Len(bufs) \cup {Len(bufs) + 1}
  OBVIOUS
<1> QED BY <1>1, <1>2 DEF LinesFrom

\* The write loop takes the lines of one buffer off the tail.
LEMMA LinesFromStep ==
  ASSUME NEW bufs \in Seq(Buffer), NEW i \in 1 .. Len(bufs)
  PROVE  LinesFrom(bufs, i) = Lines(bufs[i]) \cup LinesFrom(bufs, i + 1)
<1>1. i .. Len(bufs) = {i} \cup (i + 1) .. Len(bufs)
  OBVIOUS
<1> QED BY <1>1 DEF LinesFrom

\* Dropping the middle of a vector keeps the lines of the two buffers kept.
LEMMA LinesFromCut ==
  ASSUME NEW bufs \in Seq(Buffer), Len(bufs) >= 2
  PROVE  LinesFrom(bufs, 1) = LinesFrom(SubSeq(bufs, 1, 2), 1) \cup LinesFrom(bufs, 3)
<1>1. 1 .. Len(bufs) = {1, 2} \cup 3 .. Len(bufs) /\ 1 .. 2 = {1, 2}
  OBVIOUS
<1>2. LinesFrom(SubSeq(bufs, 1, 2), 1) = Lines(bufs[1]) \cup Lines(bufs[2])
  BY <1>1, TwoOfSeq DEF LinesFrom
<1> QED BY <1>1, <1>2 DEF LinesFrom

\* Past the last buffer there is nothing left to write.
LEMMA LinesFromPast ==
  ASSUME NEW bufs \in Seq(Buffer), NEW i \in Nat, i > Len(bufs)
  PROVE  LinesFrom(bufs, i) = {}
  BY DEF LinesFrom

Elems(s) == { s[i] : i \in DOMAIN s }

\* The lines of a file after a buffer is appended to it.
LEMMA ElemsConcat ==
  ASSUME NEW s \in Seq(Nat), NEW t \in Seq(Nat)
  PROVE  Elems(s \o t) = Elems(s) \cup Elems(t)
<1>1. /\ DOMAIN (s \o t) = 1 .. (Len(s) + Len(t))
      /\ \A i \in 1 .. Len(s) : (s \o t)[i] = s[i]
      /\ \A i \in 1 .. Len(t) : (s \o t)[Len(s) + i] = t[i]
      /\ DOMAIN s = 1 .. Len(s) /\ DOMAIN t = 1 .. Len(t)
  OBVIOUS
<1>2. \A i \in 1 .. (Len(s) + Len(t)) :
        i \in 1 .. Len(s) \/ \E j \in 1 .. Len(t) : i = Len(s) + j
  <2> SUFFICES ASSUME NEW i \in 1 .. (Len(s) + Len(t)), i \notin 1 .. Len(s)
               PROVE  \E j \in 1 .. Len(t) : i = Len(s) + j
    OBVIOUS
  <2> WITNESS i - Len(s) \in 1 .. Len(t)
  <2> QED OBVIOUS
<1>3. \A i \in 1 .. Len(t) : Len(s) + i \in 1 .. (Len(s) + Len(t))
  OBVIOUS
<1>4. Elems(s \o t) \subseteq Elems(s) \cup Elems(t)
  <2> SUFFICES ASSUME NEW i \in DOMAIN (s \o t)
               PROVE  (s \o t)[i] \in Elems(s) \cup Elems(t)
    BY DEF Elems
  <2>1. CASE i \in 1 .. Len(s)
    BY <1>1, <2>1 DEF Elems
  <2>2. CASE \E j \in 1 .. Len(t) : i = Len(s) + j
    BY <1>1, <2>2 DEF Elems
  <2> QED BY <1>1, <1>2, <2>1, <2>2
<1>5. Elems(s) \subseteq Elems(s \o t)
  BY <1>1 DEF Elems
<1>6. Elems(t) \subseteq Elems(s \o t)
  BY <1>1, <1>3 DEF Elems
<1> QED BY <1>4, <1>5, <1>6
-------------------------------------------------------------------------------
(***************************************************************************)
(* Conservation.                                                           *)
(***************************************************************************)
Held(b) == Written(b) \cup ToWrite(b)
Front == Lines(currentBuffer) \cup LinesFrom(buffers, 1)

\* The for loop starts at the first buffer.
LoopInv == \A b \in Backends : pc[b] = "swapped" => next[b] = 1

\* The write loop starts at the first buffer.
LEMMA LoopInvariant == Spec => []LoopInv
<1>1. Init => LoopInv
  BY DEF Init, LoopInv
<1>2. TypeOK /\ LoopInv /\ [Next]_vars => LoopInv'
  <2> SUFFICES ASSUME TypeOK, LoopInv, [Next]_vars PROVE LoopInv'
    OBVIOUS
  <2> USE DEF TypeOK, LoopInv, Goto, objVars, frontVars, callVars, spareVars, writeVars, histVars
  <2>1. ASSUME NEW len \in Lens, Line(len) PROVE LoopInv'
    BY <2>1 DEF Line, AppendInPlace, AppendSwitch, NotifyOne
  <2>2. ASSUME NEW b \in Backends, Start(b) PROVE LoopInv'
    BY <2>2 DEF Start
  <2>3. CASE Control
    BY <2>3 DEF Control, StartReturns, StopClearsRunning, StopNotifies, StopJoins, NotifyOne
  <2>4. ASSUME NEW b \in Backends, Thread(b) PROVE LoopInv'
    <3>1. CASE SwapsBuffers(b)
      BY <3>1 DEF SwapsBuffers
    <3>2. CASE WritesBuffer(b)
      BY <3>2 DEF WritesBuffer
    <3>3. CASE ~ (SwapsBuffers(b) \/ WritesBuffer(b))
      BY <2>4, <3>3 DEF Thread, ThreadBegins, LoopContinues, LoopEnds, WaitsForLines,
                       WaitTimesOut, DropsExcess, Recycles
    <3> QED BY <3>1, <3>2, <3>3
  <2>5. CASE UNCHANGED vars
    BY <2>5 DEF vars
  <2>6. CASE FirstStartFails
    BY <2>6 DEF FirstStartFails
  <2> QED BY <2>1, <2>2, <2>3, <2>4, <2>5, <2>6 DEF Next, LogLine, LogFatal, StartFails
<1> QED BY <1>1, <1>2, TypeAndSpares, PTL DEF Spec

\* What one step does to the lines of the front end, of a back end, and to
\* the dropped ones.
LEMMA LineMoves ==
  ASSUME TypeOK, SpareInv, NEW len \in Lens, Line(len)
  PROVE  /\ Front' = Front \cup {appended + 1}
         /\ appended' = appended + 1
         /\ dropped' = dropped
         /\ \A b \in Backends : Written(b)' = Written(b) /\ ToWrite(b)' = ToWrite(b)
<1> USE ConstantsAssumption, EmptyBufferType
<1>1. /\ appended' = appended + 1 /\ dropped' = dropped
      /\ \A b \in Backends : Written(b)' = Written(b) /\ ToWrite(b)' = ToWrite(b)
  BY DEF Line, writeVars, Written, ToWrite
<1>2. appended + 1 \in Nat
  BY DEF TypeOK
<1>3. CASE AppendInPlace(len)
  <2>1. Lines(currentBuffer') = Lines(currentBuffer) \cup {appended + 1}
    BY <1>2, <1>3, LinesFixedAppend DEF AppendInPlace, TypeOK
  <2> QED BY <1>1, <1>3, <2>1 DEF AppendInPlace, Front
<1>4. CASE AppendSwitch(len)
  <2>1. currentBuffer' = FixedAppend(EmptyBuffer, appended + 1, len)
    BY <1>4 DEF AppendSwitch, SpareInv
  <2>2. Lines(currentBuffer') = {appended + 1}
    BY <1>2, <2>1, LinesFixedAppend, EmptyHasRoom, LinesOfEmpty
  <2>3. LinesFrom(buffers', 1) = LinesFrom(buffers, 1) \cup Lines(currentBuffer)
    BY <1>4, LinesFromAppend DEF AppendSwitch, TypeOK
  <2> QED BY <1>1, <2>2, <2>3 DEF Front
<1> QED BY <1>3, <1>4 DEF Line

\* The swap moves every line of the front end to the back end.
LEMMA SwapMoves ==
  ASSUME TypeOK, SpareInv, NEW b \in Backends, SwapsBuffers(b)
  PROVE  /\ Front' = {}
         /\ Written(b)' = Written(b) /\ ToWrite(b) = {} /\ ToWrite(b)' = Front
         /\ dropped' = dropped /\ appended' = appended
<1> USE EmptyBufferType DEF Goto
<1>1. pc[b] \in {"lock", "woken"}
  BY DEF SwapsBuffers
<1>2. newBuffer1[b] = EmptyBuffer /\ buffersToWrite[b] = << >>
  BY <1>1 DEF SpareInv
<1>3. currentBuffer' = EmptyBuffer /\ buffers' = << >>
  BY <1>2 DEF SwapsBuffers
<1>4. buffersToWrite'[b] = Append(buffers, currentBuffer) /\ next'[b] = 1
  BY DEF SwapsBuffers, Taken, TypeOK
<1>5. ToWrite(b)' = Front
  BY <1>4, LinesFromAppend DEF ToWrite, Front, TypeOK
<1>6. Front' = {} /\ ToWrite(b) = {}
  BY <1>2, <1>3, LinesOfEmpty DEF Front, ToWrite, TypeOK
<1> QED BY <1>5, <1>6 DEF SwapsBuffers, Written, histVars

\* The erase() of excess buffers moves lines only from the batch to the dropped.
LEMMA DropMoves ==
  ASSUME TypeOK, SpareInv, LoopInv, NEW b \in Backends, DropsExcess(b)
  PROVE  /\ Written(b)' = Written(b)
         /\ ToWrite(b) = ToWrite(b)' \cup (dropped' \ dropped)
                           \cup (ToWrite(b) \cap dropped)
         /\ dropped \subseteq dropped' /\ dropped' \subseteq dropped \cup ToWrite(b)
         /\ Front' = Front /\ appended' = appended
<1>1. next[b] = 1 /\ next'[b] = 1
  BY DEF DropsExcess, Goto, LoopInv
<1>2. Front' = Front /\ appended' = appended
  BY DEF DropsExcess, Front, objVars, frontVars
<1>3. CASE Len(buffersToWrite[b]) > MaxBuffers
  <2>1. /\ output'[b] = Append(output[b], Notice)
        /\ buffersToWrite'[b] = SubSeq(buffersToWrite[b], 1, 2)
        /\ dropped' = dropped \cup LinesFrom(buffersToWrite[b], 3)
    BY <1>3 DEF DropsExcess, TypeOK
  <2>2. buffersToWrite[b] \in Seq(Buffer) /\ Len(buffersToWrite[b]) >= 2
    BY <1>3, ConstantsAssumption DEF TypeOK
  <2>3. ToWrite(b) = ToWrite(b)' \cup LinesFrom(buffersToWrite[b], 3)
    BY <1>1, <2>1, <2>2, LinesFromCut DEF ToWrite
  <2>4. Written(b)' = Written(b)
    <3>1. output[b] \in Seq(Nat)
      BY DEF TypeOK
    <3>2. /\ DOMAIN output'[b] = DOMAIN output[b] \cup {Len(output[b]) + 1}
          /\ \A i \in DOMAIN output[b] : output'[b][i] = output[b][i]
          /\ output'[b][Len(output[b]) + 1] = Notice
      BY <2>1, <3>1 DEF Notice
    <3> QED BY <3>2 DEF Written
  <2> QED BY <1>2, <2>1, <2>3, <2>4
<1>4. CASE ~ (Len(buffersToWrite[b]) > MaxBuffers)
  BY <1>1, <1>2, <1>4 DEF DropsExcess, Written, ToWrite
<1> QED BY <1>3, <1>4

\* One turn of the write loop moves lines from the batch to the file.
LEMMA WriteMoves ==
  ASSUME TypeOK, NEW b \in Backends, WritesBuffer(b)
  PROVE  /\ buffersToWrite[b][next[b]] \in Buffer
         /\ Written(b)' = Written(b) \cup (Lines(buffersToWrite[b][next[b]]) \ {Notice})
         /\ ToWrite(b) = Lines(buffersToWrite[b][next[b]]) \cup ToWrite(b)'
         /\ dropped' = dropped /\ appended' = appended /\ Front' = Front
<1>1. next[b] \in 1 .. Len(buffersToWrite[b]) /\ buffersToWrite[b] \in Seq(Buffer)
  BY DEF WritesBuffer, TypeOK
<1>2. buffersToWrite[b][next[b]] \in Buffer
  BY <1>1
<1>3. output[b] \in Seq(Nat) /\ buffersToWrite[b][next[b]].msgs \in Seq(Nat)
  BY <1>2, LinesType DEF TypeOK
<1>4. output'[b] = output[b] \o buffersToWrite[b][next[b]].msgs
  BY DEF WritesBuffer, TypeOK
<1>5. Written(b)' = Written(b) \cup (Lines(buffersToWrite[b][next[b]]) \ {Notice})
  <2>1. Elems(output'[b]) = Elems(output[b]) \cup Elems(buffersToWrite[b][next[b]].msgs)
    BY <1>3, <1>4, ElemsConcat
  <2>2. /\ Written(b)' = Elems(output'[b]) \ {Notice}
        /\ Written(b) = Elems(output[b]) \ {Notice}
        /\ Lines(buffersToWrite[b][next[b]]) = Elems(buffersToWrite[b][next[b]].msgs)
    BY DEF Written, Elems, Lines
  <2> QED BY <2>1, <2>2
<1>6. next'[b] = next[b] + 1 /\ buffersToWrite' = buffersToWrite
  BY DEF WritesBuffer, TypeOK
<1>7. ToWrite(b) = Lines(buffersToWrite[b][next[b]]) \cup ToWrite(b)'
  BY <1>1, <1>6, LinesFromStep DEF ToWrite
<1> QED BY <1>2, <1>5, <1>7 DEF WritesBuffer, Front, histVars, objVars, frontVars

\* Recycling two buffers and clearing the batch loses no line.
LEMMA RecycleMoves ==
  ASSUME TypeOK, NEW b \in Backends, Recycles(b)
  PROVE  /\ Written(b)' = Written(b) /\ ToWrite(b) = {} /\ ToWrite(b)' = {}
         /\ dropped' = dropped /\ appended' = appended /\ Front' = Front
<1>1. /\ next[b] > Len(buffersToWrite[b]) /\ next[b] \in Nat \ {0}
      /\ buffersToWrite[b] \in Seq(Buffer)
      /\ buffersToWrite'[b] = << >> /\ next' = next
  BY DEF Recycles, TypeOK
<1>2. ToWrite(b) = {} /\ ToWrite(b)' = {}
  BY <1>1, LinesFromPast, LinesOfEmpty DEF ToWrite
<1> QED BY <1>2 DEF Recycles, Written, Front, histVars, objVars, frontVars

\* A step of one back end leaves the lines of the others where they are, and
\* any other step of a back end moves nothing.
LEMMA OthersKeep ==
  ASSUME TypeOK, NEW b \in Backends, Thread(b)
  PROVE  /\ \A c \in Backends \ {b} : Written(c)' = Written(c) /\ ToWrite(c)' = ToWrite(c)
         /\ ~ (SwapsBuffers(b) \/ DropsExcess(b) \/ WritesBuffer(b) \/ Recycles(b)) =>
              /\ Written(b)' = Written(b) /\ ToWrite(b)' = ToWrite(b)
              /\ Front' = Front /\ dropped' = dropped /\ appended' = appended
<1> USE DEF TypeOK, objVars, frontVars, writeVars, histVars
<1>1. \A c \in Backends \ {b} : /\ output'[c] = output[c] /\ next'[c] = next[c]
                                /\ buffersToWrite'[c] = buffersToWrite[c]
  BY DEF Thread, ThreadBegins, LoopContinues, LoopEnds, WaitsForLines, WaitTimesOut,
         SwapsBuffers, DropsExcess, WritesBuffer, Recycles
<1>2. ASSUME ~ (SwapsBuffers(b) \/ DropsExcess(b) \/ WritesBuffer(b) \/ Recycles(b))
      PROVE  /\ output' = output /\ next' = next /\ buffersToWrite' = buffersToWrite
             /\ currentBuffer' = currentBuffer /\ buffers' = buffers
             /\ dropped' = dropped /\ appended' = appended
  BY <1>2 DEF Thread, ThreadBegins, LoopContinues, LoopEnds, WaitsForLines, WaitTimesOut
<1> QED BY <1>1, <1>2 DEF Written, ToWrite, Front

\* The steps of the control thread move no line.
LEMMA ControlKeeps ==
  ASSUME (\E b \in Backends : Start(b)) \/ FirstStartFails \/ Control \/ UNCHANGED vars
  PROVE  /\ \A c \in Backends : Written(c)' = Written(c) /\ ToWrite(c)' = ToWrite(c)
         /\ Front' = Front /\ dropped' = dropped /\ appended' = appended
<1>1. /\ output' = output /\ next' = next /\ buffersToWrite' = buffersToWrite
      /\ currentBuffer' = currentBuffer /\ buffers' = buffers
      /\ dropped' = dropped /\ appended' = appended
  BY DEF Start, FirstStartFails, Control, StartReturns, StopClearsRunning, StopNotifies, StopJoins, vars,
         objVars, frontVars, writeVars, histVars
<1> QED BY <1>1 DEF Written, ToWrite, Front

\* Conservation, in terms of what the front end and each back end hold.
LEMMA ConservationForm ==
  Conservation <=> 1 .. appended = Front \cup dropped \cup UNION { Held(b) : b \in Backends }
  BY DEF Conservation, Front, Held

\* Every step preserves Conservation.
LEMMA ConservationStep ==
  ASSUME TypeOK, SpareInv, LoopInv, Conservation, [Next]_vars
  PROVE  Conservation'
<1>1. 1 .. appended = Front \cup dropped \cup UNION { Held(b) : b \in Backends }
  BY ConservationForm
<1> SUFFICES 1 .. appended' = Front' \cup dropped' \cup UNION { Held(b)' : b \in Backends }
  BY DEF Conservation, Front, Held
<1>2. ASSUME NEW len \in Lens, Line(len)
      PROVE  1 .. appended' = Front' \cup dropped' \cup UNION { Held(b)' : b \in Backends }
  <2>1. 1 .. (appended + 1) = 1 .. appended \cup {appended + 1}
    BY DEF TypeOK
  <2>2. \A b \in Backends : Held(b)' = Held(b)
    BY <1>2, LineMoves DEF Held
  <2> QED BY <1>1, <1>2, <2>1, <2>2, LineMoves
<1>3. CASE (\E b \in Backends : Start(b)) \/ FirstStartFails \/ Control \/ UNCHANGED vars
  <2>1. \A b \in Backends : Held(b)' = Held(b)
    BY <1>3, ControlKeeps DEF Held
  <2> QED BY <1>1, <1>3, <2>1, ControlKeeps
<1>4. ASSUME NEW b \in Backends, Thread(b)
      PROVE  1 .. appended' = Front' \cup dropped' \cup UNION { Held(c)' : c \in Backends }
  <2>1. \A c \in Backends \ {b} : Held(c)' = Held(c)
    BY <1>4, OthersKeep DEF Held
  <2>2. Front' \cup dropped' \cup Held(b)' = Front \cup dropped \cup Held(b)
    <3>1. CASE SwapsBuffers(b)
      BY <3>1, SwapMoves DEF Held
    <3>2. CASE DropsExcess(b)
      BY <3>2, DropMoves DEF Held
    <3>3. CASE WritesBuffer(b)
      <4>1. Notice \notin ToWrite(b)
        <5>1. ToWrite(b) \subseteq 1 .. appended
          BY <1>1 DEF Held
        <5> QED BY <5>1 DEF Notice, TypeOK
      <4> QED BY <3>3, <4>1, WriteMoves DEF Held
    <3>4. CASE Recycles(b)
      BY <3>4, RecycleMoves DEF Held
    <3>5. CASE ~ (SwapsBuffers(b) \/ DropsExcess(b) \/ WritesBuffer(b) \/ Recycles(b))
      BY <1>4, <3>5, OthersKeep DEF Held
    <3> QED BY <3>1, <3>2, <3>3, <3>4, <3>5
  <2>3. appended' = appended
    BY <1>4 DEF Thread, ThreadBegins, LoopContinues, LoopEnds, WaitsForLines, WaitTimesOut,
                SwapsBuffers, DropsExcess, WritesBuffer, Recycles, histVars
  <2>4. /\ UNION { Held(c) : c \in Backends }
             = Held(b) \cup UNION { Held(c) : c \in Backends \ {b} }
        /\ UNION { Held(c)' : c \in Backends }
             = Held(b)' \cup UNION { Held(c)' : c \in Backends \ {b} }
    OBVIOUS
  <2>5. UNION { Held(c)' : c \in Backends \ {b} } = UNION { Held(c) : c \in Backends \ {b} }
    BY <2>1
  <2> QED BY <1>1, <2>2, <2>3, <2>4, <2>5
<1> QED BY <1>2, <1>3, <1>4 DEF Next, LogLine, LogFatal, StartFails

\* No line vanishes between append() and the file.
THEOREM ConservationAlways == Spec => []Conservation
<1>1. Init => Conservation
  BY LinesOfEmpty DEF Init, Conservation, Written, ToWrite
<1>2. TypeOK /\ SpareInv /\ LoopInv /\ Conservation /\ [Next]_vars => Conservation'
  BY ConservationStep
<1> QED BY <1>1, <1>2, TypeAndSpares, LoopInvariant, PTL DEF Spec
-------------------------------------------------------------------------------
(***************************************************************************)
(* Order.  The invariant says that at any moment the lines, from the files *)
(* through the buffers a back end holds to the front end, are in the order *)
(* of their numbers; FIFO by itself says nothing of the buffers on the way *)
(* and is not inductive.                                                   *)
(***************************************************************************)
Below(S, T) == \A x \in S, y \in T : x < y

Sorted(s) == \A i, j \in DOMAIN s : i < j => s[i] < s[j]

SortedBufs(bufs) ==
  /\ \A k \in DOMAIN bufs : Sorted(bufs[k].msgs)
  /\ \A k, l \in DOMAIN bufs : k < l => Below(Lines(bufs[k]), Lines(bufs[l]))

\* A file is sorted but for the notices in it.
SortedFile(f) ==
  \A i, j \in DOMAIN f : i < j /\ f[i] # Notice /\ f[j] # Notice => f[i] < f[j]

OrderInv ==
  /\ Sorted(currentBuffer.msgs)
  /\ SortedBufs(buffers)
  /\ Below(LinesFrom(buffers, 1), Lines(currentBuffer))
  /\ \A b \in Backends :
       /\ SortedBufs(buffersToWrite[b])
       /\ SortedFile(output[b])
       /\ Below(Written(b), ToWrite(b))
       /\ Below(Held(b), Front)
  /\ \A b, c \in Backends : b # c => Held(b) \cap Held(c) = {}

\* append() keeps a buffer in the order of the calls.
LEMMA SortedFixedAppend ==
  ASSUME NEW buf \in Buffer, NEW m \in Nat, NEW len \in Lens, Avail(buf) > len,
         Sorted(buf.msgs), Below(Lines(buf), {m})
  PROVE  Sorted(FixedAppend(buf, m, len).msgs)
<1>1. FixedAppend(buf, m, len).msgs = Append(buf.msgs, m)
  BY DEF FixedAppend
<1>2. buf.msgs \in Seq(Nat)
  BY LinesType
<1>3. \A i \in 1 .. Len(buf.msgs) : buf.msgs[i] < m
  BY <1>2 DEF Below, Lines
<1> QED BY <1>1, <1>2, <1>3 DEF Sorted

\* push_back() keeps a vector in the order of the calls.
LEMMA SortedBufsAppend ==
  ASSUME NEW bufs \in Seq(Buffer), NEW x \in Buffer, SortedBufs(bufs), Sorted(x.msgs),
         Below(LinesFrom(bufs, 1), Lines(x))
  PROVE  SortedBufs(Append(bufs, x))
<1>1. /\ DOMAIN Append(bufs, x) = 1 .. (Len(bufs) + 1) /\ DOMAIN bufs = 1 .. Len(bufs)
      /\ \A k \in 1 .. Len(bufs) : Append(bufs, x)[k] = bufs[k]
      /\ Append(bufs, x)[Len(bufs) + 1] = x
  OBVIOUS
<1>2. \A k \in 1 .. Len(bufs) : Below(Lines(bufs[k]), Lines(x))
  BY DEF Below, LinesFrom
<1> QED BY <1>1, <1>2 DEF SortedBufs

\* Dropping the middle of a vector keeps its order.
LEMMA SortedBufsCut ==
  ASSUME NEW bufs \in Seq(Buffer), Len(bufs) >= 2, SortedBufs(bufs)
  PROVE  SortedBufs(SubSeq(bufs, 1, 2))
<1>1. DOMAIN SubSeq(bufs, 1, 2) = 1 .. 2 /\ 1 .. 2 \subseteq DOMAIN bufs
  BY TwoOfSeq
<1>2. \A k \in 1 .. 2 : SubSeq(bufs, 1, 2)[k] = bufs[k]
  OBVIOUS
<1> QED BY <1>1, <1>2 DEF SortedBufs

\* In an ordered vector the lines of a buffer precede those of every later one.
LEMMA SortedBufsBelow ==
  ASSUME NEW bufs \in Seq(Buffer), NEW i \in 1 .. Len(bufs), SortedBufs(bufs)
  PROVE  Below(Lines(bufs[i]), LinesFrom(bufs, i + 1))
<1>1. \A k \in (i + 1) .. Len(bufs) : k \in DOMAIN bufs /\ i < k /\ i \in DOMAIN bufs
  OBVIOUS
<1> QED BY <1>1 DEF SortedBufs, Below, LinesFrom

\* A file stays in order when a later, ordered buffer is appended to it.
LEMMA SortedFileConcat ==
  ASSUME NEW f \in Seq(Nat), NEW t \in Seq(Nat), SortedFile(f), Sorted(t),
         Below(Elems(f) \ {Notice}, Elems(t))
  PROVE  SortedFile(f \o t)
<1>1. /\ DOMAIN (f \o t) = 1 .. (Len(f) + Len(t))
      /\ \A i \in 1 .. Len(f) : (f \o t)[i] = f[i]
      /\ \A i \in (Len(f) + 1) .. (Len(f) + Len(t)) : (f \o t)[i] = t[i - Len(f)]
      /\ DOMAIN f = 1 .. Len(f) /\ DOMAIN t = 1 .. Len(t)
      /\ Len(f) \in Nat /\ Len(t) \in Nat
  OBVIOUS
<1> SUFFICES ASSUME NEW i \in 1 .. (Len(f) + Len(t)), NEW j \in 1 .. (Len(f) + Len(t)),
                    i < j, (f \o t)[i] # Notice, (f \o t)[j] # Notice
             PROVE  (f \o t)[i] < (f \o t)[j]
  BY <1>1 DEF SortedFile
<1>2. CASE i \in 1 .. Len(f) /\ j \in 1 .. Len(f)
  BY <1>1, <1>2 DEF SortedFile
<1>3. CASE i \in 1 .. Len(f) /\ j \in (Len(f) + 1) .. (Len(f) + Len(t))
  <2>1. j - Len(f) \in DOMAIN t /\ (f \o t)[j] = t[j - Len(f)] /\ (f \o t)[i] = f[i]
    BY <1>1, <1>3
  <2>2. f[i] \in Elems(f) \ {Notice} /\ t[j - Len(f)] \in Elems(t)
    BY <1>1, <1>3, <2>1 DEF Elems
  <2> QED BY <2>1, <2>2 DEF Below
<1>4. CASE i \in (Len(f) + 1) .. (Len(f) + Len(t)) /\ j \in (Len(f) + 1) .. (Len(f) + Len(t))
  <2>1. /\ i - Len(f) \in DOMAIN t /\ j - Len(f) \in DOMAIN t /\ i - Len(f) < j - Len(f)
        /\ (f \o t)[j] = t[j - Len(f)] /\ (f \o t)[i] = t[i - Len(f)]
    BY <1>1, <1>4
  <2> QED BY <2>1 DEF Sorted
<1> QED BY <1>1, <1>2, <1>3, <1>4

\* Every step preserves the order invariant.
LEMMA OrderStep ==
  ASSUME TypeOK, SpareInv, LoopInv, Conservation, OrderInv, [Next]_vars
  PROVE  OrderInv'
<1>1. /\ Front \subseteq 1 .. appended
      /\ \A b \in Backends : Held(b) \subseteq 1 .. appended
  BY ConservationForm
<1>2. ASSUME NEW len \in Lens, Line(len) PROVE OrderInv'
  <2>1. /\ Lines(currentBuffer) \subseteq 1 .. appended
        /\ LinesFrom(buffers, 1) \subseteq 1 .. appended
    BY <1>1 DEF Front
  <2>2. \A S : S \subseteq 1 .. appended => Below(S, {appended + 1})
    BY DEF Below, TypeOK
  <2>3. /\ Sorted(currentBuffer'.msgs) /\ SortedBufs(buffers')
        /\ Below(LinesFrom(buffers', 1), Lines(currentBuffer'))
    <3>1. CASE AppendInPlace(len)
      <4>1. Lines(currentBuffer') = Lines(currentBuffer) \cup {appended + 1}
        BY <3>1, LinesFixedAppend DEF AppendInPlace, TypeOK
      <4>2. Sorted(currentBuffer'.msgs)
        <5>1. currentBuffer \in Buffer /\ appended + 1 \in Nat
          BY DEF TypeOK
        <5>2. Sorted(currentBuffer.msgs)
          BY DEF OrderInv
        <5>3. Below(Lines(currentBuffer), {appended + 1})
          BY <2>1, <2>2
        <5> QED BY <3>1, <5>1, <5>2, <5>3, SortedFixedAppend DEF AppendInPlace
      <4>3. Below(LinesFrom(buffers, 1), Lines(currentBuffer'))
        BY <2>1, <2>2, <4>1 DEF OrderInv, Below
      <4> QED BY <3>1, <4>2, <4>3 DEF AppendInPlace, OrderInv
    <3>2. CASE AppendSwitch(len)
      <4>1. currentBuffer' = FixedAppend(EmptyBuffer, appended + 1, len)
        BY <3>2 DEF AppendSwitch, SpareInv
      <4>2. Lines(currentBuffer') = {appended + 1} /\ Sorted(currentBuffer'.msgs)
        <5>1. /\ Sorted(EmptyBuffer.msgs) /\ Below(Lines(EmptyBuffer), {appended + 1})
              /\ appended + 1 \in Nat
          BY DEF Sorted, EmptyBuffer, Below, Lines, TypeOK
        <5> QED
          BY <4>1, <5>1, LinesFixedAppend, SortedFixedAppend, EmptyHasRoom, LinesOfEmpty,
             EmptyBufferType
      <4>3. SortedBufs(buffers')
        BY <3>2, SortedBufsAppend DEF AppendSwitch, TypeOK, OrderInv
      <4>4. LinesFrom(buffers', 1) = Front
        BY <3>2, LinesFromAppend DEF AppendSwitch, TypeOK, Front
      <4> QED BY <1>1, <2>2, <4>2, <4>3, <4>4
    <3> QED BY <1>2, <3>1, <3>2 DEF Line
  <2>4. \A b \in Backends : Below(Held(b), Front')
    BY <1>1, <1>2, <2>2, LineMoves DEF OrderInv, Below
  <2>5. buffersToWrite' = buffersToWrite /\ output' = output /\ next' = next
    BY <1>2 DEF Line, writeVars
  <2>6. \A b \in Backends : Held(b)' = Held(b) /\ Written(b)' = Written(b) /\ ToWrite(b)' = ToWrite(b)
    BY <2>5 DEF Held, Written, ToWrite
  <2> QED BY <2>3, <2>4, <2>5, <2>6 DEF OrderInv
<1>3. CASE (\E b \in Backends : Start(b)) \/ FirstStartFails \/ Control \/ UNCHANGED vars
  <2>1. /\ output' = output /\ next' = next /\ buffersToWrite' = buffersToWrite
        /\ currentBuffer' = currentBuffer /\ buffers' = buffers
    BY <1>3 DEF Start, FirstStartFails, Control, StartReturns, StopClearsRunning, StopNotifies, StopJoins, vars,
                objVars, frontVars, writeVars, histVars
  <2>2. Front' = Front /\ \A b \in Backends : /\ Held(b)' = Held(b) /\ Written(b)' = Written(b)
                                              /\ ToWrite(b)' = ToWrite(b)
    BY <2>1 DEF Held, Written, ToWrite, Front
  <2> QED BY <2>1, <2>2 DEF OrderInv
<1>4. ASSUME NEW b \in Backends, Thread(b) PROVE OrderInv'
  <2>1. \A c \in Backends \ {b} : /\ output'[c] = output[c] /\ Held(c)' = Held(c)
                                  /\ buffersToWrite'[c] = buffersToWrite[c]
                                  /\ Written(c)' = Written(c) /\ ToWrite(c)' = ToWrite(c)
    <3>1. \A c \in Backends \ {b} : /\ output'[c] = output[c]
                                    /\ buffersToWrite'[c] = buffersToWrite[c]
      BY <1>4 DEF TypeOK, writeVars, Thread, ThreadBegins, LoopContinues, LoopEnds,
                  WaitsForLines, WaitTimesOut, SwapsBuffers, DropsExcess, WritesBuffer, Recycles
    <3> QED BY <1>4, <3>1, OthersKeep DEF Held
  \* It is enough to look at b itself and at what is in front of it.
  <2>2. SUFFICES /\ Sorted(currentBuffer'.msgs) /\ SortedBufs(buffers')
                 /\ Below(LinesFrom(buffers', 1), Lines(currentBuffer'))
                 /\ SortedBufs(buffersToWrite'[b]) /\ SortedFile(output'[b])
                 /\ Below(Written(b)', ToWrite(b)')
                 /\ \A c \in Backends : Below(Held(c)', Front')
                 /\ \A c \in Backends \ {b} : Held(b)' \cap Held(c) = {}
    BY <2>1 DEF OrderInv
  <2>3. CASE SwapsBuffers(b)
    <3>1. currentBuffer' = EmptyBuffer /\ buffers' = << >> /\ output' = output
      BY <2>3 DEF SwapsBuffers, SpareInv, Goto
    <3>2. /\ Sorted(currentBuffer'.msgs) /\ SortedBufs(buffers')
          /\ Below(LinesFrom(buffers', 1), Lines(currentBuffer'))
      BY <3>1, LinesOfEmpty DEF Sorted, SortedBufs, Below, EmptyBuffer
    <3>3. SortedBufs(buffersToWrite'[b])
      BY <2>3, SortedBufsAppend DEF SwapsBuffers, Taken, TypeOK, OrderInv
    <3>4. /\ Front' = {} /\ Written(b)' = Written(b) /\ ToWrite(b)' = Front
          /\ Held(b)' = Held(b) \cup Front
      BY <2>3, SwapMoves DEF Held
    <3>5. \A c \in Backends : Below(Held(c)', Front')
      BY <3>4 DEF Below
    <3>6. Below(Written(b)', ToWrite(b)')
      BY <3>4 DEF OrderInv, Below, Held
    <3>7. \A c \in Backends \ {b} : Held(c) \cap Front = {}
      BY <1>1 DEF OrderInv, Below, TypeOK
    <3>8. \A c \in Backends \ {b} : Held(b)' \cap Held(c) = {}
      BY <3>4, <3>7 DEF OrderInv
    <3> QED BY <3>1, <3>2, <3>3, <3>5, <3>6, <3>8 DEF OrderInv
  <2>4. CASE DropsExcess(b)
    <3>1. currentBuffer' = currentBuffer /\ buffers' = buffers /\ Front' = Front
      BY <2>4 DEF DropsExcess, objVars, frontVars, Front
    <3>2. Written(b)' = Written(b) /\ ToWrite(b)' \subseteq ToWrite(b) /\ Held(b)' \subseteq Held(b)
      BY <2>4, DropMoves DEF Held
    <3>3. SortedBufs(buffersToWrite'[b])
      <4>1. CASE Len(buffersToWrite[b]) > MaxBuffers
        <5>1. /\ buffersToWrite'[b] = SubSeq(buffersToWrite[b], 1, 2)
              /\ buffersToWrite[b] \in Seq(Buffer) /\ Len(buffersToWrite[b]) >= 2
          BY <2>4, <4>1, ConstantsAssumption DEF DropsExcess, TypeOK
        <5> QED BY <5>1, SortedBufsCut DEF OrderInv
      <4>2. CASE ~ (Len(buffersToWrite[b]) > MaxBuffers)
        BY <2>4, <4>2 DEF DropsExcess, OrderInv
      <4> QED BY <4>1, <4>2
    <3>4. SortedFile(output'[b])
      <4>1. output[b] \in Seq(Nat) /\ SortedFile(output[b])
        BY DEF TypeOK, OrderInv
      <4>2. output'[b] = output[b] \/ output'[b] = Append(output[b], Notice)
        BY <2>4 DEF DropsExcess, TypeOK
      <4> QED BY <4>1, <4>2 DEF SortedFile
    <3> QED BY <2>1, <3>1, <3>2, <3>3, <3>4 DEF OrderInv, Below
  <2>5. CASE WritesBuffer(b)
    <3> DEFINE buf == buffersToWrite[b][next[b]]
    <3>1. /\ currentBuffer' = currentBuffer /\ buffers' = buffers /\ Front' = Front
          /\ buffersToWrite' = buffersToWrite
      BY <2>5 DEF WritesBuffer, objVars, frontVars, Front
    <3>2. Notice \notin ToWrite(b)
      BY <1>1 DEF Held, Notice, TypeOK
    <3>3. /\ buf \in Buffer /\ Written(b)' = Written(b) \cup Lines(buf)
          /\ ToWrite(b) = Lines(buf) \cup ToWrite(b)' /\ Held(b)' = Held(b)
      BY <2>5, <3>2, WriteMoves DEF Held
    <3>4. next[b] \in 1 .. Len(buffersToWrite[b]) /\ buffersToWrite[b] \in Seq(Buffer)
      BY <2>5 DEF WritesBuffer, TypeOK
    <3>5. Below(Lines(buf), ToWrite(b)')
      <4>1. ToWrite(b)' = LinesFrom(buffersToWrite[b], next[b] + 1)
        BY <2>5 DEF WritesBuffer, ToWrite, TypeOK
      <4> QED BY <3>4, <4>1, SortedBufsBelow DEF OrderInv
    <3>6. Below(Written(b)', ToWrite(b)')
      BY <3>3, <3>5 DEF OrderInv, Below
    <3>7. SortedFile(output'[b])
      <4>1. output'[b] = output[b] \o buf.msgs
        BY <2>5 DEF WritesBuffer, TypeOK
      <4>2. output[b] \in Seq(Nat) /\ buf.msgs \in Seq(Nat) /\ Sorted(buf.msgs)
        BY <3>3, <3>4, LinesType DEF TypeOK, OrderInv, SortedBufs
      <4>3. Written(b) = Elems(output[b]) \ {Notice} /\ Lines(buf) = Elems(buf.msgs)
        BY DEF Written, Elems, Lines
      <4>4. Below(Elems(output[b]) \ {Notice}, Elems(buf.msgs))
        BY <3>3, <4>3 DEF OrderInv, Below
      <4> QED BY <4>1, <4>2, <4>4, SortedFileConcat DEF OrderInv
    <3> QED BY <2>1, <3>1, <3>3, <3>6, <3>7 DEF OrderInv
  <2>6. CASE Recycles(b)
    <3>1. /\ currentBuffer' = currentBuffer /\ buffers' = buffers /\ Front' = Front
          /\ output' = output
      BY <2>6 DEF Recycles, objVars, frontVars, Front
    <3>2. buffersToWrite'[b] = << >>
      BY <2>6 DEF Recycles, TypeOK
    <3>3. SortedBufs(<< >>)
      BY DEF SortedBufs
    <3>4. Written(b)' = Written(b) /\ ToWrite(b)' = ToWrite(b) /\ Held(b)' = Held(b)
      BY <2>6, RecycleMoves DEF Held
    <3> QED BY <2>1, <3>1, <3>2, <3>3, <3>4 DEF OrderInv
  <2>7. CASE ~ (SwapsBuffers(b) \/ DropsExcess(b) \/ WritesBuffer(b) \/ Recycles(b))
    <3>1. /\ currentBuffer' = currentBuffer /\ buffers' = buffers
          /\ output' = output /\ buffersToWrite' = buffersToWrite /\ next' = next
      BY <1>4, <2>7 DEF Thread, ThreadBegins, LoopContinues, LoopEnds, WaitsForLines,
                        WaitTimesOut, objVars, frontVars, writeVars
    <3>2. /\ Front' = Front /\ Written(b)' = Written(b) /\ ToWrite(b)' = ToWrite(b)
          /\ Held(b)' = Held(b)
      BY <3>1 DEF Front, Written, ToWrite, Held
    <3> QED BY <2>1, <3>1, <3>2 DEF OrderInv
  <2> QED BY <2>3, <2>4, <2>5, <2>6, <2>7
<1> QED BY <1>2, <1>3, <1>4 DEF Next, LogLine, LogFatal, StartFails

\* Each file holds its lines in the order of the append() calls, and no line
\* is written twice or to two files.
THEOREM FIFOAlways == Spec => []FIFO
<1>1. Init => OrderInv
  <2> SUFFICES ASSUME Init PROVE OrderInv
    OBVIOUS
  <2>1. /\ Lines(currentBuffer) = {} /\ LinesFrom(buffers, 1) = {} /\ Front = {}
        /\ currentBuffer.msgs = << >> /\ buffers = << >>
    BY LinesOfEmpty DEF Init, Front, EmptyBuffer
  <2>2. ASSUME NEW b \in Backends
        PROVE  /\ buffersToWrite[b] = << >> /\ output[b] = << >>
               /\ Written(b) = {} /\ ToWrite(b) = {} /\ Held(b) = {}
    BY LinesOfEmpty DEF Init, Written, ToWrite, Held
  <2> QED BY <2>1, <2>2 DEF OrderInv, Sorted, SortedBufs, SortedFile, Below
<1>2. TypeOK /\ SpareInv /\ LoopInv /\ Conservation /\ OrderInv /\ [Next]_vars => OrderInv'
  BY OrderStep
<1>3. OrderInv => FIFO
  BY DEF OrderInv, FIFO, SortedFile, Held
<1> QED BY <1>1, <1>2, <1>3, TypeAndSpares, LoopInvariant, ConservationAlways, PTL DEF Spec
===============================================================================
