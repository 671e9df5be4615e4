---------------------------- MODULE IriLogProofs ----------------------------
(***************************************************************************)
(* Proofs about IriLog, for any number of threads, names and descriptors.  *)
(***************************************************************************)
EXTENDS IriLog, FiniteSetTheorems, WellFoundedInduction, TLAPS

\* Strengthening of InitOnce: who holds init_lock is inside iridium_init_log();
\* whoever is about to read the configuration is the first to do so; and as long
\* as init_flag is not set and nobody is inside, it has not been read.
InitInv ==
  /\ loads \in Nat /\ loads <= 1
  /\ pc \in [Writers -> UsesNode \cup {"idle", "init", "initing", "publish", "gate",
                                        "lookup", "insert"}]
  /\ \A w \in Writers : pc[w] \in {"initing", "publish"} <=> initLock = w
  /\ \A w \in Writers : pc[w] = "initing" => loads = 0
  /\ initLock = NoWriter /\ ~ initFlag => loads = 0

\* A step that leaves the initialisation alone, and moves no writer into or out
\* of it, preserves the invariant.
LEMMA InitFrame ==
  ASSUME InitInv, UNCHANGED initVars, NEW w \in Writers, NEW label,
         pc' = [pc EXCEPT ![w] = label],
         pc[w] \notin {"initing", "publish"}, label \notin {"initing", "publish"},
         label \in UsesNode \cup {"idle", "init", "gate", "lookup", "insert"}
  PROVE  InitInv'
  BY DEF InitInv, initVars

LEMMA InitInvariant == Spec => []InitInv
<1>1. Init => InitInv
  BY IriLogAssumption DEF Init, InitInv
<1>2. InitInv /\ [Next]_vars => InitInv'
  <2> SUFFICES ASSUME InitInv, [Next]_vars PROVE InitInv'
    OBVIOUS
  <2>1. ASSUME NEW w \in Writers, NEW n \in Names, NEW l \in Levels, Call(w, n, l) PROVE InitInv'
    BY <2>1, InitFrame DEF Call, At, Goto
  <2>2. ASSUME NEW w \in Writers, CallInit(w) PROVE InitInv'
    BY <2>2, InitFrame DEF CallInit, At, Goto
  <2>3. ASSUME NEW w \in Writers, InitLocks(w) PROVE InitInv'
    <3>1. CASE initFlag
      <4>1. UNCHANGED initVars
        BY <2>3, <3>1 DEF InitLocks, AlreadyInited, initVars
      <4> QED BY <2>3, <3>1, <4>1, InitFrame DEF InitLocks, AlreadyInited, At, Goto, Returns
    <3>2. CASE ~ initFlag
      BY <2>3, <3>2, IriLogAssumption DEF InitLocks, AlreadyInited, At, Goto, Returns, InitInv
    <3> QED BY <3>1, <3>2
  <2>4. ASSUME NEW w \in Writers, InitWorks(w) PROVE InitInv'
    <3>1. loads = 0 /\ (loads' = loads \/ loads' = loads + 1)
      BY <2>4 DEF InitWorks, At, InitInv
    <3>2. /\ pc[w] = "initing" /\ pc' = [pc EXCEPT ![w] = "publish"]
          /\ initLock' = initLock /\ initFlag' = initFlag /\ initLock = w
      BY <2>4 DEF InitWorks, At, Goto, InitInv
    <3>3. w # NoWriter
      BY IriLogAssumption
    <3> QED BY <3>1, <3>2, <3>3 DEF InitInv
  <2>5. ASSUME NEW w \in Writers, InitPublishes(w) PROVE InitInv'
    BY <2>5, IriLogAssumption DEF InitPublishes, At, Goto, Returns, InitInv
  <2>6. ASSUME NEW w \in Writers, Gate(w) PROVE InitInv'
    <3>1. \E label \in {"idle", "lookup"} : pc' = [pc EXCEPT ![w] = label]
      BY <2>6 DEF Gate, Goto, Returns
    <3> QED BY <2>6, <3>1, InitFrame DEF Gate, At
  <2>7. ASSUME NEW w \in Writers, BadInfos(w) \/ UseAfterFree(w) \/ InitExits(w) PROVE InitInv'
    BY <2>7 DEF BadInfos, UseAfterFree, InitExits, InitInv, initVars
  <2>8. ASSUME NEW w \in Writers, Lookup(w) PROVE InitInv'
    <3>1. \E label \in {"insert", "close", "check"} : pc' = [pc EXCEPT ![w] = label]
      BY <2>8 DEF Lookup, Goto
    <3> QED BY <2>8, <3>1, InitFrame DEF Lookup, At, UsesNode
  <2>9. ASSUME NEW w \in Writers, Insert(w) PROVE InitInv'
    <3>1. /\ pc' = [pc EXCEPT ![w] = "check"] /\ UNCHANGED initVars
          /\ pc[w] \notin {"initing", "publish"}
      BY <2>9 DEF Insert, At, Goto
    <3> QED BY <3>1, InitFrame DEF UsesNode
  <2>10. ASSUME NEW w \in Writers, Check(w) PROVE InitInv'
    <3>1. \E label \in {"lock", "idle"} : pc' = [pc EXCEPT ![w] = label]
      BY <2>10 DEF Check, Goto, Returns
    <3> QED BY <2>10, <3>1, InitFrame DEF Check, At, UsesNode
  <2>11. ASSUME NEW w \in Writers, Locks(w) PROVE InitInv'
    BY <2>11, InitFrame DEF Locks, At, Goto, UsesNode
  <2>12. ASSUME NEW w \in Writers, ProcLocks(w) PROVE InitInv'
    <3>1. \E label \in {"close", "write"} : pc' = [pc EXCEPT ![w] = label]
      BY <2>12 DEF ProcLocks, Goto
    <3> QED BY <2>12, <3>1, InitFrame DEF ProcLocks, At, UsesNode
  <2>13. ASSUME NEW w \in Writers, CreateCloses(w) PROVE InitInv'
    BY <2>13, InitFrame DEF CreateCloses, At, Goto, UsesNode
  <2>14. ASSUME NEW w \in Writers, CreateOpens(w) PROVE InitInv'
    <3>1. \E label \in {"check", "write"} : pc' = [pc EXCEPT ![w] = label]
      BY <2>14 DEF CreateOpens, Goto
    <3> QED BY <2>14, <3>1, InitFrame DEF CreateOpens, At, UsesNode
  <2>15. ASSUME NEW w \in Writers, Write(w) PROVE InitInv'
    <3>1. /\ pc' = [pc EXCEPT ![w] = "unlock"] /\ UNCHANGED initVars
          /\ pc[w] \notin {"initing", "publish"}
      BY <2>15 DEF Write, At, Goto
    <3> QED BY <3>1, InitFrame DEF UsesNode
  <2>16. ASSUME NEW w \in Writers, Unlocks(w) PROVE InitInv'
    BY <2>16, InitFrame DEF Unlocks, At, Goto, Returns
  <2>17. CASE TimerExpires \/ Destroy \/ UNCHANGED vars
    BY <2>17 DEF TimerExpires, Destroy, vars, InitInv, initVars
  <2>18. ASSUME NEW f \in File, ForeignLocks(f) \/ ForeignUnlocks(f) PROVE InitInv'
    BY <2>18 DEF ForeignLocks, ForeignUnlocks, InitInv, initVars
  <2> QED
    BY <2>1, <2>2, <2>3, <2>4, <2>5, <2>6, <2>7, <2>8, <2>9, <2>10, <2>11, <2>12, <2>13,
       <2>14, <2>15, <2>16, <2>17, <2>18 DEF Next, Step
<1> QED BY <1>1, <1>2, PTL DEF Spec

\* The configuration is read at most once, however many threads race for the
\* first call and whatever fails.
THEOREM InitHappensOnce == Spec => []InitOnce
<1>1. InitInv => InitOnce
  BY DEF InitInv, InitOnce
<1> QED BY <1>1, InitInvariant, PTL

-----------------------------------------------------------------------------
(* Types *)

Place == UsesNode \cup {"idle", "init", "initing", "publish", "gate", "lookup", "insert"}
Node == [fd : Fds \cup {-1}, times : Nat, size : Nat, lock : Writers \cup {NoWriter}]
Job == [name : Names \cup {NoName}, level : Levels, node : NodeIds \cup {0},
        ret : {0, -1}, lost : BOOLEAN, calls : 0 .. MaxCalls]

\* Where a call has passed the initialisation.
InLog == UsesNode \cup {"gate", "lookup", "insert"}

\* There it has a name, and later a node.
CallInv ==
  /\ pc \in [Writers -> Place] /\ job \in [Writers -> Job]
  /\ \A w \in Writers : pc[w] \in InLog => job[w].name \in Names
  /\ \A w \in Writers : pc[w] \in UsesNode => job[w].node \in NodeIds

TypeInv == TypeOK /\ CallInv

\* A writer moves and its call changes: what that takes to keep the types.
LEMMA MoveTypes ==
  ASSUME CallInv, NEW w \in Writers, NEW label \in Place, NEW j \in Job,
         pc' = [pc EXCEPT ![w] = label], job' = [job EXCEPT ![w] = j],
         label \in InLog => j.name \in Names, label \in UsesNode => j.node \in NodeIds
  PROVE  CallInv'
  BY DEF CallInv, Place, Job

LEMMA MoveTypesSameJob ==
  ASSUME CallInv, NEW w \in Writers, NEW label \in Place, Goto(w, label), UNCHANGED job,
         label \in InLog => job[w].name \in Names, label \in UsesNode => job[w].node \in NodeIds
  PROVE  CallInv'
  BY DEF CallInv, Place, Goto

LEMMA ReturnTypes ==
  ASSUME CallInv, NEW w \in Writers, NEW ret \in {0, -1}, Returns(w, ret)
  PROVE  CallInv'
<1> DEFINE j == [NoJob EXCEPT !.ret = ret, !.lost = job[w].lost, !.calls = job[w].calls]
<1>1. j \in Job
  BY DEF NoJob, Job, Levels, CallInv
<1>2. pc' = [pc EXCEPT ![w] = "idle"] /\ job' = [job EXCEPT ![w] = j]
  BY DEF Returns, Goto
<1> HIDE DEF j
<1> QED BY <1>1, <1>2, MoveTypes DEF Place, InLog, UsesNode

\* The rest of the types.
GlobalTypes ==
  /\ initFlag \in BOOLEAN /\ initLock \in Writers \cup {NoWriter} /\ closeFlag \in BOOLEAN
  /\ infos \in SUBSET Confs /\ timer \in {"off", "running", "expired"}
  /\ loads \in Nat /\ destroyed \in BOOLEAN /\ over \in BOOLEAN /\ foreign \subseteq File

NodeTypes ==
  /\ table \in [Names -> NodeIds \cup {0}] /\ freed \subseteq NodeIds
  /\ node \in [NodeIds -> Node]
  /\ fdTable \in [Fds -> File \cup {NoFile}] /\ flock \subseteq File
  /\ disk \in [File -> Nat] /\ opens \in [File -> Nat]

LEMMA TypesSplit == TypeInv <=> GlobalTypes /\ NodeTypes /\ CallInv
  BY DEF TypeInv, TypeOK, GlobalTypes, NodeTypes, CallInv, Place, Node, Job

\* A name and a second are a file.
LEMMA FileAtType ==
  ASSUME NEW n \in Names, NEW d \in Dates
  PROVE  FileAt(n, d) \in File /\ FileAt(n, d).log = n /\ FileAt(n, d) # NoFile
<1>1. FileAt(n, d) \in File /\ FileAt(n, d).log = n
  BY DEF FileAt, File
<1> QED BY <1>1, IriLogAssumption

\* open() gives a descriptor, or -1, for which the tables are of the right type.
LEMMA OpenedTypes ==
  ASSUME NodeTypes, NEW n \in Names, NEW d \in Dates, NEW fd \in Fds \cup {-1}
  PROVE  /\ Opened(FileAt(n, d), fd) \in [Fds -> File \cup {NoFile}]
         /\ Counted(FileAt(n, d), fd) \in [File -> Nat]
<1>1. PICK f \in File : f = FileAt(n, d)
  BY FileAtType
<1>2. Opened(f, fd) \in [Fds -> File \cup {NoFile}]
  BY IriLogAssumption DEF NodeTypes, Opened
<1>3. Counted(f, fd) \in [File -> Nat]
  BY DEF NodeTypes, Counted
<1> QED BY <1>1, <1>2, <1>3

\* An open descriptor is open on a file.
LEMMA OpenIsFile ==
  ASSUME NodeTypes, NEW fd, IsOpen(fd)
  PROVE  fd \in Fds /\ fdTable[fd] \in File
  BY DEF NodeTypes, IsOpen

LEMMA TypeStep == TypeInv /\ [Next]_vars => TypeInv'
<1> SUFFICES ASSUME GlobalTypes, NodeTypes, CallInv, [Next]_vars
             PROVE  GlobalTypes' /\ NodeTypes' /\ CallInv'
  BY DEF TypeInv, TypeOK, GlobalTypes, NodeTypes, CallInv, Place, Node, Job
<1> USE IriLogAssumption DEF At
<1>1. ASSUME NEW w \in Writers, NEW n \in Names, NEW l \in Levels, Call(w, n, l)
      PROVE  GlobalTypes' /\ NodeTypes' /\ CallInv'
  <2> DEFINE j == [NoJob EXCEPT !.name = n, !.level = l, !.calls = job[w].calls + 1]
  <2>1. j \in Job
    <3>1. job[w].calls \in 0 .. MaxCalls /\ job[w].calls < MaxCalls
      BY <1>1 DEF Call, Job, CallInv
    <3>2. job[w].calls + 1 \in 0 .. MaxCalls
      BY <3>1
    <3> QED BY <3>2 DEF NoJob, Job
  <2>2. \E label \in {"gate", "init"} : pc' = [pc EXCEPT ![w] = label] /\ job' = [job EXCEPT ![w] = j]
    BY <1>1 DEF Call, Goto
  <2>3. j.name = n
    BY DEF NoJob
  <2> HIDE DEF j
  <2>4. CallInv'
    BY <2>1, <2>2, <2>3, MoveTypes DEF Place, UsesNode
  <2> QED BY <1>1, <2>4 DEF Call, GlobalTypes, NodeTypes, initVars, nodeVars, fileVars
<1>2. ASSUME NEW w \in Writers, CallInit(w) PROVE GlobalTypes' /\ NodeTypes' /\ CallInv'
  <2> DEFINE j == [NoJob EXCEPT !.calls = job[w].calls + 1]
  <2>1. j \in Job
    <3>1. job[w].calls \in 0 .. MaxCalls /\ job[w].calls < MaxCalls
      BY <1>2 DEF CallInit, Job, CallInv
    <3>2. job[w].calls + 1 \in 0 .. MaxCalls
      BY <3>1
    <3> QED BY <3>2 DEF NoJob, Job, Levels
  <2>2. pc' = [pc EXCEPT ![w] = "init"] /\ job' = [job EXCEPT ![w] = j]
    BY <1>2 DEF CallInit, Goto
  <2> HIDE DEF j
  <2>3. CallInv'
    BY <2>1, <2>2, MoveTypes DEF Place, InLog, UsesNode
  <2> QED BY <1>2, <2>3 DEF CallInit, GlobalTypes, NodeTypes, initVars, nodeVars, fileVars
<1>3. ASSUME NEW w \in Writers, InitLocks(w) PROVE GlobalTypes' /\ NodeTypes' /\ CallInv'
  <2>1. \/ Returns(w, 0)
        \/ Goto(w, "gate") /\ UNCHANGED job /\ job[w].name # NoName
        \/ Goto(w, "initing") /\ UNCHANGED job
    BY <1>3 DEF InitLocks
  <2>2. CallInv'
    BY <2>1, ReturnTypes, MoveTypesSameJob DEF Place, InLog, UsesNode, CallInv, Job
  <2> QED BY <1>3, <2>2 DEF InitLocks, FlagDuringInit, GlobalTypes, NodeTypes, nodeVars, fileVars
<1>4. ASSUME NEW w \in Writers, InitWorks(w) PROVE GlobalTypes' /\ NodeTypes' /\ CallInv'
  <2>1. CASE DirFails /\ job' = [job EXCEPT ![w].ret = -1] /\ UNCHANGED <<closeFlag, infos, loads, timer>>
    <3> DEFINE j == [job[w] EXCEPT !.ret = -1]
    <3>1. j \in Job
      BY DEF CallInv, Job
    <3>2. pc' = [pc EXCEPT ![w] = "publish"] /\ job' = [job EXCEPT ![w] = j]
      BY <1>4, <2>1 DEF InitWorks, Goto
    <3> HIDE DEF j
    <3>3. CallInv'
      BY <3>1, <3>2, MoveTypes DEF Place, InLog, UsesNode
    <3> QED BY <1>4, <2>1, <3>3 DEF InitWorks, GlobalTypes, NodeTypes, nodeVars, fileVars
  <2>2. ASSUME NEW c \in Confs, loads' = loads + 1, closeFlag' = (closeFlag \/ ~ c.switch),
               infos' = IF c.switch THEN {c} ELSE {},
               timer' = IF c.switch /\ c.valid /\ c.timer THEN "running" ELSE timer,
               UNCHANGED job
        PROVE  GlobalTypes' /\ NodeTypes' /\ CallInv'
    <3>1. CallInv'
      BY <1>4, <2>2, MoveTypesSameJob DEF InitWorks, Place, InLog, UsesNode
    <3>2. infos' \in SUBSET Confs /\ loads' \in Nat /\ timer' \in {"off", "running", "expired"}
      BY <2>2 DEF GlobalTypes
    <3>3. closeFlag' \in BOOLEAN
      BY <2>2 DEF GlobalTypes
    <3> QED BY <1>4, <3>1, <3>2, <3>3 DEF InitWorks, GlobalTypes, NodeTypes, nodeVars, fileVars
  <2> QED BY <1>4, <2>1, <2>2 DEF InitWorks
<1>5. ASSUME NEW w \in Writers, InitPublishes(w) PROVE GlobalTypes' /\ NodeTypes' /\ CallInv'
  <2>1. \/ Goto(w, "gate") /\ UNCHANGED job /\ job[w].name # NoName
        \/ Returns(w, job[w].ret)
    BY <1>5 DEF InitPublishes
  <2>2. job[w].ret \in {0, -1}
    BY DEF CallInv, Job
  <2>3. CallInv'
    BY <2>1, <2>2, ReturnTypes, MoveTypesSameJob DEF Place, InLog, UsesNode, CallInv, Job
  <2> QED BY <1>5, <2>3 DEF InitPublishes, GlobalTypes, NodeTypes, nodeVars, fileVars
<1>6. ASSUME NEW w \in Writers, Gate(w) PROVE GlobalTypes' /\ NodeTypes' /\ CallInv'
  <2>1. Returns(w, 0) \/ Returns(w, -1) \/ (Goto(w, "lookup") /\ UNCHANGED job)
    BY <1>6 DEF Gate
  <2>2. CallInv'
    BY <1>6, <2>1, ReturnTypes, MoveTypesSameJob DEF Gate, Place, InLog, UsesNode, CallInv
  <2> QED BY <1>6, <2>2 DEF Gate, GlobalTypes, NodeTypes, initVars, nodeVars, fileVars
<1>7. ASSUME NEW w \in Writers, BadInfos(w) \/ UseAfterFree(w) \/ InitExits(w)
      PROVE  GlobalTypes' /\ NodeTypes' /\ CallInv'
  BY <1>7 DEF BadInfos, UseAfterFree, InitExits, GlobalTypes, NodeTypes, CallInv, initVars, nodeVars, fileVars
<1>8. ASSUME NEW w \in Writers, Lookup(w) PROVE GlobalTypes' /\ NodeTypes' /\ CallInv'
  <2> DEFINE i == table[job[w].name]
  <2>1. job[w].name \in Names /\ i \in NodeIds \cup {0}
    BY <1>8 DEF Lookup, CallInv, InLog, NodeTypes
  <2>2. CASE i = 0 /\ Goto(w, "insert") /\ UNCHANGED job
    BY <1>8, <2>1, <2>2, MoveTypesSameJob
    DEF Lookup, Place, InLog, UsesNode, GlobalTypes, NodeTypes, initVars, nodeVars, fileVars
  <2>3. CASE i # 0 /\ job' = [job EXCEPT ![w].node = i]
    <3> DEFINE j == [job[w] EXCEPT !.node = i]
    <3>1. j \in Job /\ j.name = job[w].name /\ j.node = i
      BY <2>1 DEF CallInv, Job
    <3>2. /\ \E label \in {"close", "check"} : pc' = [pc EXCEPT ![w] = label]
          /\ job' = [job EXCEPT ![w] = j]
      BY <1>8, <2>3 DEF Lookup, Goto
    <3> HIDE DEF j
    <3>3. CallInv'
      BY <2>1, <2>3, <3>1, <3>2, MoveTypes DEF Place, UsesNode
    <3> QED BY <1>8, <3>3 DEF Lookup, GlobalTypes, NodeTypes, initVars, nodeVars, fileVars
  <2> QED BY <1>8, <2>2, <2>3 DEF Lookup
<1>9. ASSUME NEW w \in Writers, Insert(w) PROVE GlobalTypes' /\ NodeTypes' /\ CallInv'
  <2>1. PICK i \in NodeIds, fd \in Fds \cup {-1}, d \in Dates :
          /\ node' = [node EXCEPT ![i] = [RawNode EXCEPT !.fd = fd]]
          /\ fdTable' = Opened(FileAt(job[w].name, d), fd)
          /\ opens' = Counted(FileAt(job[w].name, d), fd)
          /\ table' = [table EXCEPT ![job[w].name] = i]
          /\ freed' = freed \cup ({table[job[w].name]} \ {0})
          /\ job' = [job EXCEPT ![w].node = i]
    BY <1>9 DEF Insert
  <2>2. job[w].name \in Names
    BY <1>9 DEF Insert, CallInv, InLog
  <2>3. [RawNode EXCEPT !.fd = fd] \in Node
    BY DEF RawNode, Node
  <2>4. NodeTypes'
    <3>1. node' \in [NodeIds -> Node]
      BY <2>1, <2>3 DEF NodeTypes
    <3>2. fdTable' \in [Fds -> File \cup {NoFile}] /\ opens' \in [File -> Nat]
      BY <2>1, <2>2, OpenedTypes
    <3>3. table' \in [Names -> NodeIds \cup {0}] /\ freed' \subseteq NodeIds
      BY <2>1, <2>2 DEF NodeTypes
    <3> QED BY <1>9, <3>1, <3>2, <3>3 DEF Insert, NodeTypes
  <2> DEFINE j == [job[w] EXCEPT !.node = i]
  <2>5. j \in Job /\ j.name = job[w].name /\ j.node = i
    BY DEF CallInv, Job
  <2>6. pc' = [pc EXCEPT ![w] = "check"] /\ job' = [job EXCEPT ![w] = j]
    BY <1>9, <2>1 DEF Insert, Goto
  <2> HIDE DEF j
  <2>7. CallInv'
    BY <2>2, <2>5, <2>6, MoveTypes DEF Place, UsesNode
  <2> QED BY <1>9, <2>4, <2>7 DEF Insert, GlobalTypes, initVars
<1>10. ASSUME NEW w \in Writers, Check(w) PROVE GlobalTypes' /\ NodeTypes' /\ CallInv'
  <2>1. Returns(w, -1) \/ (Goto(w, "lock") /\ UNCHANGED job)
    BY <1>10 DEF Check
  <2>2. CallInv'
    BY <1>10, <2>1, ReturnTypes, MoveTypesSameJob DEF Check, Place, InLog, UsesNode, CallInv
  <2> QED BY <1>10, <2>2 DEF Check, GlobalTypes, NodeTypes, initVars, nodeVars, fileVars
<1>11. ASSUME NEW w \in Writers, Locks(w) PROVE GlobalTypes' /\ NodeTypes' /\ CallInv'
  <2>1. CallInv'
    BY <1>11, MoveTypesSameJob DEF Locks, Place, InLog, UsesNode, CallInv
  <2>2. node' \in [NodeIds -> Node]
    BY <1>11 DEF Locks, NodeTypes, Node
  <2> QED BY <1>11, <2>1, <2>2 DEF Locks, GlobalTypes, NodeTypes, initVars, fileVars
<1>12. ASSUME NEW w \in Writers, ProcLocks(w) PROVE GlobalTypes' /\ NodeTypes' /\ CallInv'
  <2>1. \E label \in {"close", "write"} : Goto(w, label) /\ UNCHANGED job
    BY <1>12 DEF ProcLocks
  <2>2. CallInv'
    BY <1>12, <2>1, MoveTypesSameJob DEF ProcLocks, Place, InLog, UsesNode, CallInv
  <2>3. flock' \subseteq File
    BY <1>12, OpenIsFile DEF ProcLocks, NodeTypes
  <2> QED BY <1>12, <2>2, <2>3 DEF ProcLocks, GlobalTypes, NodeTypes, initVars, fileVars
<1>13. ASSUME NEW w \in Writers, CreateCloses(w) PROVE GlobalTypes' /\ NodeTypes' /\ CallInv'
  <2>1. CallInv'
    BY <1>13, MoveTypesSameJob DEF CreateCloses, Place, InLog, UsesNode, CallInv
  <2>2. fdTable' \in [Fds -> File \cup {NoFile}]
    BY <1>13 DEF CreateCloses, NodeTypes
  <2>3. flock' \subseteq File
    BY <1>13 DEF CreateCloses, Released, NodeTypes
  <2> QED BY <1>13, <2>1, <2>2, <2>3 DEF CreateCloses, GlobalTypes, NodeTypes, initVars, fileVars
<1>14. ASSUME NEW w \in Writers, CreateOpens(w) PROVE GlobalTypes' /\ NodeTypes' /\ CallInv'
  <2>1. PICK fd \in Fds \cup {-1}, d \in Dates :
          /\ fdTable' = Opened(FileAt(job[w].name, d), fd)
          /\ opens' = Counted(FileAt(job[w].name, d), fd)
          /\ \/ node' = Reset(job[w].node, fd) /\ Goto(w, "write")
             \/ node' = [node EXCEPT ![job[w].node].fd = fd] /\ Goto(w, "check")
    BY <1>14 DEF CreateOpens
  <2>2. job[w].name \in Names /\ job[w].node \in NodeIds
    BY <1>14 DEF CreateOpens, CallInv, InLog, UsesNode
  <2>3. CallInv'
    BY <1>14, <2>1, <2>2, MoveTypesSameJob DEF CreateOpens, Place, InLog, UsesNode
  <2>4. node' \in [NodeIds -> Node]
    BY <2>1, <2>2 DEF Reset, NodeTypes, Node
  <2> QED BY <1>14, <2>1, <2>2, <2>3, <2>4, OpenedTypes DEF CreateOpens, GlobalTypes, NodeTypes, initVars
<1>15. ASSUME NEW w \in Writers, Write(w) PROVE GlobalTypes' /\ NodeTypes' /\ CallInv'
  <2>1. job[w].name \in Names /\ job[w].node \in NodeIds
    BY <1>15 DEF Write, CallInv, InLog, UsesNode
  <2>2. CASE /\ UNCHANGED job
             /\ IsOpen(Mine(w).fd)
             /\ \E len \in 1 .. MaxLen :
                  /\ node' = [node EXCEPT ![job[w].node].times = @ + 1, ![job[w].node].size = @ + len]
                  /\ disk' = [disk EXCEPT ![fdTable[Mine(w).fd]] = @ + len]
    <3>0. disk' \in [File -> Nat]
      <4>1. PICK f \in File, len \in 1 .. MaxLen : disk' = [disk EXCEPT ![f] = @ + len]
        BY <2>2, OpenIsFile
      <4>2. disk[f] + len \in Nat
        BY DEF NodeTypes
      <4> QED BY <4>1, <4>2 DEF NodeTypes
    <3>1. node' \in [NodeIds -> Node]
      BY <2>1, <2>2 DEF NodeTypes, Node
    <3>2. CallInv'
      BY <1>15, <2>1, <2>2, MoveTypesSameJob DEF Write, Place, InLog, UsesNode
    <3> QED BY <1>15, <3>0, <3>1, <3>2 DEF Write, GlobalTypes, NodeTypes, initVars
  <2>3. CASE job' = [job EXCEPT ![w].lost = TRUE] /\ UNCHANGED <<node, disk>>
    <3> DEFINE j == [job[w] EXCEPT !.lost = TRUE]
    <3>1. j \in Job /\ j.name = job[w].name /\ j.node = job[w].node
      BY DEF CallInv, Job
    <3>2. pc' = [pc EXCEPT ![w] = "unlock"] /\ job' = [job EXCEPT ![w] = j]
      BY <1>15, <2>3 DEF Write, Goto
    <3> HIDE DEF j
    <3>3. CallInv'
      BY <2>1, <3>1, <3>2, MoveTypes DEF Place, UsesNode
    <3> QED BY <1>15, <2>3, <3>3 DEF Write, GlobalTypes, NodeTypes, initVars
  <2> QED BY <1>15, <2>2, <2>3 DEF Write
<1>16. ASSUME NEW w \in Writers, Unlocks(w) PROVE GlobalTypes' /\ NodeTypes' /\ CallInv'
  <2>1. CallInv'
    BY <1>16, ReturnTypes DEF Unlocks
  <2>2. node' \in [NodeIds -> Node]
    BY <1>16 DEF Unlocks, Unlocked, NodeTypes, Node
  <2>3. flock' \subseteq File
    BY <1>16 DEF Unlocks, Released, NodeTypes
  <2> QED BY <1>16, <2>1, <2>2, <2>3 DEF Unlocks, GlobalTypes, NodeTypes, initVars, fileVars
<1>17. CASE TimerExpires \/ UNCHANGED vars
  BY <1>17 DEF TimerExpires, vars, GlobalTypes, NodeTypes, CallInv, initVars, nodeVars, fileVars
<1>18. CASE Destroy
  <2>1. freed' \subseteq NodeIds
    BY <1>18 DEF Destroy, NodeTypes
  <2> QED BY <1>18, <2>1 DEF Destroy, GlobalTypes, NodeTypes, CallInv, fileVars
<1>19. ASSUME NEW f \in File, ForeignLocks(f) \/ ForeignUnlocks(f)
       PROVE  GlobalTypes' /\ NodeTypes' /\ CallInv'
  BY <1>19 DEF ForeignLocks, ForeignUnlocks, GlobalTypes, NodeTypes, CallInv, initVars, nodeVars, fileVars
<1> QED
  BY <1>1, <1>2, <1>3, <1>4, <1>5, <1>6, <1>7, <1>8, <1>9, <1>10, <1>11, <1>12, <1>13,
     <1>14, <1>15, <1>16, <1>17, <1>18, <1>19 DEF Next, Step

LEMMA TypeInvariant == Spec => []TypeInv
<1>1. Init => TypeInv
  <2> SUFFICES ASSUME Init PROVE TypeInv
    OBVIOUS
  <2>1. RawNode \in Node
    BY DEF RawNode, Node
  <2>2. NoJob \in Job
    BY IriLogAssumption DEF NoJob, Job, Levels
  <2>3. NodeTypes
    BY <2>1 DEF Init, NodeTypes
  <2>4. CallInv
    BY <2>2 DEF Init, CallInv, Place, InLog, UsesNode
  <2>5. GlobalTypes
    BY DEF Init, GlobalTypes
  <2> QED BY <2>3, <2>4, <2>5, TypesSplit
<1> QED BY <1>1, TypeStep, PTL DEF Spec

\* Type correctness, whatever fails and for any numbers of threads, logs, nodes and
\* descriptors: calls, nodes and descriptors of the library keep their types.
THEOREM LogTypes == Spec => []TypeOK
  BY TypeInvariant, PTL DEF TypeInv

-----------------------------------------------------------------------------
(* Nodes and their descriptors *)

\* The nodes that were made so far.
Allocated == freed \cup ({table[n] : n \in Names} \ {0})

\* The descriptor of i was closed and its successor is not open yet.
Rotating(i) == \E w \in Writers : pc[w] = "open" /\ job[w].node = i

\* Between pthread_rwlock_wrlock() and pthread_rwlock_unlock().
InSection == {"plock", "close", "open", "write", "unlock"}

\* Strengthening of WriterKeepsDescriptor, in three parts.  A live node is the one
\* its user's name has in the table;
UserInv ==
  /\ \A w \in Writers : pc[w] \in UsesNode => job[w].node \in Allocated
  /\ \A w \in Writers : pc[w] \in UsesNode /\ Live(w) => table[job[w].name] = job[w].node

\* a node's lock is held by the writer between its two ends;
LockInv ==
  \A i \in NodeIds, w \in Writers :
    node[i].lock = w <=> pc[w] \in InSection /\ job[w].node = i

\* and the open descriptors belong one each to the nodes that do not rotate.
FdInv ==
  /\ \A i \in Allocated : node[i].fd \in Fds
  /\ \A i \in Allocated : ~ Rotating(i) => fdTable[node[i].fd] # NoFile
  /\ \A i, j \in Allocated :
       i # j /\ ~ Rotating(i) /\ ~ Rotating(j) => node[i].fd # node[j].fd
  /\ \A f \in Fds : fdTable[f] # NoFile => \E i \in Allocated : ~ Rotating(i) /\ node[i].fd = f
  /\ \A n \in Names : table[n] # 0 /\ ~ Rotating(table[n]) => fdTable[node[table[n]].fd].log = n
  /\ \A m, n \in Names : table[m] # 0 /\ table[m] = table[n] => m = n

NodeInv == UserInv /\ LockInv /\ FdInv

\* open() never fails, and there are descriptors for all the nodes: what it takes
\* for a node to keep a descriptor.
OpenWorks == ~ OpenFails /\ Cardinality(NodeIds) <= Cardinality(Fds)

LEMMA FdNumbers == \A f \in Fds : f > 0 /\ ~ (f < 0)
  BY IriLogAssumption

LEMMA AllocatedNodes ==
  ASSUME NodeTypes
  PROVE  Allocated \subseteq NodeIds
  BY DEF NodeTypes, Allocated

\* A descriptor is free while some node has none: those in use are one each of the
\* others (pigeonhole).
LEMMA DescriptorLeft ==
  ASSUME NodeTypes, FdInv, OpenWorks, NEW k \in NodeIds, k \notin Allocated \/ Rotating(k)
  PROVE  FreeFds # {}
<1> SUFFICES ASSUME FreeFds = {} PROVE FALSE
  OBVIOUS
<1> DEFINE others == NodeIds \ {k}
           owner == [f \in Fds |-> CHOOSE i \in others : node[i].fd = f]
<1>1. \A f \in Fds : \E i \in others : node[i].fd = f
  BY AllocatedNodes DEF FreeFds, FdInv
<1>2. \A f \in Fds : owner[f] \in others /\ node[owner[f]].fd = f
  BY <1>1
<1>3. \A f, g \in Fds : owner[f] = owner[g] => f = g
  BY <1>2
<1>8. owner \in [Fds -> others]
  BY <1>2
<1> HIDE DEF owner
<1>4. IsFiniteSet(others) /\ Cardinality(others) = Cardinality(NodeIds) - 1
  BY FS_RemoveElement, IriLogAssumption
<1>5. Cardinality(NodeIds) \in Nat /\ Cardinality(Fds) \in Nat
  BY FS_CardinalityType, IriLogAssumption
<1>6. Cardinality(others) < Cardinality(Fds)
  BY <1>4, <1>5 DEF OpenWorks
<1> HIDE DEF others
<1>7. \E f, g \in Fds : f # g /\ owner[f] = owner[g]
  <2>1. IsFiniteSet(Fds)
    BY IriLogAssumption
  <2> QED BY <2>1, <1>4, <1>6, <1>8, FS_PigeonHole, Zenon
<1> QED BY <1>3, <1>7

\* LowestFd is one of the free descriptors: a set of numbers has a smallest one.
LEMMA LowestIsFree ==
  ASSUME FreeFds # {}
  PROVE  LowestFd \in FreeFds
<1>1. FreeFds \subseteq Nat
  BY IriLogAssumption DEF FreeFds
<1>2. \E f \in FreeFds : \A g \in FreeFds : ~ (<<g, f>> \in OpToRel(<, Nat))
  BY <1>1, NatLessThanWellFounded, WFMin
<1>3. \A f, g \in Nat : g < f => <<g, f>> \in OpToRel(<, Nat)
  BY DEF OpToRel
<1>4. \A f, g \in Nat : ~ (g < f) => f <= g
  OBVIOUS
<1>5. \E f \in FreeFds : \A g \in FreeFds : f <= g
  BY <1>1, <1>2, <1>3, <1>4, Zenon
<1> QED BY <1>5 DEF LowestFd

\* FdInv is about the table, the descriptors and who rotates, and nothing else.
LEMMA FdFrame ==
  ASSUME NodeTypes, FdInv, UNCHANGED <<table, fdTable>>, Allocated' = Allocated,
         \A i \in NodeIds : node'[i].fd = node[i].fd,
         \A i \in NodeIds : Rotating(i)' <=> Rotating(i)
  PROVE  FdInv'
<1>1. \A i \in Allocated : i \in NodeIds
  BY AllocatedNodes
<1>2. \A n \in Names : table[n] # 0 => table[n] \in NodeIds
  BY DEF NodeTypes
<1> QED BY <1>1, <1>2 DEF FdInv

\* A step of w that leaves the table, the locks and the descriptors alone, and takes
\* w neither into nor out of a lock or a rotation.
LEMMA NodeFrame ==
  ASSUME NodeTypes, CallInv, NodeInv, NEW w \in Writers, NEW label \in Place,
         pc' = [pc EXCEPT ![w] = label], \A v \in Writers \ {w} : job'[v] = job[v],
         UNCHANGED <<table, freed, fdTable>>,
         \A i \in NodeIds : node'[i].fd = node[i].fd /\ node'[i].lock = node[i].lock,
         pc[w] # "open", label # "open", pc[w] \in InSection <=> label \in InSection,
         label \in UsesNode => /\ pc[w] \in UsesNode
                               /\ job'[w].node = job[w].node /\ job'[w].name = job[w].name
  PROVE  NodeInv'
<1>1. \A v \in Writers : pc'[v] = IF v = w THEN label ELSE pc[v]
  BY DEF CallInv
<1>2. Allocated' = Allocated
  BY DEF Allocated
<1>3. UserInv'
  BY <1>1, <1>2 DEF NodeInv, UserInv, Live
<1>4. LockInv'
  BY <1>1 DEF NodeInv, LockInv, InSection, UsesNode
<1>5. \A i \in NodeIds : Rotating(i)' <=> Rotating(i)
  BY <1>1 DEF Rotating
<1>6. FdInv'
  BY <1>2, <1>5, FdFrame DEF NodeInv
<1> QED BY <1>3, <1>4, <1>6 DEF NodeInv

\* w alone holds the lock of its node, and so is the only one to rotate it.
LEMMA OneInSection ==
  ASSUME CallInv, LockInv, NEW w \in Writers, pc[w] \in InSection
  PROVE  /\ job[w].node \in NodeIds /\ Mine(w).lock = w
         /\ \A v \in Writers : pc[v] \in InSection /\ job[v].node = job[w].node => v = w
  BY DEF CallInv, LockInv, InSection, UsesNode, Mine

LEMMA LookupKeepsNodes ==
  ASSUME NodeTypes, CallInv, NodeInv, NEW w \in Writers, Lookup(w)
  PROVE  NodeInv'
<1> DEFINE i == table[job[w].name]
<1>1. job[w].name \in Names /\ pc[w] = "lookup"
  BY DEF Lookup, At, CallInv, InLog
<1>2. CASE i = 0 /\ Goto(w, "insert") /\ UNCHANGED job
  BY <1>1, <1>2, NodeFrame DEF Lookup, Goto, Place, InSection, UsesNode, nodeVars, fileVars
<1>3. CASE i # 0 /\ job' = [job EXCEPT ![w].node = i]
  <2>1. i \in Allocated /\ Allocated' = Allocated /\ i \in NodeIds
    BY <1>1, <1>3, AllocatedNodes DEF Lookup, Allocated, nodeVars, fileVars
  <2>2. ~ (node[i].fd < 0)
    <3>1. node[i].fd \in Fds
      BY <2>1 DEF NodeInv, FdInv
    <3> QED BY <3>1, FdNumbers
  <2>3. pc' = [pc EXCEPT ![w] = "check"] /\ UNCHANGED nodeVars
    BY <1>3, <2>2 DEF Lookup, Goto
  <2>4. \A v \in Writers : pc'[v] = IF v = w THEN "check" ELSE pc[v]
    BY <2>3 DEF CallInv
  <2>5. job' = [job EXCEPT ![w] = [job[w] EXCEPT !.node = i]]
    BY <1>3
  <2>6. /\ \A v \in Writers \ {w} : job'[v] = job[v]
        /\ job'[w].node = i /\ job'[w].name = job[w].name
    BY <2>5 DEF CallInv, Job
  <2>7. UserInv'
    BY <1>1, <2>1, <2>3, <2>4, <2>6 DEF NodeInv, UserInv, Live, nodeVars, fileVars
  <2>8. LockInv'
    BY <1>1, <2>3, <2>4, <2>6 DEF NodeInv, LockInv, InSection, nodeVars, fileVars
  <2>9. \A k \in NodeIds : Rotating(k)' <=> Rotating(k)
    BY <1>1, <2>4, <2>6 DEF Rotating
  <2>10. FdInv'
    BY <2>1, <2>3, <2>9, FdFrame DEF NodeInv, nodeVars, fileVars
  <2> QED BY <2>7, <2>8, <2>10 DEF NodeInv
<1> QED BY <1>2, <1>3 DEF Lookup

LEMMA LocksKeepNodes ==
  ASSUME NodeTypes, CallInv, NodeInv, NEW w \in Writers, Locks(w) \/ Unlocks(w)
  PROVE  NodeInv'
<1> DEFINE k == job[w].node
<1>1. k \in NodeIds /\ pc[w] \in {"lock", "unlock"}
  BY DEF Locks, Unlocks, At, CallInv, UsesNode
<1>2. UNCHANGED <<table, freed, fdTable>>
  BY DEF Locks, Unlocks
<1>3. Allocated' = Allocated
  BY <1>2 DEF Allocated
<1>4. PICK label \in {"plock", "idle"}, owner \in {w, NoWriter} :
        /\ pc' = [pc EXCEPT ![w] = label] /\ node' = [node EXCEPT ![k].lock = owner]
        /\ \A v \in Writers \ {w} : job'[v] = job[v]
        /\ label = "plock" => owner = w /\ pc[w] = "lock" /\ node[k].lock = NoWriter /\ UNCHANGED job
        /\ label = "idle" => owner = NoWriter /\ pc[w] = "unlock"
  <2>1. CASE Locks(w)
    BY <2>1 DEF Locks, At, Goto, WrLockFree, Mine
  <2>2. CASE Unlocks(w)
    <3>1. \A v \in Writers \ {w} : job'[v] = job[v]
      BY <2>2 DEF Unlocks, Returns, CallInv
    <3> QED BY <2>2, <3>1 DEF Unlocks, At, Goto, Returns, Unlocked
  <2> QED BY <2>1, <2>2
<1>5. \A v \in Writers : pc'[v] = IF v = w THEN label ELSE pc[v]
  BY <1>4 DEF CallInv
<1>6. \A i \in NodeIds : node'[i].fd = node[i].fd /\ node'[i].lock = IF i = k THEN owner ELSE node[i].lock
  BY <1>1, <1>4 DEF NodeTypes, Node
<1>7. UserInv'
  BY <1>2, <1>3, <1>4, <1>5 DEF NodeInv, UserInv, Live, UsesNode
<1>8. LockInv'
  BY <1>1, <1>4, <1>5, <1>6, IriLogAssumption DEF NodeInv, LockInv, InSection
<1>9. \A i \in NodeIds : Rotating(i)' <=> Rotating(i)
  BY <1>1, <1>4, <1>5 DEF Rotating
<1>10. FdInv'
  BY <1>2, <1>3, <1>6, <1>9, FdFrame DEF NodeInv
<1> QED BY <1>7, <1>8, <1>10 DEF NodeInv

\* open() gives a descriptor that no node has.
LEMMA OpenFindsOne ==
  ASSUME NodeTypes, FdInv, OpenWorks, NEW k \in NodeIds, k \notin Allocated \/ Rotating(k),
         NEW f \in File, NEW fd \in Fds \cup {-1}, Open(fd)
  PROVE  /\ fd \in Fds /\ fdTable[fd] = NoFile
         /\ Opened(f, fd) = [fdTable EXCEPT ![fd] = f]
         /\ Counted(f, fd) = [opens EXCEPT ![f] = @ + 1]
         /\ \A i \in Allocated : ~ Rotating(i) => node[i].fd # fd
<1>1. FreeFds # {}
  BY DescriptorLeft
<1>2. fd \in FreeFds
  BY <1>1, LowestIsFree DEF Open, OpenWorks
<1>3. fd \in Fds /\ fdTable[fd] = NoFile
  BY <1>2 DEF FreeFds
<1>4. fd > 0
  BY <1>3, FdNumbers
<1> QED BY <1>3, <1>4 DEF Opened, Counted, FdInv

LEMMA InsertKeepsNodes ==
  ASSUME NodeTypes, CallInv, NodeInv, OpenWorks, NEW w \in Writers, Insert(w)
  PROVE  NodeInv'
<1> DEFINE n == job[w].name
<1>1. n \in Names /\ pc[w] = "insert" /\ pc' = [pc EXCEPT ![w] = "check"]
  BY DEF Insert, At, CallInv, InLog, Goto
<1>2. PICK i \in NodeIds, fd \in Fds \cup {-1}, d \in Dates :
        /\ \A k \in NodeIds : k < i <=> (k \in freed \/ \E m \in Names : table[m] = k)
        /\ Open(fd)
        /\ node' = [node EXCEPT ![i] = [RawNode EXCEPT !.fd = fd]]
        /\ fdTable' = Opened(FileAt(n, d), fd)
        /\ table' = [table EXCEPT ![n] = i]
        /\ freed' = freed \cup ({table[n]} \ {0})
        /\ job' = [job EXCEPT ![w].node = i]
  BY DEF Insert
<1>3. i \notin Allocated /\ i # 0
  <2>1. ~ (i < i)
    BY IriLogAssumption
  <2>2. i # 0
    BY IriLogAssumption
  <2> QED BY <1>2, <2>1, <2>2 DEF Allocated
<1>file. PICK file \in File : file = FileAt(n, d) /\ file.log = n /\ file # NoFile
  BY <1>1, FileAtType
<1>4. /\ fd \in Fds /\ fdTable[fd] = NoFile /\ fdTable' = [fdTable EXCEPT ![fd] = file]
      /\ \A k \in Allocated : ~ Rotating(k) => node[k].fd # fd
  BY <1>2, <1>3, <1>file, OpenFindsOne DEF NodeInv
<1>5. /\ \A m \in Names : table'[m] = IF m = n THEN i ELSE table[m]
      /\ \A k \in NodeIds : node'[k] = IF k = i THEN [RawNode EXCEPT !.fd = fd] ELSE node[k]
      /\ \A f \in Fds : fdTable'[f] = IF f = fd THEN file ELSE fdTable[f]
  BY <1>1, <1>2, <1>4 DEF NodeTypes
<1>6. Allocated' = Allocated \cup {i}
  BY <1>1, <1>2, <1>3, <1>5 DEF Allocated
<1>7. \A v \in Writers : pc'[v] = IF v = w THEN "check" ELSE pc[v]
  BY <1>1 DEF CallInv
<1>8. /\ \A v \in Writers \ {w} : job'[v] = job[v]
      /\ job'[w].node = i /\ job'[w].name = n
  <2>1. job' = [job EXCEPT ![w] = [job[w] EXCEPT !.node = i]]
    BY <1>2
  <2> QED BY <2>1 DEF CallInv, Job
<1>9. \A v \in Writers : pc[v] \in UsesNode => job[v].node # i /\ job[v].node # 0
  BY <1>3, IriLogAssumption DEF NodeInv, UserInv, CallInv
<1>10. UserInv'
  <2>1. ASSUME NEW v \in Writers, pc'[v] \in UsesNode, Live(v)'
        PROVE  table'[job'[v].name] = job'[v].node
    <3>1. CASE v = w
      BY <3>1, <1>1, <1>5, <1>8
    <3>2. CASE v # w
      <4>1. pc[v] \in UsesNode /\ job[v].node \notin freed' /\ job'[v] = job[v]
        BY <2>1, <3>2, <1>7, <1>8 DEF Live
      <4>2. job[v].node \notin freed /\ (table[n] # 0 => job[v].node # table[n])
        BY <4>1, <1>2
      <4>3. table[job[v].name] = job[v].node /\ job[v].name \in Names
        BY <4>1, <4>2 DEF NodeInv, UserInv, Live, CallInv, InLog
      <4> QED BY <4>1, <4>2, <4>3, <1>5, <1>9
    <3> QED BY <3>1, <3>2
  <2> QED BY <2>1, <1>6, <1>7, <1>8 DEF NodeInv, UserInv
<1>11. LockInv'
  <2>1. \A k \in NodeIds : node'[k].lock = IF k = i THEN NoWriter ELSE node[k].lock
    BY <1>5 DEF RawNode
  <2>2. \A v \in Writers : pc[v] \in InSection => job[v].node # i
    BY <1>9 DEF InSection, UsesNode
  <2> QED BY <2>1, <2>2, <1>1, <1>7, <1>8, IriLogAssumption DEF NodeInv, LockInv, InSection
<1>12. \A k \in NodeIds : Rotating(k)' <=> Rotating(k)
  BY <1>1, <1>7, <1>8 DEF Rotating
<1>13. ~ Rotating(i)'
  BY <1>7, <1>8, <1>9 DEF Rotating, UsesNode
<1>14. \A k \in NodeIds : node'[k].fd = IF k = i THEN fd ELSE node[k].fd
  BY <1>5 DEF RawNode
<1>15. Allocated \subseteq NodeIds /\ \A m \in Names : table[m] # 0 => table[m] \in Allocated
  BY AllocatedNodes DEF Allocated
<1>16. FdInv'
  <2>1. \A k \in Allocated' : node'[k].fd \in Fds
    BY <1>4, <1>6, <1>14, <1>15 DEF NodeInv, FdInv
  <2>2. \A k \in Allocated' : ~ Rotating(k)' => fdTable'[node'[k].fd] # NoFile
    BY <1>file, <1>3, <1>4, <1>5, <1>6, <1>12, <1>14, <1>15 DEF NodeInv, FdInv
  <2>3. \A k, l \in Allocated' :
          k # l /\ ~ Rotating(k)' /\ ~ Rotating(l)' => node'[k].fd # node'[l].fd
    BY <1>3, <1>4, <1>6, <1>12, <1>14, <1>15 DEF NodeInv, FdInv
  <2>4. \A f \in Fds : fdTable'[f] # NoFile => \E k \in Allocated' : ~ Rotating(k)' /\ node'[k].fd = f
    BY <1>3, <1>4, <1>5, <1>6, <1>12, <1>13, <1>14, <1>15 DEF NodeInv, FdInv
  <2>5. \A m \in Names : (table[m] # 0 /\ ~ Rotating(table[m]) => fdTable[node[table[m]].fd].log = m)'
    <3> SUFFICES ASSUME NEW m \in Names, table'[m] # 0, ~ Rotating(table[m])'
                 PROVE  fdTable'[node'[table'[m]].fd].log = m
      OBVIOUS
    <3>1. CASE m = n
      BY <3>1, <1>file, <1>4, <1>5, <1>14
    <3>2. CASE m # n
      <4>1. table'[m] = table[m] /\ table[m] \in Allocated /\ table[m] # i /\ table[m] \in NodeIds
        BY <3>2, <1>3, <1>5, <1>15
      <4>2. ~ Rotating(table[m])
        BY <4>1, <1>12 DEF Rotating
      <4>3. node[table[m]].fd \in Fds /\ node[table[m]].fd # fd /\ fdTable[node[table[m]].fd].log = m
        BY <4>1, <4>2, <1>4 DEF NodeInv, FdInv
      <4> QED BY <4>1, <4>3, <1>5, <1>14
    <3> QED BY <3>1, <3>2
  <2>6. \A l, m \in Names : table'[l] # 0 /\ table'[l] = table'[m] => l = m
    BY <1>3, <1>5, <1>15 DEF NodeInv, FdInv
  <2> QED BY <2>1, <2>2, <2>3, <2>4, <2>5, <2>6 DEF FdInv
<1> QED BY <1>10, <1>11, <1>16 DEF NodeInv

LEMMA CloseKeepsNodes ==
  ASSUME NodeTypes, CallInv, NodeInv, NEW w \in Writers, CreateCloses(w)
  PROVE  NodeInv'
<1> DEFINE k == job[w].node
           fd == node[k].fd
<1>1. /\ pc[w] = "close" /\ pc' = [pc EXCEPT ![w] = "open"]
      /\ UNCHANGED <<table, node, freed, job>>
  BY DEF CreateCloses, At, Goto
<1>2. /\ k \in NodeIds /\ node[k].lock = w
      /\ \A v \in Writers : pc[v] \in InSection /\ job[v].node = k => v = w
  BY <1>1, OneInSection DEF NodeInv, InSection, Mine
<1>3. k \in Allocated /\ fd \in Fds
  BY <1>1 DEF NodeInv, UserInv, UsesNode, FdInv
<1>4. fd > 0
  BY <1>3, FdNumbers
<1>5. fdTable' = [fdTable EXCEPT ![fd] = NoFile]
  BY <1>4 DEF CreateCloses, Mine
<1>6. \A f \in Fds : fdTable'[f] = IF f = fd THEN NoFile ELSE fdTable[f]
  BY <1>3, <1>5 DEF NodeTypes
<1>7. \A v \in Writers : pc'[v] = IF v = w THEN "open" ELSE pc[v]
  BY <1>1 DEF CallInv
<1>8. Allocated' = Allocated
  BY <1>1 DEF Allocated
<1>9. ~ Rotating(k) /\ \A i \in NodeIds : Rotating(i)' <=> i = k \/ Rotating(i)
  BY <1>1, <1>2, <1>7 DEF Rotating, InSection
<1>10. UserInv'
  BY <1>1, <1>7, <1>8 DEF NodeInv, UserInv, Live, UsesNode
<1>11. LockInv'
  BY <1>1, <1>7 DEF NodeInv, LockInv, InSection
<1>12. Allocated \subseteq NodeIds /\ \A m \in Names : table[m] # 0 => table[m] \in Allocated
  BY AllocatedNodes DEF Allocated
<1>13. FdInv'
  <2>1. \A i \in Allocated' : ~ Rotating(i)' => fdTable'[node'[i].fd] # NoFile
    BY <1>1, <1>3, <1>6, <1>8, <1>9, <1>12 DEF NodeInv, FdInv
  <2>2. \A i, l \in Allocated' :
          i # l /\ ~ Rotating(i)' /\ ~ Rotating(l)' => node'[i].fd # node'[l].fd
    BY <1>1, <1>8, <1>9, <1>12 DEF NodeInv, FdInv
  <2>3. \A f \in Fds : fdTable'[f] # NoFile => \E i \in Allocated' : ~ Rotating(i)' /\ node'[i].fd = f
    BY <1>1, <1>6, <1>8, <1>9, <1>12 DEF NodeInv, FdInv
  <2>4. \A m \in Names : (table[m] # 0 /\ ~ Rotating(table[m]) => fdTable[node[table[m]].fd].log = m)'
    <3> SUFFICES ASSUME NEW m \in Names, table'[m] # 0, ~ Rotating(table[m])'
                 PROVE  fdTable'[node'[table'[m]].fd].log = m
      OBVIOUS
    <3>1. table'[m] = table[m] /\ table[m] \in Allocated /\ table[m] \in NodeIds
      BY <1>1, <1>12
    <3>2. ~ Rotating(table[m]) /\ table[m] # k
      BY <3>1, <1>9 DEF Rotating
    <3>3. node[table[m]].fd \in Fds /\ node[table[m]].fd # fd /\ fdTable[node[table[m]].fd].log = m
      BY <3>1, <3>2, <1>3, <1>9 DEF NodeInv, FdInv
    <3> QED BY <3>1, <3>3, <1>1, <1>6
  <2> QED BY <1>1, <1>8, <2>1, <2>2, <2>3, <2>4 DEF NodeInv, FdInv
<1> QED BY <1>10, <1>11, <1>13 DEF NodeInv

LEMMA ReopenKeepsNodes ==
  ASSUME NodeTypes, CallInv, NodeInv, OpenWorks, NEW w \in Writers, CreateOpens(w)
  PROVE  /\ NodeInv' /\ pc' = [pc EXCEPT ![w] = "write"]
         /\ \E fd \in Fds : node' = Reset(job[w].node, fd)
<1> DEFINE k == job[w].node
           n == job[w].name
<1>1. pc[w] = "open" /\ UNCHANGED <<table, freed, job>> /\ k \notin freed
  BY DEF CreateOpens, At, Live
<1>2. /\ k \in NodeIds /\ node[k].lock = w
      /\ \A v \in Writers : pc[v] \in InSection /\ job[v].node = k => v = w
  BY <1>1, OneInSection DEF NodeInv, InSection, Mine
<1>3. k \in Allocated /\ Rotating(k) /\ n \in Names /\ table[n] = k
  BY <1>1 DEF NodeInv, UserInv, UsesNode, Rotating, Live, CallInv, InLog
<1>4. PICK fd \in Fds \cup {-1}, d \in Dates :
        /\ Open(fd) /\ fdTable' = Opened(FileAt(n, d), fd)
        /\ node' = Reset(k, fd) /\ Goto(w, "write")
  BY <1>2 DEF CreateOpens, Mine
<1>file. PICK file \in File : file = FileAt(n, d) /\ file.log = n /\ file # NoFile
  BY <1>3, FileAtType
<1>5. /\ fd \in Fds /\ fdTable[fd] = NoFile /\ fdTable' = [fdTable EXCEPT ![fd] = file]
      /\ \A i \in Allocated : ~ Rotating(i) => node[i].fd # fd
  BY <1>2, <1>3, <1>4, <1>file, OpenFindsOne DEF NodeInv
<1>6. \A f \in Fds : fdTable'[f] = IF f = fd THEN file ELSE fdTable[f]
  BY <1>5 DEF NodeTypes
<1>7. \A i \in NodeIds : /\ node'[i].fd = IF i = k THEN fd ELSE node[i].fd
                         /\ node'[i].lock = node[i].lock
  BY <1>2, <1>4 DEF Reset, NodeTypes, Node
<1>8. pc' = [pc EXCEPT ![w] = "write"] /\ \A v \in Writers : pc'[v] = IF v = w THEN "write" ELSE pc[v]
  BY <1>4 DEF Goto, CallInv
<1>9. Allocated' = Allocated
  BY <1>1 DEF Allocated
<1>10. \A i \in NodeIds : Rotating(i)' <=> i # k /\ Rotating(i)
  BY <1>1, <1>2, <1>8 DEF Rotating, InSection
<1>11. UserInv'
  BY <1>1, <1>8, <1>9 DEF NodeInv, UserInv, Live, UsesNode
<1>12. LockInv'
  BY <1>1, <1>7, <1>8 DEF NodeInv, LockInv, InSection
<1>13. Allocated \subseteq NodeIds /\ \A m \in Names : table[m] # 0 => table[m] \in Allocated
  BY AllocatedNodes DEF Allocated
<1>14. FdInv'
  <2>1. \A i \in Allocated' : node'[i].fd \in Fds
    BY <1>5, <1>7, <1>9, <1>13 DEF NodeInv, FdInv
  <2>2. \A i \in Allocated' : ~ Rotating(i)' => fdTable'[node'[i].fd] # NoFile
    BY <1>file, <1>5, <1>6, <1>7, <1>9, <1>10, <1>13 DEF NodeInv, FdInv
  <2>3. \A i, l \in Allocated' :
          i # l /\ ~ Rotating(i)' /\ ~ Rotating(l)' => node'[i].fd # node'[l].fd
    BY <1>5, <1>7, <1>9, <1>10, <1>13 DEF NodeInv, FdInv
  <2>4. \A f \in Fds : fdTable'[f] # NoFile => \E i \in Allocated' : ~ Rotating(i)' /\ node'[i].fd = f
    BY <1>2, <1>3, <1>6, <1>7, <1>9, <1>10, <1>13 DEF NodeInv, FdInv
  <2>5. \A m \in Names : (table[m] # 0 /\ ~ Rotating(table[m]) => fdTable[node[table[m]].fd].log = m)'
    <3> SUFFICES ASSUME NEW m \in Names, table'[m] # 0, ~ Rotating(table[m])'
                 PROVE  fdTable'[node'[table'[m]].fd].log = m
      OBVIOUS
    <3>1. table'[m] = table[m] /\ table[m] \in Allocated /\ table[m] \in NodeIds
      BY <1>1, <1>13
    <3>2. CASE table[m] = k
      <4>1. m = n
        BY <3>1, <3>2, <1>3, IriLogAssumption DEF NodeInv, FdInv
      <4> QED BY <3>1, <3>2, <4>1, <1>file, <1>5, <1>6, <1>7
    <3>3. CASE table[m] # k
      <4>1. ~ Rotating(table[m])
        BY <3>1, <3>3, <1>10 DEF Rotating
      <4>2. node[table[m]].fd \in Fds /\ node[table[m]].fd # fd /\ fdTable[node[table[m]].fd].log = m
        BY <3>1, <4>1, <1>5 DEF NodeInv, FdInv
      <4> QED BY <3>1, <3>3, <4>2, <1>6, <1>7
    <3> QED BY <3>2, <3>3
  <2> QED BY <1>1, <2>1, <2>2, <2>3, <2>4, <2>5 DEF NodeInv, FdInv
<1> QED BY <1>4, <1>5, <1>8, <1>11, <1>12, <1>14 DEF NodeInv

\* A call returns, from outside the lock.
LEMMA ReturnKeepsNodes ==
  ASSUME NodeTypes, CallInv, NodeInv, NEW w \in Writers, NEW ret, Returns(w, ret),
         pc[w] \notin InSection, UNCHANGED nodeVars
  PROVE  NodeInv'
<1>1. pc' = [pc EXCEPT ![w] = "idle"] /\ \A v \in Writers \ {w} : job'[v] = job[v]
  BY DEF Returns, Goto, CallInv
<1> QED BY <1>1, NodeFrame DEF Place, InSection, UsesNode, nodeVars, fileVars

\* A step that keeps the call and moves w among the places outside the lock, or
\* inside it.
LEMMA MoveKeepsNodes ==
  ASSUME NodeTypes, CallInv, NodeInv, NEW w \in Writers, NEW label \in Place, Goto(w, label),
         UNCHANGED <<job, table, node, freed, fdTable>>,
         pc[w] # "open", label # "open", pc[w] \in InSection <=> label \in InSection,
         label \in UsesNode => pc[w] \in UsesNode
  PROVE  NodeInv'
  BY NodeFrame DEF Goto

LEMMA NodeStep ==
  ASSUME OpenWorks, TypeInv, NodeInv, [Next]_vars
  PROVE  NodeInv'
<1>1. NodeTypes /\ CallInv
  BY TypesSplit
<1> USE <1>1 DEF At
<1>2. ASSUME NEW w \in Writers, NEW n \in Names, NEW l \in Levels, Call(w, n, l) PROVE NodeInv'
  <2>1. \A v \in Writers \ {w} : job'[v] = job[v]
    BY <1>2 DEF Call, CallInv
  <2>2. \E label \in {"gate", "init"} : pc' = [pc EXCEPT ![w] = label]
    BY <1>2 DEF Call, Goto
  <2> QED BY <1>2, <2>1, <2>2, NodeFrame DEF Call, nodeVars, fileVars, Place, InSection, UsesNode
<1>3. ASSUME NEW w \in Writers, CallInit(w) PROVE NodeInv'
  <2>1. \A v \in Writers \ {w} : job'[v] = job[v]
    BY <1>3 DEF CallInit, CallInv
  <2> QED BY <1>3, <2>1, NodeFrame DEF CallInit, Goto, nodeVars, fileVars, Place, InSection, UsesNode
<1>4. ASSUME NEW w \in Writers, InitLocks(w) PROVE NodeInv'
  <2>1. Returns(w, 0) \/ (UNCHANGED job /\ \E label \in {"gate", "initing"} : Goto(w, label))
    BY <1>4 DEF InitLocks
  <2> QED BY <1>4, <2>1, ReturnKeepsNodes, MoveKeepsNodes
          DEF InitLocks, nodeVars, fileVars, Place, InSection, UsesNode
<1>5. ASSUME NEW w \in Writers, InitWorks(w) PROVE NodeInv'
  <2>1. \A v \in Writers \ {w} : job'[v] = job[v]
    BY <1>5 DEF InitWorks, CallInv
  <2>2. pc' = [pc EXCEPT ![w] = "publish"] /\ pc[w] = "initing" /\ UNCHANGED nodeVars
    BY <1>5 DEF InitWorks, Goto
  <2> QED BY <2>1, <2>2, NodeFrame DEF nodeVars, fileVars, Place, InSection, UsesNode
<1>6. ASSUME NEW w \in Writers, InitPublishes(w) PROVE NodeInv'
  <2>1. Returns(w, job[w].ret) \/ (UNCHANGED job /\ Goto(w, "gate"))
    BY <1>6 DEF InitPublishes
  <2> QED BY <1>6, <2>1, ReturnKeepsNodes, MoveKeepsNodes
          DEF InitPublishes, nodeVars, fileVars, Place, InSection, UsesNode
<1>7. ASSUME NEW w \in Writers, Gate(w) PROVE NodeInv'
  <2>1. Returns(w, 0) \/ Returns(w, -1) \/ (UNCHANGED job /\ Goto(w, "lookup"))
    BY <1>7 DEF Gate
  <2> QED BY <1>7, <2>1, ReturnKeepsNodes, MoveKeepsNodes
          DEF Gate, nodeVars, fileVars, Place, InSection, UsesNode
<1>8. ASSUME NEW w \in Writers, Check(w) PROVE NodeInv'
  <2>1. Returns(w, -1) \/ (UNCHANGED job /\ Goto(w, "lock"))
    BY <1>8 DEF Check
  <2> QED BY <1>8, <2>1, ReturnKeepsNodes, MoveKeepsNodes
          DEF Check, nodeVars, fileVars, Place, InSection, UsesNode
<1>9. ASSUME NEW w \in Writers, ProcLocks(w) PROVE NodeInv'
  <2>1. \E label \in {"close", "write"} : Goto(w, label)
    BY <1>9 DEF ProcLocks
  <2> QED BY <1>9, <2>1, MoveKeepsNodes DEF ProcLocks, Place, InSection, UsesNode
<1>10. ASSUME NEW w \in Writers, Write(w) PROVE NodeInv'
  <2>1. pc[w] = "write" /\ pc' = [pc EXCEPT ![w] = "unlock"] /\ UNCHANGED <<table, freed, fdTable>>
    BY <1>10 DEF Write, Goto
  <2>2. /\ \A v \in Writers \ {w} : job'[v] = job[v]
        /\ job'[w].node = job[w].node /\ job'[w].name = job[w].name
    BY <1>10 DEF Write, CallInv, Job
  <2>3. job[w].node \in NodeIds
    BY <2>1 DEF CallInv, UsesNode
  <2>4. \A i \in NodeIds : node'[i].fd = node[i].fd /\ node'[i].lock = node[i].lock
    <3>1. CASE UNCHANGED node
      BY <3>1
    <3>2. CASE \E len \in 1 .. MaxLen :
                 node' = [node EXCEPT ![job[w].node].times = @ + 1, ![job[w].node].size = @ + len]
      BY <2>3, <3>2 DEF NodeTypes, Node
    <3> QED BY <1>10, <3>1, <3>2 DEF Write
  <2> QED BY <2>1, <2>2, <2>4, NodeFrame DEF Place, InSection, UsesNode
<1>11. CASE Destroy
  <2>1. /\ Allocated' = Allocated /\ UNCHANGED <<table, node, fdTable, pc, job>>
        /\ \A w \in Writers : pc[w] = "idle"
    BY <1>11 DEF Destroy, Allocated
  <2>2. UserInv' /\ LockInv'
    BY <2>1 DEF NodeInv, UserInv, LockInv, UsesNode, InSection
  <2>3. FdInv'
    BY <2>1, FdFrame DEF NodeInv, Rotating
  <2> QED BY <2>2, <2>3 DEF NodeInv
<1>12. CASE UNCHANGED <<nodeVars, pc, job>>
  BY <1>12 DEF nodeVars, fileVars, NodeInv, UserInv, LockInv, FdInv, Allocated, Rotating, Live
<1>13. ASSUME NEW w \in Writers, BadInfos(w) \/ UseAfterFree(w) \/ InitExits(w) PROVE NodeInv'
  BY <1>13, <1>12 DEF BadInfos, UseAfterFree, InitExits
<1>14. CASE TimerExpires \/ UNCHANGED vars
  BY <1>14, <1>12 DEF TimerExpires, vars
<1>15. ASSUME NEW f \in File, ForeignLocks(f) \/ ForeignUnlocks(f) PROVE NodeInv'
  BY <1>15, <1>12 DEF ForeignLocks, ForeignUnlocks
<1> QED
  BY <1>2, <1>3, <1>4, <1>5, <1>6, <1>7, <1>8, <1>9, <1>10, <1>11, <1>13, <1>14, <1>15,
     LookupKeepsNodes, LocksKeepNodes, InsertKeepsNodes, CloseKeepsNodes, ReopenKeepsNodes
  DEF Next, Step

LEMMA NodeInvariant ==
  ASSUME OpenWorks
  PROVE  Spec => [](TypeInv /\ NodeInv)
<1>1. Init => NodeInv
  <2> SUFFICES ASSUME Init PROVE NodeInv
    OBVIOUS
  <2>1. Allocated = {}
    BY DEF Init, Allocated
  <2> QED BY <2>1, IriLogAssumption
          DEF Init, NodeInv, UserInv, LockInv, FdInv, UsesNode, InSection, RawNode
<1>2. TypeInv /\ NodeInv /\ [Next]_vars => NodeInv'
  BY NodeStep
<1> QED BY <1>1, <1>2, TypeInvariant, PTL DEF Spec

\* As long as open() works, a thread that is about to write holds the lock of its
\* node and has a descriptor open on its own log, for any numbers of threads, logs
\* and descriptors: no rotation, and no insertion under hash_lock, takes it away.
THEOREM DescriptorIsKept ==
  ASSUME OpenWorks
  PROVE  Spec => []WriterKeepsDescriptor
<1>1. TypeInv /\ NodeInv => WriterKeepsDescriptor
  <2> SUFFICES ASSUME NodeTypes, CallInv, NodeInv, NEW w \in Writers, pc[w] = "write", Live(w)
               PROVE  /\ Mine(w).lock = w /\ IsOpen(Mine(w).fd)
                      /\ fdTable[Mine(w).fd].log = job[w].name
    BY TypesSplit DEF WriterKeepsDescriptor, At
  <2>1. /\ job[w].node \in NodeIds /\ Mine(w).lock = w
        /\ \A v \in Writers : pc[v] \in InSection /\ job[v].node = job[w].node => v = w
    BY OneInSection DEF NodeInv, InSection
  <2>2. job[w].node \in Allocated /\ table[job[w].name] = job[w].node /\ job[w].name \in Names
    BY DEF NodeInv, UserInv, UsesNode, CallInv, InLog
  <2>3. ~ Rotating(job[w].node)
    BY <2>1 DEF Rotating, InSection
  <2>4. job[w].node # 0 /\ job[w].name # NoName
    BY <2>1, <2>2, IriLogAssumption
  <2> QED BY <2>1, <2>2, <2>3, <2>4 DEF NodeInv, FdInv, Mine, IsOpen
<1> QED BY <1>1, NodeInvariant, PTL

-----------------------------------------------------------------------------
(* The end of the initialisation *)

\* Strengthening of InitComplete: already when the work of initialisation is done,
\* before init_flag is set, the configuration is there or the log is closed.
DoneInv == initFlag \/ (\E w \in Writers : pc[w] = "publish") => closeFlag \/ infos # {}

\* When the log directory can be made, a thread that reads init_flag without the
\* lock and finds it set finds the configuration, or the log closed, whatever the
\* other threads do.
THEOREM InitIsComplete ==
  ASSUME ~ DirFails
  PROVE  Spec => []InitComplete
<1>1. Init => DoneInv
  BY DEF Init, DoneInv
<1>2. TypeInv /\ DoneInv /\ [Next]_vars => DoneInv'
  <2> SUFFICES ASSUME CallInv, DoneInv, [Next]_vars PROVE DoneInv'
    BY DEF TypeInv
  <2>1. ASSUME NEW w \in Writers, InitWorks(w) PROVE DoneInv'
    <3>1. PICK c \in Confs : /\ closeFlag' = (closeFlag \/ ~ c.switch)
                             /\ infos' = IF c.switch THEN {c} ELSE {}
      BY <2>1 DEF InitWorks
    <3>2. closeFlag' \/ infos' # {}
      BY <3>1
    <3> QED BY <3>2 DEF DoneInv
  <2>2. ASSUME NEW w \in Writers, InitPublishes(w) PROVE DoneInv'
    BY <2>2 DEF InitPublishes, At, DoneInv
  <2>3. ASSUME NEW w \in Writers, NEW label \in Place \ {"publish"}, Goto(w, label),
               UNCHANGED <<initFlag, closeFlag, infos>>
        PROVE  DoneInv'
    BY <2>3 DEF Goto, DoneInv, CallInv
  <2>4. ASSUME NEW w \in Writers, InitLocks(w) PROVE DoneInv'
    BY <2>3, <2>4 DEF InitLocks, FlagDuringInit, Returns, Place
  <2>5. ASSUME NEW w \in Writers, NEW n \in Names, NEW l \in Levels, Call(w, n, l) PROVE DoneInv'
    BY <2>3, <2>5 DEF Call, initVars, Place
  <2>6. ASSUME NEW w \in Writers, CallInit(w) \/ Gate(w) PROVE DoneInv'
    BY <2>3, <2>6 DEF CallInit, Gate, Returns, initVars, Place
  <2>7. ASSUME NEW w \in Writers, Lookup(w) \/ Insert(w) \/ Check(w) PROVE DoneInv'
    <3>1. /\ \E label \in {"insert", "close", "check", "idle", "lock"} : Goto(w, label)
          /\ UNCHANGED <<initFlag, closeFlag, infos>>
      BY <2>7 DEF Lookup, Insert, Check, Returns, initVars
    <3> QED BY <3>1, <2>3 DEF Place, UsesNode
  <2>8. ASSUME NEW w \in Writers, Locks(w) \/ ProcLocks(w) \/ CreateCloses(w) PROVE DoneInv'
    <3>1. /\ \E label \in {"plock", "close", "write", "open"} : Goto(w, label)
          /\ UNCHANGED <<initFlag, closeFlag, infos>>
      BY <2>8 DEF Locks, ProcLocks, CreateCloses, initVars
    <3> QED BY <3>1, <2>3 DEF Place, UsesNode
  <2>9. ASSUME NEW w \in Writers, CreateOpens(w) \/ Write(w) \/ Unlocks(w) PROVE DoneInv'
    <3>1. /\ \E label \in {"write", "check", "unlock", "idle"} : Goto(w, label)
          /\ UNCHANGED <<initFlag, closeFlag, infos>>
      BY <2>9 DEF CreateOpens, Write, Unlocks, Returns, initVars
    <3> QED BY <3>1, <2>3 DEF Place, UsesNode
  <2>10. CASE UNCHANGED <<initFlag, closeFlag, infos, pc>>
    BY <2>10 DEF DoneInv
  <2>11. ASSUME NEW w \in Writers, BadInfos(w) \/ UseAfterFree(w) \/ InitExits(w) PROVE DoneInv'
    BY <2>10, <2>11 DEF BadInfos, UseAfterFree, InitExits, initVars
  <2>12. CASE TimerExpires \/ Destroy \/ UNCHANGED vars
    BY <2>10, <2>12 DEF TimerExpires, Destroy, vars, initVars
  <2>13. ASSUME NEW f \in File, ForeignLocks(f) \/ ForeignUnlocks(f) PROVE DoneInv'
    BY <2>10, <2>13 DEF ForeignLocks, ForeignUnlocks, initVars
  <2> QED
    BY <2>1, <2>2, <2>4, <2>5, <2>6, <2>7, <2>8, <2>9, <2>11, <2>12, <2>13 DEF Next, Step
<1>3. DoneInv => InitComplete
  BY DEF DoneInv, InitComplete
<1> QED BY <1>1, <1>2, <1>3, TypeInvariant, PTL DEF Spec

-----------------------------------------------------------------------------
(* Sizes *)

MaxOf(n) == InfoOf(TheConf, n).max

\* Strengthening of RotationBounds, in five parts.  No node is made before the
\* configuration is read;
ConfInv ==
  /\ loads = 0 => infos = {}
  /\ infos = {} => /\ \A n \in Names : table[n] = 0
                   /\ \A w \in Writers : pc[w] \notin UsesNode \cup {"lookup", "insert"}

\* the size is that of the lines written;
LinesInv == \A i \in NodeIds : node[i].size <= node[i].times * MaxLen

\* a writer past the test for a rotation finds the file within one of the limits;
WriteInv ==
  \A w \in Writers : At(w, "write") /\ Live(w) =>
    Mine(w).times <= WriteTimes \/ Mine(w).size <= MaxOf(job[w].name)

\* so that every node is within one of them, up to one write;
BoundInv ==
  \A n \in Names : table[n] # 0 =>
    \/ node[table[n]].times <= WriteTimes + 1
    \/ node[table[n]].size <= MaxOf(n) + MaxLen

\* and the file that a name's node is open on has room for the rest of this opening.
Current(f) ==
  LET i == table[f.log] IN i # 0 /\ ~ Rotating(i) /\ fdTable[node[i].fd] = f

DiskOf(f) ==
  /\ disk[f] <= opens[f] * Growth(f.log)
  /\ Current(f) => disk[f] + Growth(f.log) <= opens[f] * Growth(f.log) + node[table[f.log]].size

DiskInv ==
  /\ infos = {} => \A f \in File : disk[f] = 0
  /\ infos # {} => \A f \in File : DiskOf(f)

SizeInv == ConfInv /\ LinesInv /\ WriteInv /\ BoundInv /\ DiskInv

\* infos is assigned before anything depends on it, and once.
LEMMA ConfStep ==
  ASSUME TypeInv, InitInv, ConfInv, [Next]_vars
  PROVE  /\ ConfInv'
         /\ infos # {} => infos' = infos
         /\ infos = {} => \A n \in Names : table'[n] = 0
<1>1. CallInv /\ loads \in Nat
  BY TypesSplit DEF GlobalTypes
<1> USE <1>1 DEF At
<1>2. ASSUME NEW w \in Writers, InitWorks(w)
      PROVE  /\ ConfInv' /\ infos = {} /\ \A n \in Names : table'[n] = 0
  <2>1. pc[w] = "initing" /\ loads = 0 /\ infos = {}
    BY <1>2 DEF InitWorks, InitInv, ConfInv
  <2>2. loads' = 0 => infos' = {}
    BY <1>2, <2>1 DEF InitWorks
  <2>3. pc' = [pc EXCEPT ![w] = "publish"] /\ UNCHANGED table
    BY <1>2 DEF InitWorks, Goto, nodeVars, fileVars
  <2>4. \A v \in Writers : pc'[v] \notin UsesNode \cup {"lookup", "insert"}
    BY <2>1, <2>3 DEF ConfInv, CallInv, UsesNode
  <2> QED BY <2>1, <2>2, <2>3, <2>4 DEF ConfInv
<1>3. ASSUME UNCHANGED <<infos, loads>>, infos # {}
      PROVE  ConfInv' /\ infos' = infos
  BY <1>3 DEF ConfInv
<1>4. ASSUME infos = {}, UNCHANGED <<infos, loads, table>>, NEW w \in Writers,
             NEW label \in {"idle", "init", "initing", "gate"}, Goto(w, label)
      PROVE  ConfInv' /\ \A n \in Names : table'[n] = 0
  <2>1. \A v \in Writers : pc'[v] = IF v = w THEN label ELSE pc[v]
    BY <1>4 DEF Goto, CallInv
  <2> QED BY <1>4, <2>1 DEF ConfInv, UsesNode
<1>5. ASSUME infos = {}, UNCHANGED <<infos, loads, table, pc>>
      PROVE  ConfInv' /\ \A n \in Names : table'[n] = 0
  BY <1>5 DEF ConfInv
<1>6. ASSUME NEW w \in Writers, NEW n \in Names, NEW l \in Levels, Call(w, n, l)
      PROVE  /\ ConfInv' /\ (infos # {} => infos' = infos)
             /\ infos = {} => \A m \in Names : table'[m] = 0
  BY <1>3, <1>4, <1>6 DEF Call, initVars, nodeVars, fileVars
<1>7. ASSUME NEW w \in Writers, CallInit(w) \/ InitLocks(w) \/ InitPublishes(w)
      PROVE  /\ ConfInv' /\ (infos # {} => infos' = infos)
             /\ infos = {} => \A m \in Names : table'[m] = 0
  <2>1. /\ \E label \in {"idle", "init", "initing", "gate"} : Goto(w, label)
        /\ UNCHANGED <<infos, loads, table>>
    BY <1>7 DEF CallInit, InitLocks, InitPublishes, Returns, initVars, nodeVars, fileVars
  <2> QED BY <1>3, <1>4, <2>1
<1>8. ASSUME NEW w \in Writers, Gate(w)
      PROVE  /\ ConfInv' /\ (infos # {} => infos' = infos)
             /\ infos = {} => \A m \in Names : table'[m] = 0
  <2>1. UNCHANGED <<infos, loads, table>> /\ (infos = {} => Goto(w, "idle"))
    BY <1>8 DEF Gate, Returns, initVars, nodeVars, fileVars
  <2> QED BY <1>3, <1>4, <2>1
<1>9. ASSUME NEW w \in Writers,
             \/ Lookup(w) \/ Insert(w) \/ Check(w) \/ Locks(w) \/ ProcLocks(w)
             \/ CreateCloses(w) \/ CreateOpens(w) \/ Write(w) \/ Unlocks(w)
      PROVE  ConfInv' /\ infos # {} /\ infos' = infos
  <2>1. pc[w] \in UsesNode \cup {"lookup", "insert"} /\ UNCHANGED <<infos, loads>>
    BY <1>9 DEF Lookup, Insert, Check, Locks, ProcLocks, CreateCloses, CreateOpens, Write,
                Unlocks, UsesNode, initVars
  <2>2. infos # {}
    BY <2>1 DEF ConfInv
  <2> QED BY <1>3, <2>1, <2>2
<1>10. CASE UNCHANGED <<infos, loads, table, pc>>
  BY <1>3, <1>5, <1>10
<1>11. ASSUME NEW w \in Writers, BadInfos(w) \/ UseAfterFree(w) \/ InitExits(w)
       PROVE  UNCHANGED <<infos, loads, table, pc>>
  BY <1>11 DEF BadInfos, UseAfterFree, InitExits, initVars, nodeVars, fileVars
<1>12. TimerExpires \/ Destroy \/ UNCHANGED vars => UNCHANGED <<infos, loads, table, pc>>
  BY DEF TimerExpires, Destroy, vars, initVars, nodeVars, fileVars
<1>13. ASSUME NEW f \in File, ForeignLocks(f) \/ ForeignUnlocks(f)
       PROVE  UNCHANGED <<infos, loads, table, pc>>
  BY <1>13 DEF ForeignLocks, ForeignUnlocks, initVars, nodeVars, fileVars
<1> QED
  BY <1>2, <1>6, <1>7, <1>8, <1>9, <1>10, <1>11, <1>12, <1>13 DEF Next, Step

\* What a configuration says of a size is a number.
LEMMA MaxOfType ==
  ASSUME TypeInv, infos # {}, NEW n \in Names
  PROVE  MaxOf(n) \in Nat
<1>1. TheConf \in Confs
  BY DEF TheConf, TypeInv, TypeOK
<1>2. IsConf(TheConf)
  BY <1>1, IriLogAssumption
<1>3. InfoOf(TheConf, n) \in Info
  BY <1>2 DEF IsConf, InfoOf
<1> QED BY <1>3 DEF MaxOf, Info

\* How a step changes the counters of the nodes: they are kept, or one node is new or
\* reopened, or one line is written by a writer that stands at write().
Kept(k) == node'[k].times = node[k].times /\ node'[k].size = node[k].size

LEMMA CounterSteps ==
  ASSUME OpenWorks, TypeInv, NodeInv, [Next]_vars
  PROVE  \/ \A k \in NodeIds : Kept(k)
         \/ \E i \in NodeIds : /\ node'[i].times = 0 /\ node'[i].size = 0
                               /\ \A k \in NodeIds \ {i} : Kept(k)
         \/ \E w \in Writers, len \in 1 .. MaxLen :
              /\ At(w, "write") /\ Live(w) /\ job[w].node \in NodeIds /\ UNCHANGED table
              /\ pc' = [pc EXCEPT ![w] = "unlock"]
              /\ UNCHANGED <<freed, job, over>>
              /\ node'[job[w].node].times = Mine(w).times + 1
              /\ node'[job[w].node].size = Mine(w).size + len
              /\ \A k \in NodeIds \ {job[w].node} : Kept(k)
<1>1. NodeTypes /\ CallInv
  BY TypesSplit
<1> USE <1>1
<1>2. CASE UNCHANGED node
  BY <1>2 DEF Kept
<1>3. ASSUME NEW w \in Writers, Insert(w)
      PROVE  \E i \in NodeIds : /\ node'[i].times = 0 /\ node'[i].size = 0
                                /\ \A k \in NodeIds \ {i} : Kept(k)
  <2>1. PICK i \in NodeIds, fd \in Fds \cup {-1} : node' = [node EXCEPT ![i] = [RawNode EXCEPT !.fd = fd]]
    BY <1>3 DEF Insert
  <2>2. node'[i].times = 0 /\ node'[i].size = 0 /\ \A k \in NodeIds \ {i} : Kept(k)
    BY <2>1 DEF NodeTypes, RawNode, Kept
  <2> QED BY <2>2
<1>4. ASSUME NEW w \in Writers, CreateOpens(w)
      PROVE  \E i \in NodeIds : /\ node'[i].times = 0 /\ node'[i].size = 0
                                /\ \A k \in NodeIds \ {i} : Kept(k)
  <2>1. PICK fd \in Fds : node' = Reset(job[w].node, fd)
    BY <1>4, ReopenKeepsNodes
  <2>2. job[w].node \in NodeIds
    BY <1>4 DEF CreateOpens, At, CallInv, UsesNode
  <2>3. /\ node'[job[w].node].times = 0 /\ node'[job[w].node].size = 0
        /\ \A k \in NodeIds \ {job[w].node} : Kept(k)
    BY <2>1, <2>2 DEF NodeTypes, Node, Reset, Kept
  <2> QED BY <2>2, <2>3
<1>5. ASSUME NEW w \in Writers, Locks(w) \/ Unlocks(w) PROVE \A k \in NodeIds : Kept(k)
  <2>1. job[w].node \in NodeIds
    BY <1>5 DEF Locks, Unlocks, At, CallInv, UsesNode
  <2> QED BY <1>5, <2>1 DEF Locks, Unlocks, NodeTypes, Node, Kept
<1>6. ASSUME NEW w \in Writers, NEW len \in 1 .. MaxLen, Write(w), UNCHANGED job,
             node' = [node EXCEPT ![job[w].node].times = @ + 1, ![job[w].node].size = @ + len]
      PROVE  /\ At(w, "write") /\ Live(w) /\ job[w].node \in NodeIds /\ UNCHANGED table
             /\ pc' = [pc EXCEPT ![w] = "unlock"]
             /\ UNCHANGED <<freed, job, over>>
             /\ node'[job[w].node].times = Mine(w).times + 1
             /\ node'[job[w].node].size = Mine(w).size + len
             /\ \A k \in NodeIds \ {job[w].node} : Kept(k)
  <2>1. job[w].node \in NodeIds
    BY <1>6 DEF Write, At, CallInv, UsesNode
  <2>2. /\ node'[job[w].node].times = Mine(w).times + 1
        /\ node'[job[w].node].size = Mine(w).size + len
        /\ \A k \in NodeIds \ {job[w].node} : Kept(k)
    BY <1>6, <2>1 DEF NodeTypes, Node, Kept, Mine
  <2> QED BY <1>6, <2>1, <2>2 DEF Write, Goto
<1>7. ASSUME NEW w \in Writers, Write(w) PROVE UNCHANGED node \/ (UNCHANGED job /\ \E len \in 1 .. MaxLen :
        node' = [node EXCEPT ![job[w].node].times = @ + 1, ![job[w].node].size = @ + len])
  BY <1>7 DEF Write
<1>8. ASSUME NEW w \in Writers,
             \/ InitLocks(w) \/ InitWorks(w) \/ InitExits(w) \/ InitPublishes(w) \/ Gate(w) \/ BadInfos(w)
             \/ Lookup(w) \/ Check(w) \/ ProcLocks(w) \/ CreateCloses(w) \/ UseAfterFree(w)
             \/ CallInit(w)
      PROVE  UNCHANGED node
  BY <1>8 DEF InitLocks, InitWorks, InitExits, InitPublishes, Gate, BadInfos, Lookup, Check, ProcLocks,
              CreateCloses, UseAfterFree, CallInit, nodeVars, fileVars
<1>9. ASSUME NEW w \in Writers, NEW n \in Names, NEW l \in Levels, Call(w, n, l) PROVE UNCHANGED node
  BY <1>9 DEF Call, nodeVars, fileVars
<1>10. TimerExpires \/ Destroy \/ UNCHANGED vars => UNCHANGED node
  BY DEF TimerExpires, Destroy, vars, nodeVars, fileVars
<1>11. ASSUME NEW f \in File, ForeignLocks(f) \/ ForeignUnlocks(f) PROVE UNCHANGED node
  BY <1>11 DEF ForeignLocks, ForeignUnlocks, nodeVars, fileVars
<1> QED
  BY <1>2, <1>3, <1>4, <1>5, <1>6, <1>7, <1>8, <1>9, <1>10, <1>11 DEF Next, Step

LEMMA LinesStep ==
  ASSUME OpenWorks, TypeInv, NodeInv, LinesInv, [Next]_vars
  PROVE  LinesInv'
<1>1. \A k \in NodeIds : node[k].times \in Nat /\ node[k].size \in Nat
  BY TypesSplit DEF NodeTypes, Node
<1>2. \A t, m \in Nat : (t + 1) * m = t * m + m /\ t * m \in Nat
  OBVIOUS
<1>3. \A t, m, z, l \in Nat : z <= t * m /\ l <= m => z + l <= (t + 1) * m
  <2> SUFFICES ASSUME NEW t \in Nat, NEW m \in Nat, NEW z \in Nat, NEW l \in Nat,
                      z <= t * m, l <= m
               PROVE  z + l <= (t + 1) * m
    OBVIOUS
  <2>1. (t + 1) * m = t * m + m /\ t * m \in Nat
    BY <1>2
  <2> QED BY <2>1
<1>4. MaxLen \in Nat /\ 0 <= 0 * MaxLen
  BY IriLogAssumption
<1> QED BY <1>1, <1>3, <1>4, CounterSteps DEF LinesInv, Kept, Mine

\* The table changes with a new node only.
LEMMA TableSteps ==
  ASSUME TypeInv, [Next]_vars
  PROVE  \/ UNCHANGED table
         \/ \E w \in Writers, i \in NodeIds :
              /\ job[w].name \in Names /\ table' = [table EXCEPT ![job[w].name] = i]
              /\ node'[i].times = 0 /\ node'[i].size = 0
              /\ \A k \in NodeIds \ {i} : Kept(k)
<1>1. NodeTypes /\ CallInv
  BY TypesSplit
<1>2. ASSUME NEW w \in Writers, Insert(w)
      PROVE  \E i \in NodeIds :
               /\ job[w].name \in Names /\ table' = [table EXCEPT ![job[w].name] = i]
               /\ node'[i].times = 0 /\ node'[i].size = 0
               /\ \A k \in NodeIds \ {i} : Kept(k)
  <2>1. PICK i \in NodeIds, fd \in Fds \cup {-1} :
          /\ node' = [node EXCEPT ![i] = [RawNode EXCEPT !.fd = fd]]
          /\ table' = [table EXCEPT ![job[w].name] = i]
    BY <1>2 DEF Insert
  <2>2. node'[i].times = 0 /\ node'[i].size = 0 /\ \A k \in NodeIds \ {i} : Kept(k)
    BY <1>1, <2>1 DEF NodeTypes, RawNode, Kept
  <2>3. job[w].name \in Names
    BY <1>1, <1>2 DEF Insert, At, CallInv, InLog
  <2> QED BY <2>1, <2>2, <2>3
<1>3. ASSUME NEW w \in Writers, Step(w), ~ Insert(w) PROVE UNCHANGED table
  BY <1>3 DEF Step, InitLocks, InitWorks, InitExits, InitPublishes, Gate, BadInfos, Lookup, Check, Locks,
              ProcLocks, CreateCloses, CreateOpens, Write, Unlocks, UseAfterFree, nodeVars, fileVars
<1>4. ASSUME NEW w \in Writers, CallInit(w) \/ \E n \in Names, l \in Levels : Call(w, n, l)
      PROVE  UNCHANGED table
  BY <1>4 DEF CallInit, Call, nodeVars, fileVars
<1>5. TimerExpires \/ Destroy \/ UNCHANGED vars => UNCHANGED table
  BY DEF TimerExpires, Destroy, vars, nodeVars, fileVars
<1>6. ASSUME NEW f \in File, ForeignLocks(f) \/ ForeignUnlocks(f) PROVE UNCHANGED table
  BY <1>6 DEF ForeignLocks, ForeignUnlocks, nodeVars, fileVars
<1> QED BY <1>2, <1>3, <1>4, <1>5, <1>6 DEF Next

LEMMA BoundStep ==
  ASSUME OpenWorks, TypeInv, InitInv, NodeInv, ConfInv, WriteInv, BoundInv, [Next]_vars
  PROVE  BoundInv'
<1>1. CASE infos = {}
  BY <1>1, ConfStep DEF BoundInv
<1>2. CASE infos # {}
  <2>1. \A n \in Names : MaxOf(n)' = MaxOf(n) /\ MaxOf(n) \in Nat
    <3>1. infos' = infos
      BY <1>2, ConfStep
    <3>2. \A n \in Names : MaxOf(n)' = MaxOf(n)
      BY <3>1 DEF MaxOf, InfoOf, TheConf
    <3> QED BY <1>2, <3>2, MaxOfType
  <2>2. /\ \A k \in NodeIds : node[k].times \in Nat /\ node[k].size \in Nat
        /\ \A n \in Names : table[n] \in NodeIds \cup {0}
    BY TypesSplit DEF NodeTypes, Node
  <2>3. WriteTimes \in Nat /\ MaxLen \in Nat
    BY IriLogAssumption
  <2> SUFFICES ASSUME NEW n \in Names, table'[n] # 0
               PROVE  \/ node'[table'[n]].times <= WriteTimes + 1
                      \/ node'[table'[n]].size <= MaxOf(n) + MaxLen
    BY <2>1 DEF BoundInv
  <2>4. ASSUME NEW w \in Writers, NEW i \in NodeIds,
               job[w].name \in Names, table' = [table EXCEPT ![job[w].name] = i],
               node'[i].times = 0, node'[i].size = 0, \A k \in NodeIds \ {i} : Kept(k)
        PROVE  \/ node'[table'[n]].times <= WriteTimes + 1
               \/ node'[table'[n]].size <= MaxOf(n) + MaxLen
    <3>1. table'[n] = i \/ (table'[n] = table[n] /\ table[n] # i)
      BY <2>4 DEF TypeInv, TypeOK
    <3> QED BY <2>2, <2>3, <2>4, <3>1 DEF BoundInv, Kept
  <2>5. CASE UNCHANGED table
    <3> DEFINE t == table[n]
    <3>1. t \in NodeIds /\ table'[n] = t
      BY <2>2, <2>5
    <3>2. node[t].times <= WriteTimes + 1 \/ node[t].size <= MaxOf(n) + MaxLen
      BY <2>5 DEF BoundInv
    <3> HIDE DEF t
    <3>3. CASE Kept(t)
      BY <3>1, <3>2, <3>3 DEF Kept
    <3>4. CASE node'[t].times = 0
      BY <2>3, <3>1, <3>4
    <3>5. ASSUME NEW w \in Writers, NEW len \in 1 .. MaxLen, At(w, "write"), Live(w), job[w].node = t,
                 node'[t].times = Mine(w).times + 1, node'[t].size = Mine(w).size + len
          PROVE  \/ node'[table'[n]].times <= WriteTimes + 1
                 \/ node'[table'[n]].size <= MaxOf(n) + MaxLen
      <4>1. table[job[w].name] = t /\ job[w].name \in Names
        BY <3>5, TypesSplit DEF NodeInv, UserInv, UsesNode, At, CallInv, InLog
      <4>2. t # 0
        BY <2>5 DEF t
      <4>3. job[w].name = n
        BY <4>1, <4>2 DEF t, NodeInv, FdInv
      <4>4. node[t].times <= WriteTimes \/ node[t].size <= MaxOf(n)
        BY <3>5, <4>3 DEF WriteInv, Mine
      <4> QED BY <2>1, <2>2, <2>3, <3>1, <3>5, <4>4 DEF Mine
    <3> QED BY <3>1, <3>3, <3>4, <3>5, CounterSteps
  <2> QED BY <2>4, <2>5, TableSteps
<1> QED BY <1>1, <1>2

\* A thread gets to write() from the test for a rotation, or from a rotation.
LEMMA WayToWrite ==
  ASSUME TypeInv, NodeInv, [Next]_vars, NEW v \in Writers, At(v, "write")'
  PROVE  \/ At(v, "write") /\ job'[v] = job[v] /\ freed \subseteq freed'
         \/ ProcLocks(v) \/ CreateOpens(v)
<1>1. CallInv /\ pc'[v] = "write" /\ ~ over'
  BY DEF TypeInv, At
<1>2. CASE pc' = pc /\ job' = job /\ (over => over') /\ freed \subseteq freed'
  BY <1>1, <1>2 DEF At
<1>3. ASSUME NEW w \in Writers, w # v, NEW label, Goto(w, label), ~ over,
             job'[v] = job[v], freed \subseteq freed'
      PROVE  At(v, "write") /\ job'[v] = job[v] /\ freed \subseteq freed'
  BY <1>1, <1>3 DEF CallInv, Goto, At
<1>4. ASSUME NEW w \in Writers, NEW label, Goto(w, label), label # "write"
      PROVE  w # v
  BY <1>1, <1>4 DEF CallInv, Goto
<1>5. ASSUME NEW w \in Writers, NEW label, Goto(w, label), label # "write", ~ over,
             freed \subseteq freed', \A u \in Writers \ {w} : job'[u] = job[u]
      PROVE  At(v, "write") /\ job'[v] = job[v] /\ freed \subseteq freed'
  BY <1>3, <1>4, <1>5
<1>6. ASSUME NEW w \in Writers, NEW n \in Names, NEW l \in Levels, Call(w, n, l)
      PROVE  At(v, "write") /\ job'[v] = job[v] /\ freed \subseteq freed'
  <2>1. /\ \E label \in {"gate", "init"} : Goto(w, label)
        /\ ~ over /\ freed \subseteq freed' /\ \A u \in Writers \ {w} : job'[u] = job[u]
    BY <1>1, <1>6 DEF Call, At, nodeVars, fileVars, CallInv
  <2> QED BY <1>5, <2>1
<1>7. ASSUME NEW w \in Writers, CallInit(w) \/ InitLocks(w) \/ InitWorks(w) \/ InitPublishes(w)
                                \/ Gate(w)
      PROVE  At(v, "write") /\ job'[v] = job[v] /\ freed \subseteq freed'
  <2>1. /\ \E label \in {"idle", "init", "gate", "initing", "publish", "lookup"} : Goto(w, label)
        /\ ~ over /\ freed \subseteq freed'
    BY <1>7 DEF CallInit, InitLocks, InitWorks, InitPublishes, Gate, At, Returns, nodeVars, fileVars
  <2>2. \A u \in Writers \ {w} : job'[u] = job[u]
    BY <1>1, <1>7 DEF CallInit, InitLocks, InitWorks, InitPublishes, Gate, Returns, CallInv
  <2> QED BY <1>5, <2>1, <2>2
<1>8. ASSUME NEW w \in Writers, Lookup(w) \/ Insert(w) \/ Check(w)
      PROVE  At(v, "write") /\ job'[v] = job[v] /\ freed \subseteq freed'
  <2>1. /\ \E label \in {"insert", "close", "check", "lock", "idle"} : Goto(w, label)
        /\ ~ over /\ freed \subseteq freed'
    BY <1>8 DEF Lookup, Insert, Check, At, Returns, nodeVars, fileVars
  <2>2. \A u \in Writers \ {w} : job'[u] = job[u]
    BY <1>1, <1>8 DEF Lookup, Insert, Check, Returns, CallInv
  <2> QED BY <1>5, <2>1, <2>2
<1>9. ASSUME NEW w \in Writers, Locks(w) \/ CreateCloses(w) \/ Write(w) \/ Unlocks(w)
      PROVE  At(v, "write") /\ job'[v] = job[v] /\ freed \subseteq freed'
  <2>1. /\ \E label \in {"plock", "open", "unlock", "idle"} : Goto(w, label)
        /\ ~ over /\ freed \subseteq freed'
    BY <1>9 DEF Locks, CreateCloses, Write, Unlocks, At, Returns
  <2>2. \A u \in Writers \ {w} : job'[u] = job[u]
    BY <1>1, <1>9 DEF Locks, CreateCloses, Write, Unlocks, Returns, CallInv
  <2> QED BY <1>5, <2>1, <2>2
<1>10. ASSUME NEW w \in Writers, w # v, ProcLocks(w) \/ CreateOpens(w)
       PROVE  At(v, "write") /\ job'[v] = job[v] /\ freed \subseteq freed'
  <2>1. /\ \E label \in {"close", "write", "check"} : Goto(w, label)
        /\ ~ over /\ freed \subseteq freed' /\ UNCHANGED job
    BY <1>10 DEF ProcLocks, CreateOpens, At
  <2> QED BY <1>3, <1>10, <2>1
<1>11. ASSUME NEW w \in Writers, BadInfos(w) \/ UseAfterFree(w) \/ InitExits(w) PROVE FALSE
  BY <1>1, <1>11 DEF BadInfos, UseAfterFree, InitExits
<1>12. CASE TimerExpires \/ UNCHANGED vars
  BY <1>2, <1>12 DEF TimerExpires, vars, nodeVars, fileVars
<1>13. CASE Destroy
  BY <1>2, <1>13 DEF Destroy
<1>14. ASSUME NEW f \in File, ForeignLocks(f) \/ ForeignUnlocks(f)
       PROVE  At(v, "write") /\ job'[v] = job[v] /\ freed \subseteq freed'
  <2>1. pc' = pc /\ job' = job /\ over' = over /\ freed' = freed
    BY <1>14 DEF ForeignLocks, ForeignUnlocks, nodeVars, fileVars
  <2> QED BY <1>1, <2>1 DEF At
<1> QED
  BY <1>6, <1>7, <1>8, <1>9, <1>10, <1>11, <1>12, <1>13, <1>14 DEF Next, Step

LEMMA WriteStep ==
  ASSUME OpenWorks, TypeInv, InitInv, NodeInv, ConfInv, WriteInv, [Next]_vars
  PROVE  WriteInv'
<1> SUFFICES ASSUME NEW v \in Writers, At(v, "write")', Live(v)'
             PROVE  \/ Mine(v)'.times <= WriteTimes
                    \/ Mine(v)'.size <= MaxOf(job[v].name)'
  BY DEF WriteInv
<1>1. NodeTypes /\ CallInv /\ WriteTimes \in Nat
  BY TypesSplit, IriLogAssumption
<1>2. CASE At(v, "write") /\ job'[v] = job[v] /\ freed \subseteq freed'
  <2> DEFINE k == job[v].node
  <2>1. At(v, "write") /\ Live(v) /\ k \in NodeIds /\ job[v].name \in Names
    BY <1>1, <1>2 DEF Live, At, CallInv, UsesNode, InLog
  <2>2. infos # {}
    BY <2>1 DEF ConfInv, At, UsesNode
  <2>3. MaxOf(job[v].name)' = MaxOf(job[v].name)
    <3>1. infos' = infos
      BY <2>2, ConfStep
    <3> QED BY <1>2, <3>1 DEF MaxOf, InfoOf, TheConf
  <2>4. node[k].times <= WriteTimes \/ node[k].size <= MaxOf(job[v].name)
    BY <2>1 DEF WriteInv, Mine
  <2>5. CASE Kept(k)
    BY <1>2, <2>3, <2>4, <2>5 DEF Kept, Mine
  <2>6. CASE node'[k].times = 0
    BY <1>1, <1>2, <2>6 DEF Mine
  <2>7. ASSUME NEW w \in Writers, At(w, "write"), job[w].node = k, pc' = [pc EXCEPT ![w] = "unlock"]
        PROVE  FALSE
    <3>1. w = v
      BY <1>1, <2>1, <2>7, OneInSection DEF At, InSection, NodeInv
    <3> QED BY <1>1, <2>7, <3>1 DEF At, CallInv
  <2> QED BY <2>1, <2>5, <2>6, <2>7, CounterSteps
<1>3. CASE ProcLocks(v)
  <2> DEFINE k == job[v].node
             n == job[v].name
  <2>1. /\ pc[v] = "plock" /\ Live(v) /\ UNCHANGED <<infos, job, node>> /\ ~ MustRotate(v)
    <3>1. MustRotate(v) => pc' = [pc EXCEPT ![v] = "close"]
      BY <1>3 DEF ProcLocks, Goto
    <3>2. ~ MustRotate(v)
      BY <1>1, <3>1 DEF At, CallInv
    <3> QED BY <1>3, <3>2 DEF ProcLocks, At, initVars
  <2>2. k \in NodeIds /\ n \in Names /\ k # 0 /\ table[n] = k /\ k \in Allocated
    BY <1>1, <2>1, IriLogAssumption DEF CallInv, UsesNode, InLog, NodeInv, UserInv
  <2>3. ~ Rotating(k)
    BY <1>1, <2>1, OneInSection DEF NodeInv, InSection, Rotating
  <2>4. IsOpen(node[k].fd)
    BY <2>2, <2>3 DEF NodeInv, FdInv, IsOpen
  <2>5. infos # {}
    BY <2>1 DEF ConfInv, UsesNode
  <2>6. node[k].times \in Nat /\ node[k].size \in Nat /\ MaxOf(n) \in Nat
    BY <1>1, <2>2, <2>5, MaxOfType DEF NodeTypes, Node
  <2>7. ~ (node[k].times > WriteTimes) \/ ~ (node[k].size > MaxOf(n))
    BY <2>1, <2>4 DEF MustRotate, Mine, MyInfo, MaxOf
  <2>8. node[k].times <= WriteTimes \/ node[k].size <= MaxOf(n)
    BY <1>1, <2>6, <2>7
  <2>9. Mine(v)' = node[k] /\ MaxOf(job[v].name)' = MaxOf(n)
    BY <2>1 DEF Mine, MaxOf, InfoOf, TheConf
  <2> QED BY <2>8, <2>9
<1>4. CASE CreateOpens(v)
  <2>1. PICK fd \in Fds : node' = Reset(job[v].node, fd)
    BY <1>1, <1>4, ReopenKeepsNodes
  <2>2. job[v].node \in NodeIds /\ UNCHANGED job
    BY <1>1, <1>4 DEF CreateOpens, At, CallInv, UsesNode
  <2>3. Mine(v)'.times = 0
    BY <1>1, <2>1, <2>2 DEF Reset, NodeTypes, Node, Mine
  <2> QED BY <1>1, <2>3
<1> QED BY <1>2, <1>3, <1>4, WayToWrite

\* Growth as a function of single_max_size.
Limit(m) ==
  LET first == (WriteTimes + 1) * MaxLen
      later == m + MaxLen
  IN IF first > later THEN first ELSE later

\* A node within one of the limits has not outgrown what one opening may add.
LEMMA WithinLimit ==
  ASSUME NEW m \in Nat
  PROVE  /\ Limit(m) \in Nat
         /\ \A t, z \in Nat : z <= t * MaxLen /\ (t <= WriteTimes + 1 \/ z <= m + MaxLen) => z <= Limit(m)
<1>1. WriteTimes \in Nat /\ MaxLen \in Nat
  BY IriLogAssumption
<1>2. (WriteTimes + 1) * MaxLen \in Nat
  BY <1>1
<1> DEFINE first == (WriteTimes + 1) * MaxLen
<1>3. ASSUME NEW t \in Nat, t <= WriteTimes + 1 PROVE t * MaxLen <= first /\ t * MaxLen \in Nat
  <2>1. PICK d \in Nat : WriteTimes + 1 = t + d
    <3>1. WriteTimes + 1 - t \in Nat
      BY <1>1, <1>3
    <3>2. WriteTimes + 1 = t + (WriteTimes + 1 - t)
      BY <1>1
    <3> QED BY <3>1, <3>2
  <2>2. (t + d) * MaxLen = t * MaxLen + d * MaxLen /\ t * MaxLen \in Nat /\ d * MaxLen \in Nat
    BY <1>1
  <2> QED BY <2>1, <2>2
<1>4. first \in Nat
  BY <1>2
<1>5. Limit(m) = IF first > m + MaxLen THEN first ELSE m + MaxLen
  BY DEF Limit
<1> HIDE DEF first
<1>6. Limit(m) \in Nat /\ first <= Limit(m) /\ m + MaxLen <= Limit(m)
  BY <1>1, <1>4, <1>5
<1>7. ASSUME NEW t \in Nat, NEW z \in Nat, z <= t * MaxLen, t <= WriteTimes + 1 \/ z <= m + MaxLen
      PROVE  z <= Limit(m)
  <2>1. CASE t <= WriteTimes + 1
    BY <1>3, <1>4, <1>6, <1>7, <2>1
  <2>2. CASE z <= m + MaxLen
    BY <1>1, <1>6, <2>2
  <2> QED BY <1>7, <2>1, <2>2
<1> QED BY <1>6, <1>7

\* What a configuration allows a file is a number, in any state.
LEMMA ConfLimit ==
  ASSUME NEW S \in SUBSET Confs, S # {}, NEW n \in Names
  PROVE  Limit(InfoOf(CHOOSE c \in S : TRUE, n).max) \in Nat
<1> DEFINE c0 == CHOOSE c \in S : TRUE
<1>1. c0 \in Confs
  OBVIOUS
<1>2. IsConf(c0)
  BY <1>1, IriLogAssumption
<1>3. InfoOf(c0, n) \in Info
  BY <1>2 DEF IsConf, InfoOf
<1>4. InfoOf(c0, n).max \in Nat
  BY <1>3 DEF Info
<1> QED BY <1>4, WithinLimit

\* A step of w that neither begins nor ends a rotation.
LEMMA RotatingFrame ==
  ASSUME CallInv, NEW w \in Writers, NEW label, Goto(w, label), pc[w] # "open", label # "open",
         \A v \in Writers \ {w} : job'[v] = job[v], NEW i
  PROVE  Rotating(i)' <=> Rotating(i)
  BY DEF Rotating, Goto, CallInv

\* A step that changes no file and no descriptor.
Still ==
  /\ UNCHANGED <<table, fdTable, disk, opens>>
  /\ \A i \in NodeIds : node'[i].fd = node[i].fd /\ Kept(i)
  /\ \A i \in NodeIds : Rotating(i)' <=> Rotating(i)

\* Every step is one, unless it opens, closes or writes.
LEMMA StillSteps ==
  ASSUME TypeInv, [Next]_vars,
         ~ \E w \in Writers : Insert(w) \/ CreateCloses(w) \/ CreateOpens(w) \/ (Write(w) /\ UNCHANGED job)
  PROVE  Still
<1>1. NodeTypes /\ CallInv
  BY TypesSplit
<1> USE <1>1 DEF At
<1>2. ASSUME UNCHANGED <<table, fdTable, disk, opens, node>>, NEW w \in Writers, NEW label,
             Goto(w, label), pc[w] # "open", label # "open", \A v \in Writers \ {w} : job'[v] = job[v]
      PROVE  Still
  BY <1>2, RotatingFrame DEF Still, Kept
<1>3. ASSUME NEW w \in Writers, NEW n \in Names, NEW l \in Levels, Call(w, n, l) PROVE Still
  <2>1. /\ \E label \in {"gate", "init"} : Goto(w, label)
        /\ pc[w] # "open" /\ UNCHANGED <<table, fdTable, disk, opens, node>>
    BY <1>3 DEF Call, nodeVars, fileVars
  <2>2. \A v \in Writers \ {w} : job'[v] = job[v]
    BY <1>3 DEF Call, CallInv
  <2> QED BY <1>2, <2>1, <2>2
<1>4. ASSUME NEW w \in Writers, CallInit(w) \/ InitLocks(w) \/ InitWorks(w) \/ InitPublishes(w) \/ Gate(w)
      PROVE  Still
  <2>1. /\ \E label \in {"idle", "init", "gate", "initing", "publish", "lookup"} : Goto(w, label)
        /\ pc[w] # "open" /\ UNCHANGED <<table, fdTable, disk, opens, node>>
    BY <1>4 DEF CallInit, InitLocks, InitWorks, InitPublishes, Gate, Returns, nodeVars, fileVars
  <2>2. \A v \in Writers \ {w} : job'[v] = job[v]
    BY <1>4 DEF CallInit, InitLocks, InitWorks, InitPublishes, Gate, Returns, CallInv
  <2> QED BY <1>2, <2>1, <2>2
<1>5. ASSUME NEW w \in Writers, Lookup(w) \/ Check(w) \/ ProcLocks(w) PROVE Still
  <2>1. /\ \E label \in {"insert", "close", "check", "lock", "idle", "write"} : Goto(w, label)
        /\ pc[w] # "open" /\ UNCHANGED <<table, fdTable, disk, opens, node>>
    BY <1>5 DEF Lookup, Check, ProcLocks, Returns, nodeVars, fileVars
  <2>2. \A v \in Writers \ {w} : job'[v] = job[v]
    BY <1>5 DEF Lookup, Check, ProcLocks, Returns, CallInv
  <2> QED BY <1>2, <2>1, <2>2
<1>6. ASSUME NEW w \in Writers, Write(w), ~ UNCHANGED job PROVE Still
  <2>1. /\ Goto(w, "unlock") /\ pc[w] # "open" /\ UNCHANGED <<table, fdTable, disk, opens, node>>
        /\ job' = [job EXCEPT ![w].lost = TRUE]
    BY <1>6 DEF Write
  <2>2. \A v \in Writers \ {w} : job'[v] = job[v]
    BY <2>1 DEF CallInv
  <2> QED BY <1>2, <2>1, <2>2
<1>7. ASSUME NEW w \in Writers, Locks(w) \/ Unlocks(w) PROVE Still
  <2>1. /\ \E label \in {"plock", "idle"} : Goto(w, label)
        /\ pc[w] # "open" /\ UNCHANGED <<table, fdTable, disk, opens>>
    BY <1>7 DEF Locks, Unlocks, Returns, fileVars
  <2>2. \A v \in Writers \ {w} : job'[v] = job[v]
    BY <1>7 DEF Locks, Unlocks, Returns, CallInv
  <2>3. job[w].node \in NodeIds
    BY <1>7 DEF Locks, Unlocks, CallInv, UsesNode
  <2>4. \A i \in NodeIds : node'[i].fd = node[i].fd /\ Kept(i)
    BY <1>7, <2>3 DEF Locks, Unlocks, NodeTypes, Node, Kept
  <2> QED BY <2>1, <2>2, <2>4, RotatingFrame DEF Still
<1>8. CASE UNCHANGED <<nodeVars, pc, job>>
  BY <1>8 DEF nodeVars, fileVars, Still, Kept, Rotating
<1>9. ASSUME NEW w \in Writers, BadInfos(w) \/ UseAfterFree(w) \/ InitExits(w) PROVE Still
  BY <1>8, <1>9 DEF BadInfos, UseAfterFree, InitExits
<1>10. CASE TimerExpires \/ UNCHANGED vars
  BY <1>8, <1>10 DEF TimerExpires, vars
<1>11. CASE Destroy
  BY <1>11 DEF Destroy, fileVars, Still, Kept, Rotating
<1>12. ASSUME NEW f \in File, ForeignLocks(f) \/ ForeignUnlocks(f) PROVE Still
  BY <1>8, <1>12 DEF ForeignLocks, ForeignUnlocks
<1> QED
  BY <1>3, <1>4, <1>5, <1>6, <1>7, <1>9, <1>10, <1>11, <1>12 DEF Next, Step

\* A file that is not written in a step: it is no longer current, or it is as before,
\* or it was opened once more and the node's count begins at 0.
LEMMA UnwrittenFile ==
  ASSUME NEW f \in File, disk \in [File -> Nat], opens \in [File -> Nat],
         Growth(f.log) \in Nat, Growth(f.log)' = Growth(f.log), DiskOf(f), disk'[f] = disk[f],
         \/ opens'[f] = opens[f] /\ ~ Current(f)'
         \/ /\ opens'[f] = opens[f] /\ Current(f)
            /\ node'[table'[f.log]].size = node[table[f.log]].size
         \/ opens'[f] = opens[f] + 1 /\ (Current(f)' => node'[table'[f.log]].size = 0)
  PROVE  DiskOf(f)'
<1> DEFINE o == opens[f]
           g == Growth(f.log)
<1>1. o \in Nat /\ g \in Nat /\ disk[f] \in Nat
  OBVIOUS
<1>2. (o + 1) * g = o * g + g /\ o * g \in Nat
  BY <1>1
<1>3. disk[f] <= o * g
  BY DEF DiskOf
<1>4. CASE opens'[f] = opens[f] + 1 /\ (Current(f)' => node'[table'[f.log]].size = 0)
  <2>1. opens'[f] * Growth(f.log)' = o * g + g
    BY <1>2, <1>4
  <2>2. disk'[f] <= o * g + g /\ disk'[f] + g <= o * g + g + 0
    BY <1>1, <1>2, <1>3
  <2> QED BY <1>4, <2>1, <2>2 DEF DiskOf
<1>5. CASE opens'[f] = opens[f] /\ ~ Current(f)'
  BY <1>3, <1>5 DEF DiskOf
<1>6. CASE opens'[f] = opens[f] /\ Current(f) /\ node'[table'[f.log]].size = node[table[f.log]].size
  BY <1>6 DEF DiskOf
<1> QED BY <1>4, <1>5, <1>6

LEMMA StillKeepsFiles ==
  ASSUME TypeInv, NEW f \in File, Growth(f.log) \in Nat, Growth(f.log)' = Growth(f.log), DiskOf(f), Still
  PROVE  DiskOf(f)'
<1>1. NodeTypes /\ f.log \in Names
  BY TypesSplit DEF File
<1>2. table[f.log] # 0 => table[f.log] \in NodeIds
  BY <1>1 DEF NodeTypes
<1>3. Current(f)' => Current(f)
  BY <1>2 DEF Current, Still
<1>4. Current(f)' => node'[table'[f.log]].size = node[table[f.log]].size
  BY <1>2 DEF Current, Still, Kept
<1> QED BY <1>1, <1>3, <1>4, UnwrittenFile DEF Still, NodeTypes

LEMMA CloseKeepsFiles ==
  ASSUME TypeInv, NodeInv, NEW f \in File, Growth(f.log) \in Nat, Growth(f.log)' = Growth(f.log),
         DiskOf(f), NEW w \in Writers, CreateCloses(w)
  PROVE  DiskOf(f)'
<1>1. NodeTypes /\ CallInv /\ f.log \in Names
  BY TypesSplit DEF File
<1>2. /\ pc[w] = "close" /\ pc' = [pc EXCEPT ![w] = "open"]
      /\ UNCHANGED <<table, node, job, disk, opens>>
  BY DEF CreateCloses, At, Goto, fileVars
<1>3. \A g \in Fds : fdTable'[g] = fdTable[g] \/ fdTable'[g] = NoFile
  BY <1>1 DEF CreateCloses, NodeTypes
<1>4. \A i \in NodeIds : Rotating(i) => Rotating(i)'
  BY <1>1, <1>2 DEF Rotating, CallInv
<1>5. Current(f)' => Current(f)
  <2> SUFFICES ASSUME Current(f)' PROVE Current(f)
    OBVIOUS
  <2> DEFINE i == table[f.log]
  <2>1. i \in NodeIds /\ i # 0 /\ ~ Rotating(i) /\ fdTable'[node[i].fd] = f
    BY <1>1, <1>2, <1>4 DEF Current, NodeTypes, Rotating
  <2>2. node[i].fd \in Fds
    BY <1>1, <2>1 DEF NodeInv, FdInv, Allocated
  <2>3. fdTable[node[i].fd] = f
    BY <1>3, <2>1, <2>2, IriLogAssumption
  <2> QED BY <2>1, <2>3 DEF Current
<1> QED BY <1>1, <1>2, <1>5, UnwrittenFile DEF NodeTypes

\* w opens a file for node i, on a descriptor that nobody has.
OpensFor(w, i, fd, file) ==
  /\ i \notin Allocated \/ Rotating(i)
  /\ file.log = job[w].name
  /\ fdTable' = [fdTable EXCEPT ![fd] = file] /\ opens' = [opens EXCEPT ![file] = @ + 1]
  /\ table' = [table EXCEPT ![job[w].name] = i]
  /\ node'[i].fd = fd /\ node'[i].size = 0
  /\ \A k \in NodeIds \ {i} : node'[k] = node[k]
  /\ \A k \in NodeIds \ {i} : Rotating(k) => Rotating(k)'
  /\ \A k \in Allocated : ~ Rotating(k) => node[k].fd # fd

LEMMA OpenKeepsFiles ==
  ASSUME TypeInv, NodeInv, OpenWorks, NEW f \in File, Growth(f.log) \in Nat,
         Growth(f.log)' = Growth(f.log), DiskOf(f),
         NEW w \in Writers, Insert(w) \/ CreateOpens(w)
  PROVE  DiskOf(f)'
<1>1. NodeTypes /\ CallInv /\ f.log \in Names
  BY TypesSplit DEF File
<1> DEFINE n == job[w].name
<1>2. n \in Names /\ UNCHANGED disk
  BY <1>1 DEF Insert, CreateOpens, At, CallInv, InLog, UsesNode
<1>3. PICK i \in NodeIds, fd \in Fds, file \in File : OpensFor(w, i, fd, file)
  <2>1. CASE Insert(w)
    <3>1. PICK i \in NodeIds, fd \in Fds \cup {-1}, d \in Dates :
            /\ \A k \in NodeIds : k < i <=> (k \in freed \/ \E m \in Names : table[m] = k)
            /\ Open(fd)
            /\ node' = [node EXCEPT ![i] = [RawNode EXCEPT !.fd = fd]]
            /\ fdTable' = Opened(FileAt(n, d), fd)
            /\ opens' = Counted(FileAt(n, d), fd)
            /\ table' = [table EXCEPT ![n] = i]
            /\ job' = [job EXCEPT ![w].node = i]
      BY <2>1 DEF Insert
    <3>2. i \notin Allocated
      <4>1. ~ (i < i)
        BY IriLogAssumption
      <4> QED BY <3>1, <4>1 DEF Allocated
    <3>3. PICK file \in File : file = FileAt(n, d) /\ file.log = n
      BY <1>2, FileAtType
    <3>4. /\ fd \in Fds
          /\ fdTable' = [fdTable EXCEPT ![fd] = file] /\ opens' = [opens EXCEPT ![file] = @ + 1]
          /\ \A k \in Allocated : ~ Rotating(k) => node[k].fd # fd
      BY <1>1, <3>1, <3>2, <3>3, OpenFindsOne DEF NodeInv
    <3>5. /\ node'[i].fd = fd /\ node'[i].size = 0
          /\ \A k \in NodeIds \ {i} : node'[k] = node[k]
      BY <1>1, <3>1 DEF NodeTypes, RawNode
    <3>6. \A k \in NodeIds : Rotating(k) => Rotating(k)'
      <4>1. pc[w] = "insert" /\ Goto(w, "check")
        BY <2>1 DEF Insert, At
      <4>2. \A v \in Writers \ {w} : job'[v] = job[v]
        BY <1>1, <3>1 DEF CallInv
      <4> QED BY <1>1, <4>1, <4>2, RotatingFrame
    <3>7. OpensFor(w, i, fd, file)
      BY <3>1, <3>2, <3>3, <3>4, <3>5, <3>6 DEF OpensFor
    <3> QED BY <3>4, <3>7
  <2>2. CASE CreateOpens(w)
    <3> DEFINE i == job[w].node
    <3>1. /\ pc[w] = "open" /\ UNCHANGED <<table, freed, job>> /\ i \notin freed
      BY <2>2 DEF CreateOpens, At, Live
    <3>2. /\ i \in NodeIds /\ node[i].lock = w
      BY <1>1, <3>1, OneInSection DEF NodeInv, InSection, Mine
    <3>3. i \in Allocated /\ Rotating(i) /\ table[n] = i
      BY <3>1 DEF NodeInv, UserInv, UsesNode, Rotating, Live
    <3>4. PICK fd \in Fds \cup {-1}, d \in Dates :
            /\ Open(fd) /\ fdTable' = Opened(FileAt(n, d), fd) /\ opens' = Counted(FileAt(n, d), fd)
            /\ node' = Reset(i, fd) /\ Goto(w, "write")
      BY <2>2, <3>2 DEF CreateOpens, Mine
    <3>5. PICK file \in File : file = FileAt(n, d) /\ file.log = n
      BY <1>2, FileAtType
    <3>6. /\ fd \in Fds
          /\ fdTable' = [fdTable EXCEPT ![fd] = file] /\ opens' = [opens EXCEPT ![file] = @ + 1]
          /\ \A k \in Allocated : ~ Rotating(k) => node[k].fd # fd
      BY <1>1, <3>2, <3>3, <3>4, <3>5, OpenFindsOne DEF NodeInv
    <3>7. /\ node'[i].fd = fd /\ node'[i].size = 0
          /\ \A k \in NodeIds \ {i} : node'[k] = node[k]
      BY <1>1, <3>2, <3>4 DEF Reset, NodeTypes, Node
    <3>8. table' = [table EXCEPT ![n] = i]
      BY <1>1, <3>1, <3>3 DEF NodeTypes
    <3>9. \A k \in NodeIds \ {i} : Rotating(k) => Rotating(k)'
      BY <1>1, <3>1, <3>4 DEF Rotating, Goto, CallInv
    <3>10. OpensFor(w, i, fd, file)
      BY <3>2, <3>3, <3>5, <3>6, <3>7, <3>8, <3>9 DEF OpensFor
    <3> QED BY <3>2, <3>6, <3>10
  <2> QED BY <2>1, <2>2
<1>4. i # 0
  BY IriLogAssumption
<1>5. /\ \A m \in Names : table'[m] = IF m = n THEN i ELSE table[m]
      /\ \A g \in Fds : fdTable'[g] = IF g = fd THEN file ELSE fdTable[g]
      /\ \A g \in File : opens'[g] = IF g = file THEN opens[g] + 1 ELSE opens[g]
  BY <1>1, <1>2, <1>3 DEF NodeTypes, OpensFor
<1>6. CASE f = file
  <2>1. opens'[f] = opens[f] + 1 /\ node'[table'[f.log]].size = 0
    BY <1>2, <1>3, <1>5, <1>6 DEF OpensFor
  <2> QED BY <1>1, <1>2, <2>1, UnwrittenFile DEF NodeTypes
<1>7. CASE f # file /\ f.log = n
  <2>1. ~ Current(f)'
    <3>1. fdTable'[node'[table'[f.log]].fd] = file
      BY <1>2, <1>3, <1>5, <1>7 DEF OpensFor
    <3> QED BY <1>7, <3>1 DEF Current
  <2> QED BY <1>1, <1>2, <1>5, <1>7, <2>1, UnwrittenFile DEF NodeTypes
<1>8. CASE f.log # n
  <2>1. f # file /\ opens'[f] = opens[f] /\ table'[f.log] = table[f.log]
    BY <1>1, <1>3, <1>5, <1>8 DEF OpensFor
  <2>2. ASSUME Current(f)' PROVE Current(f) /\ node'[table'[f.log]].size = node[table[f.log]].size
    <3>1. PICK k \in NodeIds : k = table[f.log] /\ k # 0 /\ k \in Allocated
      BY <1>1, <2>1, <2>2 DEF Current, NodeTypes, Allocated
    <3>2. fdTable'[node'[k].fd] = f /\ ~ Rotating(k)'
      BY <2>1, <2>2, <3>1 DEF Current, Rotating
    <3>3. k # i
      <4>1. fdTable'[node'[i].fd] = file
        BY <1>3, <1>5 DEF OpensFor
      <4> QED BY <2>1, <3>2, <4>1
    <3>4. node'[k] = node[k] /\ ~ Rotating(k)
      BY <1>3, <3>1, <3>2, <3>3 DEF OpensFor
    <3>5. node[k].fd \in Fds /\ node[k].fd # fd
      BY <1>3, <3>1, <3>4 DEF NodeInv, FdInv, OpensFor
    <3>6. fdTable[node[k].fd] = f
      BY <1>5, <3>2, <3>4, <3>5
    <3> QED BY <2>1, <3>1, <3>4, <3>6 DEF Current
  <2> QED BY <1>1, <1>2, <2>1, <2>2, UnwrittenFile DEF NodeTypes
<1> QED BY <1>6, <1>7, <1>8

\* A line is written: the file and the node's count grow alike.
LEMMA WriteKeepsFiles ==
  ASSUME TypeInv, NodeInv, NEW f \in File, Growth(f.log) \in Nat, Growth(f.log)' = Growth(f.log),
         DiskOf(f), NEW w \in Writers, Write(w), UNCHANGED job,
         table'[f.log] # 0 => node'[table'[f.log]].size <= Growth(f.log)
  PROVE  DiskOf(f)'
<1>1. NodeTypes /\ CallInv /\ f.log \in Names
  BY TypesSplit DEF File
<1> DEFINE k == job[w].node
           fd == node[k].fd
<1>2. /\ pc[w] = "write" /\ Live(w) /\ Goto(w, "unlock") /\ UNCHANGED <<table, fdTable, opens>>
  BY DEF Write, At
<1>3. k \in NodeIds /\ k # 0 /\ job[w].name \in Names /\ table[job[w].name] = k /\ k \in Allocated
  BY <1>1, <1>2, IriLogAssumption DEF CallInv, UsesNode, InLog, NodeInv, UserInv
<1>4. ~ Rotating(k)
  BY <1>1, <1>2, OneInSection DEF NodeInv, InSection, Rotating
<1>5. \A i \in NodeIds : Rotating(i)' <=> Rotating(i)
  BY <1>1, <1>2, RotatingFrame
<1>6. fd \in Fds /\ IsOpen(fd) /\ fdTable[fd] \in File /\ fdTable[fd].log = job[w].name
  <2>1. IsOpen(fd) /\ fdTable[fd].log = job[w].name
    BY <1>3, <1>4 DEF NodeInv, FdInv, IsOpen
  <2> QED BY <1>1, <2>1, OpenIsFile
<1>7. CASE UNCHANGED <<node, disk>>
  <2>1. Still
    BY <1>2, <1>5, <1>7 DEF Still, Kept
  <2> QED BY <2>1, StillKeepsFiles
<1>8. ASSUME NEW len \in 1 .. MaxLen,
             node' = [node EXCEPT ![k].times = @ + 1, ![k].size = @ + len],
             disk' = [disk EXCEPT ![fdTable[fd]] = @ + len]
      PROVE  DiskOf(f)'
  <2>1. /\ \A i \in NodeIds : node'[i].fd = node[i].fd
        /\ \A i \in NodeIds \ {k} : node'[i].size = node[i].size
        /\ node'[k].size = node[k].size + len
    BY <1>1, <1>3, <1>8 DEF NodeTypes, Node
  <2>2. \A g \in File : disk'[g] = IF g = fdTable[fd] THEN disk[g] + len ELSE disk[g]
    BY <1>1, <1>6, <1>8 DEF NodeTypes
  <2>3. CASE f = fdTable[fd]
    <3>1. table[f.log] = k /\ Current(f) /\ disk'[f] = disk[f] + len
      BY <1>3, <1>4, <1>6, <2>2, <2>3 DEF Current
    <3> DEFINE a == opens[f] * Growth(f.log)
               g == Growth(f.log)
    <3>2. a \in Nat /\ disk[f] \in Nat /\ node[k].size \in Nat /\ len \in Nat /\ g \in Nat
      <4>1. opens[f] \in Nat /\ disk[f] \in Nat /\ node[k].size \in Nat
        BY <1>1, <1>3 DEF NodeTypes, Node
      <4>2. len \in Nat
        BY IriLogAssumption
      <4> QED BY <4>1, <4>2
    <3>3. disk[f] + g <= a + node[k].size
      BY <3>1 DEF DiskOf
    <3>4. node[k].size + len <= g
      BY <1>2, <1>3, <2>1, <3>1
    <3>5. (opens[f] * Growth(f.log))' = a
      BY <1>2
    <3>6. node'[table'[f.log]].size = node[k].size + len
      BY <1>2, <2>1, <3>1
    <3> HIDE DEF a, g
    <3>7. disk[f] + len + g <= a + (node[k].size + len) /\ disk[f] + len <= a
      BY <3>2, <3>3, <3>4
    <3> QED BY <3>1, <3>5, <3>6, <3>7 DEF DiskOf, a, g
  <2>4. CASE f # fdTable[fd]
    <3>1. disk'[f] = disk[f]
      BY <2>2, <2>4
    <3>2. ASSUME Current(f)' PROVE Current(f) /\ node'[table'[f.log]].size = node[table[f.log]].size
      <4>1. table[f.log] \in NodeIds /\ table[f.log] # 0
        BY <1>1, <1>2, <3>2 DEF Current, NodeTypes
      <4>2. Current(f)
        BY <1>2, <1>5, <2>1, <3>2, <4>1 DEF Current
      <4>3. table[f.log] # k
        BY <2>4, <4>2 DEF Current
      <4> QED BY <1>2, <2>1, <4>1, <4>2, <4>3
    <3> QED BY <1>1, <1>2, <3>1, <3>2, UnwrittenFile DEF NodeTypes
  <2> QED BY <2>3, <2>4
<1>9. \/ UNCHANGED <<node, disk>>
      \/ \E len \in 1 .. MaxLen : /\ node' = [node EXCEPT ![k].times = @ + 1, ![k].size = @ + len]
                                  /\ disk' = [disk EXCEPT ![fdTable[fd]] = @ + len]
  BY DEF Write, Mine
<1> QED BY <1>7, <1>8, <1>9

LEMMA DiskStep ==
  ASSUME OpenWorks, TypeInv, InitInv, NodeInv, SizeInv, [Next]_vars, TypeInv', LinesInv', BoundInv'
  PROVE  DiskInv'
<1>1. NodeTypes /\ CallInv /\ NodeTypes' /\ infos' \in SUBSET Confs
  <2>1. TypeOK' /\ GlobalTypes /\ NodeTypes /\ CallInv
    BY TypesSplit DEF TypeInv
  <2>2. infos' \in SUBSET Confs /\ NodeTypes'
    BY <2>1 DEF TypeOK, NodeTypes, Node
  <2> QED BY <2>1, <2>2
<1>2. \A f \in File : f.log \in Names
  BY DEF File
<1>3. \A n \in Names : infos' # {} => Growth(n)' = Limit(MaxOf(n)') /\ Limit(MaxOf(n)') \in Nat
  BY <1>1, ConfLimit DEF Growth, Limit, MaxOf, TheConf
<1>4. CASE infos = {}
  <2>1. ~ \E w \in Writers : Write(w)
    BY <1>4 DEF SizeInv, ConfInv, Write, At, UsesNode
  <2>2. UNCHANGED disk
    BY <2>1, StillSteps DEF Still, Insert, CreateOpens, CreateCloses, fileVars
  <2>3. \A f \in File : disk'[f] = 0 /\ opens'[f] \in Nat
    BY <1>1, <1>4, <2>2 DEF SizeInv, DiskInv, NodeTypes
  <2>4. \A n \in Names : table'[n] = 0
    BY <1>4, ConfStep DEF SizeInv
  <2>5. ASSUME infos' # {}, NEW f \in File PROVE DiskOf(f)'
    <3>1. Growth(f.log)' \in Nat
      BY <1>2, <1>3, <2>5
    <3>2. 0 <= opens'[f] * Growth(f.log)'
      BY <2>3, <3>1
    <3> QED BY <1>2, <2>3, <2>4, <3>2 DEF DiskOf, Current
  <2> QED BY <2>3, <2>5 DEF DiskInv
<1>5. CASE infos # {}
  <2>1. infos' = infos
    BY <1>5, ConfStep DEF SizeInv
  <2> SUFFICES ASSUME NEW f \in File PROVE DiskOf(f)'
    BY <1>5, <2>1 DEF DiskInv
  <2>2. DiskOf(f) /\ f.log \in Names
    BY <1>2, <1>5 DEF SizeInv, DiskInv
  <2>3. Growth(f.log)' = Growth(f.log) /\ MaxOf(f.log)' = MaxOf(f.log)
    BY <2>1 DEF Growth, MaxOf, InfoOf, TheConf
  <2>4. Growth(f.log) \in Nat /\ Growth(f.log) = Limit(MaxOf(f.log)) /\ MaxOf(f.log) \in Nat
    <3>1. MaxOf(f.log) \in Nat
      BY <1>5, <2>2, MaxOfType
    <3> QED BY <1>3, <1>5, <2>1, <2>2, <2>3, <3>1
  <2>5. table'[f.log] # 0 => node'[table'[f.log]].size <= Growth(f.log)
    <3> SUFFICES ASSUME table'[f.log] # 0 PROVE node'[table'[f.log]].size <= Limit(MaxOf(f.log))
      BY <2>4
    <3> DEFINE t == node'[table'[f.log]].times
               z == node'[table'[f.log]].size
    <3>1. table'[f.log] \in NodeIds /\ t \in Nat /\ z \in Nat
      BY <1>1, <2>2 DEF NodeTypes, Node
    <3>2. z <= t * MaxLen
      BY <3>1 DEF LinesInv
    <3>3. t <= WriteTimes + 1 \/ z <= MaxOf(f.log) + MaxLen
      BY <2>2, <2>3 DEF BoundInv
    <3> HIDE DEF t, z
    <3>4. z <= Limit(MaxOf(f.log))
      BY <2>4, <3>1, <3>2, <3>3, WithinLimit
    <3> QED BY <3>4 DEF z
  <2>6. CASE \E w \in Writers : Insert(w) \/ CreateOpens(w)
    BY <2>2, <2>3, <2>4, <2>6, OpenKeepsFiles
  <2>7. CASE \E w \in Writers : CreateCloses(w)
    BY <2>2, <2>3, <2>4, <2>7, CloseKeepsFiles
  <2>8. CASE \E w \in Writers : Write(w) /\ UNCHANGED job
    BY <2>2, <2>3, <2>4, <2>5, <2>8, WriteKeepsFiles
  <2>9. CASE Still
    BY <2>2, <2>3, <2>4, <2>9, StillKeepsFiles
  <2> QED BY <2>6, <2>7, <2>8, <2>9, StillSteps
<1> QED BY <1>4, <1>5

\* As long as open() works, a file grows, each time it is opened, to single_max_size
\* and by the line that takes it there, or by its first WRITE_TIMES + 1 lines, for any
\* number of threads, whatever the limits and however long the lines.  It is opened
\* again, and grows by as much again, only by a rotation or a new node within the
\* second of its name.
THEOREM FilesStayBounded ==
  ASSUME OpenWorks
  PROVE  Spec => []RotationBounds
<1>1. Init => SizeInv
  <2> SUFFICES ASSUME Init PROVE SizeInv
    OBVIOUS
  <2>1. 0 <= 0 * MaxLen
    BY IriLogAssumption
  <2>2. LinesInv
    BY <2>1 DEF Init, LinesInv, RawNode
  <2>3. DiskInv
    BY DEF Init, DiskInv
  <2> QED BY <2>2, <2>3 DEF Init, SizeInv, ConfInv, WriteInv, BoundInv, UsesNode, At
<1>2. TypeInv /\ InitInv /\ NodeInv /\ SizeInv /\ [Next]_vars => SizeInv'
  <2> SUFFICES ASSUME TypeInv, InitInv, NodeInv, SizeInv, [Next]_vars PROVE SizeInv'
    OBVIOUS
  <2>1. ConfInv' /\ LinesInv' /\ WriteInv' /\ BoundInv'
    BY ConfStep, LinesStep, WriteStep, BoundStep DEF SizeInv
  <2>2. TypeInv'
    BY TypeStep
  <2>3. DiskInv'
    BY <2>1, <2>2, DiskStep
  <2> QED BY <2>1, <2>3 DEF SizeInv
<1>3. SizeInv => RotationBounds
  BY DEF SizeInv, DiskInv, DiskOf, RotationBounds
<1> QED BY <1>1, <1>2, <1>3, TypeInvariant, InitInvariant, NodeInvariant, PTL DEF Spec
=============================================================================
