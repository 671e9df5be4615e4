-------------------------------- MODULE IriLog --------------------------------
(***************************************************************************)
(* The synchronous log library (log/iridiumSysLog/iridiumlog.c).  Any      *)
(* thread calls iridium_write_log(); the first call reads the              *)
(* configuration under init_lock; each log name has a node in a hash table *)
(* that is looked up without a lock; a node's descriptor, write counter    *)
(* and size are meant to be guarded by the node's own lock.                *)
(*                                                                         *)
(* A step ends where another thread may see its effect: at a lock, at the  *)
(* volatile init_flag, at the table and at the descriptor of a node.  Use  *)
(* of a node after g_free() is undefined behaviour: UseAfterFree and       *)
(* BadInfos, and InitExits, lead to `over', after which nothing is claimed. *)
(***************************************************************************)
EXTENDS Integers, FiniteSets

CONSTANTS
  Writers,     \* threads that use the library
  Names,       \* log names; the caller's NULL is one of them, iridium_default
  NoWriter,    \* an unlocked lock
  NoName,      \* the name in a call of iridium_init_log()
  Dates,       \* the seconds, as get_localtime() and the file names have them
  NoFile,      \* a descriptor that is not open
  Confs,       \* what the configuration file may say, see IsConf
  WriteTimes,  \* WRITE_TIMES, 500
  MaxLen,      \* a line has 1 .. MaxLen bytes
  NodeIds,     \* memory for nodes, 1 .. n; never used twice
  Fds,         \* the descriptors of the process, 1 .. n
  DirFails,    \* whether mkdir() of the log directory may fail
  OpenFails,   \* whether open() of a log file may fail
  MaxCalls     \* bound on the calls of one writer

Levels == {"debug", "other"}

\* A log file: proc_name.log.date.host_name.proc_pid.log
File == [log : Names, date : Dates]
FileAt(n, d) == [log |-> n, date |-> d]

Info == [file : BOOLEAN, terminal : BOOLEAN, levels : SUBSET Levels,
         max : Nat, plock : BOOLEAN]

\* log_switch, TOTAL_SWITCH.IS_VALID, whether TIMMER limits debug lines, and the
\* sections: TOTAL_SWITCH, the default and one for some of the names.
IsConf(c) ==
  /\ DOMAIN c = {"switch", "valid", "timer", "total", "default", "named"}
  /\ {c.switch, c.valid, c.timer} \subseteq BOOLEAN
  /\ c.total \in Info /\ c.default \in Info
  /\ DOMAIN c.named \subseteq Names /\ \A n \in DOMAIN c.named : c.named[n] \in Info

ASSUME IriLogAssumption ==
  /\ \A c \in Confs : IsConf(c)
  /\ NoWriter \notin Writers /\ NoName \notin Names /\ NoFile \notin File
  /\ WriteTimes \in Nat /\ MaxLen \in Nat \ {0} /\ MaxCalls \in Nat
  /\ NodeIds \subseteq Nat \ {0} /\ Fds \subseteq Nat \ {0}
  /\ IsFiniteSet(NodeIds) /\ IsFiniteSet(Fds)
  /\ DirFails \in BOOLEAN /\ OpenFails \in BOOLEAN

VARIABLES
  initFlag,  \* init_flag = HAS_INITED
  initLock,  \* holder of init_lock
  closeFlag, \* close_log_flag
  infos,     \* infos: {} for NULL, {c} when it points to configuration c
  destroyed, \* iridium_destroy_log() has freed infos and the table
  timer,     \* debug_dead_time: "off", "running", or "expired" (before now)
  table,     \* log_file_nodes: the node of each name, 0 for none
  node,      \* the contents of each node
  freed,     \* nodes given back to the allocator
  fdTable,   \* the kernel: the file each descriptor is open on
  flock,     \* files this process has locked with fcntl()
  foreign,   \* files another process has locked so
  disk,      \* the size of each file
  opens,     \* history: how often each file was opened
  pc, job,   \* per writer: where it is, and its call
  loads,     \* history: how often the configuration was read
  over       \* the process called exit(), or did something C leaves undefined

initVars == <<initFlag, initLock, closeFlag, infos, destroyed, loads>>
fileVars == <<disk, opens>>
nodeVars == <<table, node, freed, fdTable, flock, fileVars>>
vars == <<initVars, timer, nodeVars, foreign, pc, job, over>>

NoJob == [name |-> NoName, level |-> "other", node |-> 0, ret |-> 0, lost |-> FALSE, calls |-> 0]
RawNode == [fd |-> -1, times |-> 0, size |-> 0, lock |-> NoWriter]

Init ==
  /\ initFlag = FALSE /\ initLock = NoWriter /\ closeFlag = FALSE
  /\ infos = {} /\ destroyed = FALSE /\ loads = 0 /\ timer = "off"
  /\ table = [n \in Names |-> 0]
  /\ node = [i \in NodeIds |-> RawNode] /\ freed = {}
  /\ fdTable = [f \in Fds |-> NoFile]
  /\ disk = [f \in File |-> 0] /\ opens = [f \in File |-> 0]
  /\ flock = {} /\ foreign = {}
  /\ pc = [w \in Writers |-> "idle"]
  /\ job = [w \in Writers |-> NoJob]
  /\ over = FALSE

At(w, label) == pc[w] = label /\ ~ over
Goto(w, label) == pc' = [pc EXCEPT ![w] = label]
Returns(w, ret) == /\ Goto(w, "idle")
                   /\ job' = [job EXCEPT ![w] = [NoJob EXCEPT !.ret = ret, !.lost = job[w].lost,
                                                               !.calls = job[w].calls]]

\* if(!infos->sinfo[INFOS_ID_CTL]->is_valid) ...: the section that rules a name
InfoOf(c, n) ==
  IF c.valid THEN c.total ELSE IF n \in DOMAIN c.named THEN c.named[n] ELSE c.default

TheConf == CHOOSE c \in infos : TRUE

-----------------------------------------------------------------------------
(* Initialisation *)

\* iridium_write_log() calls open_iridiumlog(), which reads init_flag unlocked.
Call(w, n, level) ==
  /\ At(w, "idle") /\ job[w].calls < MaxCalls
  /\ job' = [job EXCEPT ![w] = [NoJob EXCEPT !.name = n, !.level = level, !.calls = job[w].calls + 1]]
  /\ Goto(w, IF initFlag THEN "gate" ELSE "init")
  /\ UNCHANGED <<initVars, timer, nodeVars, foreign, over>>

\* The application may also call iridium_init_log() itself.
CallInit(w) ==
  /\ At(w, "idle") /\ job[w].calls < MaxCalls
  /\ job' = [job EXCEPT ![w] = [NoJob EXCEPT !.calls = job[w].calls + 1]]
  /\ Goto(w, "init")
  /\ UNCHANGED <<initVars, timer, nodeVars, foreign, over>>

\* if(NO_INIT != init_flag) under the lock.  (Mutant: the second look is left out.)
NeverLooksAgain == FALSE
AlreadyInited == initFlag

\* init_flag while the work goes on.  (Mutant: it is set first.)
FlagEarly == TRUE
FlagDuringInit == initFlag

\* pthread_mutex_lock(&init_lock)
InitLocks(w) ==
  /\ At(w, "init") /\ initLock = NoWriter
  /\ \/ /\ AlreadyInited
        /\ IF job[w].name = NoName THEN Returns(w, 0) ELSE Goto(w, "gate") /\ UNCHANGED job
        /\ UNCHANGED <<initLock, initFlag>>
     \/ /\ ~ AlreadyInited
        /\ initLock' = w /\ initFlag' = FlagDuringInit
        /\ Goto(w, "initing") /\ UNCHANGED job
  /\ UNCHANGED <<closeFlag, infos, destroyed, loads, timer, nodeVars, foreign, over>>

\* The directory, then the configuration.  LOG_SWITCH = 0 drops it again.
InitWorks(w) ==
  /\ At(w, "initing")
  /\ \/ /\ DirFails
        /\ job' = [job EXCEPT ![w].ret = -1]
        /\ UNCHANGED <<closeFlag, infos, loads, timer>>
     \/ \E c \in Confs :
          /\ loads' = loads + 1
          /\ closeFlag' = (closeFlag \/ ~ c.switch)
          /\ infos' = IF c.switch THEN {c} ELSE {}
          /\ timer' = IF c.switch /\ c.valid /\ c.timer THEN "running" ELSE timer
          /\ UNCHANGED job
  /\ Goto(w, "publish")
  /\ UNCHANGED <<initFlag, initLock, destroyed, nodeVars, foreign, over>>

\* The application's own path begins with '/': PRINT_ERR_FATAL() calls exit().
InitExits(w) ==
  /\ At(w, "initing") /\ job[w].name = NoName
  /\ over' = TRUE
  /\ UNCHANGED <<initVars, timer, nodeVars, foreign, pc, job>>

\* iridium_init_log_exit:, reached from every path but that
InitPublishes(w) ==
  /\ At(w, "publish")
  /\ initFlag' = TRUE /\ initLock' = NoWriter
  /\ IF job[w].ret = 0 /\ job[w].name # NoName
     THEN Goto(w, "gate") /\ UNCHANGED job
     ELSE Returns(w, job[w].ret)
  /\ UNCHANGED <<closeFlag, infos, destroyed, loads, timer, nodeVars, foreign, over>>

\* debug_dead_time is passed.
TimerExpires ==
  /\ timer = "running"
  /\ timer' = "expired"
  /\ UNCHANGED <<initVars, nodeVars, foreign, pc, job, over>>

-----------------------------------------------------------------------------
(* The early returns of transparent_iridium_write_log() *)

ClosedByTimer(w) == job[w].level = "debug" /\ timer = "expired"

Gate(w) ==
  /\ At(w, "gate")
  /\ \/ closeFlag /\ Returns(w, 0)
     \/ ~ closeFlag /\ ClosedByTimer(w) /\ Returns(w, 0)
     \/ /\ ~ closeFlag /\ ~ ClosedByTimer(w) /\ infos # {} /\ ~ destroyed
        /\ LET info == InfoOf(TheConf, job[w].name)
           IN \/ ~ info.file /\ ~ info.terminal /\ Returns(w, -1)
              \/ (info.file \/ info.terminal) /\ job[w].level \notin info.levels /\ Returns(w, 0)
              \/ info.terminal /\ ~ info.file /\ job[w].level \in info.levels /\ Returns(w, 0)
              \/ info.file /\ job[w].level \in info.levels /\ Goto(w, "lookup") /\ UNCHANGED job
  /\ UNCHANGED <<initVars, timer, nodeVars, foreign, over>>

\* infos->sinfo[...] with infos NULL, or freed
BadInfos(w) ==
  /\ At(w, "gate") /\ ~ closeFlag /\ ~ ClosedByTimer(w)
  /\ infos = {} \/ destroyed
  /\ over' = TRUE
  /\ UNCHANGED <<initVars, timer, nodeVars, foreign, pc, job>>

-----------------------------------------------------------------------------
(* The node of a name *)

IsOpen(fd) == fd \in Fds /\ fdTable[fd] # NoFile
FreeFds == {f \in Fds : fdTable[f] = NoFile}
LowestFd == CHOOSE f \in FreeFds : \A g \in FreeFds : f <= g

\* open(): the lowest free descriptor, or failure.  The file, of the log and the
\* second, may exist: with O_APPEND its bytes stay and more are added.
Open(fd) == \/ FreeFds # {} /\ fd = LowestFd
            \/ (OpenFails \/ FreeFds = {}) /\ fd = -1
Opened(f, fd) == IF fd > 0 THEN [fdTable EXCEPT ![fd] = f] ELSE fdTable
Counted(f, fd) == IF fd > 0 THEN [opens EXCEPT ![f] = @ + 1] ELSE opens

\* g_hash_table_lookup(), without hash_lock
Lookup(w) ==
  /\ At(w, "lookup")
  /\ LET i == table[job[w].name]
     IN \/ i = 0 /\ Goto(w, "insert") /\ UNCHANGED job
        \/ /\ i # 0
           /\ job' = [job EXCEPT ![w].node = i]
           /\ Goto(w, IF node[i].fd < 0 THEN "close" ELSE "check")
  /\ UNCHANGED <<initVars, timer, nodeVars, foreign, over>>

\* Under hash_lock: new_log_file_node() and g_hash_table_insert(), which frees
\* the node that was there.
Insert(w) ==
  /\ At(w, "insert")
  /\ \E i \in NodeIds :
       /\ \A k \in NodeIds : k < i <=> (k \in freed \/ \E n \in Names : table[n] = k)
       /\ \E fd \in Fds \cup {-1}, d \in Dates :
            /\ Open(fd)
            /\ node' = [node EXCEPT ![i] = [RawNode EXCEPT !.fd = fd]]
            /\ fdTable' = Opened(FileAt(job[w].name, d), fd)
            /\ opens' = Counted(FileAt(job[w].name, d), fd)
       /\ table' = [table EXCEPT ![job[w].name] = i]
       /\ freed' = freed \cup ({table[job[w].name]} \ {0})
       /\ job' = [job EXCEPT ![w].node = i]
  /\ Goto(w, "check")
  /\ UNCHANGED <<initVars, timer, flock, foreign, disk, over>>

Mine(w) == node[job[w].node]
Live(w) == job[w].node \notin freed
MyInfo(w) == InfoOf(TheConf, job[w].name)

\* if(node->fd <= 0) return -1
Check(w) ==
  /\ At(w, "check") /\ Live(w)
  /\ IF Mine(w).fd > 0 THEN Goto(w, "lock") /\ UNCHANGED job ELSE Returns(w, -1)
  /\ UNCHANGED <<initVars, timer, nodeVars, foreign, over>>

\* pthread_rwlock_wrlock().  (Mutant: a read lock, which others share.)
WrLockShared(w) == TRUE
WrLockFree(w) == Mine(w).lock = NoWriter

Locks(w) ==
  /\ At(w, "lock") /\ Live(w) /\ WrLockFree(w)
  /\ node' = [node EXCEPT ![job[w].node].lock = w]
  /\ Goto(w, "plock")
  /\ UNCHANGED <<initVars, timer, table, freed, fdTable, flock, fileVars, foreign, job, over>>

\* times > WRITE_TIMES, file_size > single_max_size, fstat() succeeds.
\* (Mutant: the comparison with WRITE_TIMES is one write late.)
MustRotateLate(w) ==
  /\ Mine(w).times > WriteTimes + 1
  /\ Mine(w).size > MyInfo(w).max
  /\ IsOpen(Mine(w).fd)
MustRotate(w) ==
  /\ Mine(w).times > WriteTimes
  /\ Mine(w).size > MyInfo(w).max
  /\ IsOpen(Mine(w).fd)

\* PROCESS_WLOCK() waits for a lock of another process; then the size is checked.
\* fcntl() on a descriptor that is not open fails, and the failure is ignored.
ProcLocks(w) ==
  /\ At(w, "plock") /\ Live(w)
  /\ \/ (~ MyInfo(w).plock \/ ~ IsOpen(Mine(w).fd)) /\ UNCHANGED flock
     \/ /\ MyInfo(w).plock /\ IsOpen(Mine(w).fd) /\ fdTable[Mine(w).fd] \notin foreign
        /\ flock' = flock \cup {fdTable[Mine(w).fd]}
  /\ Goto(w, IF MustRotate(w) THEN "close" ELSE "write")
  /\ UNCHANGED <<initVars, timer, table, node, freed, fdTable, fileVars, foreign, job, over>>

\* unlock, and close: the process loses its fcntl() lock of the file, whichever
\* of its descriptors had it.
Released(fd) == IF IsOpen(fd) THEN flock \ {fdTable[fd]} ELSE flock

\* create_log_file_fd(): close ...
CreateCloses(w) ==
  /\ At(w, "close") /\ Live(w)
  /\ IF Mine(w).fd > 0
     THEN /\ fdTable' = [fdTable EXCEPT ![Mine(w).fd] = NoFile]
          /\ flock' = Released(Mine(w).fd)
     ELSE UNCHANGED <<fdTable, flock>>
  /\ Goto(w, "open")
  /\ UNCHANGED <<initVars, timer, table, node, freed, fileVars, foreign, job, over>>

\* ... then open the file of this second, which is the same file again when the
\* last one was opened in this second too, or when the clock has come back to it.
\* A rotation, which holds the lock, resets the counters, whatever the file's size;
\* get_log_file_node(), which does not, returns the node.
\* (Mutant: the node is cleared with memset() and the new descriptor is lost.)
ResetByMemset(i, fd) == [node EXCEPT ![i].fd = 0, ![i].size = 0, ![i].times = 0]
Reset(i, fd) == [node EXCEPT ![i].fd = fd, ![i].size = 0, ![i].times = 0]

CreateOpens(w) ==
  /\ At(w, "open") /\ Live(w)
  /\ \E fd \in Fds \cup {-1}, d \in Dates :
       /\ Open(fd)
       /\ fdTable' = Opened(FileAt(job[w].name, d), fd)
       /\ opens' = Counted(FileAt(job[w].name, d), fd)
       /\ \/ /\ Mine(w).lock = w
             /\ node' = Reset(job[w].node, fd)
             /\ Goto(w, "write")
          \/ /\ Mine(w).lock # w
             /\ node' = [node EXCEPT ![job[w].node].fd = fd]
             /\ Goto(w, "check")
  /\ UNCHANGED <<initVars, timer, table, freed, flock, disk, foreign, job, over>>

\* write(): fails on a bad descriptor, and on a good one for reasons of its own
Write(w) ==
  /\ At(w, "write") /\ Live(w)
  /\ \/ /\ IsOpen(Mine(w).fd)
        /\ \E len \in 1 .. MaxLen :
             /\ node' = [node EXCEPT ![job[w].node].times = @ + 1, ![job[w].node].size = @ + len]
             /\ disk' = [disk EXCEPT ![fdTable[Mine(w).fd]] = @ + len]
        /\ UNCHANGED job
     \/ job' = [job EXCEPT ![w].lost = TRUE] /\ UNCHANGED <<node, disk>>
  /\ Goto(w, "unlock")
  /\ UNCHANGED <<initVars, timer, table, freed, fdTable, flock, opens, foreign, over>>

\* PROCESS_UNLOCK(), pthread_rwlock_unlock(), return 0.
\* (Mutant: a failed write leaves early, with the lock.)
KeptAfterError(w) == IF job[w].lost THEN w ELSE NoWriter
Unlocked(w) == NoWriter

Unlocks(w) ==
  /\ At(w, "unlock") /\ Live(w)
  /\ node' = [node EXCEPT ![job[w].node].lock = Unlocked(w)]
  /\ flock' = Released(Mine(w).fd)
  /\ Returns(w, 0)
  /\ UNCHANGED <<initVars, timer, table, freed, fdTable, fileVars, foreign, over>>

UsesNode == {"check", "lock", "plock", "close", "open", "write", "unlock"}

\* The node was replaced in the table, and freed, while this writer had it.
UseAfterFree(w) ==
  /\ pc[w] \in UsesNode /\ ~ over /\ ~ Live(w)
  /\ over' = TRUE
  /\ UNCHANGED <<initVars, timer, nodeVars, foreign, pc, job>>

\* Another process that shares a log file (a child: the name has the pid) locks
\* it, and unlocks it.
ForeignLocks(f) ==
  /\ f \notin foreign /\ f \notin flock /\ opens[f] > 0
  /\ infos # {} /\ InfoOf(TheConf, f.log).plock
  /\ foreign' = foreign \cup {f}
  /\ UNCHANGED <<initVars, timer, nodeVars, pc, job, over>>

ForeignUnlocks(f) ==
  /\ f \in foreign
  /\ foreign' = foreign \ {f}
  /\ UNCHANGED <<initVars, timer, nodeVars, pc, job, over>>

\* iridium_destroy_log(), at the end of the application's logging.  It frees the
\* configuration and the nodes, without closing their descriptors, and leaves
\* infos and init_flag as they are: a second call frees them again.
Destroy ==
  /\ ~ over /\ infos # {} /\ \A w \in Writers : pc[w] = "idle"
  /\ destroyed' = TRUE
  /\ freed' = freed \cup ({table[n] : n \in Names} \ {0})
  /\ over' = destroyed
  /\ UNCHANGED <<initFlag, initLock, closeFlag, infos, loads, timer, table, node, fdTable,
                 flock, fileVars, foreign, pc, job>>

Step(w) ==
  \/ InitLocks(w) \/ InitWorks(w) \/ InitExits(w) \/ InitPublishes(w)
  \/ Gate(w) \/ BadInfos(w)
  \/ Lookup(w) \/ Insert(w) \/ Check(w)
  \/ Locks(w) \/ ProcLocks(w) \/ CreateCloses(w) \/ CreateOpens(w)
  \/ Write(w) \/ Unlocks(w) \/ UseAfterFree(w)

Next ==
  \/ \E w \in Writers : Step(w) \/ CallInit(w) \/ \E n \in Names, l \in Levels : Call(w, n, l)
  \/ TimerExpires \/ Destroy
  \/ \E f \in File : ForeignLocks(f) \/ ForeignUnlocks(f)

Spec == Init /\ [][Next]_vars

\* Threads run; a lock, also one of fcntl() with F_SETLKW, is granted to a thread
\* that waits for it again and again; other processes release the files they lock.
Fairness ==
  /\ \A w \in Writers : SF_vars(Step(w))
  /\ \A f \in File : WF_vars(ForeignUnlocks(f))

FairSpec == Spec /\ Fairness

-----------------------------------------------------------------------------
(* Properties *)

\* The types of the library's globals, of its nodes and of the calls under way.
TypeOK ==
  /\ initFlag \in BOOLEAN /\ initLock \in Writers \cup {NoWriter} /\ closeFlag \in BOOLEAN
  /\ infos \in SUBSET Confs
  /\ timer \in {"off", "running", "expired"}
  /\ table \in [Names -> NodeIds \cup {0}] /\ freed \subseteq NodeIds
  /\ node \in [NodeIds -> [fd : Fds \cup {-1}, times : Nat, size : Nat,
                           lock : Writers \cup {NoWriter}]]
  /\ fdTable \in [Fds -> File \cup {NoFile}] /\ flock \subseteq File /\ foreign \subseteq File
  /\ disk \in [File -> Nat] /\ opens \in [File -> Nat]
  /\ pc \in [Writers -> UsesNode \cup {"idle", "init", "initing", "publish", "gate",
                                        "lookup", "insert"}]
  /\ job \in [Writers -> [name : Names \cup {NoName}, level : Levels, node : NodeIds \cup {0},
                          ret : {0, -1}, lost : BOOLEAN, calls : 0 .. MaxCalls]]
  /\ loads \in Nat /\ destroyed \in BOOLEAN /\ over \in BOOLEAN

\* However many threads make their first call at once, the configuration is
\* read once: infos is assigned once and never replaced under a reader.
InitOnce == loads <= 1

\* The writer that is about to write holds the node's lock, and the node's
\* descriptor is open on a file of its own log: nobody closed it, or let the
\* kernel give its number to another log, in the meantime.
WriterKeepsDescriptor ==
  \A w \in Writers :
    At(w, "write") /\ Live(w) => /\ Mine(w).lock = w
                                 /\ IsOpen(Mine(w).fd)
                                 /\ fdTable[Mine(w).fd].log = job[w].name

\* What a file may grow by each time it is opened: to single_max_size and by the
\* line that takes it there, or by its first WRITE_TIMES + 1 lines.
Growth(n) ==
  LET first == (WriteTimes + 1) * MaxLen
      later == InfoOf(TheConf, n).max + MaxLen
  IN IF first > later THEN first ELSE later

\* However many threads write and rotate, a file keeps within this bound if it was
\* opened once.  It was opened more often when its log was rotated, or its node made
\* twice, within one second: then it grows by as much again each time, since the new
\* opening counts from 0 (iridiumlog.c:206-225).  (It needs open() to succeed: once
\* it fails, the unlocked reopening in get_log_file_node() can hide the descriptor
\* from fstat() and not from write().)
RotationBounds == infos # {} => \A f \in File : disk[f] <= opens[f] * Growth(f.log)

\* Every call returns: no lock is left behind on a path that fails, and nobody
\* waits for a thread that waits for him.
EveryCallReturns ==
  \A w \in Writers : pc[w] # "idle" ~> pc[w] = "idle" \/ over

\* iridiumlog.c:142-144: when init_flag has changed, "the work of
\* initialisation is complete", so that a thread which reads it without the lock
\* finds the configuration, or the log closed.  (It needs mkdir() to succeed:
\* when that fails, init_flag is set and infos stays NULL.)
InitComplete == initFlag => closeFlag \/ infos # {}

\* iridiumlog.c:276 and 467: a node is created only "if not existed", and
\* adding one has a thread lock; so a thread's node stays the table's.
HeldNodesLive == \A w \in Writers : pc[w] \in UsesNode => Live(w)
=============================================================================
