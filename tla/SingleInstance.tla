---------------------------- MODULE SingleInstance ----------------------------
(***************************************************************************)
(* utils/single_instance and utils/daemon: programs that take the write    *)
(* lock of their pid file with fcntl(), and turn themselves into daemons.  *)
(* The kernel's part is external: an fcntl() lock belongs to a process, is *)
(* not inherited by fork(), and is gone as soon as its process closes any  *)
(* descriptor of the file, or ends.                                        *)
(***************************************************************************)
EXTENDS Integers

CONSTANTS
  Pids,       \* process numbers; each is used once
  NoPid,
  MaxStarts   \* bound on how often the program is started

ASSUME SingleInstanceAssumption == Pids \subseteq Nat /\ NoPid \notin Pids /\ MaxStarts \in Nat

VARIABLES
  proc,    \* per process, where it is in main()
  order,   \* which of the two calls main() makes first
  holds,   \* descriptors of the pid file: the processes that have one open
  owner,   \* the process with the write lock
  content, \* the process number on the first line of the pid file, NoPid when it is empty
  starts,  \* history: how often the program was started
  unwritten \* history: the processes whose write() to the pid file failed

siVars == <<proc, order, holds, owner, content, starts, unwritten>>

\* A process inside already_running() or daemonize(), ready, or at its end.
Places == {"unused", "open", "lock", "truncate", "writepid", "fork", "parent", "setsid",
           "parent2", "closing", "ready", "ended"}

SingleInstanceInit ==
  /\ proc = [p \in Pids |-> "unused"]
  /\ order = "none"
  /\ holds = {} /\ owner = NoPid /\ content = NoPid
  /\ starts = 0 /\ unwritten = {}

\* The first place of each call, and where main() goes when it returns.
FirstCall == IF order = "lock_first" THEN "open" ELSE "fork"
AfterLock == IF order = "lock_first" THEN "fork" ELSE "ready"
AfterDaemonize == IF order = "lock_first" THEN "ready" ELSE "open"

\* The program is linked with one order of the calls; every start uses it.
Build ==
  /\ order = "none" /\ order' \in {"lock_first", "daemon_first"}
  /\ UNCHANGED <<proc, holds, owner, content, starts, unwritten>>

\* The kernel gives out process numbers in ascending order.
Free(p) == proc[p] = "unused" /\ \A q \in Pids : q < p => proc[q] # "unused"

Start(p) ==
  /\ order # "none" /\ Free(p) /\ starts < MaxStarts
  /\ proc' = [proc EXCEPT ![p] = FirstCall]
  /\ starts' = starts + 1
  /\ UNCHANGED <<order, holds, owner, content, unwritten>>

\* exit(), a return from main() or a signal: the kernel closes everything, and
\* the lock goes.
Released(p) == IF owner = p THEN NoPid ELSE owner

Ends(p) ==
  /\ proc' = [proc EXCEPT ![p] = "ended"]
  /\ holds' = holds \ {p}
  /\ owner' = Released(p)
  /\ UNCHANGED <<order, content, starts, unwritten>>

(* already_running() and already_running_with_name() *)

\* open(LOCKFILE, O_RDWR|O_CREAT), which leaves the content alone; exit(1) when
\* it fails.
OpenLockFile(p) ==
  /\ proc[p] = "open"
  /\ \/ /\ proc' = [proc EXCEPT ![p] = "lock"]
        /\ holds' = holds \cup {p}
        /\ UNCHANGED <<order, owner, content, starts, unwritten>>
     \/ Ends(p)

\* fcntl() with F_SETLK: whether the lock is granted.
\* (Mutant: a read lock, which never conflicts with another one.)
GrantedShared(p) == TRUE
Granted(p) == owner \in {NoPid, p}

\* lock_reg(fd, F_SETLK, F_WRLCK, 0, SEEK_SET, 0); exit(1) when another has it.
LockReg(p) ==
  /\ proc[p] = "lock"
  /\ \/ /\ Granted(p)
        /\ owner' = p
        /\ proc' = [proc EXCEPT ![p] = "truncate"]
        /\ UNCHANGED <<order, holds, content, starts, unwritten>>
     \/ ~ Granted(p) /\ Ends(p)

\* ftruncate(fd, 0), whose failure is not looked at.
Truncate(p) ==
  /\ proc[p] = "truncate"
  /\ content' \in {NoPid, content}
  /\ proc' = [proc EXCEPT ![p] = "writepid"]
  /\ UNCHANGED <<order, holds, owner, starts, unwritten>>

\* write() of getpid() and a newline over what is there; nor is its failure looked at.
WritePid(p) ==
  /\ proc[p] = "writepid"
  /\ \/ content' = p /\ UNCHANGED unwritten
     \/ unwritten' = unwritten \cup {p} /\ UNCHANGED content
  /\ proc' = [proc EXCEPT ![p] = AfterLock]
  /\ UNCHANGED <<order, holds, owner, starts>>

(* daemonize() *)

\* fork() of p: the child has p's descriptors and none of its locks, and goes
\* on at place; the parent is about to exit(0).  When fork() fails, daemonize()
\* returns to a caller it tells nothing.
Fork(p, place) ==
  \/ \E q \in Pids :
       /\ Free(q)
       /\ proc' = [proc EXCEPT ![p] = "parent", ![q] = place]
       /\ holds' = IF p \in holds THEN holds \cup {q} ELSE holds
       /\ UNCHANGED <<order, owner, content, starts, unwritten>>
  \/ /\ proc' = [proc EXCEPT ![p] = AfterDaemonize]
     /\ UNCHANGED <<order, holds, owner, content, starts, unwritten>>

FirstFork(p) == proc[p] = "fork" /\ Fork(p, "setsid")
ParentExits(p) == proc[p] = "parent" /\ Ends(p)

\* setsid(), SIGHUP ignored, and the second fork().
SecondFork(p) == proc[p] = "setsid" /\ Fork(p, "closing")

\* close() of every descriptor below the limit, then /dev/null three times, and
\* exit(1) when that does not give 0, 1 and 2.  Closing the pid file gives up a
\* lock this process has on it.
CloseAll(p) ==
  /\ proc[p] = "closing"
  /\ \/ /\ holds' = holds \ {p}
        /\ owner' = Released(p)
        /\ proc' = [proc EXCEPT ![p] = AfterDaemonize]
        /\ UNCHANGED <<order, content, starts, unwritten>>
     \/ Ends(p)

\* Any process can be killed, and a ready one return from main().
Dies(p) == proc[p] \notin {"unused", "ended"} /\ Ends(p)

SingleInstanceNext ==
  \/ Build
  \/ \E p \in Pids : \/ Start(p) \/ OpenLockFile(p) \/ LockReg(p) \/ Truncate(p) \/ WritePid(p)
                     \/ FirstFork(p) \/ ParentExits(p) \/ SecondFork(p) \/ CloseAll(p) \/ Dies(p)

SingleInstanceSpec == SingleInstanceInit /\ [][SingleInstanceNext]_siVars

-----------------------------------------------------------------------------
\* The types; and only a process that has the pid file open has its lock.
SingleInstanceTypeOK ==
  /\ proc \in [Pids -> Places] /\ order \in {"none", "lock_first", "daemon_first"}
  /\ holds \subseteq Pids /\ content \in Pids \cup {NoPid}
  /\ owner \in holds \cup {NoPid}
  /\ starts \in 0 .. MaxStarts /\ unwritten \subseteq Pids

\* single_instance.c:26, a second run exits at once: in a program that becomes a
\* daemon first, at most one process is ready, and the pid file has its number
\* until it ends, although every start opens the same file and the losers of
\* the lock hold it open for a while.  Two cases are out of it: a program that takes
\* the lock first loses it with the parent of the first fork(), and when write() fails
\* the process runs all the same, with the file empty or with an old number.
OneInstance ==
  order = "daemon_first" => \A p \in Pids : proc[p] = "ready" =>
    (content = p \/ p \in unwritten) /\ \A q \in Pids : proc[q] = "ready" => p = q

\* Two starts at any moment: the lock stays with a process that has the file open,
\* and one process at most passes already_running().
SingleInstanceInv == SingleInstanceTypeOK /\ OneInstance
=============================================================================
